--------------------------- MODULE SpiInstruction ---------------------------
(***************************************************************************)
(* What the CAN component may rely on when it sends an SPI instruction     *)
(* (components/can/src/spi_cmd.c): between the call and the return the     *)
(* controller executes the instruction at most once, at one moment, and    *)
(* what a read fetches is the controller's reply at that moment.  Only     *)
(* when the transfer has failed may it be anything.                        *)
(***************************************************************************)
CONSTANTS Threads,        \* threads of the CAN component
          Instructions,   \* what they may send: records with a field val,
                          \*   the value written or NoByte for a read
          Values,         \* contents of the controller's registers
          Junk,           \* a byte that is no reply
          NoByte,         \* nothing fetched yet
          NoInstruction

VARIABLES phase,   \* "idle", "called", "executed" or "failed", by thread
          instr,   \* the instruction each thread is at
          got,     \* what its read has to fetch
          reg      \* the controller's registers

vars == <<phase, instr, got, reg>>

IsRead(i) == i.val = NoByte

Effect(i, v) == IF IsRead(i) THEN v ELSE i.val

Reply(i, v) == IF IsRead(i) THEN v ELSE NoByte

Init ==
  /\ phase = [t \in Threads |-> "idle"]
  /\ instr = [t \in Threads |-> NoInstruction]
  /\ got = [t \in Threads |-> NoByte]
  /\ reg \in Values

Call(t) ==
  /\ phase[t] = "idle"
  /\ \E i \in Instructions : instr' = [instr EXCEPT ![t] = i]
  /\ phase' = [phase EXCEPT ![t] = "called"]
  /\ UNCHANGED <<got, reg>>

Execute(t) ==
  /\ phase[t] = "called"
  /\ phase' = [phase EXCEPT ![t] = "executed"]
  /\ got' = [got EXCEPT ![t] = Reply(instr[t], reg)]
  /\ reg' = Effect(instr[t], reg)
  /\ UNCHANGED instr

Fail(t) ==
  /\ phase[t] \in {"called", "executed"}
  /\ phase' = [phase EXCEPT ![t] = "failed"]
  /\ \E b \in Values \cup {Junk} :
       got' = [got EXCEPT ![t] = Reply(instr[t], b)]
  /\ UNCHANGED <<instr, reg>>

Return(t) ==
  /\ phase[t] \in {"executed", "failed"}
  /\ phase' = [phase EXCEPT ![t] = "idle"]
  /\ instr' = [instr EXCEPT ![t] = NoInstruction]
  /\ got' = [got EXCEPT ![t] = NoByte]
  /\ UNCHANGED reg

Next == \E t \in Threads : Call(t) \/ Execute(t) \/ Fail(t) \/ Return(t)

Spec == Init /\ [][Next]_vars
=============================================================================
