---------------------------- MODULE SpiTransfer ----------------------------
(***************************************************************************)
(* One SPI instruction of the CAN component, from spi_cmd.c through the    *)
(* SPI component's spi_transfer (components/spi/src/spi.c) to the wire and *)
(* back.  Actors: the threads of the CAN component, which share the data   *)
(* port and exclude each other with spi_lock; the SPI component's          *)
(* interface thread and its interrupt thread, which share spi_bus under    *)
(* spi_mutex and the semaphore bus_sem; and the bus, which needs one or    *)
(* more interrupts for a transfer.                                         *)
(*                                                                         *)
(* An instruction is a record: its opcode, the number of bytes sent and    *)
(* asked for (the arguments of spi_transfer), the position in rxbuf where  *)
(* the caller fetches the reply, and the value it writes.                  *)
(***************************************************************************)
EXTENDS Naturals

CONSTANTS Threads,      \* "can" interface thread and "Int" thread
          Values,       \* contents of the controller's registers
          Opcodes,      \* the instructions the threads use
          MaxChunks,    \* interrupts a transfer may take
          Failures,     \* what may go wrong: "rejected", "error"
          Junk, NoByte, NoInstruction, None

ASSUME SpiAssumption ==
  /\ NoByte \notin Values \cup {Junk}
  /\ None \notin Threads
  /\ MaxChunks \in Nat \ {0}
  /\ Failures \subseteq {"rejected", "error"}
  /\ 0 \in Values
  /\ Junk \notin Values

Read(op, w, r, at) ==
  [op |-> op, w |-> w, r |-> r, at |-> at, val |-> NoByte]
Write(op, w, v) == [op |-> op, w |-> w, r |-> 0, at |-> 0, val |-> v]

(* The instructions, one for each function of spi_cmd.c.  A block of       *)
(* registers is one datum: count and len are 1.  Reset writes the default. *)
mcp2515_reset == {Write("reset", 1, 0)}
mcp2515_read_reg == {Read("read_reg", 2, 1, 2)}
mcp2515_read_nregs == {Read("read_nregs", 2, 1, 2)}
mcp2515_write_reg == {Write("write_reg", 3, v) : v \in Values}
mcp2515_write_nregs == {Write("write_nregs", 3, v) : v \in Values}
mcp2515_bit_modify == {Write("bit_modify", 4, v) : v \in Values}
mcp2515_read_status == {Read("read_status", 1, 1, 1)}
mcp2515_rx_status == {Read("rx_status", 1, 1, 1)}
mcp2515_rts == {Write("rts", 1, v) : v \in Values}
mcp2515_load_txb == {Write("load_txb", 2, v) : v \in Values}
mcp2515_read_rxb == {Read("read_rxb", 1, 1, 1)}

Instructions ==
  {i \in mcp2515_reset \cup mcp2515_read_reg \cup mcp2515_read_nregs
           \cup mcp2515_write_reg \cup mcp2515_write_nregs
           \cup mcp2515_bit_modify \cup mcp2515_read_status
           \cup mcp2515_rx_status \cup mcp2515_rts \cup mcp2515_load_txb
           \cup mcp2515_read_rxb : i.op \in Opcodes}

RxPos == 0 .. 2

VARIABLES
  (* CAN component *)
  pc,         \* per thread: "idle", "lock", "load", "call", "fetch", "unlock"
  instr,      \* the instruction each thread is at
  ret,        \* what it has fetched from rxbuf
  result,     \* what spi_transfer returned to it: "ok" or "err", not looked at
  spiLock,    \* holder of spi_lock, or None
  (* the data port *)
  txbuf,      \* instruction in the buffer
  rxbuf,      \* received bytes, by position
  (* SPI component *)
  srvPc,      \* interface thread: "idle", "lock", "xfer", "unlock", "wait",
              \*   "reply"
  client,     \* the thread whose call is served, or None
  srvRet,     \* ret of do_spi_transfer: "ok" or "err"
  status,     \* status of do_spi_transfer, written by the callback
  busSem,     \* bus_sem
  spiMutex,   \* "free", "srv" or "irq"
  irqPc,      \* interrupt thread: "wait", "lock", "handle", "unlock", "ack"
  (* the bus and the controller *)
  left,       \* chunks of the transfer still to go over the wire
  bus,        \* "busy" while a transfer is in progress (chip select is low)
  irqLine,    \* "high" while the SPI interrupt is raised
  wire,       \* the reply the controller has shifted out
  reg         \* the controller's registers

canVars == <<pc, instr, ret, result, spiLock>>
portVars == <<txbuf, rxbuf>>
srvVars == <<srvPc, client, srvRet>>
irqVars == <<status, irqPc>>
busVars == <<left, bus, irqLine, wire, reg>>
vars == <<canVars, portVars, srvVars, busSem, spiMutex, irqVars, busVars>>

Bytes == Values \cup {Junk}

TypeOK ==
  /\ pc \in [Threads -> {"idle", "lock", "load", "call", "fetch", "unlock"}]
  /\ instr \in [Threads -> Instructions \cup {NoInstruction}]
  /\ ret \in [Threads -> Bytes \cup {NoByte}]
  /\ result \in [Threads -> {"ok", "err"}]
  /\ spiLock \in Threads \cup {None}
  /\ txbuf \in Instructions \cup {NoInstruction}
  /\ rxbuf \in [RxPos -> Bytes]
  /\ srvPc \in {"idle", "lock", "xfer", "unlock", "wait", "reply"}
  /\ client \in Threads \cup {None}
  /\ srvRet \in {"ok", "err"}
  /\ status \in {"ok", "err"}
  /\ busSem \in {0, 1}
  /\ spiMutex \in {"free", "srv", "irq"}
  /\ irqPc \in {"wait", "lock", "handle", "unlock", "ack"}
  /\ left \in 0 .. MaxChunks
  /\ bus \in {"free", "busy"}
  /\ irqLine \in {"low", "high"}
  /\ wire \in Bytes
  /\ reg \in Values

(* spi__init takes bus_sem, whose initial value is 1, once.                *)
Init ==
  /\ pc = [t \in Threads |-> "idle"]
  /\ instr = [t \in Threads |-> NoInstruction]
  /\ ret = [t \in Threads |-> NoByte]
  /\ result = [t \in Threads |-> "ok"]
  /\ spiLock = None
  /\ txbuf = NoInstruction
  /\ rxbuf = [k \in RxPos |-> Junk]
  /\ srvPc = "idle" /\ client = None /\ srvRet = "ok"
  /\ status = "ok" /\ busSem = 0 /\ spiMutex = "free" /\ irqPc = "wait"
  /\ left = 0 /\ bus = "free" /\ irqLine = "low" /\ wire = Junk
  /\ reg = 0
-----------------------------------------------------------------------------
(* spi_cmd.c.                                                              *)

Call(t) ==
  /\ pc[t] = "idle"
  /\ pc' = [pc EXCEPT ![t] = "lock"]
  /\ \E i \in Instructions : instr' = [instr EXCEPT ![t] = i]
  /\ UNCHANGED <<ret, result, spiLock, portVars, srvVars, busSem, spiMutex,
                 irqVars, busVars>>

Lock_NoWait(t) ==
  /\ pc[t] = "lock"
  /\ spiLock' = t
  /\ pc' = [pc EXCEPT ![t] = "load"]
  /\ UNCHANGED <<instr, ret, result, portVars, srvVars, busSem, spiMutex,
                 irqVars, busVars>>

Lock(t) ==
  /\ pc[t] = "lock"
  /\ spiLock = None
  /\ spiLock' = t
  /\ pc' = [pc EXCEPT ![t] = "load"]
  /\ UNCHANGED <<instr, ret, result, portVars, srvVars, busSem, spiMutex,
                 irqVars, busVars>>

Load(t) ==
  /\ pc[t] = "load"
  /\ txbuf' = instr[t]
  /\ pc' = [pc EXCEPT ![t] = "call"]
  /\ UNCHANGED <<instr, ret, result, spiLock, rxbuf, srvVars, busSem,
                 spiMutex, irqVars, busVars>>

(* The result of spi_transfer is dropped: a failed transfer is fetched     *)
(* like any other.                                                         *)
Fetch(t) ==
  /\ pc[t] = "fetch"
  /\ ret' = [ret EXCEPT ![t] =
               IF instr[t].val = NoByte THEN rxbuf[instr[t].at] ELSE NoByte]
  /\ pc' = [pc EXCEPT ![t] = "unlock"]
  /\ UNCHANGED <<instr, result, spiLock, portVars, srvVars, busSem, spiMutex,
                 irqVars, busVars>>

Unlock(t) ==
  /\ pc[t] = "unlock"
  /\ spiLock' = None
  /\ pc' = [pc EXCEPT ![t] = "idle"]
  /\ instr' = [instr EXCEPT ![t] = NoInstruction]
  /\ ret' = [ret EXCEPT ![t] = NoByte]
  /\ result' = [result EXCEPT ![t] = "ok"]
  /\ UNCHANGED <<portVars, srvVars, busSem, spiMutex, irqVars, busVars>>
-----------------------------------------------------------------------------
(* spi_transfer and do_spi_transfer.  The interface thread serves one call *)
(* at a time.                                                              *)

SrvAccept(t) ==
  /\ srvPc = "idle"
  /\ pc[t] = "call"
  /\ client' = t
  /\ srvPc' = "lock"
  /\ UNCHANGED <<canVars, portVars, srvRet, busSem, spiMutex, irqVars,
                 busVars>>

SrvLock ==
  /\ srvPc = "lock"
  /\ spiMutex = "free"
  /\ spiMutex' = "srv"
  /\ srvPc' = "xfer"
  /\ UNCHANGED <<canVars, portVars, client, srvRet, busSem, irqVars, busVars>>

(* spi_xfer asserts the chip select and starts the first chunk, or returns *)
(* a negative value; it does so when the bus is busy.                      *)
SrvXfer ==
  /\ srvPc = "xfer"
  /\ srvPc' = "unlock"
  /\ \/ /\ bus = "free"
        /\ srvRet' = "ok"
        /\ bus' = "busy"
        /\ left' \in 1 .. MaxChunks
     \/ /\ bus = "busy" \/ "rejected" \in Failures
        /\ srvRet' = "err"
        /\ UNCHANGED <<bus, left>>
  /\ UNCHANGED <<canVars, portVars, client, busSem, spiMutex, irqVars,
                 irqLine, wire, reg>>

SrvUnlock_NoWait ==
  /\ srvPc = "unlock"
  /\ spiMutex' = "free"
  /\ srvPc' = "reply"
  /\ UNCHANGED <<canVars, portVars, client, srvRet, busSem, irqVars, busVars>>

SrvUnlock_WaitAlways ==
  /\ srvPc = "unlock"
  /\ spiMutex' = "free"
  /\ srvPc' = "wait"
  /\ UNCHANGED <<canVars, portVars, client, srvRet, busSem, irqVars, busVars>>

SrvUnlock ==
  /\ srvPc = "unlock"
  /\ spiMutex' = "free"
  /\ srvPc' = IF srvRet = "ok" THEN "wait" ELSE "reply"
  /\ UNCHANGED <<canVars, portVars, client, srvRet, busSem, irqVars, busVars>>

SrvWait ==
  /\ srvPc = "wait"
  /\ busSem > 0
  /\ busSem' = busSem - 1
  /\ srvRet' = status
  /\ srvPc' = "reply"
  /\ UNCHANGED <<canVars, portVars, client, spiMutex, irqVars, busVars>>

(* The locals ret and status are gone.                                     *)
SrvReply ==
  /\ srvPc = "reply"
  /\ srvPc' = "idle"
  /\ client' = None
  /\ pc' = [pc EXCEPT ![client] = "fetch"]
  /\ result' = [result EXCEPT ![client] = srvRet]
  /\ srvRet' = "ok"
  /\ status' = "ok"
  /\ UNCHANGED <<instr, ret, spiLock, portVars, busSem, spiMutex, irqPc,
                 busVars>>
-----------------------------------------------------------------------------
(* spi1_int_handle.                                                        *)

IrqTake ==
  /\ irqPc = "wait"
  /\ irqLine = "high"
  /\ irqPc' = "lock"
  /\ UNCHANGED <<canVars, portVars, srvVars, busSem, spiMutex, status,
                 busVars>>

IrqLock ==
  /\ irqPc = "lock"
  /\ spiMutex = "free"
  /\ spiMutex' = "irq"
  /\ irqPc' = "handle"
  /\ UNCHANGED <<canVars, portVars, srvVars, busSem, status, busVars>>

(* What the transfer leaves in rxbuf: a byte for every byte sent, then the *)
(* reply.                                                                  *)
Received ==
  [k \in RxPos |->
     IF k < txbuf.w THEN Junk
     ELSE IF k < txbuf.w + txbuf.r THEN wire ELSE rxbuf[k]]

spi_complete_callback(s) ==
  /\ status' = s
  /\ busSem' = busSem + 1

IrqHandle_PostAlways ==
  /\ irqPc = "handle"
  /\ irqPc' = "unlock"
  /\ irqLine' = "low"
  /\ wire' = Junk
  /\ spi_complete_callback("ok")
  /\ bus' = IF left > 0 THEN "busy" ELSE "free"
  /\ rxbuf' = IF left = 0 THEN Received ELSE rxbuf
  /\ UNCHANGED <<canVars, txbuf, srvVars, spiMutex, left, reg>>

(* spi_handle_irq takes the received bytes and starts the next chunk, or   *)
(* releases the chip select and calls back.                                *)
IrqHandle ==
  /\ irqPc = "handle"
  /\ irqPc' = "unlock"
  /\ irqLine' = "low"
  /\ wire' = Junk
  /\ \/ /\ left > 0
        /\ UNCHANGED <<bus, left, rxbuf, status, busSem>>
     \/ /\ left = 0
        /\ bus' = "free"
        /\ rxbuf' = Received
        /\ spi_complete_callback("ok")
        /\ UNCHANGED left
     \/ /\ "error" \in Failures
        /\ bus' = "free"
        /\ left' = 0
        /\ spi_complete_callback("err")
        /\ UNCHANGED rxbuf
  /\ UNCHANGED <<canVars, txbuf, srvVars, spiMutex, reg>>

IrqUnlock ==
  /\ irqPc = "unlock"
  /\ spiMutex' = "free"
  /\ irqPc' = "ack"
  /\ UNCHANGED <<canVars, portVars, srvVars, busSem, status, busVars>>

IrqAck ==
  /\ irqPc = "ack"
  /\ irqPc' = "wait"
  /\ UNCHANGED <<canVars, portVars, srvVars, busSem, spiMutex, status,
                 busVars>>
-----------------------------------------------------------------------------
(* A chunk has gone over the wire; with the last one the controller has    *)
(* executed the instruction.                                               *)
Shift ==
  /\ bus = "busy" /\ left > 0 /\ irqLine = "low"
  /\ left' = left - 1
  /\ irqLine' = "high"
  /\ IF left = 1
     THEN /\ wire' = reg
          /\ reg' = IF txbuf.val = NoByte THEN reg ELSE txbuf.val
     ELSE UNCHANGED <<wire, reg>>
  /\ UNCHANGED <<canVars, portVars, srvVars, busSem, spiMutex, irqVars,
                 bus>>

CanStep(t) == Call(t) \/ Lock(t) \/ Load(t) \/ Fetch(t) \/ Unlock(t)
SrvStep ==
  \/ \E t \in Threads : SrvAccept(t)
  \/ SrvLock \/ SrvXfer \/ SrvUnlock \/ SrvWait \/ SrvReply
IrqStep == IrqTake \/ IrqLock \/ IrqHandle \/ IrqUnlock \/ IrqAck

Next ==
  \/ \E t \in Threads : CanStep(t)
  \/ SrvStep
  \/ IrqStep
  \/ Shift

(* Every thread runs and the bus shifts.  The kernel queues the threads    *)
(* that wait for a lock in order, hence strong fairness of taking one.     *)
Fairness ==
  /\ \A t \in Threads : /\ SF_vars(Lock(t))
                        /\ WF_vars(Load(t) \/ Fetch(t) \/ Unlock(t))
  /\ WF_vars(SrvStep) /\ SF_vars(SrvLock)
  /\ WF_vars(IrqStep) /\ SF_vars(IrqLock)
  /\ WF_vars(Shift)

Spec == Init /\ [][Next]_vars /\ Fairness
-----------------------------------------------------------------------------
(* A token of bus_sem, or a transfer that will post one, exists exactly    *)
(* while the interface thread has started a transfer and not yet taken its *)
(* completion: the wait can neither miss the callback nor take the one of  *)
(* another transfer (do_spi_transfer, spi_complete_callback).              *)
CompletionAwaited ==
  busSem + (IF bus = "busy" THEN 1 ELSE 0) =
    IF srvPc \in {"unlock", "wait"} /\ srvRet = "ok" THEN 1 ELSE 0

(* Each instruction of spi_cmd.c is atomic and fetches its own reply,      *)
(* unless its transfer failed.  CanDriver and CanFilter model it as one    *)
(* step.                                                                   *)
Phase(t) ==
  CASE pc[t] = "idle" -> "idle"
    [] pc[t] \in {"lock", "load"} -> "called"
    [] pc[t] = "call" ->
         IF client # t \/ srvPc \in {"lock", "xfer"} THEN "called"
         ELSE IF srvPc = "reply" \/ srvRet = "err"
         THEN IF srvRet = "ok" THEN "executed" ELSE "failed"
         ELSE IF bus = "busy" THEN IF left = 0 THEN "executed" ELSE "called"
         ELSE IF status = "ok" THEN "executed" ELSE "failed"
    [] OTHER -> IF result[t] = "ok" THEN "executed" ELSE "failed"

Got(t) ==
  IF Phase(t) \in {"idle", "called"} \/ instr[t].val # NoByte THEN NoByte
  ELSE IF pc[t] = "unlock" THEN ret[t]
  ELSE IF pc[t] = "call" /\ bus = "busy" THEN wire
  ELSE rxbuf[instr[t].at]

Instruction == INSTANCE SpiInstruction WITH
  phase <- [t \in Threads |-> Phase(t)],
  got <- [t \in Threads |-> Got(t)]

ImplementsSpiInstruction == Instruction!Spec

(* Every instruction returns: no completion is missed, no lock is kept.    *)
InstructionsReturn ==
  \A t \in Threads : pc[t] = "lock" ~> pc[t] = "idle"
=============================================================================
