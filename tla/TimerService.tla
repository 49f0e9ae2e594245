----------------------------- MODULE TimerService -----------------------------
(***************************************************************************)
(* What the time server promises its clients, without the list: armed      *)
(* timers are a set with deadlines.  A tick completes every timer that is  *)
(* due, earliest first, and no client call sees half a tick.               *)
(***************************************************************************)
EXTENDS Naturals

CONSTANTS Client, Tid, TIMER_PERIOD

VARIABLES now,       \* the server's clock
          armed,     \* armed timers: deadline, and period (0 for a one-shot)
          completed, \* timers completed since the client last asked
          serving    \* a tick is being served

serviceVars == <<now, armed, completed, serving>>

Timer == Client \X Tid

Init ==
  /\ now = 0
  /\ armed = <<>>
  /\ completed = [c \in Client |-> {}]
  /\ serving = FALSE

Without(t) == [u \in DOMAIN armed \ {t} |-> armed[u]]

(* A client arms a timer, again if it is armed already.                    *)
Arm(t, due, period) ==
  /\ ~serving
  /\ armed' = [u \in DOMAIN armed \cup {t} |->
                 IF u = t THEN [due |-> due, period |-> period] ELSE armed[u]]
  /\ UNCHANGED <<now, completed, serving>>

Disarm(t) ==
  /\ ~serving
  /\ armed' = Without(t)
  /\ UNCHANGED <<now, completed, serving>>

(* A client asks which of its timers completed.                            *)
Collect(c) ==
  /\ ~serving
  /\ completed' = [completed EXCEPT ![c] = {}]
  /\ UNCHANGED <<now, armed, serving>>

Tick ==
  /\ ~serving
  /\ now' = now + TIMER_PERIOD
  /\ serving' = TRUE
  /\ UNCHANGED <<armed, completed>>

(* The earliest timer completes if it is due; a periodic one is armed      *)
(* again one period after its deadline, not after the tick.                *)
Expire(t) ==
  /\ serving
  /\ t \in DOMAIN armed
  /\ armed[t].due <= now
  /\ \A u \in DOMAIN armed : armed[t].due <= armed[u].due
  /\ completed' = [completed EXCEPT ![t[1]] = @ \cup {t[2]}]
  /\ armed' = IF armed[t].period = 0
              THEN Without(t)
              ELSE [armed EXCEPT ![t].due = @ + armed[t].period]
  /\ UNCHANGED <<now, serving>>

TickServed ==
  /\ serving
  /\ \A t \in DOMAIN armed : armed[t].due > now
  /\ serving' = FALSE
  /\ UNCHANGED <<now, armed, completed>>

(* Deadlines and periods are any numbers: TLC is given only the steps of   *)
(* the server to compare with, never asked to enumerate these.             *)
ArmStep ==
  \E t \in Timer :
    /\ t \in DOMAIN armed'
    /\ Arm(t, armed'[t].due, armed'[t].period)

Next ==
  \/ ArmStep
  \/ \E t \in Timer : Disarm(t) \/ Expire(t)
  \/ \E c \in Client : Collect(c)
  \/ Tick
  \/ TickServed

Spec == Init /\ [][Next]_serviceVars
=============================================================================
