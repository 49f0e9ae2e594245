------------------------------ MODULE TimeServer ------------------------------
(***************************************************************************)
(* The time server (TimeServerNVTMR/src/time_server.c).  Two of its threads *)
(* share the list of active timers: the RPC thread, which runs the         *)
(* clients' calls one at a time, and the interrupt thread.  Both take the  *)
(* mutex time_server, so a call is one step, taken while the interrupt     *)
(* thread does not hold the mutex; the interrupt thread is cut where a     *)
(* client (which is notified inside the critical section) or the hardware  *)
(* timer (which does not stop) can come between.                           *)
(*                                                                         *)
(* A call with a timer number out of range returns -1 and changes nothing; *)
(* it is a stuttering step.  Times are counted in small units, far from    *)
(* the 2^64 where the code's clock and deadlines would wrap.               *)
(***************************************************************************)
EXTENDS Integers, FiniteSets

CONSTANTS Client,            \* clients of the server
          timers_per_client, \* the attribute of that name
          TIMER_PERIOD,      \* time between two ticks
          Delays,            \* delays and periods clients ask for
          Times,             \* absolute deadlines clients ask for
          MaxTime,           \* bound on the hardware's time
          NULL

Tid == 0 .. timers_per_client - 1
Timer == Client \X Tid

(* The code takes a period of 0 and then serves the timer for ever with    *)
(* the mutex held (line 134); the model is of clients that never ask that. *)
ASSUME TimeServerAssumption ==
  /\ IsFiniteSet(Client)
  /\ timers_per_client \in Nat \ {0}
  /\ TIMER_PERIOD \in Nat \ {0}
  /\ Delays \subseteq Nat \ {0}
  /\ Times \subseteq Nat
  /\ MaxTime \in Nat
  /\ NULL \notin Timer

VARIABLES
  list,             \* timer_head, and prev and next of every timer
  timer_type,
  periodic_ns,
  timeout_time,
  the_current_time,
  completed,        \* client_state[c].completed, a set of bits
  irq,              \* where the interrupt thread is
  notified,         \* clients with a notification pending
  woken,            \* clients whose callback is about to ask completed()
  hw_time,          \* time of the hardware timer at its last tick
  hw_intr,          \* its interrupt is asserted
  hw_due            \* history variable, not in the code: the hw_time for
                    \*   which the client has asked

timerVars == <<list, timer_type, periodic_ns, timeout_time, hw_due>>
clientVars == <<notified, woken>>
hwVars == <<hw_time, hw_intr>>
vars == <<timerVars, the_current_time, completed, irq, clientVars, hwVars>>

Active == {t \in Timer : timer_type[t] # "OFF"}

(* The interrupt thread is the only one that holds the mutex between steps. *)
Unlocked == irq = "idle"
-----------------------------------------------------------------------------
(* The list.                                                               *)

(* Position n of list l, counted from the head.                            *)
Node(l) ==
  LET node[n \in Nat] ==
        IF n = 0 THEN l.head
        ELSE IF node[n-1] = NULL THEN NULL ELSE l.next[node[n-1]]
  IN  node

(* A write to a neighbour's pointer, skipped when there is no neighbour.   *)
Linked(f, n, p) == IF n = NULL THEN f ELSE [f EXCEPT ![n] = p]

(* remove_timer leaves the pointers of t itself as they were.  An operator *)
(* with a suffix is the one it is named after with a bug put in: it stands *)
(* before it and no behaviour of the model uses it.                        *)
remove_timer_NextOnly(l, t) ==
  [l EXCEPT !.head = IF l.prev[t] = NULL THEN l.next[t] ELSE @,
            !.next = Linked(@, l.prev[t], l.next[t])]

remove_timer(l, t) ==
  [head |-> IF l.prev[t] = NULL THEN l.next[t] ELSE l.head,
   next |-> Linked(l.next, l.prev[t], l.next[t]),
   prev |-> Linked(l.prev, l.next[t], l.prev[t])]

(* t goes before the first node whose deadline is not earlier.  time is    *)
(* timeout_time with the new deadline of t.                                *)
Position(l, time, t) ==
  CHOOSE n \in 0 .. Cardinality(Timer) :
    /\ Node(l)[n] = NULL \/ time[Node(l)[n]] >= time[t]
    /\ \A m \in 0 .. n - 1 : Node(l)[m] # NULL /\ time[Node(l)[m]] < time[t]

insert_timer(l, time, t) ==
  LET n == Position(l, time, t)
      current == IF n = 0 THEN NULL ELSE Node(l)[n-1]
      after == Node(l)[n]
  IN  [head |-> IF current = NULL THEN t ELSE l.head,
       prev |-> Linked([l.prev EXCEPT ![t] = current], after, t),
       next |-> Linked([l.next EXCEPT ![t] = after], current, t)]
-----------------------------------------------------------------------------
(* post_init, for a timer device it knows.                                 *)
Init ==
  /\ list = [head |-> NULL,
             prev |-> [t \in Timer |-> NULL],
             next |-> [t \in Timer |-> NULL]]
  /\ timer_type = [t \in Timer |-> "OFF"]
  /\ periodic_ns = [t \in Timer |-> 0]
  /\ timeout_time = [t \in Timer |-> 0]
  /\ the_current_time = 0
  /\ completed = [c \in Client |-> {}]
  /\ irq = "idle"
  /\ notified = {} /\ woken = {}
  /\ hw_time = 0 /\ hw_intr = FALSE
  /\ hw_due = [t \in Timer |-> 0]

(* What _oneshot_relative, _oneshot_absolute and _periodic have in common: *)
(* a timer that is active is taken out before it is set again.             *)
SetTimer(t, type, deadline, due) ==
  /\ Unlocked
  /\ timer_type' = [timer_type EXCEPT ![t] = type]
  /\ timeout_time' = [timeout_time EXCEPT ![t] = deadline]
  /\ list' = insert_timer(IF t \in Active THEN remove_timer(list, t) ELSE list,
                          timeout_time', t)
  /\ hw_due' = [hw_due EXCEPT ![t] = due]
  /\ UNCHANGED <<the_current_time, completed, irq, clientVars, hwVars>>

oneshot_relative(t, ns) ==
  /\ SetTimer(t, "RELATIVE", the_current_time + ns, hw_time + ns)
  /\ UNCHANGED periodic_ns

oneshot_absolute(t, ns) ==
  /\ SetTimer(t, "ABSOLUTE", ns, ns)
  /\ UNCHANGED periodic_ns

periodic(t, ns) ==
  /\ SetTimer(t, "PERIODIC", the_current_time + ns, hw_time + ns)
  /\ periodic_ns' = [periodic_ns EXCEPT ![t] = ns]

stop(t) ==
  /\ Unlocked
  /\ t \in Active
  /\ list' = remove_timer(list, t)
  /\ timer_type' = [timer_type EXCEPT ![t] = "OFF"]
  /\ hw_due' = [hw_due EXCEPT ![t] = 0]
  /\ UNCHANGED <<periodic_ns, timeout_time, the_current_time, completed, irq,
                 clientVars, hwVars>>

(* The client's side, which is not in the repository: TimeClient only      *)
(* prints the time when it is notified.  The model's client is one that    *)
(* uses completed(): the notification wakes its callback, which asks which *)
(* timers completed.                                                       *)
ClientCallback(c) ==
  /\ c \in notified
  /\ notified' = notified \ {c}
  /\ woken' = woken \cup {c}
  /\ UNCHANGED <<timerVars, the_current_time, completed, irq, hwVars>>

_completed_NoLock(c) ==
  /\ c \in woken
  /\ completed' = [completed EXCEPT ![c] = {}]
  /\ woken' = woken \ {c}
  /\ UNCHANGED <<timerVars, the_current_time, irq, notified, hwVars>>

_completed(c) ==
  /\ Unlocked
  /\ c \in woken
  /\ completed' = [completed EXCEPT ![c] = {}]
  /\ woken' = woken \ {c}
  /\ UNCHANGED <<timerVars, the_current_time, irq, notified, hwVars>>
-----------------------------------------------------------------------------
(* The interrupt thread.                                                   *)

(* The kernel masks the interrupt until irq_acknowledge, which comes       *)
(* before this thread waits for the next one: one interrupt at a time.     *)
IrqStart ==
  /\ irq = "idle"
  /\ hw_intr
  /\ the_current_time' = the_current_time + TIMER_PERIOD
  /\ irq' = "signal"
  /\ UNCHANGED <<timerVars, completed, clientVars, hwVars>>

(* The test of the loop in signal_clients.                                 *)
HeadDue_Strict ==
  list.head # NULL /\ timeout_time[list.head] < the_current_time

HeadDue ==
  list.head # NULL /\ timeout_time[list.head] <= the_current_time

(* signal_client: the notification goes out first, and the client may run  *)
(* before the bit is set.                                                  *)
SignalEmit ==
  /\ irq = "signal"
  /\ HeadDue
  /\ notified' = notified \cup {list.head[1]}
  /\ irq' = "emitted"
  /\ UNCHANGED <<timerVars, the_current_time, completed, woken, hwVars>>

CompleteBit_Swapped(t) == [completed EXCEPT ![t[1]] = @ \cup {t[1]}]

CompleteBit(t) == [completed EXCEPT ![t[1]] = @ \cup {t[2]}]

SignalPeriodic_Same(t) ==
  /\ timer_type[t] = "PERIODIC"
  /\ list' = insert_timer(remove_timer(list, t), timeout_time, t)
  /\ UNCHANGED <<timer_type, timeout_time, hw_due>>

SignalPeriodic(t) ==
  /\ timer_type[t] = "PERIODIC"
  /\ timeout_time' = [timeout_time EXCEPT ![t] = @ + periodic_ns[t]]
  /\ list' = insert_timer(remove_timer(list, t), timeout_time', t)
  /\ hw_due' = [hw_due EXCEPT ![t] = @ + periodic_ns[t]]
  /\ UNCHANGED timer_type

SignalOneshot(t) ==
  /\ timer_type[t] \in {"ABSOLUTE", "RELATIVE"}
  /\ list' = remove_timer(list, t)
  /\ timer_type' = [timer_type EXCEPT ![t] = "OFF"]
  /\ hw_due' = [hw_due EXCEPT ![t] = 0]
  /\ UNCHANGED timeout_time

SignalClient ==
  /\ irq = "emitted"
  /\ completed' = CompleteBit(list.head)
  /\ SignalPeriodic(list.head) \/ SignalOneshot(list.head)
  /\ irq' = "signal"
  /\ UNCHANGED <<periodic_ns, the_current_time, clientVars, hwVars>>

SignalDone ==
  /\ irq = "signal"
  /\ ~HeadDue
  /\ irq' = "clear"
  /\ UNCHANGED <<timerVars, the_current_time, completed, clientVars, hwVars>>

(* timer_handle_irq clears the interrupt of the hardware timer: a tick     *)
(* that came since irq_handle started is cleared with it.                  *)
IrqClear_Forgotten ==
  /\ irq = "clear"
  /\ irq' = "unlock"
  /\ UNCHANGED <<timerVars, the_current_time, completed, clientVars, hwVars>>

IrqClear ==
  /\ irq = "clear"
  /\ hw_intr' = FALSE
  /\ irq' = "unlock"
  /\ UNCHANGED <<timerVars, the_current_time, completed, clientVars, hw_time>>

IrqUnlock ==
  /\ irq = "unlock"
  /\ irq' = "idle"
  /\ UNCHANGED <<timerVars, the_current_time, completed, clientVars, hwVars>>

(* The hardware timer, periodic with TIMER_PERIOD since post_init.         *)
HwTick ==
  /\ hw_time + TIMER_PERIOD <= MaxTime
  /\ hw_time' = hw_time + TIMER_PERIOD
  /\ hw_intr' = TRUE
  /\ UNCHANGED <<timerVars, the_current_time, completed, irq, clientVars>>
-----------------------------------------------------------------------------
IrqStep ==
  IrqStart \/ SignalEmit \/ SignalClient \/ SignalDone \/ IrqClear \/ IrqUnlock

Next ==
  \/ \E t \in Timer, ns \in Delays : oneshot_relative(t, ns) \/ periodic(t, ns)
  \/ \E t \in Timer, ns \in Times : oneshot_absolute(t, ns)
  \/ \E t \in Timer : stop(t)
  \/ \E c \in Client : ClientCallback(c) \/ _completed(c)
  \/ IrqStep
  \/ HwTick

Spec == Init /\ [][Next]_vars

(* The interrupt thread is never starved: the mutex is free between the    *)
(* clients' calls, and the calls are finite.  The hardware ticks until the *)
(* bound.  Nothing is assumed of the clients.                              *)
FairSpec == Spec /\ WF_vars(IrqStep) /\ WF_vars(HwTick)
-----------------------------------------------------------------------------
(* Type invariant of the server, its clients and the hardware timer.       *)
TypeOK ==
  /\ list.head \in Timer \cup {NULL}
  /\ list.prev \in [Timer -> Timer \cup {NULL}]
  /\ list.next \in [Timer -> Timer \cup {NULL}]
  /\ timer_type \in [Timer -> {"OFF", "PERIODIC", "ABSOLUTE", "RELATIVE"}]
  /\ periodic_ns \in [Timer -> Nat]
  /\ timeout_time \in [Timer -> Nat]
  /\ the_current_time \in Nat
  /\ completed \in [Client -> SUBSET Tid]
  /\ irq \in {"idle", "signal", "emitted", "clear", "unlock"}
  /\ notified \subseteq Client /\ woken \subseteq Client
  /\ hw_time \in 0 .. MaxTime /\ hw_intr \in BOOLEAN
  /\ hw_due \in [Timer -> Nat]

(* However the clients' calls and the tick take timers out and put them    *)
(* back, the list holds the active timers, each once, by deadline, and     *)
(* prev is the inverse of next.  The assertions of remove_timer (a timer   *)
(* without prev is the head) and of signal_client (the head is not OFF)    *)
(* follow.                                                                 *)
ListWellFormed ==
  LET node == Node(list)
      count == Cardinality(Active)
  IN  /\ {node[n] : n \in 0 .. count - 1} = Active
      /\ node[count] = NULL
      /\ \A n \in 0 .. count - 1 :
           /\ list.prev[node[n]] = IF n = 0 THEN NULL ELSE node[n-1]
           /\ n > 0 => timeout_time[node[n-1]] <= timeout_time[node[n]]

(* No completed bit is left behind: whoever finds a bit set finds also the *)
(* notification pending or the client about to ask, although signal_client *)
(* notifies before it sets the bit and completed() clears all bits.        *)
NoLostCompletion ==
  \A c \in Client : completed[c] # {} => c \in notified \cup woken

(* Counted in ticks of the hardware timer, no timer completes more than    *)
(* one tick before the delay its client asked for is over (for a periodic  *)
(* timer: the whole number of periods), however many ticks are lost while  *)
(* others are served: irq_handle counts an interrupt once and clears it    *)
(* before it lets the next one in.  One tick early it can be: a delay      *)
(* counts from the last tick that was served, and one may be pending.  A   *)
(* call in the middle of a tick can add the rest of that tick to this:     *)
(* hw_time is the time of the last tick.                                   *)
AtMostATickEarly ==
  irq = "emitted" => hw_time + TIMER_PERIOD >= hw_due[list.head]

(* A timer that is due is completed by the next tick, or its client stops  *)
(* or sets it again first: signal_clients ends although periodic timers go *)
(* back into the list it empties, and the mutex is released.               *)
Due(t) == t \in Active /\ timeout_time[t] <= the_current_time

DueTimersServed ==
  \A t \in Timer : Due(t) /\ hw_time + TIMER_PERIOD <= MaxTime ~> ~Due(t)

(* Why the loop of signal_clients (lines 134-138) ends although it puts    *)
(* periodic timers back into the list that it empties: while a tick is     *)
(* served nothing makes a timer more overdue than it is, neither the loop  *)
(* nor a client, and each round makes one less overdue.                    *)
Overdue(t) == IF Due(t) THEN the_current_time - timeout_time[t] + 1 ELSE 0

ServeProgress ==
  irq \in {"signal", "emitted"} =>
    /\ \A t \in Timer : Overdue(t)' <= Overdue(t)
    /\ irq = "emitted" /\ irq' = "signal"
         => \E t \in Timer : Overdue(t)' < Overdue(t)

ServingEnds == [][ServeProgress]_vars

(* The list, the mutex and the two threads implement a set of deadlines    *)
(* served by atomic ticks.                                                 *)
Service == INSTANCE TimerService WITH
  now <- the_current_time,
  armed <- [t \in Active |->
              [due |-> timeout_time[t],
               period |-> IF timer_type[t] = "PERIODIC" THEN periodic_ns[t]
                                                        ELSE 0]],
  serving <- irq \in {"signal", "emitted"}

ImplementsTimerService == Service!Spec
=============================================================================
