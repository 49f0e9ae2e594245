--------------------------- MODULE TimeServer_proof ---------------------------
(***************************************************************************)
(* For every number of clients and timers, every tick period and all       *)
(* delays: no timer completes more than a tick before the hardware timer   *)
(* has come to its time, no completion is lost, the list holds the active timers by       *)
(* deadline, and the server implements TimerService.                       *)
(*                                                                         *)
(* The list is pointers; the proof speaks of the sequence p of the timers  *)
(* one meets on following them, a function on Nat that is NULL from k on.  *)
(* remove_timer and insert_timer are the removal and the insertion of one  *)
(* element of that sequence, whatever the pointers of idle timers are.     *)
(***************************************************************************)
EXTENDS TimeServer, FiniteSetTheorems, FunctionTheorems, NaturalsInduction,
        WellFoundedInduction, TLAPS

(* The clock and the hardware timer.  An interrupt that is asserted while  *)
(* no tick is being served stands for a period that is not yet counted;    *)
(* IrqClear makes this true before the thread can start on the next one.   *)
ClockInv ==
  /\ the_current_time \in Nat
  /\ hw_time \in Nat
  /\ hw_intr \in BOOLEAN
  /\ the_current_time <= hw_time
  /\ irq \in {"idle", "unlock"} /\ hw_intr
       => the_current_time + TIMER_PERIOD <= hw_time

LEMMA ClockInvInit == Init => ClockInv
<1> SUFFICES ASSUME Init PROVE ClockInv
  OBVIOUS
<1>1. the_current_time = 0 /\ hw_time = 0
  BY DEF Init
<1>2. hw_intr \in BOOLEAN /\ ~hw_intr
  BY Zenon DEF Init
<1>3. QED
  BY <1>1, <1>2 DEF ClockInv

LEMMA ClockInvStep == ClockInv /\ [Next]_vars => ClockInv'
<1> SUFFICES ASSUME ClockInv, [Next]_vars
             PROVE  ClockInv'
  OBVIOUS
<1> USE TimeServerAssumption
<1>1. ASSUME UNCHANGED <<the_current_time, irq, hwVars>>
      PROVE  ClockInv'
  BY <1>1 DEF ClockInv, hwVars
<1>2. CASE UNCHANGED vars
  BY <1>1, <1>2 DEF vars
<1>3. ASSUME NEW t \in Timer, NEW ns \in Delays,
             oneshot_relative(t, ns) \/ periodic(t, ns)
      PROVE  ClockInv'
  BY <1>1, <1>3 DEF oneshot_relative, periodic, SetTimer
<1>4. ASSUME NEW t \in Timer, NEW ns \in Times, oneshot_absolute(t, ns)
      PROVE  ClockInv'
  BY <1>1, <1>4 DEF oneshot_absolute, SetTimer
<1>5. ASSUME NEW t \in Timer, stop(t)
      PROVE  ClockInv'
  BY <1>1, <1>5 DEF stop
<1>6. ASSUME NEW c \in Client, ClientCallback(c) \/ _completed(c)
      PROVE  ClockInv'
  BY <1>1, <1>6 DEF ClientCallback, _completed
<1>7. CASE IrqStart
  BY <1>7 DEF IrqStart, ClockInv, hwVars
<1>8. CASE SignalEmit
  BY <1>8 DEF SignalEmit, ClockInv, hwVars
<1>9. CASE SignalClient
  BY <1>9 DEF SignalClient, ClockInv, hwVars
<1>10. CASE SignalDone
  BY <1>10 DEF SignalDone, ClockInv, hwVars
<1>11. CASE IrqClear
  BY <1>11 DEF IrqClear, ClockInv
<1>12. CASE IrqUnlock
  BY <1>12 DEF IrqUnlock, ClockInv, hwVars
<1>13. CASE HwTick
  BY <1>13 DEF HwTick, ClockInv
<1>14. QED
  BY <1>2, <1>3, <1>4, <1>5, <1>6, <1>7, <1>8, <1>9, <1>10, <1>11, <1>12, <1>13
     DEF Next, IrqStep

-----------------------------------------------------------------------------
(* Completions.  Between the notification and the bit the client may wake  *)
(* up, but it cannot ask before the mutex is released.                     *)
CompletionInv ==
  /\ completed = [c \in Client |-> completed[c]]
  /\ NoLostCompletion
  /\ irq = "emitted" => list.head[1] \in notified \cup woken

LEMMA CompletionInvInit == Init => CompletionInv
BY DEF Init, CompletionInv, NoLostCompletion

LEMMA CompletionInvStep == CompletionInv /\ [Next]_vars => CompletionInv'
<1> SUFFICES ASSUME CompletionInv, [Next]_vars
             PROVE  CompletionInv'
  OBVIOUS
<1> USE DEF CompletionInv, NoLostCompletion
<1>1. CASE UNCHANGED vars
  BY <1>1 DEF vars, timerVars, clientVars
<1>2. ASSUME Unlocked, UNCHANGED <<completed, irq, clientVars>>
      PROVE  CompletionInv'
  BY <1>2 DEF Unlocked, clientVars
<1>3. ASSUME NEW t \in Timer, NEW ns \in Delays,
             oneshot_relative(t, ns) \/ periodic(t, ns)
      PROVE  CompletionInv'
  BY <1>2, <1>3 DEF oneshot_relative, periodic, SetTimer
<1>4. ASSUME NEW t \in Timer, NEW ns \in Times, oneshot_absolute(t, ns)
      PROVE  CompletionInv'
  BY <1>2, <1>4 DEF oneshot_absolute, SetTimer
<1>5. ASSUME NEW t \in Timer, stop(t)
      PROVE  CompletionInv'
  BY <1>2, <1>5 DEF stop
<1>6. ASSUME NEW c \in Client, ClientCallback(c)
      PROVE  CompletionInv'
  BY <1>6 DEF ClientCallback, timerVars
<1>7. ASSUME NEW c \in Client, _completed(c)
      PROVE  CompletionInv'
  BY <1>7 DEF _completed, Unlocked
<1>8. CASE IrqStart
  BY <1>8 DEF IrqStart, clientVars
<1>9. CASE SignalEmit
  BY <1>9 DEF SignalEmit, timerVars
<1>10. CASE SignalClient
  BY <1>10 DEF SignalClient, CompleteBit, clientVars
<1>11. CASE SignalDone
  BY <1>11 DEF SignalDone, clientVars
<1>12. CASE IrqClear
  BY <1>12 DEF IrqClear, clientVars
<1>13. CASE IrqUnlock
  BY <1>13 DEF IrqUnlock, clientVars
<1>14. CASE HwTick
  BY <1>14 DEF HwTick, timerVars, clientVars
<1>15. QED
  BY <1>1, <1>3, <1>4, <1>5, <1>6, <1>7, <1>8, <1>9, <1>10, <1>11, <1>12,
     <1>13, <1>14
     DEF Next, IrqStep

(* signal_client notifies before it sets the bit, and completed() clears   *)
(* all bits at once, yet whoever has a bit set is notified or about to     *)
(* ask: both hold the mutex.                                               *)
THEOREM CompletionsNotLost == Spec => []NoLostCompletion
<1>1. CompletionInv => NoLostCompletion
  BY DEF CompletionInv
<1>2. QED
  BY CompletionInvInit, CompletionInvStep, <1>1, PTL DEF Spec
-----------------------------------------------------------------------------
(* Every non-empty set of naturals has a least member; this takes the      *)
(* place of induction, which the provers cannot instantiate.               *)
LEMMA LeastExists ==
  ASSUME NEW T, T \subseteq Nat, T # {}
  PROVE  \E x \in T : \A y \in T : x <= y
<1> DEFINE R == OpToRel(<, Nat)
<1>1. IsWellFoundedOn(R, Nat)
  BY NatLessThanWellFounded, PTL
<1>2. \A x, y \in Nat : y < x => <<y, x>> \in R
  BY DEF OpToRel
<1> HIDE DEF R
<1>3. PICK x \in T : \A y \in T : ~(<<y, x>> \in R)
  BY <1>1, WFMin
<1>4. \A y \in T : ~(y < x)
  BY <1>2, <1>3
<1>5. QED
  BY <1>4

(* p lists the k timers that are linked in l.                              *)
Lists(p, k, l) ==
  /\ k \in Nat
  /\ p \in [Nat -> Timer \cup {NULL}]
  /\ \A n \in Nat : n < k <=> p[n] \in Timer
  /\ \A m, n \in Nat : m < k /\ p[m] = p[n] => m = n
  /\ l.head = p[0]
  /\ l.next \in [Timer -> Timer \cup {NULL}]
  /\ l.prev \in [Timer -> Timer \cup {NULL}]
  /\ \A n \in Nat : n < k => l.next[p[n]] = p[n+1]
  /\ \A n \in Nat : n < k => l.prev[p[n]] = IF n = 0 THEN NULL ELSE p[n-1]

(* One step of the recursive definition of Node.                           *)
NextNode(l, f) ==
  [n \in Nat |-> IF n = 0 THEN l.head
                ELSE IF f[n-1] = NULL THEN NULL ELSE l.next[f[n-1]]]

(* What a recursive function is by definition.                             *)
LEMMA NodeIsChoose ==
  ASSUME NEW l
  PROVE  Node(l) = CHOOSE f : f = NextNode(l, f)
BY DEF Node, NextNode

(* Following next from the head yields the sequence.                       *)
LEMMA NodeIs ==
  ASSUME NEW p, NEW k, NEW l, Lists(p, k, l)
  PROVE  Node(l) = p
<1>1. p = NextNode(l, p)
  <2>1. p \in [Nat -> Timer \cup {NULL}] /\ k \in Nat
    BY DEF Lists
  <2>2. ASSUME NEW n \in Nat
        PROVE  p[n] = IF n = 0 THEN l.head
                      ELSE IF p[n-1] = NULL THEN NULL ELSE l.next[p[n-1]]
    <3>1. CASE n = 0
      BY <3>1 DEF Lists
    <3>2. CASE n # 0
      <4>1. n - 1 \in Nat /\ (n - 1) + 1 = n
        BY <3>2
      <4>2. CASE n - 1 < k
        <5>1. p[n-1] \in Timer /\ l.next[p[n-1]] = p[(n-1)+1]
          BY <4>1, <4>2 DEF Lists
        <5> QED BY <3>2, <4>1, <5>1, TimeServerAssumption
      <4>3. CASE ~(n - 1 < k)
        <5>1. p[n-1] \notin Timer /\ p[n] \notin Timer
          BY <2>1, <4>1, <4>3 DEF Lists
        <5>2. p[n-1] = NULL /\ p[n] = NULL
          BY <2>1, <4>1, <5>1
        <5> QED BY <3>2, <5>2
      <4> QED BY <4>2, <4>3
    <3> QED BY <3>1, <3>2
  <2> QED BY <2>1, <2>2 DEF NextNode
<1>2. Node(l) = NextNode(l, Node(l))
  BY <1>1, NodeIsChoose
<1>3. ASSUME NEW n \in Nat, Node(l)[n] # p[n]
      PROVE  FALSE
  <2> DEFINE D == {m \in Nat : Node(l)[m] # p[m]}
  <2>1. PICK d \in D : \A m \in D : d <= m
    <3>1. D \subseteq Nat /\ D # {}
      BY <1>3
    <3> HIDE DEF D
    <3> QED BY <3>1, LeastExists
  <2>2. d # 0
    BY <1>1, <1>2, <2>1 DEF NextNode
  <2>3. d - 1 \in Nat /\ d - 1 \notin D
    BY <2>1, <2>2
  <2>4. Node(l)[d-1] = p[d-1]
    BY <2>3
  <2>5. Node(l)[d] = p[d]
    BY <1>1, <1>2, <2>1, <2>2, <2>4 DEF NextNode
  <2> QED BY <2>1, <2>5
<1>4. DOMAIN p = Nat /\ DOMAIN Node(l) = Nat
  BY <1>2 DEF Lists, NextNode
<1> QED
  BY <1>1, <1>2, <1>3, <1>4 DEF NextNode

(* remove_timer: the sequence without position i.                          *)
Cut(p, i) == [n \in Nat |-> IF n < i THEN p[n] ELSE p[n+1]]

LEMMA RemoveLists ==
  ASSUME NEW p, NEW k, NEW l, Lists(p, k, l), NEW i \in Nat, i < k
  PROVE  Lists(Cut(p, i), k - 1, remove_timer(l, p[i]))
<1> DEFINE q == Cut(p, i)
           r == remove_timer(l, p[i])
           t == p[i]
<1>1. /\ k \in Nat /\ t \in Timer /\ k - 1 \in Nat
      /\ \A n \in Nat : p[n] \in Timer \cup {NULL}
      /\ \A n \in Nat : n < k => p[n] # NULL
      /\ \A n \in Nat : ~(n < k) => p[n] = NULL
      /\ NULL \notin Timer
  BY TimeServerAssumption DEF Lists
<1>2. \A n \in Nat : q[n] = IF n < i THEN p[n] ELSE p[n+1]
  BY DEF Cut
<1>3. q \in [Nat -> Timer \cup {NULL}]
  BY <1>1 DEF Cut
<1>4. \A n \in Nat : n < k - 1 <=> q[n] \in Timer
  BY <1>1, <1>2
<1>5. \A m, n \in Nat : m < k - 1 /\ q[m] = q[n] => m = n
  <2> SUFFICES ASSUME NEW m \in Nat, NEW n \in Nat, m < k - 1, q[m] = q[n]
               PROVE  m = n
    OBVIOUS
  <2> DEFINE At(j) == IF j < i THEN j ELSE j + 1
  <2>1. q[m] = p[At(m)] /\ q[n] = p[At(n)] /\ At(m) \in Nat /\ At(n) \in Nat
        /\ At(m) < k
    BY <1>1, <1>2
  <2>2. At(m) = At(n)
    BY <2>1 DEF Lists
  <2> QED BY <2>2
<1>6. /\ l.next[t] = p[i+1]
      /\ l.prev[t] = IF i = 0 THEN NULL ELSE p[i-1]
      /\ i > 0 => i - 1 \in Nat /\ i - 1 < k
  BY DEF Lists
<1>7. r.head = q[0]
  <2>1. CASE i = 0
    BY <1>2, <1>6, <2>1 DEF remove_timer
  <2>2. CASE i # 0
    BY <1>1, <1>2, <1>6, <2>2 DEF remove_timer, Lists
  <2> QED BY <2>1, <2>2
<1>8. /\ r.next = IF i = 0 THEN l.next ELSE [l.next EXCEPT ![p[i-1]] = p[i+1]]
      /\ r.prev = IF p[i+1] = NULL THEN l.prev
                  ELSE [l.prev EXCEPT ![p[i+1]] = IF i = 0 THEN NULL
                                                          ELSE p[i-1]]
  BY <1>1, <1>6 DEF remove_timer, Linked
<1>9. /\ r.next \in [Timer -> Timer \cup {NULL}]
      /\ r.prev \in [Timer -> Timer \cup {NULL}]
  BY <1>1, <1>6, <1>8 DEF Lists
<1>10. \A n \in Nat : n < k - 1 => r.next[q[n]] = q[n+1]
  <2> SUFFICES ASSUME NEW n \in Nat, n < k - 1 PROVE r.next[q[n]] = q[n+1]
    OBVIOUS
  <2>1. CASE n + 1 < i
    <3>1. q[n] = p[n] /\ q[n+1] = p[n+1] /\ l.next[p[n]] = p[n+1]
      BY <1>1, <1>2, <2>1 DEF Lists
    <3>2. p[n] # p[i-1]
      BY <1>1, <1>6, <2>1 DEF Lists
    <3> QED BY <1>8, <3>1, <3>2 DEF Lists
  <2>2. CASE n + 1 = i
    <3>1. q[n] = p[i-1] /\ q[n+1] = p[i+1] /\ p[i-1] \in Timer
      BY <1>1, <1>2, <1>6, <2>2 DEF Lists
    <3> QED BY <1>8, <2>2, <3>1 DEF Lists
  <2>3. CASE n + 1 > i
    <3>1. q[n] = p[n+1] /\ q[n+1] = p[n+2] /\ l.next[p[n+1]] = p[n+2]
      <4>1. n + 1 \in Nat /\ n + 1 < k /\ (n + 1) + 1 = n + 2
        BY <1>1
      <4> QED BY <1>2, <2>3, <4>1 DEF Lists
    <3>2. i > 0 => p[n+1] # p[i-1]
      <4> SUFFICES ASSUME i > 0, p[i-1] = p[n+1] PROVE FALSE
        OBVIOUS
      <4>1. i - 1 = n + 1
        BY <1>6 DEF Lists
      <4> QED BY <2>3, <4>1
    <3> QED BY <1>8, <3>1, <3>2 DEF Lists
  <2> QED BY <1>1, <2>1, <2>2, <2>3
<1>11. \A n \in Nat : n < k - 1
         => r.prev[q[n]] = IF n = 0 THEN NULL ELSE q[n-1]
  <2> SUFFICES ASSUME NEW n \in Nat, n < k - 1
               PROVE  r.prev[q[n]] = IF n = 0 THEN NULL ELSE q[n-1]
    OBVIOUS
  <2>1. CASE n < i
    <3>1. q[n] = p[n] /\ (n # 0 => q[n-1] = p[n-1])
          /\ l.prev[p[n]] = IF n = 0 THEN NULL ELSE p[n-1]
      BY <1>1, <1>2, <2>1 DEF Lists
    <3>2. p[n] # p[i+1]
      BY <1>1, <2>1 DEF Lists
    <3> QED BY <1>8, <3>1, <3>2 DEF Lists
  <2>2. CASE n = i
    <3>1. q[n] = p[i+1] /\ p[i+1] \in Timer /\ (n # 0 => q[n-1] = p[i-1])
      BY <1>1, <1>2, <2>2 DEF Lists
    <3> QED BY <1>1, <1>8, <2>2, <3>1 DEF Lists
  <2>3. CASE n > i
    <3>1. n + 1 \in Nat /\ n + 1 < k /\ (n + 1) - 1 = n
      BY <1>1
    <3>2. q[n] = p[n+1] /\ q[n-1] = p[n] /\ l.prev[p[n+1]] = p[n]
      BY <1>2, <2>3, <3>1 DEF Lists
    <3>3. p[n+1] # p[i+1]
      BY <2>3, <3>1 DEF Lists
    <3> QED BY <1>8, <2>3, <3>2, <3>3 DEF Lists
  <2> QED BY <2>1, <2>2, <2>3
<1> HIDE DEF q, r
<1> QED
  BY <1>1, <1>3, <1>4, <1>5, <1>7, <1>9, <1>10, <1>11 DEF Lists, q, r

(* insert_timer: t becomes number i of the sequence.                       *)
PutAt(p, i, t) ==
  [n \in Nat |-> IF n < i THEN p[n] ELSE IF n = i THEN t ELSE p[n-1]]

LEMMA InsertLists ==
  ASSUME NEW p, NEW k, NEW l, Lists(p, k, l), NEW time, NEW t \in Timer,
         \A n \in Nat : p[n] # t,
         Position(l, time, t) \in Nat, Position(l, time, t) <= k
  PROVE  Lists(PutAt(p, Position(l, time, t), t), k + 1,
               insert_timer(l, time, t))
<1> DEFINE i == Position(l, time, t)
           q == PutAt(p, i, t)
           r == insert_timer(l, time, t)
           current == IF i = 0 THEN NULL ELSE p[i-1]
<1>0. Node(l) = p
  BY NodeIs
<1>1. /\ k \in Nat /\ k + 1 \in Nat /\ i \in Nat /\ i <= k
      /\ \A n \in Nat : p[n] \in Timer \cup {NULL}
      /\ \A n \in Nat : n < k => p[n] # NULL /\ p[n] \in Timer
      /\ \A n \in Nat : ~(n < k) => p[n] = NULL
      /\ NULL \notin Timer
      /\ i # 0 => i - 1 \in Nat /\ i - 1 < k
  BY TimeServerAssumption DEF Lists
<1>2. /\ r.head = IF current = NULL THEN t ELSE l.head
      /\ r.prev = IF p[i] = NULL THEN [l.prev EXCEPT ![t] = current]
                  ELSE [[l.prev EXCEPT ![t] = current] EXCEPT ![p[i]] = t]
      /\ r.next = IF current = NULL THEN [l.next EXCEPT ![t] = p[i]]
                  ELSE [[l.next EXCEPT ![t] = p[i]] EXCEPT ![current] = t]
  BY <1>0 DEF insert_timer, Linked
<1> HIDE DEF i, r
<1>3. \A n \in Nat : q[n] = IF n < i THEN p[n] ELSE IF n = i THEN t ELSE p[n-1]
  BY DEF PutAt
<1>4. q \in [Nat -> Timer \cup {NULL}]
  BY <1>1 DEF PutAt
<1>5. current \in Timer \cup {NULL} /\ (current = NULL <=> i = 0)
  BY <1>1
<1>6. \A n \in Nat : n < k + 1 <=> q[n] \in Timer
  <2> SUFFICES ASSUME NEW n \in Nat PROVE n < k + 1 <=> q[n] \in Timer
    OBVIOUS
  <2>1. CASE n < i
    BY <1>1, <1>3, <2>1
  <2>2. CASE n = i
    BY <1>1, <1>3, <2>2
  <2>3. CASE n > i
    <3>1. n - 1 \in Nat /\ q[n] = p[n-1] /\ (n - 1 < k <=> n < k + 1)
      BY <1>1, <1>3, <2>3
    <3> QED BY <1>1, <3>1
  <2> QED BY <1>1, <2>1, <2>2, <2>3
<1>7. \A m, n \in Nat : m < k + 1 /\ q[m] = q[n] => m = n
  <2> SUFFICES ASSUME NEW m \in Nat, NEW n \in Nat, m < k + 1, q[m] = q[n]
               PROVE  m = n
    OBVIOUS
  <2> DEFINE At(j) == IF j < i THEN j ELSE j - 1
  <2>1. \A j \in Nat : j # i => At(j) \in Nat /\ q[j] = p[At(j)]
    BY <1>1, <1>3
  <2>2. CASE m = i \/ n = i
    BY <1>3, <2>1, <2>2
  <2>3. CASE m # i /\ n # i
    <3>1. p[At(m)] = p[At(n)] /\ At(m) < k /\ At(m) \in Nat /\ At(n) \in Nat
      BY <1>1, <2>1, <2>3
    <3>2. At(m) = At(n)
      BY <3>1 DEF Lists
    <3> QED BY <1>1, <2>3, <3>2
  <2> QED BY <2>2, <2>3
<1>8. r.head = q[0]
  <2>1. CASE i = 0
    BY <1>2, <1>3, <1>5, <2>1
  <2>2. CASE i # 0
    BY <1>1, <1>2, <1>3, <1>5, <2>2 DEF Lists
  <2> QED BY <2>1, <2>2
<1>9. /\ r.next \in [Timer -> Timer \cup {NULL}]
      /\ r.prev \in [Timer -> Timer \cup {NULL}]
  BY <1>1, <1>2, <1>5 DEF Lists
<1>10. \A n \in Nat : n < k + 1 => r.next[q[n]] = q[n+1]
  <2> SUFFICES ASSUME NEW n \in Nat, n < k + 1 PROVE r.next[q[n]] = q[n+1]
    OBVIOUS
  <2>0. l.next \in [Timer -> Timer \cup {NULL}]
    BY DEF Lists
  <2>1. CASE n + 1 < i
    <3>1. q[n] = p[n] /\ q[n+1] = p[n+1] /\ l.next[p[n]] = p[n+1]
          /\ p[n] \in Timer /\ p[n] # t
      BY <1>1, <1>3, <2>1 DEF Lists
    <3>2. p[n] # current
      BY <1>1, <2>1 DEF Lists
    <3> HIDE DEF q, current
    <3> QED BY <1>2, <2>0, <3>1, <3>2
  <2>2. CASE n + 1 = i
    <3>1. q[n] = current /\ q[n+1] = t /\ current \in Timer
      BY <1>1, <1>3, <2>2
    <3>2. current # NULL
      BY <1>1, <3>1
    <3> HIDE DEF q, current
    <3> QED BY <1>2, <2>0, <3>1, <3>2
  <2>3. CASE n = i
    <3>1. q[n] = t /\ q[n+1] = p[i]
      BY <1>1, <1>3, <2>3
    <3>2. current # t
      BY <1>1
    <3> HIDE DEF q, current
    <3> QED BY <1>2, <2>0, <3>1, <3>2
  <2>4. CASE n > i
    <3>1. n - 1 \in Nat /\ n - 1 < k /\ (n - 1) + 1 = n
      BY <1>1, <2>4
    <3>2. q[n] = p[n-1] /\ q[n+1] = p[n] /\ l.next[p[n-1]] = p[n]
          /\ p[n-1] \in Timer /\ p[n-1] # t
      BY <1>1, <1>3, <2>4, <3>1 DEF Lists
    <3>3. p[n-1] # current
      <4>1. CASE i = 0
        BY <1>1, <3>2, <4>1
      <4>2. CASE i # 0
        <5>1. n - 1 # i - 1
          BY <1>1, <2>4
        <5> QED BY <1>1, <3>1, <4>2, <5>1 DEF Lists
      <4> QED BY <4>1, <4>2
    <3> HIDE DEF q, current
    <3> QED BY <1>2, <2>0, <3>2, <3>3
  <2> QED BY <1>1, <2>1, <2>2, <2>3, <2>4
<1>11. \A n \in Nat : n < k + 1
         => r.prev[q[n]] = IF n = 0 THEN NULL ELSE q[n-1]
  <2> SUFFICES ASSUME NEW n \in Nat, n < k + 1
               PROVE  r.prev[q[n]] = IF n = 0 THEN NULL ELSE q[n-1]
    OBVIOUS
  <2>0. l.prev \in [Timer -> Timer \cup {NULL}]
    BY DEF Lists
  <2>1. CASE n < i
    <3>1. q[n] = p[n] /\ (n # 0 => q[n-1] = p[n-1]) /\ p[n] \in Timer
          /\ l.prev[p[n]] = IF n = 0 THEN NULL ELSE p[n-1]
      BY <1>1, <1>3, <2>1 DEF Lists
    <3>2. p[n] # p[i] /\ p[n] # t
      BY <1>1, <2>1 DEF Lists
    <3> HIDE DEF current
    <3> QED BY <1>2, <2>0, <3>1, <3>2
  <2>2. CASE n = i
    <3>1. q[n] = t /\ (n # 0 => q[n-1] = p[i-1]) /\ p[i] # t
      BY <1>1, <1>3, <2>2
    <3>2. r.prev[t] = current
      <4> HIDE DEF current
      <4> QED BY <1>2, <2>0, <3>1
    <3> QED BY <2>2, <3>1, <3>2
  <2>3. CASE n = i + 1
    <3>1. q[n] = p[i] /\ q[n-1] = t /\ i < k /\ p[i] \in Timer /\ p[i] # NULL
      BY <1>1, <1>3, <2>3
    <3>2. r.prev[p[i]] = t
      <4> HIDE DEF current
      <4> QED BY <1>2, <2>0, <3>1
    <3> QED BY <1>1, <2>3, <3>1, <3>2
  <2>4. CASE n > i + 1
    <3>1. n - 1 \in Nat /\ n - 1 < k /\ n - 1 # 0 /\ n - 1 # i
          /\ (n - 1) - 1 = n - 2
      BY <1>1, <2>4
    <3>2. q[n] = p[n-1] /\ q[n-1] = p[n-2]
      BY <1>1, <1>3, <2>4, <3>1
    <3>3. l.prev[p[n-1]] = p[n-2] /\ p[n-1] \in Timer /\ p[n-1] # t
      BY <1>1, <3>1 DEF Lists
    <3>4. p[n-1] # p[i]
      BY <1>1, <3>1 DEF Lists
    <3>5. r.prev[p[n-1]] = p[n-2]
      <4> HIDE DEF current
      <4> QED BY <1>2, <2>0, <3>3, <3>4
    <3> QED BY <1>1, <2>4, <3>2, <3>5
  <2> QED BY <1>1, <2>1, <2>2, <2>3, <2>4
<1>12. Lists(q, k + 1, r)
  <2> HIDE DEF q
  <2> QED BY <1>1, <1>4, <1>6, <1>7, <1>8, <1>9, <1>10, <1>11 DEF Lists
<1> QED BY <1>12 DEF i, r

(* The sequence holds the timers of S, each once.                          *)
Holds(p, k, S) == \A t \in Timer : t \in S <=> \E n \in Nat : n < k /\ p[n] = t

(* It is ordered by deadline.                                              *)
Sorted(p, k, time) ==
  \A m, n \in Nat : m < n /\ n < k => time[p[m]] <= time[p[n]]

(* There are finitely many timers, so that the search of Position ends.    *)
LEMMA TimersFinite == IsFiniteSet(Timer)
<1>1. IsFiniteSet(Tid)
  BY TimeServerAssumption, FS_Interval DEF Tid
<1> QED BY <1>1, TimeServerAssumption, FS_Product DEF Timer

(* The length of the sequence is the number of timers in it.               *)
LEMMA CountIs ==
  ASSUME NEW p, NEW k, NEW l, Lists(p, k, l), NEW S \in SUBSET Timer,
         Holds(p, k, S)
  PROVE  /\ Cardinality(S) = k
         /\ k <= Cardinality(Timer) /\ Cardinality(Timer) \in Nat
         /\ {p[n] : n \in 0 .. k - 1} = S
<1> DEFINE f == [j \in 1 .. k |-> p[j-1]]
<1>1. k \in Nat /\ \A n \in Nat : n < k => p[n] \in Timer
  BY DEF Lists
<1>2. f \in [1 .. k -> S]
  BY <1>1 DEF Holds
<1>3. \A a, b \in 1 .. k : f[a] = f[b] => a = b
  <2> SUFFICES ASSUME NEW a \in 1 .. k, NEW b \in 1 .. k, f[a] = f[b]
               PROVE  a = b
    OBVIOUS
  <2>1. a - 1 \in Nat /\ b - 1 \in Nat /\ a - 1 < k /\ p[a-1] = p[b-1]
    BY <1>1
  <2>2. a - 1 = b - 1
    BY <2>1 DEF Lists
  <2> QED BY <1>1, <2>2
<1>4. \A t \in S : \E j \in 1 .. k : f[j] = t
  <2> SUFFICES ASSUME NEW t \in S PROVE \E j \in 1 .. k : f[j] = t
    OBVIOUS
  <2>1. PICK n \in Nat : n < k /\ p[n] = t
    BY DEF Holds
  <2>2. n + 1 \in 1 .. k /\ (n + 1) - 1 = n
    BY <1>1, <2>1
  <2> QED BY <2>1, <2>2
<1>5. ExistsBijection(1 .. k, S)
  <2> HIDE DEF f
  <2>1. f \in Bijection(1 .. k, S)
    BY <1>2, <1>3, <1>4, Fun_IsBij
  <2> QED BY <2>1 DEF ExistsBijection
<1>6. Cardinality(S) = k
  BY <1>1, <1>5, FS_CountingElements
<1>7. k <= Cardinality(Timer) /\ Cardinality(Timer) \in Nat
  BY <1>6, TimersFinite, FS_Subset, FS_CardinalityType
<1>8. {p[n] : n \in 0 .. k - 1} = S
  <2>1. \A n \in 0 .. k - 1 : p[n] \in S
    BY <1>1 DEF Holds
  <2>2. \A t \in S : \E n \in 0 .. k - 1 : p[n] = t
    <3> SUFFICES ASSUME NEW t \in S PROVE \E n \in 0 .. k - 1 : p[n] = t
      OBVIOUS
    <3>1. PICK n \in Nat : n < k /\ p[n] = t
      BY DEF Holds
    <3> QED BY <1>1, <3>1
  <2> QED BY <2>1, <2>2
<1> QED BY <1>6, <1>7, <1>8

(* The loop of insert_timer stops in the list or at its end, and the       *)
(* timers it has passed are due earlier.                                   *)
LEMMA PositionIs ==
  ASSUME NEW p, NEW k, NEW l, Lists(p, k, l),
         NEW time \in [Timer -> Nat], NEW t \in Timer,
         k <= Cardinality(Timer), Cardinality(Timer) \in Nat
  PROVE  /\ Position(l, time, t) \in Nat /\ Position(l, time, t) <= k
         /\ \A m \in Nat : m < Position(l, time, t) => time[p[m]] < time[t]
         /\ Position(l, time, t) < k
              => time[p[Position(l, time, t)]] >= time[t]
<1> DEFINE Stop(n) == p[n] = NULL \/ time[p[n]] >= time[t]
           Pass(m) == p[m] # NULL /\ time[p[m]] < time[t]
           Found(n) == Stop(n) /\ \A m \in 0 .. n - 1 : Pass(m)
           C == Cardinality(Timer)
<1>1. /\ k \in Nat /\ \A n \in Nat : n < k => p[n] # NULL /\ p[n] \in Timer
      /\ \A n \in Nat : ~(n < k) => p[n] = NULL
  BY TimeServerAssumption DEF Lists
<1>2. Position(l, time, t) = CHOOSE n \in 0 .. C : Found(n)
  BY NodeIs DEF Position
<1>3. \A n \in Nat : Stop(n) \/ Pass(n)
  <2> SUFFICES ASSUME NEW n \in Nat, n < k PROVE Stop(n) \/ Pass(n)
    BY <1>1
  <2>1. time[p[n]] \in Nat /\ time[t] \in Nat
    BY <1>1
  <2> QED BY <2>1, <1>1
<1>4. \E n \in 0 .. C : Found(n)
  <2> DEFINE D == {n \in Nat : Stop(n)}
  <2>1. k \in D
    BY <1>1
  <2>2. PICK n \in D : \A m \in D : n <= m
    <3>1. D \subseteq Nat /\ D # {}
      BY <2>1
    <3> HIDE DEF D
    <3> QED BY <3>1, LeastExists
  <2>3. \A m \in 0 .. n - 1 : Pass(m)
    <3> SUFFICES ASSUME NEW m \in 0 .. n - 1 PROVE Pass(m)
      OBVIOUS
    <3>1. m \in Nat /\ ~(n <= m)
      BY <2>2
    <3>2. m \notin D
      BY <2>2, <3>1
    <3> HIDE DEF Stop, Pass
    <3> QED BY <1>3, <3>1, <3>2
  <2>4. n \in 0 .. C
    BY <1>1, <2>1, <2>2
  <2> QED BY <2>2, <2>3, <2>4
<1> DEFINE i == Position(l, time, t)
<1>5. i \in 0 .. C /\ Found(i)
  <2> HIDE DEF Found
  <2> QED BY <1>2, <1>4
<1> HIDE DEF i
<1>6. i \in Nat /\ i <= k
  <2>1. i \in Nat
    BY <1>5
  <2>2. ASSUME i > k PROVE FALSE
    <3>1. k \in 0 .. i - 1
      BY <1>1, <2>1, <2>2
    <3> QED BY <1>1, <1>5, <3>1
  <2> QED BY <1>1, <2>1, <2>2
<1>7. \A m \in Nat : m < i => time[p[m]] < time[t]
  BY <1>5, <1>6
<1>8. i < k => time[p[i]] >= time[t]
  BY <1>1, <1>5, <1>6
<1> QED BY <1>6, <1>7, <1>8 DEF i

(* The list, the timers in it and their deadlines.                         *)
Listed(l, S, time) ==
  \E k \in Nat : \E p \in [Nat -> Timer \cup {NULL}] :
    Lists(p, k, l) /\ Holds(p, k, S) /\ Sorted(p, k, time)

(* Taking a timer out keeps the others, by deadline.                       *)
LEMMA RemoveListed ==
  ASSUME NEW l, NEW S \in SUBSET Timer, NEW time, NEW t \in S,
         Listed(l, S, time)
  PROVE  Listed(remove_timer(l, t), S \ {t}, time)
<1>1. PICK k \in Nat, p \in [Nat -> Timer \cup {NULL}] :
        Lists(p, k, l) /\ Holds(p, k, S) /\ Sorted(p, k, time)
  BY DEF Listed
<1>2. PICK i \in Nat : i < k /\ p[i] = t
  BY <1>1 DEF Holds
<1> DEFINE q == Cut(p, i)
           At(n) == IF n < i THEN n ELSE n + 1
<1>3. Lists(q, k - 1, remove_timer(l, t))
  BY <1>1, <1>2, RemoveLists
<1>4. k - 1 \in Nat /\ q \in [Nat -> Timer \cup {NULL}]
  <2> HIDE DEF q
  <2> QED BY <1>3 DEF Lists
<1>5. \A n \in Nat : At(n) \in Nat /\ q[n] = p[At(n)]
  BY DEF Cut
<1>6. Holds(q, k - 1, S \ {t})
  <2>1. ASSUME NEW u \in S \ {t} PROVE \E n \in Nat : n < k - 1 /\ q[n] = u
    <3>1. PICK m \in Nat : m < k /\ p[m] = u
      BY <1>1 DEF Holds
    <3>2. m # i
      BY <1>2, <3>1
    <3>3. CASE m < i
      BY <1>2, <1>5, <3>1, <3>3
    <3>4. CASE m > i
      <4>1. m - 1 \in Nat /\ m - 1 < k - 1 /\ At(m - 1) = m
        BY <3>1, <3>4
      <4> QED BY <1>5, <3>1, <4>1
    <3> QED BY <3>2, <3>3, <3>4
  <2>2. ASSUME NEW n \in Nat, n < k - 1 PROVE q[n] \in S \ {t}
    <3>1. At(n) \in Nat /\ At(n) < k /\ At(n) # i /\ q[n] = p[At(n)]
      BY <1>5, <2>2
    <3>2. p[At(n)] # t
      BY <1>1, <1>2, <3>1 DEF Lists
    <3>3. p[At(n)] \in Timer
      BY <1>1, <3>1 DEF Lists
    <3>4. p[At(n)] \in S
      BY <1>1, <3>1, <3>3 DEF Holds
    <3> QED BY <3>1, <3>2, <3>4
  <2> HIDE DEF q
  <2> QED BY <2>1, <2>2 DEF Holds
<1>7. Sorted(q, k - 1, time)
  <2> SUFFICES ASSUME NEW m \in Nat, NEW n \in Nat, m < n, n < k - 1
               PROVE  time[q[m]] <= time[q[n]]
    BY DEF Sorted
  <2>1. At(m) < At(n) /\ At(n) < k /\ At(m) \in Nat /\ At(n) \in Nat
    OBVIOUS
  <2> QED BY <1>1, <1>5, <2>1 DEF Sorted
<1> HIDE DEF q
<1> QED BY <1>3, <1>4, <1>6, <1>7 DEF Listed

(* Inserting a timer keeps the order of the deadlines.                     *)
LEMMA InsertListed ==
  ASSUME NEW l, NEW S \in SUBSET Timer, NEW time \in [Timer -> Nat],
         NEW t \in Timer \ S, Listed(l, S, time)
  PROVE  Listed(insert_timer(l, time, t), S \cup {t}, time)
<1>1. PICK k \in Nat, p \in [Nat -> Timer \cup {NULL}] :
        Lists(p, k, l) /\ Holds(p, k, S) /\ Sorted(p, k, time)
  BY DEF Listed
<1> DEFINE i == Position(l, time, t)
           q == PutAt(p, i, t)
           At(n) == IF n < i THEN n ELSE n - 1
<1>2. /\ i \in Nat /\ i <= k
      /\ \A m \in Nat : m < i => time[p[m]] < time[t]
      /\ i < k => time[p[i]] >= time[t]
  <2>1. k <= Cardinality(Timer) /\ Cardinality(Timer) \in Nat
    BY <1>1, CountIs
  <2> QED BY <1>1, <2>1, PositionIs
<1>3. \A n \in Nat : p[n] # t
  <2> SUFFICES ASSUME NEW n \in Nat, p[n] = t PROVE FALSE
    OBVIOUS
  <2>1. n < k
    BY <1>1 DEF Lists
  <2> QED BY <1>1, <2>1 DEF Holds
<1>4. Lists(q, k + 1, insert_timer(l, time, t))
  BY <1>1, <1>2, <1>3, InsertLists
<1> HIDE DEF i
<1>5. k + 1 \in Nat /\ q \in [Nat -> Timer \cup {NULL}]
  <2> HIDE DEF q
  <2> QED BY <1>4 DEF Lists
<1>6. /\ \A n \in Nat : n # i => At(n) \in Nat /\ q[n] = p[At(n)]
      /\ q[i] = t
  BY <1>2 DEF PutAt
<1>7. Holds(q, k + 1, S \cup {t})
  <2>1. ASSUME NEW u \in S PROVE \E n \in Nat : n < k + 1 /\ q[n] = u
    <3>1. PICK m \in Nat : m < k /\ p[m] = u
      BY <1>1 DEF Holds
    <3>2. CASE m < i
      BY <1>6, <3>1, <3>2
    <3>3. CASE m >= i
      <4>1. m + 1 \in Nat /\ m + 1 < k + 1 /\ m + 1 # i /\ At(m + 1) = m
        BY <1>2, <3>1, <3>3
      <4> QED BY <1>6, <3>1, <4>1
    <3> QED BY <1>2, <3>2, <3>3
  <2>2. \E n \in Nat : n < k + 1 /\ q[n] = t
    BY <1>2, <1>6
  <2>3. ASSUME NEW n \in Nat, n < k + 1, n # i PROVE q[n] \in S
    <3>1. At(n) \in Nat /\ At(n) < k /\ q[n] = p[At(n)]
      BY <1>2, <1>6, <2>3
    <3>2. p[At(n)] \in Timer
      BY <1>1, <3>1 DEF Lists
    <3> QED BY <1>1, <3>1, <3>2 DEF Holds
  <2> HIDE DEF q
  <2> QED BY <1>6, <2>1, <2>2, <2>3 DEF Holds
<1>8. Sorted(q, k + 1, time)
  <2> SUFFICES ASSUME NEW m \in Nat, NEW n \in Nat, m < n, n < k + 1
               PROVE  time[q[m]] <= time[q[n]]
    BY DEF Sorted
  <2>0. \A j \in Nat : j < k => p[j] \in Timer /\ time[p[j]] \in Nat
    BY <1>1 DEF Lists
  <2>1. CASE m # i /\ n # i
    <3>1. At(m) < At(n) /\ At(n) < k /\ At(m) \in Nat /\ At(n) \in Nat
      BY <1>2, <2>1
    <3> QED BY <1>1, <1>6, <2>1, <3>1 DEF Sorted
  <2>2. CASE m = i
    <3>1. n - 1 \in Nat /\ n - 1 < k /\ i <= n - 1 /\ q[n] = p[n-1] /\ i < k
      BY <1>2, <1>6, <2>2
    <3>2. time[p[i]] <= time[p[n-1]]
      BY <1>1, <1>2, <2>0, <3>1 DEF Sorted
    <3>3. time[p[i]] \in Nat /\ time[p[n-1]] \in Nat /\ time[t] \in Nat
      BY <1>2, <2>0, <3>1
    <3> QED BY <1>2, <1>6, <2>2, <3>1, <3>2, <3>3
  <2>3. CASE n = i
    <3>1. m < i /\ q[m] = p[m] /\ m < k
      BY <1>2, <1>6, <2>3
    <3>2. time[p[m]] \in Nat /\ time[t] \in Nat
      BY <2>0, <3>1
    <3> QED BY <1>2, <1>6, <2>3, <3>1, <3>2
  <2> QED BY <2>1, <2>2, <2>3
<1> HIDE DEF q
<1> QED BY <1>4, <1>5, <1>7, <1>8 DEF Listed

(* The head of the list is NULL exactly when no timer is in it.            *)
LEMMA ListedFacts ==
  ASSUME NEW l, NEW S \in SUBSET Timer, NEW time, Listed(l, S, time)
  PROVE  /\ l.head \in Timer \cup {NULL}
         /\ l.next \in [Timer -> Timer \cup {NULL}]
         /\ l.prev \in [Timer -> Timer \cup {NULL}]
         /\ l.head = NULL <=> S = {}
         /\ l.head # NULL => l.head \in S
<1>1. PICK k \in Nat, p \in [Nat -> Timer \cup {NULL}] :
        Lists(p, k, l) /\ Holds(p, k, S) /\ Sorted(p, k, time)
  BY DEF Listed
<1>2. /\ l.head = p[0] /\ l.head \in Timer \cup {NULL}
      /\ l.next \in [Timer -> Timer \cup {NULL}]
      /\ l.prev \in [Timer -> Timer \cup {NULL}]
      /\ 0 < k <=> p[0] \in Timer
  BY <1>1 DEF Lists
<1>3. NULL \notin Timer
  BY TimeServerAssumption
<1>4. CASE k = 0
  <2>1. S = {}
    BY <1>1, <1>4 DEF Holds
  <2> QED BY <1>2, <1>3, <1>4, <2>1
<1>5. CASE k > 0
  <2>1. p[0] \in S
    BY <1>1, <1>2, <1>5 DEF Holds
  <2> QED BY <1>2, <1>3, <1>5, <2>1
<1> QED BY <1>2, <1>4, <1>5

(* No timer is due before the head.                                        *)
LEMMA HeadFirst ==
  ASSUME NEW l, NEW S \in SUBSET Timer, NEW time \in [Timer -> Nat],
         Listed(l, S, time), NEW u \in S
  PROVE  time[l.head] <= time[u]
<1>1. PICK k \in Nat, p \in [Nat -> Timer \cup {NULL}] :
        Lists(p, k, l) /\ Holds(p, k, S) /\ Sorted(p, k, time)
  BY DEF Listed
<1>2. PICK n \in Nat : n < k /\ p[n] = u
  BY <1>1 DEF Holds
<1>3. l.head = p[0]
  BY <1>1 DEF Lists
<1>4. CASE n = 0
  BY <1>2, <1>3, <1>4
<1>5. CASE n > 0
  BY <1>1, <1>2, <1>3, <1>5 DEF Sorted
<1> QED BY <1>4, <1>5

(* The deadlines of timers that are not in the list do not matter.         *)
LEMMA ListedSame ==
  ASSUME NEW l, NEW S \in SUBSET Timer, NEW time, NEW other,
         Listed(l, S, time), \A u \in S : other[u] = time[u]
  PROVE  Listed(l, S, other)
<1>1. PICK k \in Nat, p \in [Nat -> Timer \cup {NULL}] :
        Lists(p, k, l) /\ Holds(p, k, S) /\ Sorted(p, k, time)
  BY DEF Listed
<1>2. \A n \in Nat : n < k => p[n] \in S
  BY <1>1 DEF Lists, Holds
<1>3. Sorted(p, k, other)
  <2> SUFFICES ASSUME NEW m \in Nat, NEW n \in Nat, m < n, n < k
               PROVE  other[p[m]] <= other[p[n]]
    BY DEF Sorted
  <2>1. m < k /\ time[p[m]] <= time[p[n]]
    BY <1>1 DEF Sorted
  <2> QED BY <1>2, <2>1
<1> QED BY <1>1, <1>3 DEF Listed

(* A timer is set, whether it is in the list or not.                       *)
LEMMA SetListed ==
  ASSUME NEW S \in SUBSET Timer, NEW time \in [Timer -> Nat],
         NEW t \in Timer, NEW d \in Nat, NEW l, Listed(l, S, time)
  PROVE  Listed(insert_timer(IF t \in S THEN remove_timer(l, t) ELSE l,
                             [time EXCEPT ![t] = d], t),
                S \cup {t}, [time EXCEPT ![t] = d])
<1> DEFINE rest == IF t \in S THEN remove_timer(l, t) ELSE l
           later == [time EXCEPT ![t] = d]
<1>1. Listed(rest, S \ {t}, time)
  <2>1. CASE t \in S
    BY <2>1, RemoveListed
  <2>2. CASE t \notin S
    <3>1. S \ {t} = S
      BY <2>2
    <3> QED BY <2>2, <3>1
  <2> QED BY <2>1, <2>2
<1>2. later \in [Timer -> Nat] /\ \A u \in S \ {t} : later[u] = time[u]
  OBVIOUS
<1> HIDE DEF rest, later
<1>3. Listed(rest, S \ {t}, later)
  BY <1>1, <1>2, ListedSame
<1>4. Listed(insert_timer(rest, later, t), (S \ {t}) \cup {t}, later)
  BY <1>2, <1>3, InsertListed
<1>5. (S \ {t}) \cup {t} = S \cup {t}
  OBVIOUS
<1> QED BY <1>4, <1>5 DEF rest, later

(* post_init leaves the list empty.                                        *)
LEMMA EmptyListed == Init => Listed(list, {}, timeout_time)
<1> SUFFICES ASSUME Init PROVE Listed(list, {}, timeout_time)
  OBVIOUS
<1> DEFINE p == [n \in Nat |-> NULL]
<1>1. p \in [Nat -> Timer \cup {NULL}] /\ 0 \in Nat
  OBVIOUS
<1>2. Lists(p, 0, list)
  BY TimeServerAssumption DEF Init, Lists
<1>3. Holds(p, 0, {}) /\ Sorted(p, 0, timeout_time)
  BY DEF Holds, Sorted
<1> HIDE DEF p
<1> QED BY <1>1, <1>2, <1>3 DEF Listed

-----------------------------------------------------------------------------
(* The list holds the active timers by deadline; a periodic timer has a    *)
(* period; between SignalEmit and SignalClient the head stays due.         *)
TimerInv ==
  /\ TypeOK
  /\ Listed(list, Active, timeout_time)
  /\ \A t \in Timer : timer_type[t] = "PERIODIC" => periodic_ns[t] > 0
  /\ irq = "emitted" => HeadDue

LEMMA TimerInvInit == Init => TimerInv
<1> SUFFICES ASSUME Init PROVE TimerInv
  OBVIOUS
<1>1. Active = {}
  BY DEF Init, Active
<1>2. Listed(list, Active, timeout_time)
  BY <1>1, EmptyListed
<1>3. TypeOK
  <2>1. hw_intr \in BOOLEAN
    BY Zenon DEF Init
  <2>2. hw_time \in 0 .. MaxTime
    BY TimeServerAssumption DEF Init
  <2> QED BY <2>1, <2>2 DEF Init, TypeOK
<1> QED BY <1>2, <1>3 DEF Init, TimerInv

(* The three calls that set a timer preserve the invariant.                *)
LEMMA SetTimerInv ==
  ASSUME TimerInv, NEW t \in Timer, NEW d \in Nat,
         NEW type \in {"PERIODIC", "ABSOLUTE", "RELATIVE"},
         NEW due \in Nat, SetTimer(t, type, d, due),
         periodic_ns' \in [Timer -> Nat],
         \A u \in Timer \ {t} : periodic_ns'[u] = periodic_ns[u],
         type = "PERIODIC" => periodic_ns'[t] > 0
  PROVE  TimerInv' /\ Active' = Active \cup {t}
<1>1. /\ timer_type \in [Timer -> {"OFF", "PERIODIC", "ABSOLUTE", "RELATIVE"}]
      /\ timeout_time \in [Timer -> Nat]
      /\ timer_type' = [timer_type EXCEPT ![t] = type]
      /\ timeout_time' = [timeout_time EXCEPT ![t] = d]
      /\ irq = "idle" /\ irq' = "idle"
  BY DEF TimerInv, TypeOK, SetTimer, Unlocked
<1>2. Active' = Active \cup {t} /\ Active \in SUBSET Timer
  BY <1>1 DEF Active
<1>3. Listed(list', Active', timeout_time')
  <2>1. list' = insert_timer(IF t \in Active THEN remove_timer(list, t)
                             ELSE list, [timeout_time EXCEPT ![t] = d], t)
    BY <1>1 DEF SetTimer
  <2>2. Listed(list', Active \cup {t}, [timeout_time EXCEPT ![t] = d])
    BY <1>1, <1>2, <2>1, SetListed DEF TimerInv
  <2> QED BY <1>1, <1>2, <2>2
<1>4. Active' \in SUBSET Timer
  BY <1>2
<1>5. /\ list'.head \in Timer \cup {NULL}
      /\ list'.next \in [Timer -> Timer \cup {NULL}]
      /\ list'.prev \in [Timer -> Timer \cup {NULL}]
  BY <1>3, <1>4, ListedFacts
<1>6. TypeOK'
  <2>1. /\ timer_type' \in [Timer -> {"OFF", "PERIODIC", "ABSOLUTE",
                                     "RELATIVE"}]
        /\ timeout_time' \in [Timer -> Nat]
        /\ hw_due' \in [Timer -> Nat]
    BY <1>1 DEF SetTimer, TimerInv, TypeOK
  <2>2. UNCHANGED <<the_current_time, completed, irq, clientVars, hwVars>>
    BY DEF SetTimer
  <2>3. hw_intr' \in BOOLEAN
    BY <2>2, Zenon DEF TimerInv, TypeOK, hwVars
  <2> QED BY <2>1, <2>2, <2>3, <1>5 DEF TimerInv, TypeOK, clientVars, hwVars
<1>7. \A u \in Timer : timer_type'[u] = "PERIODIC" => periodic_ns'[u] > 0
  BY <1>1 DEF TimerInv
<1> QED BY <1>1, <1>2, <1>3, <1>6, <1>7 DEF TimerInv

LEMMA TimerInvNext == TimerInv /\ [Next]_vars => TimerInv'
<1> SUFFICES ASSUME TimerInv, [Next]_vars PROVE TimerInv'
  OBVIOUS
<1>0. /\ timer_type \in [Timer -> {"OFF", "PERIODIC", "ABSOLUTE", "RELATIVE"}]
      /\ timeout_time \in [Timer -> Nat] /\ periodic_ns \in [Timer -> Nat]
      /\ the_current_time \in Nat /\ hw_time \in Nat
      /\ hw_due \in [Timer -> Nat]
      /\ Listed(list, Active, timeout_time) /\ Active \in SUBSET Timer
  BY TimeServerAssumption DEF TimerInv, TypeOK, Active
<1>1. ASSUME UNCHANGED timerVars, TypeOK', irq' = "emitted" => HeadDue'
      PROVE  TimerInv'
  BY <1>1 DEF TimerInv, timerVars, Active
<1>2. CASE UNCHANGED vars
  BY <1>2 DEF TimerInv, TypeOK, Active, HeadDue, vars, timerVars, clientVars,
     hwVars
<1>3. ASSUME NEW t \in Timer, NEW ns \in Delays, oneshot_relative(t, ns)
      PROVE  TimerInv'
  <2>1. the_current_time + ns \in Nat /\ hw_time + ns \in Nat
    BY <1>0, TimeServerAssumption
  <2>2. /\ periodic_ns' = periodic_ns
        /\ SetTimer(t, "RELATIVE", the_current_time + ns, hw_time + ns)
    BY <1>3 DEF oneshot_relative
  <2> QED BY <1>0, <2>1, <2>2, SetTimerInv
<1>4. ASSUME NEW t \in Timer, NEW ns \in Delays, periodic(t, ns)
      PROVE  TimerInv'
  <2>1. /\ the_current_time + ns \in Nat /\ hw_time + ns \in Nat
        /\ ns \in Nat /\ ns > 0
    BY <1>0, TimeServerAssumption
  <2>2. /\ periodic_ns' = [periodic_ns EXCEPT ![t] = ns]
        /\ SetTimer(t, "PERIODIC", the_current_time + ns, hw_time + ns)
    BY <1>4 DEF periodic
  <2>3. /\ periodic_ns' \in [Timer -> Nat] /\ periodic_ns'[t] > 0
        /\ \A u \in Timer \ {t} : periodic_ns'[u] = periodic_ns[u]
    BY <1>0, <2>1, <2>2
  <2> QED BY <2>1, <2>2, <2>3, SetTimerInv
<1>5. ASSUME NEW t \in Timer, NEW ns \in Times, oneshot_absolute(t, ns)
      PROVE  TimerInv'
  <2>1. ns \in Nat
    BY TimeServerAssumption
  <2>2. periodic_ns' = periodic_ns /\ SetTimer(t, "ABSOLUTE", ns, ns)
    BY <1>5 DEF oneshot_absolute
  <2> QED BY <1>0, <2>1, <2>2, SetTimerInv
<1>6. ASSUME NEW t \in Timer, list' = remove_timer(list, t), t \in Active,
             timer_type' = [timer_type EXCEPT ![t] = "OFF"],
             UNCHANGED <<periodic_ns, timeout_time>>
      PROVE  /\ Listed(list', Active', timeout_time')
             /\ list'.head \in Timer \cup {NULL}
             /\ list'.next \in [Timer -> Timer \cup {NULL}]
             /\ list'.prev \in [Timer -> Timer \cup {NULL}]
             /\ timer_type' \in [Timer -> {"OFF", "PERIODIC", "ABSOLUTE",
                                           "RELATIVE"}]
             /\ \A u \in Timer :
                  timer_type'[u] = "PERIODIC" => periodic_ns'[u] > 0
  <2>1. Active' = Active \ {t} /\ Active' \in SUBSET Timer
    BY <1>0, <1>6 DEF Active
  <2>2. Listed(list', Active', timeout_time')
    BY <1>0, <1>6, <2>1, RemoveListed
  <2>3. \A u \in Timer : timer_type'[u] = "PERIODIC" => periodic_ns'[u] > 0
    BY <1>0, <1>6 DEF TimerInv
  <2> QED BY <1>0, <1>6, <2>1, <2>2, <2>3, ListedFacts
<1>7. ASSUME NEW t \in Timer, stop(t)
      PROVE  TimerInv'
  <2>1. /\ list' = remove_timer(list, t) /\ t \in Active
        /\ timer_type' = [timer_type EXCEPT ![t] = "OFF"]
        /\ UNCHANGED <<periodic_ns, timeout_time>>
        /\ irq = "idle" /\ irq' = "idle"
    BY <1>7 DEF stop, Unlocked
  <2>2. TypeOK'
    BY <1>6, <1>7, <2>1 DEF TimerInv, TypeOK, stop, clientVars, hwVars
  <2> QED BY <1>6, <2>1, <2>2 DEF TimerInv
<1>8. ASSUME NEW c \in Client, ClientCallback(c)
      PROVE  TimerInv'
  BY <1>1, <1>8 DEF ClientCallback, TimerInv, TypeOK, HeadDue,
     timerVars, hwVars
<1>9. ASSUME NEW c \in Client, _completed(c)
      PROVE  TimerInv'
  BY <1>1, <1>9 DEF _completed, Unlocked, TimerInv, TypeOK, timerVars, hwVars
<1>10. CASE IrqStart
  BY <1>1, <1>10, TimeServerAssumption DEF IrqStart, TimerInv, TypeOK,
     timerVars, clientVars, hwVars
<1>11. CASE SignalEmit
  <2>1. list.head[1] \in Client
    BY <1>11 DEF SignalEmit, HeadDue, TimerInv, TypeOK, Timer
  <2>2. TypeOK' /\ UNCHANGED timerVars /\ HeadDue'
    BY <1>11, <2>1 DEF SignalEmit, HeadDue, TimerInv, TypeOK, timerVars,
       hwVars
  <2> QED BY <1>1, <2>2
<1>12. CASE SignalClient
  <2> DEFINE h == list.head
  <2>1. h \in Timer /\ h \in Active /\ h[1] \in Client /\ h[2] \in Tid
    <3>1. h # NULL
      BY <1>12 DEF SignalClient, TimerInv, HeadDue
    <3>2. h \in Active
      BY <1>0, <3>1, ListedFacts
    <3> QED BY <3>2 DEF Active, Timer
  <2>2. completed' \in [Client -> SUBSET Tid]
    BY <1>12, <2>1 DEF SignalClient, CompleteBit, TimerInv, TypeOK
  <2>3. /\ irq' = "signal"
        /\ UNCHANGED <<periodic_ns, the_current_time, notified, woken,
                       hw_time, hw_intr>>
    BY <1>12 DEF SignalClient, clientVars, hwVars
  <2>4. CASE SignalPeriodic(h)
    <3> DEFINE d == timeout_time[h] + periodic_ns[h]
    <3>1. /\ timeout_time' = [timeout_time EXCEPT ![h] = d] /\ d \in Nat
          /\ list' = insert_timer(remove_timer(list, h), timeout_time', h)
          /\ timer_type' = timer_type /\ hw_due' \in [Timer -> Nat]
      BY <1>0, <2>1, <2>4 DEF SignalPeriodic
    <3> HIDE DEF d, h
    <3>2. list' = insert_timer(IF h \in Active THEN remove_timer(list, h)
                               ELSE list, [timeout_time EXCEPT ![h] = d], h)
      BY <2>1, <3>1
    <3>3. Listed(list', Active \cup {h}, [timeout_time EXCEPT ![h] = d])
      <4>1. /\ Active \in SUBSET Timer /\ h \in Timer /\ d \in Nat
            /\ timeout_time \in [Timer -> Nat]
            /\ Listed(list, Active, timeout_time)
        BY <1>0, <2>1, <3>1
      <4>2. Listed(insert_timer(IF h \in Active THEN remove_timer(list, h)
                                ELSE list, [timeout_time EXCEPT ![h] = d], h),
                   Active \cup {h}, [timeout_time EXCEPT ![h] = d])
        BY <4>1, SetListed
      <4> QED BY <3>2, <4>2
    <3>4. Active' = Active /\ Active \cup {h} = Active
      BY <2>1, <3>1 DEF Active
    <3>5. Listed(list', Active', timeout_time')
      BY <3>1, <3>3, <3>4
    <3>6. /\ list'.head \in Timer \cup {NULL}
          /\ list'.next \in [Timer -> Timer \cup {NULL}]
          /\ list'.prev \in [Timer -> Timer \cup {NULL}]
      BY <1>0, <3>4, <3>5, ListedFacts
    <3>7. TypeOK'
      BY <1>0, <2>2, <2>3, <3>1, <3>6 DEF TimerInv, TypeOK
    <3> QED BY <2>3, <3>1, <3>5, <3>7 DEF TimerInv
  <2>5. CASE SignalOneshot(h)
    <3>1. /\ list' = remove_timer(list, h)
          /\ timer_type' = [timer_type EXCEPT ![h] = "OFF"]
          /\ timeout_time' = timeout_time /\ hw_due' \in [Timer -> Nat]
      BY <1>0, <2>5 DEF SignalOneshot
    <3> HIDE DEF h
    <3>2. TypeOK'
      BY <1>0, <1>6, <2>1, <2>2, <2>3, <3>1 DEF TimerInv, TypeOK
    <3> QED BY <1>6, <2>1, <2>3, <3>1, <3>2 DEF TimerInv
  <2> QED BY <1>12, <2>4, <2>5 DEF SignalClient
<1>13. CASE SignalDone
  BY <1>1, <1>13 DEF SignalDone, TimerInv, TypeOK, timerVars, clientVars,
     hwVars
<1>14. CASE IrqClear
  BY <1>1, <1>14 DEF IrqClear, TimerInv, TypeOK, timerVars, clientVars
<1>15. CASE IrqUnlock
  BY <1>1, <1>15 DEF IrqUnlock, TimerInv, TypeOK, timerVars, clientVars,
     hwVars
<1>16. CASE HwTick
  BY <1>1, <1>16, TimeServerAssumption
     DEF HwTick, TimerInv, TypeOK, HeadDue, timerVars, clientVars
<1> QED
  BY <1>2, <1>3, <1>4, <1>5, <1>7, <1>8, <1>9, <1>10, <1>11, <1>12, <1>13,
     <1>14, <1>15, <1>16 DEF Next, IrqStep

(* The invariant implies what the runs check of the list.                  *)
LEMMA TimerInvWellFormed == TimerInv => ListWellFormed
<1> SUFFICES ASSUME TimerInv PROVE ListWellFormed
  OBVIOUS
<1>1. PICK k \in Nat, p \in [Nat -> Timer \cup {NULL}] :
        /\ Lists(p, k, list) /\ Holds(p, k, Active)
        /\ Sorted(p, k, timeout_time)
  BY DEF TimerInv, Listed
<1>2. Node(list) = p
  BY <1>1, NodeIs
<1>3. Active \in SUBSET Timer
  BY DEF Active
<1>4. Cardinality(Active) = k /\ {p[n] : n \in 0 .. k - 1} = Active
  BY <1>1, <1>3, CountIs
<1>5. p[k] = NULL
  BY <1>1 DEF Lists
<1>6. ASSUME NEW n \in 0 .. k - 1
      PROVE  /\ list.prev[p[n]] = IF n = 0 THEN NULL ELSE p[n-1]
             /\ n > 0 => timeout_time[p[n-1]] <= timeout_time[p[n]]
  <2>1. n \in Nat /\ n < k /\ (n > 0 => n - 1 \in Nat /\ n - 1 < n)
    BY <1>1
  <2> QED BY <1>1, <2>1 DEF Lists, Sorted
<1> QED BY <1>2, <1>4, <1>5, <1>6 DEF ListWellFormed

(* However calls and ticks take timers out and put them back, the list     *)
(* holds the active timers, each once, by deadline, and prev is the        *)
(* inverse of next.                                                        *)
THEOREM TimersListed == Spec => []ListWellFormed
<1>1. Init => TimerInv
  BY TimerInvInit
<1>2. TimerInv /\ [Next]_vars => TimerInv'
  BY TimerInvNext
<1>3. TimerInv => ListWellFormed
  BY TimerInvWellFormed
<1> QED BY <1>1, <1>2, <1>3, PTL DEF Spec

(* The server keeps its types.                                             *)
THEOREM TypeCorrect == Spec => []TypeOK
<1>1. Init => TimerInv
  BY TimerInvInit
<1>2. TimerInv /\ [Next]_vars => TimerInv'
  BY TimerInvNext
<1>3. TimerInv => TypeOK
  BY DEF TimerInv
<1> QED BY <1>1, <1>2, <1>3, PTL DEF Spec
-----------------------------------------------------------------------------
(* The deadlines.  A delay is added to the server's clock, which is behind *)
(* the hardware timer by the ticks that were lost, and by the one that is  *)
(* pending.  What is lost stays lost, what is pending is counted again.    *)
Uncounted == IF irq \in {"idle", "unlock"} /\ hw_intr THEN TIMER_PERIOD ELSE 0

DueInv ==
  \A t \in Timer :
    hw_due[t] + the_current_time + Uncounted
      <= timeout_time[t] + hw_time + TIMER_PERIOD

LEMMA NextClock ==
  ASSUME TimerInv, ClockInv, [Next]_vars
  PROVE  /\ the_current_time' \in Nat /\ hw_time' \in Nat
         /\ Uncounted' \in Nat
<1>1. ClockInv'
  BY ClockInvStep
<1> QED BY <1>1, TimeServerAssumption DEF ClockInv, Uncounted

(* The clocks move from h, c to h2, c2, the uncounted time from u to u2. *)
LEMMA Later ==
  ASSUME NEW due \in Int, NEW d \in Int, NEW p \in Int,
         NEW h \in Int, NEW c \in Int, NEW u \in Int,
         NEW h2 \in Int, NEW c2 \in Int, NEW u2 \in Int,
         due + c + u <= d + h + p, h + c2 + u2 <= h2 + c + u
  PROVE  due + c2 + u2 <= d + h2 + p
OBVIOUS

LEMMA DueInvStep ==
  ASSUME TimerInv, ClockInv, DueInv, [Next]_vars
  PROVE  DueInv'
<1>0. /\ hw_due \in [Timer -> Nat] /\ timeout_time \in [Timer -> Nat]
      /\ periodic_ns \in [Timer -> Nat]
      /\ the_current_time \in Nat /\ hw_time \in Nat /\ TIMER_PERIOD \in Nat
      /\ Delays \subseteq Nat /\ Times \subseteq Nat
      /\ the_current_time + Uncounted <= hw_time
      /\ Uncounted \in 0 .. TIMER_PERIOD
      /\ irq \in {"idle", "signal", "emitted", "clear", "unlock"}
  BY TimeServerAssumption DEF TimerInv, TypeOK, ClockInv, Uncounted
<1>1. ASSUME NEW t \in Timer, NEW d \in Nat, NEW due \in Nat,
             timeout_time' = [timeout_time EXCEPT ![t] = d],
             hw_due' = [hw_due EXCEPT ![t] = due],
             UNCHANGED <<the_current_time, irq, hwVars>>,
             due + the_current_time + Uncounted <= d + hw_time + TIMER_PERIOD
      PROVE  DueInv'
  <2>1. Uncounted' = Uncounted /\ hw_time' = hw_time
    BY <1>1 DEF Uncounted, hwVars
  <2> QED BY <1>0, <1>1, <2>1 DEF DueInv
<1>2. ASSUME UNCHANGED timerVars,
             hw_time + the_current_time' + Uncounted'
               <= hw_time' + the_current_time + Uncounted
      PROVE  DueInv'
  <2>1. /\ hw_due' = hw_due /\ timeout_time' = timeout_time
        /\ the_current_time' \in Int /\ hw_time' \in Int /\ Uncounted' \in Int
    BY <1>2, NextClock DEF timerVars
  <2>2. ASSUME NEW t \in Timer
        PROVE  hw_due[t] + the_current_time' + Uncounted'
                 <= timeout_time[t] + hw_time' + TIMER_PERIOD
    <3>1. hw_due[t] + the_current_time + Uncounted
            <= timeout_time[t] + hw_time + TIMER_PERIOD
      BY DEF DueInv
    <3>2. hw_due[t] \in Nat /\ timeout_time[t] \in Nat
      BY <1>0
    <3>3. /\ hw_due[t] \in Int /\ timeout_time[t] \in Int
          /\ TIMER_PERIOD \in Int /\ hw_time \in Int /\ Uncounted \in Int
          /\ the_current_time \in Int
      BY <1>0, <3>2
    <3>4. /\ the_current_time' \in Int /\ hw_time' \in Int /\ Uncounted' \in Int
          /\ hw_time + the_current_time' + Uncounted'
               <= hw_time' + the_current_time + Uncounted
      BY <1>2, <2>1
    <3> HIDE DEF Uncounted
    <3> QED BY <3>1, <3>3, <3>4, Later
  <2> QED BY <2>1, <2>2 DEF DueInv
<1>3. ASSUME NEW t \in Timer, NEW ns \in Delays,
             oneshot_relative(t, ns) \/ periodic(t, ns)
      PROVE  DueInv'
  <2> DEFINE d == the_current_time + ns
             due == hw_time + ns
  <2>1. /\ d \in Nat /\ due \in Nat
        /\ due + the_current_time + Uncounted <= d + hw_time + TIMER_PERIOD
    BY <1>0
  <2>2. /\ timeout_time' = [timeout_time EXCEPT ![t] = d]
        /\ hw_due' = [hw_due EXCEPT ![t] = due]
        /\ UNCHANGED <<the_current_time, irq, hwVars>>
    BY <1>3 DEF oneshot_relative, periodic, SetTimer
  <2> HIDE DEF d, due
  <2> QED BY <1>1, <2>1, <2>2
<1>4. ASSUME NEW t \in Timer, NEW ns \in Times, oneshot_absolute(t, ns)
      PROVE  DueInv'
  <2>1. /\ ns \in Nat
        /\ ns + the_current_time + Uncounted <= ns + hw_time + TIMER_PERIOD
    BY <1>0
  <2>2. /\ timeout_time' = [timeout_time EXCEPT ![t] = ns]
        /\ hw_due' = [hw_due EXCEPT ![t] = ns]
        /\ UNCHANGED <<the_current_time, irq, hwVars>>
    BY <1>4 DEF oneshot_absolute, SetTimer
  <2> QED BY <1>1, <2>1, <2>2
<1>5. ASSUME NEW t \in Timer, hw_due' = [hw_due EXCEPT ![t] = 0],
             UNCHANGED <<timeout_time, the_current_time, hwVars>>,
             Uncounted' <= Uncounted, Uncounted' \in Nat
      PROVE  DueInv'
  <2>1. ASSUME NEW u \in Timer
        PROVE  hw_due'[u] + the_current_time + Uncounted'
                 <= timeout_time[u] + hw_time + TIMER_PERIOD
    <3>1. /\ hw_due'[u] \in {0, hw_due[u]} /\ hw_due[u] \in Nat
          /\ timeout_time[u] \in Nat
      BY <1>0, <1>5
    <3>2. hw_due[u] + the_current_time + Uncounted
            <= timeout_time[u] + hw_time + TIMER_PERIOD
      BY DEF DueInv
    <3> QED BY <1>0, <1>5, <3>1, <3>2
  <2> QED BY <1>5, <2>1 DEF DueInv, hwVars
<1>6. ASSUME NEW t \in Timer, stop(t)
      PROVE  DueInv'
  <2>1. Uncounted' = Uncounted /\ Uncounted \in Nat
    BY <1>0, <1>6 DEF stop, Uncounted, hwVars
  <2>2. /\ hw_due' = [hw_due EXCEPT ![t] = 0]
        /\ UNCHANGED <<timeout_time, the_current_time, hwVars>>
    BY <1>6 DEF stop
  <2>3. Uncounted' <= Uncounted /\ Uncounted' \in Nat
    BY <2>1
  <2> QED BY <1>5, <2>2, <2>3
<1>7. ASSUME NEW c \in Client, ClientCallback(c) \/ _completed(c)
      PROVE  DueInv'
  BY <1>0, <1>2, <1>7 DEF ClientCallback, _completed, Uncounted, hwVars
<1>8. CASE IrqStart
  BY <1>0, <1>2, <1>8 DEF IrqStart, Uncounted, hwVars
<1>9. CASE SignalEmit
  BY <1>0, <1>2, <1>9 DEF SignalEmit, Uncounted, hwVars
<1>10. CASE SignalClient
  <2> DEFINE h == list.head
  <2>1. /\ h \in Timer /\ Uncounted' = 0 /\ Uncounted = 0
        /\ UNCHANGED <<the_current_time, hwVars, periodic_ns>>
    BY <1>10 DEF SignalClient, TimerInv, HeadDue, TypeOK, Uncounted
  <2>2. CASE SignalPeriodic(h)
    <3>1. /\ timeout_time' = [timeout_time EXCEPT ![h] = @ + periodic_ns[h]]
          /\ hw_due' = [hw_due EXCEPT ![h] = @ + periodic_ns[h]]
      BY <2>2 DEF SignalPeriodic
    <3> HIDE DEF h
    <3>2. ASSUME NEW u \in Timer
          PROVE  hw_due'[u] + the_current_time + Uncounted'
                   <= timeout_time'[u] + hw_time + TIMER_PERIOD
      <4>1. \E n \in Nat : /\ hw_due'[u] = hw_due[u] + n
                           /\ timeout_time'[u] = timeout_time[u] + n
        <5>1. CASE u = h
          <6>1. /\ hw_due'[u] = hw_due[u] + periodic_ns[u]
                /\ timeout_time'[u] = timeout_time[u] + periodic_ns[u]
            BY <1>0, <3>1, <5>1
          <6>2. periodic_ns[u] \in Nat
            BY <1>0
          <6> QED BY <6>1, <6>2
        <5>2. CASE u # h
          <6>1. hw_due'[u] = hw_due[u] /\ timeout_time'[u] = timeout_time[u]
            BY <3>1, <5>2
          <6>2. hw_due[u] \in Nat /\ timeout_time[u] \in Nat
            BY <1>0
          <6>3. hw_due'[u] = hw_due[u] + 0 /\ timeout_time'[u] = timeout_time[u] + 0
            BY <6>1, <6>2
          <6> QED BY <6>3
        <5> QED BY <5>1, <5>2
      <4>2. hw_due[u] + the_current_time + Uncounted
              <= timeout_time[u] + hw_time + TIMER_PERIOD
        BY DEF DueInv
      <4>3. hw_due[u] \in Nat /\ timeout_time[u] \in Nat
        BY <1>0
      <4> QED BY <1>0, <2>1, <4>1, <4>2, <4>3
    <3> QED BY <2>1, <3>2 DEF DueInv, hwVars
  <2>3. CASE SignalOneshot(h)
    <3>1. /\ hw_due' = [hw_due EXCEPT ![h] = 0]
          /\ UNCHANGED <<timeout_time, the_current_time, hwVars>>
      BY <2>1, <2>3 DEF SignalOneshot
    <3>2. Uncounted' <= Uncounted /\ Uncounted' \in Nat
      BY <2>1
    <3> QED BY <1>5, <2>1, <3>1, <3>2
  <2> QED BY <1>10, <2>2, <2>3 DEF SignalClient
<1>11. CASE SignalDone
  BY <1>0, <1>2, <1>11 DEF SignalDone, Uncounted, hwVars
<1>12. CASE IrqClear
  BY <1>0, <1>2, <1>12 DEF IrqClear, Uncounted
<1>13. CASE IrqUnlock
  BY <1>0, <1>2, <1>13 DEF IrqUnlock, Uncounted, hwVars
<1>14. CASE HwTick
  BY <1>0, <1>2, <1>14 DEF HwTick, Uncounted
<1>15. CASE UNCHANGED vars
  BY <1>0, <1>2, <1>15 DEF vars, Uncounted, hwVars
<1> QED
  BY <1>3, <1>4, <1>6, <1>7, <1>8, <1>9, <1>10, <1>11, <1>12, <1>13, <1>14,
     <1>15 DEF Next, IrqStep

(* Counted in ticks of the hardware timer, no timer completes more than    *)
(* one tick before its client asked for it, whatever ticks are lost        *)
(* (irq_handle, signal_client and the calls that set a timer).             *)
THEOREM NoTimerTooEarly == Spec => []AtMostATickEarly
<1> DEFINE Inv == TimerInv /\ ClockInv /\ DueInv
<1>1. Init => Inv
  <2> SUFFICES ASSUME Init PROVE DueInv
    BY TimerInvInit, ClockInvInit
  <2> QED BY TimeServerAssumption DEF Init, DueInv, Uncounted
<1>2. Inv /\ [Next]_vars => Inv'
  BY TimerInvNext, ClockInvStep, DueInvStep
<1>3. Inv => AtMostATickEarly
  <2> SUFFICES ASSUME Inv, irq = "emitted"
               PROVE  hw_time + TIMER_PERIOD >= hw_due[list.head]
    BY DEF AtMostATickEarly
  <2>1. /\ list.head \in Timer /\ timeout_time[list.head] <= the_current_time
        /\ Uncounted = 0
    BY DEF TimerInv, TypeOK, HeadDue, Uncounted
  <2>2. /\ hw_due[list.head] \in Nat /\ timeout_time[list.head] \in Nat
        /\ the_current_time \in Nat /\ hw_time \in Nat /\ TIMER_PERIOD \in Nat
    BY <2>1, TimeServerAssumption DEF TimerInv, TypeOK, ClockInv
  <2> QED BY <2>1, <2>2 DEF DueInv
<1> QED BY <1>1, <1>2, <1>3, PTL DEF Spec

-----------------------------------------------------------------------------
(* The variant of the loop of signal_clients.  Nothing but the loop itself *)
(* touches the deadlines while a tick is served.                           *)
LEMMA OverdueNat ==
  ASSUME TimerInv, NEW t \in Timer
  PROVE  Overdue(t) \in Nat /\ (Due(t) => Overdue(t) > 0)
BY DEF TimerInv, TypeOK, Overdue, Due

LEMMA OverdueSame ==
  ASSUME timer_type' = timer_type, the_current_time' = the_current_time,
         NEW t \in Timer, timeout_time'[t] = timeout_time[t]
  PROVE  Overdue(t)' = Overdue(t)
BY DEF Overdue, Due, Active

LEMMA ProgressNext == TimerInv /\ [Next]_vars => ServeProgress
<1> SUFFICES ASSUME TimerInv, [Next]_vars PROVE ServeProgress
  OBVIOUS
<1>0. /\ timer_type \in [Timer -> {"OFF", "PERIODIC", "ABSOLUTE", "RELATIVE"}]
      /\ timeout_time \in [Timer -> Nat] /\ periodic_ns \in [Timer -> Nat]
      /\ the_current_time \in Nat
      /\ Listed(list, Active, timeout_time) /\ Active \in SUBSET Timer
      /\ \A t \in Timer : timer_type[t] = "PERIODIC" => periodic_ns[t] > 0
  BY DEF TimerInv, TypeOK, Active
<1>1. ASSUME irq = "idle"
      PROVE  ServeProgress
  BY <1>1 DEF ServeProgress
<1>2. ASSUME UNCHANGED <<timerVars, the_current_time>>,
             ~(irq = "emitted" /\ irq' = "signal")
      PROVE  ServeProgress
  <2>1. \A t \in Timer : Overdue(t)' = Overdue(t)
    BY <1>2, OverdueSame DEF timerVars
  <2>2. \A t \in Timer : Overdue(t)' <= Overdue(t)
    BY <2>1, OverdueNat
  <2> QED BY <1>2, <2>2 DEF ServeProgress
<1>3. CASE UNCHANGED vars
  <2>1. irq' = irq /\ UNCHANGED <<timerVars, the_current_time>>
    BY <1>3 DEF vars
  <2> QED BY <1>2, <2>1
<1>4. ASSUME NEW t \in Timer,
             \/ \E ns \in Delays : oneshot_relative(t, ns) \/ periodic(t, ns)
             \/ \E ns \in Times : oneshot_absolute(t, ns)
             \/ stop(t)
      PROVE  ServeProgress
  <2>1. irq = "idle"
    BY <1>4 DEF oneshot_relative, periodic, oneshot_absolute, stop, SetTimer,
       Unlocked
  <2> QED BY <1>1, <2>1
<1>5. ASSUME NEW c \in Client, ClientCallback(c) \/ _completed(c)
      PROVE  ServeProgress
  <2>1. irq' = irq /\ UNCHANGED <<timerVars, the_current_time>>
    BY <1>5 DEF ClientCallback, _completed
  <2> QED BY <1>2, <2>1
<1>6. CASE IrqStart \/ IrqClear \/ IrqUnlock
  <2>1. irq \notin {"signal", "emitted"}
    BY <1>6 DEF IrqStart, IrqClear, IrqUnlock
  <2> QED BY <2>1 DEF ServeProgress
<1>7. CASE SignalEmit \/ SignalDone \/ HwTick
  <2>1. /\ UNCHANGED <<timerVars, the_current_time>>
        /\ ~(irq = "emitted" /\ irq' = "signal")
    BY <1>7 DEF SignalEmit, SignalDone, HwTick
  <2> QED BY <1>2, <2>1
<1>8. CASE SignalClient
  <2>1. PICK h \in Timer : h = list.head /\ h \in Active /\ Due(h)
    <3>1. HeadDue /\ list.head # NULL
      BY <1>8 DEF SignalClient, TimerInv, HeadDue
    <3>2. list.head \in Active
      BY <1>0, <3>1, ListedFacts
    <3> QED BY <1>0, <3>1, <3>2 DEF HeadDue, Due
  <2>2. the_current_time' = the_current_time
    BY <1>8 DEF SignalClient
  <2>3. Overdue(h) = the_current_time - timeout_time[h] + 1
    BY <2>1 DEF Overdue
  <2>4. CASE SignalPeriodic(h)
    <3>1. /\ timer_type' = timer_type /\ periodic_ns[h] > 0
          /\ timeout_time' = [timeout_time EXCEPT ![h] = @ + periodic_ns[h]]
      BY <1>0, <2>4 DEF SignalPeriodic
    <3>2. Overdue(h)' \in Nat /\ Overdue(h)' < Overdue(h)
      <4>1. timeout_time'[h] = timeout_time[h] + periodic_ns[h]
        BY <1>0, <3>1
      <4>2. Overdue(h)' = IF timeout_time'[h] <= the_current_time
                          THEN the_current_time - timeout_time'[h] + 1 ELSE 0
        BY <2>1, <2>2, <3>1 DEF Overdue, Due, Active
      <4>3. timeout_time[h] <= the_current_time
        BY <2>1 DEF Due
      <4> QED BY <1>0, <2>3, <3>1, <4>1, <4>2, <4>3
    <3>3. ASSUME NEW t \in Timer, t # h
          PROVE  Overdue(t)' = Overdue(t)
      <4>1. timeout_time'[t] = timeout_time[t]
        BY <1>0, <3>1, <3>3
      <4> QED BY <2>2, <3>1, <4>1, OverdueSame
    <3>4. ASSUME NEW t \in Timer
          PROVE  Overdue(t)' <= Overdue(t)
      <4>1. CASE t = h
        <5>1. Overdue(h) \in Nat
          BY OverdueNat
        <5> QED BY <3>2, <4>1, <5>1
      <4>2. CASE t # h
        BY <3>3, <4>2, OverdueNat
      <4> QED BY <4>1, <4>2
    <3> QED BY <3>2, <3>4 DEF ServeProgress
  <2>5. CASE SignalOneshot(h)
    <3>1. /\ timer_type' = [timer_type EXCEPT ![h] = "OFF"]
          /\ timeout_time' = timeout_time
      BY <2>5 DEF SignalOneshot
    <3>2. Overdue(h)' = 0
      BY <1>0, <3>1 DEF Overdue, Due, Active
    <3>3. Overdue(h) > 0 /\ Overdue(h) \in Nat
      BY <2>1, OverdueNat
    <3>4. ASSUME NEW t \in Timer, t # h
          PROVE  Overdue(t)' = Overdue(t)
      BY <1>0, <2>2, <3>1, <3>4 DEF Overdue, Due, Active
    <3>5. ASSUME NEW t \in Timer
          PROVE  Overdue(t)' <= Overdue(t)
      BY <3>2, <3>3, <3>4, OverdueNat
    <3>6. Overdue(h)' < Overdue(h)
      BY <3>2, <3>3
    <3> QED BY <3>5, <3>6 DEF ServeProgress
  <2> QED BY <1>8, <2>1, <2>4, <2>5 DEF SignalClient
<1> QED
  BY <1>3, <1>4, <1>5, <1>6, <1>7, <1>8 DEF Next, IrqStep

(* While a tick is served no timer becomes more overdue, and each round of *)
(* the loop makes one less overdue: the loop ends, however many periodic   *)
(* timers go back into the list and however late the tick is.              *)
THEOREM ServingMakesProgress == Spec => ServingEnds
<1>1. Init => TimerInv
  BY TimerInvInit
<1>2. TimerInv /\ [Next]_vars => TimerInv'
  BY TimerInvNext
<1>3. TimerInv /\ [Next]_vars => [ServeProgress]_vars
  BY ProgressNext
<1> QED
  BY <1>1, <1>2, <1>3, PTL DEF Spec, ServingEnds
-----------------------------------------------------------------------------
(* The refinement: the list, the mutex and the two threads are hidden      *)
(* behind a set of deadlines.                                              *)

(* The deadlines, as the refinement mapping computes them.                 *)
Armed == [t \in Active |->
            [due |-> timeout_time[t],
             period |-> IF timer_type[t] = "PERIODIC" THEN periodic_ns[t]
                                                      ELSE 0]]

Serving == irq \in {"signal", "emitted"}

LEMMA RefinedInit == Init => Service!Init
<1> SUFFICES ASSUME Init PROVE Service!Init
  OBVIOUS
<1>1. Active = {}
  BY DEF Init, Active
<1>2. Armed = <<>>
  BY <1>1 DEF Armed
<1> QED BY <1>2 DEF Init, Service!Init, Armed

(* The three calls that set a timer arm it.                                *)
LEMMA RefinedArm ==
  ASSUME TimerInv, NEW t \in Timer, NEW d \in Nat,
         NEW type \in {"PERIODIC", "ABSOLUTE", "RELATIVE"},
         NEW due \in Nat, SetTimer(t, type, d, due), Active' = Active \cup {t},
         \A u \in Timer \ {t} : periodic_ns'[u] = periodic_ns[u]
  PROVE  Service!ArmStep
<1>1. /\ timer_type' = [timer_type EXCEPT ![t] = type]
      /\ timeout_time' = [timeout_time EXCEPT ![t] = d]
      /\ timer_type \in [Timer -> {"OFF", "PERIODIC", "ABSOLUTE", "RELATIVE"}]
      /\ timeout_time \in [Timer -> Nat]
      /\ Active \subseteq Timer
  BY DEF SetTimer, TimerInv, TypeOK, Active
<1>2. /\ DOMAIN Armed' = Active \cup {t}
      /\ DOMAIN Armed = Active
      /\ Armed'[t] = [due |-> Armed'[t].due, period |-> Armed'[t].period]
  BY DEF Armed
<1>3. \A u \in Active \ {t} : Armed'[u] = Armed[u]
  BY <1>1 DEF Armed
<1>4. Armed' = [u \in DOMAIN Armed \cup {t} |->
                  IF u = t
                  THEN [due |-> Armed'[t].due, period |-> Armed'[t].period]
                  ELSE Armed[u]]
  <2> DEFINE new == [u \in Active \cup {t} |-> Armed'[u]]
  <2>1. Armed' = new
    BY DEF Armed
  <2>2. new = [u \in DOMAIN Armed \cup {t} |->
                  IF u = t
                  THEN [due |-> Armed'[t].due, period |-> Armed'[t].period]
                  ELSE Armed[u]]
    <3> HIDE DEF Armed
    <3> QED BY <1>2, <1>3
  <2> QED BY <2>1, <2>2
<1>5. /\ ~Serving /\ Serving' = Serving
      /\ UNCHANGED <<the_current_time, completed>>
  BY DEF SetTimer, Unlocked, Serving
<1>6. Service!Arm(t, Armed'[t].due, Armed'[t].period)
  BY <1>4, <1>5, Zenon DEF Service!Arm, Armed, Serving
<1>7. t \in DOMAIN Armed' /\ t \in Service!Timer
  BY <1>2 DEF Timer, Service!Timer
<1> QED BY <1>6, <1>7 DEF Service!ArmStep, Armed

(* A timer that is taken out of the list is no longer armed.               *)
LEMMA RefinedWithout ==
  ASSUME TimerInv, NEW t \in Active,
         timer_type' = [timer_type EXCEPT ![t] = "OFF"],
         UNCHANGED <<periodic_ns, timeout_time>>
  PROVE  Armed' = [u \in DOMAIN Armed \ {t} |-> Armed[u]]
<1>1. /\ timer_type \in [Timer -> {"OFF", "PERIODIC", "ABSOLUTE", "RELATIVE"}]
      /\ t \in Timer
  BY DEF TimerInv, TypeOK, Active
<1>2. Active' = Active \ {t} /\ DOMAIN Armed = Active
  BY <1>1 DEF Active, Armed
<1>3. \A u \in Active \ {t} : timer_type'[u] = timer_type[u]
  BY <1>1 DEF Active
<1> QED BY <1>2, <1>3 DEF Armed

(* The head is the timer that the service completes.                       *)
LEMMA RefinedExpire ==
  ASSUME TimerInv, SignalClient, NEW h, h = list.head
  PROVE  Service!Expire(h)
<1>0. /\ timer_type \in [Timer -> {"OFF", "PERIODIC", "ABSOLUTE", "RELATIVE"}]
      /\ timeout_time \in [Timer -> Nat] /\ periodic_ns \in [Timer -> Nat]
      /\ Listed(list, Active, timeout_time) /\ Active \in SUBSET Timer
      /\ timeout_time[h] <= the_current_time /\ h # NULL
  BY DEF TimerInv, TypeOK, Active, SignalClient, HeadDue
<1>1. h \in Active /\ h \in Timer
  BY <1>0, ListedFacts
<1>2. \A u \in Active : timeout_time[h] <= timeout_time[u]
  BY <1>0, HeadFirst
<1>3. /\ irq = "emitted" /\ irq' = "signal"
      /\ completed' = [completed EXCEPT ![h[1]] = @ \cup {h[2]}]
      /\ UNCHANGED <<the_current_time, periodic_ns>>
      /\ SignalPeriodic(h) \/ SignalOneshot(h)
  BY DEF SignalClient, CompleteBit
<1>4. /\ DOMAIN Armed = Active
      /\ \A u \in Active : Armed[u].due = timeout_time[u]
      /\ Armed[h].period = IF timer_type[h] = "PERIODIC" THEN periodic_ns[h]
                                                          ELSE 0
  BY <1>1 DEF Armed
<1>5. Armed' = IF Armed[h].period = 0
               THEN [u \in DOMAIN Armed \ {h} |-> Armed[u]]
               ELSE [Armed EXCEPT ![h].due = @ + Armed[h].period]
  <2>1. CASE SignalPeriodic(h)
    <3>1. /\ timer_type[h] = "PERIODIC" /\ timer_type' = timer_type
          /\ timeout_time' =
               [timeout_time EXCEPT ![h] = timeout_time[h] + periodic_ns[h]]
          /\ periodic_ns' = periodic_ns
          /\ Active' = Active
      BY <1>3, <2>1 DEF SignalPeriodic, Active
    <3>2. Armed[h].period = periodic_ns[h] /\ Armed[h].period # 0
      BY <1>0, <1>1, <1>4, <3>1 DEF TimerInv
    <3> DEFINE then == [Armed EXCEPT ![h].due = @ + Armed[h].period]
    <3>3. \A u \in Active : Armed'[u] = then[u]
      <4> SUFFICES ASSUME NEW u \in Active PROVE Armed'[u] = then[u]
        OBVIOUS
      <4>1. u \in Timer
        BY <1>0
      <4>2. CASE u = h
        BY <1>0, <1>1, <3>1, <4>1, <4>2 DEF Armed
      <4>3. CASE u # h
        BY <1>0, <1>1, <3>1, <4>1, <4>3 DEF Armed
      <4> QED BY <4>2, <4>3
    <3>4. /\ Armed' = [u \in Active |-> Armed'[u]]
          /\ then = [u \in Active |-> then[u]]
      BY <3>1 DEF Armed
    <3>5. Armed' = then
      <4> HIDE DEF then
      <4>1. [u \in Active |-> Armed'[u]] = [u \in Active |-> then[u]]
        BY <3>3
      <4> QED BY <3>4, <4>1
    <3> QED BY <3>2, <3>5
  <2>2. CASE SignalOneshot(h)
    <3>1. /\ timer_type[h] # "PERIODIC"
          /\ timer_type' = [timer_type EXCEPT ![h] = "OFF"]
          /\ UNCHANGED <<periodic_ns, timeout_time>>
      BY <1>3, <2>2 DEF SignalOneshot
    <3>2. Armed' = [u \in DOMAIN Armed \ {h} |-> Armed[u]]
      BY <1>1, <3>1, RefinedWithout
    <3> QED BY <1>4, <3>1, <3>2
  <2> QED BY <1>3, <2>1, <2>2
<1>6. /\ Serving /\ Serving' = Serving
  BY <1>3 DEF Serving
<1>7. /\ h \in DOMAIN Armed
      /\ Armed[h].due <= the_current_time
      /\ \A u \in DOMAIN Armed : Armed[h].due <= Armed[u].due
  BY <1>0, <1>1, <1>2, <1>4
<1> QED
  BY <1>3, <1>5, <1>6, <1>7
     DEF Service!Expire, Service!Without, Armed, Serving

(* Every step of the server is a step of the service or hidden from it.    *)
LEMMA RefinedNext ==
  TimerInv /\ [Next]_vars => [Service!Next]_(Service!serviceVars)
<1> SUFFICES ASSUME TimerInv, [Next]_vars
             PROVE  [Service!Next]_(Service!serviceVars)
  OBVIOUS
<1>0. /\ timer_type \in [Timer -> {"OFF", "PERIODIC", "ABSOLUTE", "RELATIVE"}]
      /\ timeout_time \in [Timer -> Nat] /\ periodic_ns \in [Timer -> Nat]
      /\ the_current_time \in Nat /\ hw_time \in Nat
      /\ Listed(list, Active, timeout_time) /\ Active \in SUBSET Timer
      /\ Service!Timer = Timer
  BY TimeServerAssumption DEF TimerInv, TypeOK, Active, Timer, Service!Timer
<1>1. ASSUME UNCHANGED <<timerVars, the_current_time, completed>>,
             Serving' = Serving
      PROVE  UNCHANGED Service!serviceVars
  <2>1. Armed' = Armed
    BY <1>1 DEF Armed, Active, timerVars
  <2> QED BY <1>1, <2>1 DEF Service!serviceVars, Armed, Serving
<1>2. CASE UNCHANGED vars
  BY <1>1, <1>2 DEF vars, Serving
<1>3. ASSUME NEW t \in Timer, NEW d \in Nat,
             NEW type \in {"PERIODIC", "ABSOLUTE", "RELATIVE"},
             NEW due \in Nat, SetTimer(t, type, d, due),
             \A u \in Timer \ {t} : periodic_ns'[u] = periodic_ns[u]
      PROVE  Service!Next
  <2>1. Active' = Active \cup {t}
    BY <1>0, <1>3 DEF SetTimer, Active
  <2>2. Service!ArmStep
    BY <1>3, <2>1, RefinedArm
  <2> QED BY <2>2 DEF Service!Next
<1>4. ASSUME NEW t \in Timer, NEW ns \in Delays,
             oneshot_relative(t, ns) \/ periodic(t, ns)
      PROVE  Service!Next
  <2>1. the_current_time + ns \in Nat /\ hw_time + ns \in Nat
    BY <1>0, TimeServerAssumption
  <2>2. CASE oneshot_relative(t, ns)
    <3>1. /\ SetTimer(t, "RELATIVE", the_current_time + ns, hw_time + ns)
          /\ \A u \in Timer \ {t} : periodic_ns'[u] = periodic_ns[u]
      BY <2>2 DEF oneshot_relative
    <3> QED BY <1>3, <2>1, <3>1
  <2>3. CASE periodic(t, ns)
    <3>1. /\ SetTimer(t, "PERIODIC", the_current_time + ns, hw_time + ns)
          /\ \A u \in Timer \ {t} : periodic_ns'[u] = periodic_ns[u]
      BY <1>0, <2>3 DEF periodic
    <3> QED BY <1>3, <2>1, <3>1
  <2> QED BY <1>4, <2>2, <2>3
<1>5. ASSUME NEW t \in Timer, NEW ns \in Times, oneshot_absolute(t, ns)
      PROVE  Service!Next
  <2>1. ns \in Nat
    BY TimeServerAssumption
  <2> QED BY <1>3, <1>5, <2>1 DEF oneshot_absolute
<1>6. ASSUME NEW t \in Timer, stop(t)
      PROVE  Service!Next
  <2>1. Armed' = [u \in DOMAIN Armed \ {t} |-> Armed[u]]
    BY <1>6, RefinedWithout DEF stop
  <2>2. /\ ~Serving /\ Serving' = Serving
        /\ UNCHANGED <<the_current_time, completed>>
    BY <1>6 DEF stop, Unlocked, Serving
  <2>3. Service!Disarm(t)
    BY <2>1, <2>2 DEF Service!Disarm, Service!Without, Armed, Serving
  <2> QED BY <1>0, <2>3 DEF Service!Next
<1>7. ASSUME NEW c \in Client, ClientCallback(c)
      PROVE  UNCHANGED Service!serviceVars
  BY <1>1, <1>7 DEF ClientCallback, Serving
<1>8. ASSUME NEW c \in Client, _completed(c)
      PROVE  Service!Next
  <2>1. /\ ~Serving /\ Serving' = Serving /\ Armed' = Armed
        /\ completed' = [completed EXCEPT ![c] = {}]
        /\ UNCHANGED the_current_time
    BY <1>8 DEF _completed, Unlocked, Serving, Armed, Active, timerVars
  <2>2. Service!Collect(c)
    BY <2>1 DEF Service!Collect, Armed, Serving
  <2> QED BY <2>2 DEF Service!Next
<1>9. CASE IrqStart
  <2>1. /\ ~Serving /\ Serving' /\ Serving' \in BOOLEAN /\ Armed' = Armed
        /\ the_current_time' = the_current_time + TIMER_PERIOD
        /\ completed' = completed
    BY <1>9 DEF IrqStart, Serving, Armed, Active, timerVars
  <2>2. Serving' = TRUE
    BY <2>1
  <2>3. Service!Tick
    BY <2>1, <2>2 DEF Service!Tick, Armed, Serving
  <2> QED BY <2>3 DEF Service!Next
<1>10. CASE SignalEmit
  BY <1>1, <1>10 DEF SignalEmit, Serving
<1>11. CASE SignalClient
  <2>1. PICK h \in Service!Timer : h = list.head
    <3>1. list.head # NULL
      BY <1>11 DEF SignalClient, TimerInv, HeadDue
    <3> QED BY <1>0, <3>1, ListedFacts
  <2>2. Service!Expire(h)
    BY <1>11, <2>1, RefinedExpire
  <2> QED BY <2>2 DEF Service!Next
<1>12. CASE SignalDone
  <2>1. /\ Serving /\ ~Serving' /\ Serving' \in BOOLEAN /\ Armed' = Armed
        /\ UNCHANGED <<the_current_time, completed>>
    BY <1>12 DEF SignalDone, Serving, Armed, Active, timerVars
  <2>2. Serving' = FALSE
    BY <2>1
  <2>3. \A t \in Active : timeout_time[t] > the_current_time
    <3> SUFFICES ASSUME NEW t \in Active
                 PROVE  timeout_time[t] > the_current_time
      OBVIOUS
    <3>1. list.head # NULL /\ list.head \in Active
      BY <1>0, ListedFacts
    <3>2. timeout_time[list.head] <= timeout_time[t]
      BY <1>0, HeadFirst
    <3>3. ~(timeout_time[list.head] <= the_current_time)
      BY <1>12, <3>1 DEF SignalDone, HeadDue
    <3>4. timeout_time[list.head] \in Nat /\ timeout_time[t] \in Nat
      BY <1>0, <3>1
    <3> QED BY <1>0, <3>2, <3>3, <3>4
  <2>4. \A t \in DOMAIN Armed : Armed[t].due > the_current_time
    BY <2>3 DEF Armed
  <2>5. Service!TickServed
    BY <2>1, <2>2, <2>4 DEF Service!TickServed, Armed, Serving
  <2> QED BY <2>5 DEF Service!Next
<1>13. CASE IrqClear
  BY <1>1, <1>13 DEF IrqClear, Serving
<1>14. CASE IrqUnlock
  BY <1>1, <1>14 DEF IrqUnlock, Serving
<1>15. CASE HwTick
  BY <1>1, <1>15 DEF HwTick, Serving
<1> QED
  BY <1>2, <1>4, <1>5, <1>6, <1>7, <1>8, <1>9, <1>10, <1>11, <1>12, <1>13,
     <1>14, <1>15 DEF Next, IrqStep

(* What a client sees of the two threads, the mutex and the list is a set  *)
(* of deadlines that atomic ticks serve, the earliest first: no call sees  *)
(* half a tick, and a periodic timer is due one period after its deadline, *)
(* however late the tick.                                                  *)
THEOREM TimerServiceImplemented == Spec => ImplementsTimerService
<1>1. Init => TimerInv
  BY TimerInvInit
<1>2. TimerInv /\ [Next]_vars => TimerInv'
  BY TimerInvNext
<1>3. Init => Service!Init
  BY RefinedInit
<1>4. TimerInv /\ [Next]_vars => [Service!Next]_(Service!serviceVars)
  BY RefinedNext
<1> QED
  BY <1>1, <1>2, <1>3, <1>4, PTL
     DEF Spec, ImplementsTimerService, Service!Spec
=============================================================================
