------------------------- MODULE MessageQueue_proof --------------------------
(***************************************************************************)
(* For every ring size and every set of frames: the message queue keeps    *)
(* its types, never exposes a half-written frame, and implements the       *)
(* bounded FIFO.                                                           *)
(***************************************************************************)
EXTENDS MessageQueue, SequenceTheorems, TLAPS

(* An index update stays inside the ring.                                  *)
LEMMA AdvancedInRing ==
  ASSUME NEW idx \in Slots
  PROVE  /\ Advanced(idx) = IF idx + 1 = Size THEN 0 ELSE idx + 1
         /\ Advanced(idx) \in Slots
<1>1. Size \in Nat /\ Size > 0 /\ idx \in Nat /\ idx < Size
  BY SizeAssumption DEF Slots
<1>2. CASE idx + 1 = Size
  <2>1. Size % Size = 0
    BY <1>1
  <2> QED BY <1>1, <1>2, <2>1 DEF Advanced, Slots
<1>3. CASE idx + 1 # Size
  <2>1. (idx + 1) % Size = idx + 1
    BY <1>1, <1>3
  <2> QED BY <1>1, <1>3, <2>1 DEF Advanced, Slots
<1> QED BY <1>2, <1>3

-----------------------------------------------------------------------------
(* The inductive invariant.  The two tests are made without the lock, so   *)
(* what they found must survive the other thread's steps: the producer can *)
(* only find more room later, the consumer only more frames.               *)

LockHeld ==
  /\ lock = "producer" <=> prodPc \in {"copy", "copying", "advance", "unlock"}
  /\ lock = "consumer" <=> consPc \in {"copy", "advance", "unlock"}

RoomStays ==
  prodPc \in {"lock", "copy", "copying", "advance"} => Count < Size - 1

FrameStays == consPc \in {"lock", "copy", "advance"} => Count > 0

CopyDone ==
  /\ prodPc # "idle" => msg \in Frame
  /\ prodPc = "advance" => frames[tail] = msg
  /\ consPc = "advance" => buf = frames[head]

IInv ==
  /\ TypeOK
  /\ LockHeld
  /\ RoomStays
  /\ FrameStays
  /\ CopyDone
  /\ QueuedFramesWhole

(* What the indices say about the number of queued frames.                 *)
LEMMA CountFacts ==
  ASSUME TypeOK
  PROVE  /\ Count \in 0 .. Size - 1
         /\ mq_is_full <=> Count = Size - 1
         /\ mq_is_empty <=> Count = 0
         /\ \A k \in 1 .. Count : SlotOf(k) \in Slots /\ SlotOf(k) # tail
         /\ Count > 0 => SlotOf(1) = head
<1>1. Size \in Nat /\ Size > 0 /\ head \in 0 .. Size - 1 /\ tail \in 0 .. Size - 1
  BY SizeAssumption DEF TypeOK, Slots
<1>2. Advanced(tail) = IF tail + 1 = Size THEN 0 ELSE tail + 1
  BY AdvancedInRing DEF TypeOK
<1> QED BY <1>1, <1>2 DEF Count, SlotOf, Slots, mq_is_full, mq_is_empty

(* Moving tail adds the frame in the old tail slot at the end.             *)
LEMMA TailMoves ==
  ASSUME TypeOK, Count < Size - 1, tail' = Advanced(tail), UNCHANGED head
  PROVE  /\ Count' = Count + 1
         /\ \A k \in 1 .. Count : SlotOf(k)' = SlotOf(k)
         /\ \A k : k = Count + 1 => SlotOf(k)' = tail
         /\ tail' \in Slots
<1>1. Size \in Nat /\ Size > 0 /\ head \in 0 .. Size - 1 /\ tail \in 0 .. Size - 1
  BY SizeAssumption DEF TypeOK, Slots
<1>2. /\ Advanced(tail) = IF tail + 1 = Size THEN 0 ELSE tail + 1
      /\ Advanced(tail) \in Slots
  BY AdvancedInRing DEF TypeOK
<1> QED BY <1>1, <1>2 DEF Count, SlotOf

(* Moving head removes the first frame.                                    *)
LEMMA HeadMoves ==
  ASSUME TypeOK, Count > 0, head' = Advanced(head), UNCHANGED tail
  PROVE  /\ Count' = Count - 1
         /\ \A k \in 1 .. Count - 1 : SlotOf(k)' = SlotOf(k + 1)
         /\ head' \in Slots
<1>1. Size \in Nat /\ Size > 0 /\ head \in 0 .. Size - 1 /\ tail \in 0 .. Size - 1
  BY SizeAssumption DEF TypeOK, Slots
<1>2. /\ Advanced(head) = IF head + 1 = Size THEN 0 ELSE head + 1
      /\ Advanced(head) \in Slots
  BY AdvancedInRing DEF TypeOK
<1> QED BY <1>1, <1>2 DEF Count, SlotOf

LEMMA InitIInv == Init => IInv
<1> SUFFICES ASSUME Init PROVE IInv
  OBVIOUS
<1>1. Size \in Nat /\ Size > 0
  BY SizeAssumption
<1>2. TypeOK
  BY <1>1 DEF Init, TypeOK, Slots
<1>3. Count = 0
  BY <1>1 DEF Init, Count
<1> QED BY <1>1, <1>2, <1>3
        DEF Init, IInv, LockHeld, RoomStays, FrameStays, CopyDone, QueuedFramesWhole

(* The steps that move neither index nor a slot keep what is queued.       *)
LEMMA RingUnchanged ==
  ASSUME UNCHANGED <<frames, head, tail>>
  PROVE  /\ Count' = Count
         /\ \A k : SlotOf(k)' = SlotOf(k)
         /\ QueuedFramesWhole => QueuedFramesWhole'
BY DEF Count, SlotOf, QueuedFramesWhole

LEMMA NextIInv == IInv /\ [Next]_vars => IInv'
<1> SUFFICES ASSUME IInv, [Next]_vars PROVE IInv'
  OBVIOUS
<1> USE DEF IInv
<1>a. Size \in Nat /\ Size > 0
  BY SizeAssumption
<1>b. /\ Count \in 0 .. Size - 1
      /\ mq_is_full <=> Count = Size - 1
      /\ mq_is_empty <=> Count = 0
      /\ \A k \in 1 .. Count : SlotOf(k) \in Slots /\ SlotOf(k) # tail
      /\ Count > 0 => SlotOf(1) = head
  BY CountFacts
<1>quiet. ASSUME UNCHANGED <<frames, head, tail>>, TypeOK', LockHeld',
                 prodPc' \in {"lock", "copy", "copying", "advance"} => Count < Size - 1,
                 consPc' \in {"lock", "copy", "advance"} => Count > 0,
                 CopyDone'
          PROVE  IInv'
  <2>1. Count' = Count /\ QueuedFramesWhole'
    BY <1>quiet, RingUnchanged
  <2> QED BY <1>quiet, <2>1 DEF RoomStays, FrameStays
<1>1. CASE PushCall
  BY <1>1, <1>quiet DEF PushCall, consVars, TypeOK, LockHeld, CopyDone, FrameStays
<1>2. CASE PushCheck
  BY <1>2, <1>a, <1>b, <1>quiet
     DEF PushCheck, consVars, TypeOK, LockHeld, CopyDone, FrameStays
<1>3. CASE PushLock
  BY <1>3, <1>quiet
     DEF PushLock, consVars, TypeOK, LockHeld, CopyDone, FrameStays, RoomStays
<1>4. CASE PushCopyBegin
  <2> USE <1>4 DEF PushCopyBegin, consVars
  <2>1. TypeOK'
    BY DEF TypeOK
  <2>2. Count' = Count /\ \A k : SlotOf(k)' = SlotOf(k)
    BY DEF Count, SlotOf
  <2>3. QueuedFramesWhole'
    BY <1>b, <2>2 DEF QueuedFramesWhole, TypeOK
  <2>4. LockHeld' /\ RoomStays' /\ FrameStays'
    BY <2>2 DEF LockHeld, RoomStays, FrameStays
  <2>5. CopyDone'
    BY DEF CopyDone, LockHeld
  <2> QED BY <2>1, <2>3, <2>4, <2>5
<1>5. CASE PushCopyEnd
  <2> USE <1>5 DEF PushCopyEnd, consVars
  <2>1. TypeOK'
    BY DEF TypeOK
  <2>2. Count' = Count /\ \A k : SlotOf(k)' = SlotOf(k)
    BY DEF Count, SlotOf
  <2>3. QueuedFramesWhole'
    BY <1>b, <2>2 DEF QueuedFramesWhole, TypeOK
  <2>4. LockHeld' /\ RoomStays' /\ FrameStays'
    BY <2>2 DEF LockHeld, RoomStays, FrameStays
  <2>5. CopyDone'
    BY DEF CopyDone, LockHeld, TypeOK
  <2> QED BY <2>1, <2>3, <2>4, <2>5
<1>6. CASE PushAdvance
  <2> USE <1>6 DEF PushAdvance, consVars
  <2>1. /\ Count < Size - 1
        /\ frames[tail] \in Frame
    BY DEF RoomStays, CopyDone
  <2>2. /\ Count' = Count + 1
        /\ \A k \in 1 .. Count : SlotOf(k)' = SlotOf(k)
        /\ \A k : k = Count + 1 => SlotOf(k)' = tail
        /\ tail' \in Slots
    BY <2>1, TailMoves
  <2>3. TypeOK'
    BY <2>2 DEF TypeOK
  <2>4. QueuedFramesWhole'
    <3> SUFFICES ASSUME NEW k \in 1 .. Count' PROVE frames[SlotOf(k)'] \in Frame
      BY DEF QueuedFramesWhole
    <3>1. CASE k = Count + 1
      BY <3>1, <2>1, <2>2
    <3>2. CASE k # Count + 1
      <4>1. k \in 1 .. Count
        BY <3>2, <1>b, <2>2
      <4> QED BY <4>1, <2>2 DEF QueuedFramesWhole
    <3> QED BY <3>1, <3>2
  <2>5. LockHeld' /\ RoomStays' /\ FrameStays' /\ CopyDone'
    BY <1>b, <2>2 DEF LockHeld, RoomStays, FrameStays, CopyDone
  <2> QED BY <2>3, <2>4, <2>5
<1>7. CASE PushUnlock
  BY <1>7, <1>quiet
     DEF PushUnlock, consVars, TypeOK, LockHeld, CopyDone, FrameStays
<1>8. CASE PushReturn
  BY <1>8, <1>quiet
     DEF PushReturn, consVars, TypeOK, LockHeld, CopyDone, FrameStays
<1>9. CASE PopCall
  BY <1>9, <1>quiet
     DEF PopCall, prodVars, TypeOK, LockHeld, CopyDone, RoomStays
<1>10. CASE PopCheck
  BY <1>10, <1>a, <1>b, <1>quiet
     DEF PopCheck, prodVars, TypeOK, LockHeld, CopyDone, RoomStays
<1>11. CASE PopLock
  BY <1>11, <1>quiet
     DEF PopLock, prodVars, TypeOK, LockHeld, CopyDone, RoomStays, FrameStays
<1>12. CASE PopCopy
  BY <1>12, <1>quiet
     DEF PopCopy, prodVars, TypeOK, LockHeld, CopyDone, RoomStays, FrameStays
<1>13. CASE PopAdvance
  <2> USE <1>13 DEF PopAdvance, prodVars
  <2>1. Count > 0
    BY DEF FrameStays
  <2>2. /\ Count' = Count - 1
        /\ \A k \in 1 .. Count - 1 : SlotOf(k)' = SlotOf(k + 1)
        /\ head' \in Slots
    BY <2>1, HeadMoves
  <2>3. TypeOK'
    BY <2>2 DEF TypeOK
  <2>4. QueuedFramesWhole'
    <3> SUFFICES ASSUME NEW k \in 1 .. Count' PROVE frames[SlotOf(k)'] \in Frame
      BY DEF QueuedFramesWhole
    <3>1. k \in 1 .. Count - 1 /\ k + 1 \in 1 .. Count
      BY <1>b, <2>2
    <3> QED BY <3>1, <2>2 DEF QueuedFramesWhole
  <2>5. LockHeld' /\ CopyDone'
    BY DEF LockHeld, CopyDone
  <2>6. RoomStays' /\ FrameStays'
    BY <1>a, <1>b, <2>2 DEF RoomStays, FrameStays
  <2> QED BY <2>3, <2>4, <2>5, <2>6
<1>14. CASE PopUnlock
  BY <1>14, <1>quiet
     DEF PopUnlock, prodVars, TypeOK, LockHeld, CopyDone, RoomStays
<1>15. CASE PopReturn
  BY <1>15, <1>quiet
     DEF PopReturn, prodVars, TypeOK, LockHeld, CopyDone, RoomStays
<1>16. CASE UNCHANGED vars
  BY <1>16, <1>quiet
     DEF vars, TypeOK, LockHeld, CopyDone, RoomStays, FrameStays
<1> QED
  BY <1>1, <1>2, <1>3, <1>4, <1>5, <1>6, <1>7, <1>8, <1>9, <1>10, <1>11,
     <1>12, <1>13, <1>14, <1>15, <1>16 DEF Next, PushStep, PopStep

LEMMA Invariance == Spec => []IInv
<1>1. IInv /\ [Next]_vars => IInv'
  BY NextIInv
<1> QED BY InitIInv, <1>1, PTL DEF Spec

(* The indices stay inside the ring and the lock has at most one holder,   *)
(* for every MSG_QUEUE_SIZE (mq_init, dev.c).                              *)
THEOREM TypeCorrect == Spec => []TypeOK
<1>1. IInv => TypeOK
  BY DEF IInv
<1> QED BY Invariance, <1>1, PTL

(* No frame between head and tail is half written, although the tests for  *)
(* room and for frames are made outside the lock (queue.c 105, 130).       *)
THEOREM FramesWhole == Spec => []QueuedFramesWhole
<1>1. IInv => QueuedFramesWhole
  BY DEF IInv
<1> QED BY Invariance, <1>1, PTL

-----------------------------------------------------------------------------
(* Refinement: what each step does to the queued frames.                   *)

LEMMA QueuedIsSeq ==
  IInv => Queued \in Seq(Frame) /\ Len(Queued) = Count
<1> SUFFICES ASSUME IInv PROVE Queued \in Seq(Frame) /\ Len(Queued) = Count
  OBVIOUS
<1>1. Count \in Nat
  BY CountFacts, SizeAssumption DEF IInv
<1>2. Queued \in [1 .. Count -> Frame]
  BY DEF Queued, IInv, QueuedFramesWhole
<1>3. Queued \in Seq(Frame)
  BY <1>1, <1>2
<1> QED BY <1>1, <1>2, <1>3, LenProperties

LEMMA QueuedAppend ==
  ASSUME IInv, IInv', PushAdvance
  PROVE  Queued' = Append(Queued, msg)
<1>1. /\ TypeOK /\ Count < Size - 1 /\ tail' = Advanced(tail) /\ head' = head
      /\ frames' = frames /\ frames[tail] = msg /\ msg \in Frame
  BY DEF PushAdvance, IInv, RoomStays, CopyDone
<1>2. /\ Count' = Count + 1
      /\ \A k \in 1 .. Count : SlotOf(k)' = SlotOf(k)
      /\ \A k : k = Count + 1 => SlotOf(k)' = tail
  BY <1>1, TailMoves
<1>3. Count \in Nat
  BY <1>1, CountFacts, SizeAssumption
<1>4. Queued \in Seq(Frame) /\ Len(Queued) = Count
  BY QueuedIsSeq
<1>5. (Queued \in Seq(Frame) /\ Len(Queued) = Count)'
  BY QueuedIsSeq, PTL
<1>6. /\ Append(Queued, msg) \in Seq(Frame)
      /\ Len(Append(Queued, msg)) = Count + 1
      /\ \A k \in 1 .. Count : Append(Queued, msg)[k] = Queued[k]
      /\ Append(Queued, msg)[Count + 1] = msg
  BY <1>1, <1>4, AppendProperties
<1>7. ASSUME NEW k \in 1 .. Count + 1
      PROVE  Queued'[k] = Append(Queued, msg)[k]
  <2>1. Queued'[k] = frames[SlotOf(k)']
    BY <1>1, <1>2 DEF Queued
  <2>2. CASE k = Count + 1
    BY <2>1, <2>2, <1>1, <1>2, <1>6
  <2>3. CASE k # Count + 1
    <3>1. k \in 1 .. Count
      BY <2>3, <1>3
    <3>2. Queued[k] = frames[SlotOf(k)]
      BY <3>1 DEF Queued
    <3> QED BY <2>1, <3>1, <3>2, <1>2, <1>6
  <2> QED BY <2>2, <2>3
<1> QED BY <1>2, <1>5, <1>6, <1>7, SeqEqual

LEMMA QueuedTail ==
  ASSUME IInv, IInv', PopAdvance
  PROVE  Queued # <<>> /\ Head(Queued) = buf /\ Queued' = Tail(Queued)
<1>1. /\ TypeOK /\ Count > 0 /\ head' = Advanced(head) /\ tail' = tail
      /\ frames' = frames /\ buf = frames[head]
  BY DEF PopAdvance, IInv, FrameStays, CopyDone
<1>2. /\ Count' = Count - 1
      /\ \A k \in 1 .. Count - 1 : SlotOf(k)' = SlotOf(k + 1)
  BY <1>1, HeadMoves
<1>3. Count \in Nat /\ SlotOf(1) = head
  BY <1>1, CountFacts, SizeAssumption
<1>4. Queued \in Seq(Frame) /\ Len(Queued) = Count
  BY QueuedIsSeq
<1>5. (Queued \in Seq(Frame) /\ Len(Queued) = Count)'
  BY QueuedIsSeq, PTL
<1>6. Queued[1] = buf
  BY <1>1, <1>3 DEF Queued
<1>7. /\ Queued # <<>>
      /\ Head(Queued) = Queued[1]
      /\ Tail(Queued) \in Seq(Frame)
      /\ Len(Tail(Queued)) = Count - 1
      /\ \A k \in 1 .. Count - 1 : Tail(Queued)[k] = Queued[k + 1]
  BY <1>1, <1>3, <1>4, HeadTailProperties
<1>8. ASSUME NEW k \in 1 .. Count - 1
      PROVE  Queued'[k] = Tail(Queued)[k]
  <2>1. Queued'[k] = frames[SlotOf(k + 1)]
    BY <1>1, <1>2 DEF Queued
  <2>2. k + 1 \in 1 .. Count
    BY <1>3
  <2> QED BY <2>1, <2>2, <1>7 DEF Queued
<1> QED BY <1>2, <1>5, <1>6, <1>7, <1>8, SeqEqual

(* The steps that move neither index nor a queued frame.                   *)
LEMMA QueuedSame ==
  ASSUME IInv, UNCHANGED <<head, tail>>,
         \A s \in Slots : s # tail => frames'[s] = frames[s]
  PROVE  Queued' = Queued
<1>1. Count' = Count /\ \A k : SlotOf(k)' = SlotOf(k)
  BY DEF Count, SlotOf
<1>2. \A k \in 1 .. Count : frames'[SlotOf(k)] = frames[SlotOf(k)]
  BY CountFacts DEF IInv
<1> QED BY <1>1, <1>2 DEF Queued

LEMMA InitFifo == Init => Fifo!Init
<1> SUFFICES ASSUME Init PROVE Fifo!Init
  OBVIOUS
<1>1. IInv
  BY InitIInv
<1>2. Count = 0
  BY SizeAssumption DEF Init, Count
<1>3. Queued = <<>>
  BY <1>1, <1>2, QueuedIsSeq, EmptySeq
<1> QED BY <1>3 DEF Init, Fifo!Init

LEMMA StepFifo == IInv /\ IInv' /\ [Next]_vars => [Fifo!Next]_(Fifo!vars)
<1> SUFFICES ASSUME IInv, IInv', [Next]_vars PROVE [Fifo!Next]_(Fifo!vars)
  OBVIOUS
<1> USE DEF Fifo!Next, Fifo!vars
<1>a. Queued \in Seq(Frame) /\ Len(Queued) = Count
  BY QueuedIsSeq
<1>b. /\ Count \in 0 .. Size - 1
      /\ mq_is_full <=> Count = Size - 1
      /\ mq_is_empty <=> Count = 0
  BY CountFacts DEF IInv
<1>c. CASE PushCopyBegin \/ PushCopyEnd
  <2>1. Queued' = Queued
    <3>1. \A s \in Slots : s # tail => frames'[s] = frames[s]
      BY <1>c DEF PushCopyBegin, PushCopyEnd, IInv, TypeOK
    <3> QED BY <1>c, <3>1, QueuedSame DEF PushCopyBegin, PushCopyEnd
  <2> QED BY <1>c, <2>1 DEF PushCopyBegin, PushCopyEnd, consVars
<1>d. CASE PushAdvance
  <2>1. Queued' = Append(Queued, msg) /\ msg \in Frame
    BY <1>d, QueuedAppend DEF PushAdvance, IInv, CopyDone
  <2>2. Len(Queued) < Size - 1
    BY <1>d, <1>a DEF PushAdvance, IInv, RoomStays
  <2> QED BY <1>d, <2>1, <2>2 DEF PushAdvance, consVars, Fifo!Accept
<1>e. CASE PopAdvance
  <2>1. Queued # <<>> /\ Head(Queued) = buf /\ Queued' = Tail(Queued)
    BY <1>e, QueuedTail
  <2> QED BY <1>e, <2>1 DEF PopAdvance, prodVars, Fifo!Take
<1>f. CASE UNCHANGED <<frames, head, tail>>
  <2>1. Queued' = Queued
    BY <1>f, QueuedSame
  <2> USE <1>f, <2>1
  <2>2. CASE PushCall
    BY <2>2 DEF PushCall, consVars, Fifo!PushCall
  <2>3. CASE PushCheck
    <3>1. CASE mq_is_full
      BY <2>3, <3>1, <1>a, <1>b DEF PushCheck, consVars, Fifo!Reject
    <3>2. CASE ~mq_is_full
      BY <2>3, <3>2 DEF PushCheck, consVars
    <3> QED BY <3>1, <3>2
  <2>4. CASE PushLock \/ PushCopyBegin \/ PushCopyEnd
    BY <2>4 DEF PushLock, PushCopyBegin, PushCopyEnd, consVars
  <2>5. CASE PushUnlock
    BY <2>5 DEF PushUnlock, consVars
  <2>6. CASE PushReturn
    BY <2>6 DEF PushReturn, consVars, Fifo!PushReturn
  <2>7. CASE PopCall
    BY <2>7 DEF PopCall, prodVars, Fifo!PopCall
  <2>8. CASE PopCheck
    <3>1. CASE mq_is_empty
      <4>1. Queued = <<>>
        BY <3>1, <1>a, <1>b, EmptySeq
      <4> QED BY <2>8, <3>1, <4>1 DEF PopCheck, prodVars, Fifo!FindEmpty
    <3>2. CASE ~mq_is_empty
      BY <2>8, <3>2 DEF PopCheck, prodVars
    <3> QED BY <3>1, <3>2
  <2>9. CASE PopLock \/ PopCopy
    BY <2>9 DEF PopLock, PopCopy, prodVars
  <2>10. CASE PopUnlock
    BY <2>10 DEF PopUnlock, prodVars
  <2>11. CASE PopReturn
    BY <2>11 DEF PopReturn, prodVars, Fifo!PopReturn
  <2>12. CASE UNCHANGED vars
    BY <2>12 DEF vars
  <2>13. CASE PushAdvance \/ PopAdvance
    BY <2>13, <1>d, <1>e
  <2> QED BY <2>2, <2>3, <2>4, <2>5, <2>6, <2>7, <2>8, <2>9, <2>10, <2>11,
             <2>12, <2>13 DEF Next, PushStep, PopStep
<1> QED
  BY <1>c, <1>d, <1>e, <1>f
     DEF Next, PushStep, PopStep, PushCall, PushCheck, PushLock, PushUnlock, PushReturn,
         PopCall, PopCheck, PopLock, PopCopy, PopUnlock, PopReturn, vars

(* The ring buffer with its unlocked tests implements a FIFO of Size - 1   *)
(* frames: nothing is lost, repeated or reordered, tx_queue_push /         *)
(* rx_queue_push return -1 only when the queue is full at the test, and a  *)
(* pop returns NULL only when it is empty at the test.                     *)
THEOREM FifoRefinement == Spec => ImplementsFifo
<1>1. IInv /\ IInv' /\ [Next]_vars => [Fifo!Next]_(Fifo!vars)
  BY StepFifo
<1> QED BY Invariance, InitFifo, <1>1, PTL DEF Spec, Fifo!Spec, ImplementsFifo
=============================================================================
