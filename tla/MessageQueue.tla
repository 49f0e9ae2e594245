---------------------------- MODULE MessageQueue -----------------------------
(***************************************************************************)
(* One message queue of the CAN driver (components/can/src/queue.c), step  *)
(* by step.  The TX queue is pushed by the RPC thread (can_send) and       *)
(* popped by the interrupt callback (transmit_message); the RX queue is    *)
(* pushed by the interrupt callback (receive_message) and popped by the    *)
(* RPC thread (can_recv).  Both run the same code, so the module models    *)
(* one queue with one producer thread and one consumer thread.             *)
(*                                                                         *)
(* The tests for full and for empty read head and tail WITHOUT the lock;   *)
(* the spinlock covers only the memcpy and the index update.  memcpy is    *)
(* not atomic: a slot being written is Torn until the copy is done.        *)
(***************************************************************************)
EXTENDS Naturals, Sequences

CONSTANTS Frame,     \* struct can_frame values
          Torn,      \* a slot or buffer that holds no complete frame
          Size       \* mq_cb.size, MSG_QUEUE_SIZE in dev.c

ASSUME SizeAssumption == Size \in Nat \ {0}
ASSUME TornAssumption == Torn \notin Frame

VARIABLES frames,    \* mq_cb.frames
          head,      \* mq_cb.head
          tail,      \* mq_cb.tail
          lock,      \* mq_cb.lock: "free" or the thread that holds it
          prodPc,    \* where the producer is in tx_queue_push / rx_queue_push
          msg,       \* the producer's argument, *frame
          consPc,    \* where the consumer is in tx_queue_pop / rx_queue_pop
          buf        \* the consumer's buffer, *frame

prodVars == <<prodPc, msg>>
consVars == <<consPc, buf>>
vars == <<frames, head, tail, lock, prodPc, msg, consPc, buf>>

Slots == 0 .. Size - 1

(* Mutant: the index is not wrapped.                                       *)
Advanced_NoWrap(idx) == idx + 1

Advanced(idx) == (idx + 1) % Size

(* Mutant: the test for full does not wrap.                                *)
mq_is_full_NoWrap == tail + 1 = head

mq_is_full == Advanced(tail) = head

mq_is_empty == tail = head

(* mq_init: malloc leaves the slots uninitialised.                         *)
Init ==
  /\ frames = [s \in Slots |-> Torn]
  /\ head = 0
  /\ tail = 0
  /\ lock = "free"
  /\ prodPc = "idle"
  /\ msg = Torn
  /\ consPc = "idle"
  /\ buf = Torn

-----------------------------------------------------------------------------
(* The producer: tx_queue_push, rx_queue_push.                             *)

PushCall ==
  /\ prodPc = "idle"
  /\ prodPc' = "check"
  /\ \E f \in Frame : msg' = f
  /\ UNCHANGED <<frames, head, tail, lock, consVars>>

PushCheck ==
  /\ prodPc = "check"
  /\ prodPc' = IF mq_is_full THEN "rejected" ELSE "lock"
  /\ UNCHANGED <<frames, head, tail, lock, msg, consVars>>

PushLock ==
  /\ prodPc = "lock"
  /\ lock = "free"
  /\ lock' = "producer"
  /\ prodPc' = "copy"
  /\ UNCHANGED <<frames, head, tail, msg, consVars>>

(* Mutant: the frame is published before it is copied.                     *)
PushCopyBegin_TailFirst ==
  /\ prodPc = "copy"
  /\ frames' = [frames EXCEPT ![tail] = Torn]
  /\ tail' = Advanced(tail)
  /\ prodPc' = "copying"
  /\ UNCHANGED <<head, lock, msg, consVars>>

PushCopyBegin ==
  /\ prodPc = "copy"
  /\ frames' = [frames EXCEPT ![tail] = Torn]
  /\ prodPc' = "copying"
  /\ UNCHANGED <<head, tail, lock, msg, consVars>>

PushCopyEnd ==
  /\ prodPc = "copying"
  /\ frames' = [frames EXCEPT ![tail] = msg]
  /\ prodPc' = "advance"
  /\ UNCHANGED <<head, tail, lock, msg, consVars>>

PushAdvance ==
  /\ prodPc = "advance"
  /\ tail' = Advanced(tail)
  /\ prodPc' = "unlock"
  /\ UNCHANGED <<frames, head, lock, msg, consVars>>

PushUnlock ==
  /\ prodPc = "unlock"
  /\ lock' = "free"
  /\ prodPc' = "accepted"
  /\ UNCHANGED <<frames, head, tail, msg, consVars>>

PushReturn ==
  /\ prodPc \in {"accepted", "rejected"}
  /\ prodPc' = "idle"
  /\ msg' = Torn
  /\ UNCHANGED <<frames, head, tail, lock, consVars>>

PushStep ==
  \/ PushCheck \/ PushLock \/ PushCopyBegin \/ PushCopyEnd
  \/ PushAdvance \/ PushUnlock \/ PushReturn

-----------------------------------------------------------------------------
(* The consumer: tx_queue_pop, rx_queue_pop.                               *)

PopCall ==
  /\ consPc = "idle"
  /\ consPc' = "check"
  /\ UNCHANGED <<frames, head, tail, lock, prodVars, buf>>

PopCheck ==
  /\ consPc = "check"
  /\ consPc' = IF mq_is_empty THEN "empty" ELSE "lock"
  /\ UNCHANGED <<frames, head, tail, lock, prodVars, buf>>

PopLock ==
  /\ consPc = "lock"
  /\ lock = "free"
  /\ lock' = "consumer"
  /\ consPc' = "copy"
  /\ UNCHANGED <<frames, head, tail, prodVars, buf>>

PopCopy ==
  /\ consPc = "copy"
  /\ buf' = frames[head]
  /\ consPc' = "advance"
  /\ UNCHANGED <<frames, head, tail, lock, prodVars>>

PopAdvance ==
  /\ consPc = "advance"
  /\ head' = Advanced(head)
  /\ consPc' = "unlock"
  /\ UNCHANGED <<frames, tail, lock, prodVars, buf>>

(* Mutant: the unlock is missing.                                          *)
PopUnlock_Forgotten ==
  /\ consPc = "unlock"
  /\ consPc' = "took"
  /\ UNCHANGED <<frames, head, tail, lock, prodVars, buf>>

PopUnlock ==
  /\ consPc = "unlock"
  /\ lock' = "free"
  /\ consPc' = "took"
  /\ UNCHANGED <<frames, head, tail, prodVars, buf>>

(* The caller is done with its stack buffer when it calls again.           *)
PopReturn ==
  /\ consPc \in {"took", "empty"}
  /\ consPc' = "idle"
  /\ buf' = Torn
  /\ UNCHANGED <<frames, head, tail, lock, prodVars>>

PopStep ==
  \/ PopCheck \/ PopLock \/ PopCopy \/ PopAdvance \/ PopUnlock \/ PopReturn

-----------------------------------------------------------------------------
Next == PushCall \/ PushStep \/ PopCall \/ PopStep

Spec == Init /\ [][Next]_vars

(* Each thread keeps running once it is inside a call; nobody has to call. *)
FairSpec == Spec /\ WF_vars(PushStep) /\ WF_vars(PopStep)

-----------------------------------------------------------------------------
TypeOK ==
  /\ frames \in [Slots -> Frame \cup {Torn}]
  /\ head \in Slots
  /\ tail \in Slots
  /\ lock \in {"free", "producer", "consumer"}
  /\ prodPc \in {"idle", "check", "lock", "copy", "copying", "advance",
                 "unlock", "accepted", "rejected"}
  /\ msg \in Frame \cup {Torn}
  /\ consPc \in {"idle", "check", "lock", "copy", "advance", "unlock",
                 "took", "empty"}
  /\ buf \in Frame \cup {Torn}

(* Number of queued frames, and the slot of the k-th one.                  *)
Count == IF head <= tail THEN tail - head ELSE tail + Size - head

SlotOf(k) == IF head + k - 1 < Size THEN head + k - 1 ELSE head + k - 1 - Size

Queued == [k \in 1 .. Count |-> frames[SlotOf(k)]]

(* Every queued frame is whole: no slot between head and tail is half      *)
(* written, although the producer writes into the ring while the consumer  *)
(* reads it and both tested the indices before they took the lock.         *)
QueuedFramesWhole == \A k \in 1 .. Count : frames[SlotOf(k)] \in Frame

(* A call of either side returns, although both spin on one lock and that  *)
(* lock gives no turn: the other side can take it only as often as the     *)
(* queue has room or frames.                                               *)
CallsReturn ==
  /\ prodPc # "idle" ~> prodPc = "idle"
  /\ consPc # "idle" ~> consPc = "idle"

(* The queue is a bounded FIFO of Size - 1 frames.  A push takes effect    *)
(* when tail moves, a pop when head moves, a refusal at the unlocked test. *)
Fifo == INSTANCE BoundedFifo WITH
          NoFrame <- Torn,
          Capacity <- Size - 1,
          queue <- Queued,
          push <- CASE prodPc = "idle" -> "idle"
                    [] prodPc = "rejected" -> "rejected"
                    [] prodPc \in {"unlock", "accepted"} -> "accepted"
                    [] OTHER -> "calling",
          pop <- CASE consPc = "idle" -> "idle"
                   [] consPc = "empty" -> "empty"
                   [] consPc \in {"unlock", "took"} -> "took"
                   [] OTHER -> "calling",
          out <- IF consPc \in {"unlock", "took"} THEN buf ELSE Torn

(* Refinement: every behaviour of the ring buffer is one of the FIFO.      *)
ImplementsFifo == Fifo!Spec
=============================================================================
