----------------------------- MODULE BoundedFifo -----------------------------
(***************************************************************************)
(* What a message queue of the CAN driver promises its two callers, with   *)
(* no mention of a ring, an index or a lock: one FIFO of at most Capacity  *)
(* frames, one producer, one consumer.  A call is begun, takes effect at   *)
(* one instant, and returns.  A push is refused only at an instant at      *)
(* which the FIFO is full, a pop comes back empty-handed only at an        *)
(* instant at which it is empty.                                           *)
(***************************************************************************)
EXTENDS Naturals, Sequences

CONSTANTS Frame,     \* the CAN frames
          NoFrame,   \* "no frame handed over"
          Capacity   \* the number of frames the queue can hold

VARIABLES queue,     \* the queued frames, oldest first
          push,      \* how far the producer's call has come
          pop,       \* how far the consumer's call has come
          out        \* the frame the pop in progress is handing over

vars == <<queue, push, pop, out>>

Init ==
  /\ queue = <<>>
  /\ push = "idle"
  /\ pop = "idle"
  /\ out = NoFrame

PushCall ==
  /\ push = "idle"
  /\ push' = "calling"
  /\ UNCHANGED <<queue, pop, out>>

Accept ==
  /\ push = "calling"
  /\ Len(queue) < Capacity
  /\ \E f \in Frame : queue' = Append(queue, f)
  /\ push' = "accepted"
  /\ UNCHANGED <<pop, out>>

Reject ==
  /\ push = "calling"
  /\ Len(queue) = Capacity
  /\ push' = "rejected"
  /\ UNCHANGED <<queue, pop, out>>

PushReturn ==
  /\ push \in {"accepted", "rejected"}
  /\ push' = "idle"
  /\ UNCHANGED <<queue, pop, out>>

PopCall ==
  /\ pop = "idle"
  /\ pop' = "calling"
  /\ UNCHANGED <<queue, push, out>>

Take ==
  /\ pop = "calling"
  /\ queue # <<>>
  /\ out' = Head(queue)
  /\ queue' = Tail(queue)
  /\ pop' = "took"
  /\ UNCHANGED push

FindEmpty ==
  /\ pop = "calling"
  /\ queue = <<>>
  /\ pop' = "empty"
  /\ UNCHANGED <<queue, push, out>>

PopReturn ==
  /\ pop \in {"took", "empty"}
  /\ pop' = "idle"
  /\ out' = NoFrame
  /\ UNCHANGED <<queue, push>>

Next ==
  \/ PushCall \/ Accept \/ Reject \/ PushReturn
  \/ PopCall \/ Take \/ FindEmpty \/ PopReturn

Spec == Init /\ [][Next]_vars
=============================================================================
