--------------------------- MODULE MCMessageQueue ----------------------------
(* A ring of four slots, hence three frames at a time, two frame values:   *)
(* the queue fills, empties and wraps, and every interleaving of one push  *)
(* and one pop is explored.                                                *)
EXTENDS MessageQueue
=============================================================================
