----------------------------- MODULE MCCanFilter -----------------------------
(* The client makes every call of CanMode, in any order.  Its requests     *)
(* have a mask in the low byte, which the driver reads back whole, one of  *)
(* all 11 bits, which it reads back short, one of the upper bits only,     *)
(* which it reads back as empty, and one for extended identifiers.         *)
EXTENDS CanFilter

AllCalls == Setups \cup FilterCalls

Std(sid, mask_) ==
  [id |-> [sid |-> sid, eid |-> 0, exide |-> FALSE],
   mask |-> [sid |-> mask_, eid |-> 0]]

Ext(eid, mask_) ==
  [id |-> [sid |-> 0, eid |-> eid, exide |-> TRUE],
   mask |-> [sid |-> 0, eid |-> mask_]]

AllMasks == {Std(1, 255), Std(2, 2047), Std(256, 1792), Ext(1, 255)}
Ranges == {Std(256, 1792), Std(2, 2047)}
=============================================================================
