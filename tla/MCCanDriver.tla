----------------------------- MODULE MCCanDriver -----------------------------
(* Instances of the CAN driver for model checking.                         *)
EXTENDS CanDriver

(* Identifiers of the client's frames: the second is the most urgent.      *)
MCCanId == [n \in 1 .. MaxSend |-> IF n = 2 THEN 1 ELSE n + 1]
=============================================================================
