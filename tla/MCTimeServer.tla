---------------------------- MODULE MCTimeServer ----------------------------
(* Absolute deadlines beside relative ones: with one relative delay alone  *)
(* every timer would go to the end of the list.  Periods lie on both sides *)
(* of the tick, so that a periodic timer completes twice in a tick or      *)
(* skips one.                                                              *)
EXTENDS TimeServer
=============================================================================
