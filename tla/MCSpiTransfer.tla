--------------------------- MODULE MCSpiTransfer ---------------------------
(* Two threads, an instruction of each shape (a reply at position 1 or 2,  *)
(* a write), transfers of one and of two interrupts, and both kinds of     *)
(* failure.                                                                *)
EXTENDS SpiTransfer
=============================================================================
