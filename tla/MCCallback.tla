----------------------------- MODULE MCCallback -----------------------------
(* Small instances of CallbackServer for TLC.                              *)
EXTENDS CallbackServer

CONSTANTS p1, a1, a2

=============================================================================
