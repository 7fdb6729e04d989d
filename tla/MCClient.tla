------------------------------ MODULE MCClient ------------------------------
(* Small instances of Client for TLC: MCTransfer has the requests.         *)
EXTENDS Client, MCTransfer
=============================================================================
