------------------------------ MODULE MCBdpArp ------------------------------
(* Small instances of BdpArp for TLC.                                      *)
EXTENDS BdpArp, TLC

CONSTANTS a1, a2, a3

MCBusOf == [a \in Devices |-> IF a = a1 THEN 0 ELSE 1]

=============================================================================
