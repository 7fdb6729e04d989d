--------------------------- MODULE MCPowerManager ---------------------------
(* A small instance of the power manager: two ports, two callers that      *)
(* contradict each other, or one that asks twice.                          *)
EXTENDS PowerManager, TLC
CONSTANTS c1, c2, p1, p2
MCInitPorts == [p \in Port |-> 0]
MCCommands == (c1 :> {[port |-> p1, state |-> 1, wait |-> TRUE]}) @@
              (c2 :> {[port |-> p1, state |-> 0, wait |-> FALSE]})
MCTwice == c1 :> {[port |-> p1, state |-> 1, wait |-> TRUE]}
=============================================================================
