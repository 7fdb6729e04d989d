------------------------------- MODULE MCArp -------------------------------
(* A small instance of DeviceTables for TLC: MCBdpArp has the devices.     *)
EXTENDS DeviceTables, MCBdpArp

CONSTANTS k1, k2

(* Two readers whose addresses begin differently.                          *)
MCStart == [a \in Readers \cup {Zero, Broadcast, Loop} |->
              IF a = k1 THEN 1 ELSE IF a = k2 THEN 2 ELSE 0]

=============================================================================
