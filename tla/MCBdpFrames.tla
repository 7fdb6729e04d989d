---------------------------- MODULE MCBdpFrames ----------------------------
(* Small instances of BdpFrames for TLC.                                   *)
EXTENDS BdpFrames, TLC

CONSTANTS d1, d2

Req(dev, msg, blocking, callback, timeout) ==
    [dev |-> dev, msg |-> msg, blocking |-> blocking, callback |-> callback,
     timeout |-> timeout]

(* One request of every kind the client library produces.                  *)
AllKinds ==
    { Req(d1, "get", TRUE, FALSE, 1),
      Req(d1, "set", FALSE, TRUE, 1),
      Req(d1, "set", FALSE, TRUE, 0),
      Req(d1, "addr_get", TRUE, FALSE, 1),
      Req(d2, "get", FALSE, FALSE, 1),
      Req(BDP_NUM_ALL, "addr_get", FALSE, FALSE, 0),
      Req(BDP_NUM_ALL, "set", FALSE, TRUE, 0) }

(* Requests that wait for an answer and queue behind each other.           *)
Queueing == { Req(d1, "get", TRUE, FALSE, 1), Req(d1, "set", FALSE, TRUE, 1) }

=============================================================================
