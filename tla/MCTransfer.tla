----------------------------- MODULE MCTransfer -----------------------------
(* Small instances of ClientTransfer for TLC.                              *)
EXTENDS ClientTransfer

CONSTANTS t1, t2

Req(chan, dev, msg, blocking, callback, timeout) ==
    [chan |-> chan, dev |-> dev, msg |-> msg, blocking |-> blocking,
     callback |-> callback, timeout |-> timeout]

(* Requests to the BDP server: two messages, two devices, with and without *)
(* an answer, a callback or a time-out.                                    *)
BdpKinds ==
    { Req("BDP", 0, "get", TRUE, FALSE, 1), Req("BDP", 0, "set", TRUE, FALSE, 1),
      Req("BDP", 1, "get", TRUE, FALSE, 0), Req("BDP", 0, "set", FALSE, FALSE, 1),
      Req("BDP", 1, "set", FALSE, TRUE, 1),
      Req("BDP", BDP_NUM_ALL, "addr_get", FALSE, FALSE, 0) }

(* ... and to the KR and SVS servers, with a time-out, with                *)
(* TIMEOUT_IMMEDIATE and with TIMEOUT_INFINITE.                            *)
AllKinds ==
    BdpKinds \cup
    { Req("KR", 0, "get", TRUE, FALSE, 1), Req("KR", 0, "set", TRUE, FALSE, 0),
      Req("KR", 0, "set", TRUE, FALSE, -1),
      Req("SVS", 0, "flush", TRUE, FALSE, 1), Req("SVS", 1, "msn", TRUE, FALSE, 1) }

=============================================================================
