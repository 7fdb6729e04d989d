---------------------------- MODULE DeviceTables ----------------------------
(***************************************************************************)
(* The two device tables of svsd side by side: of the dispensing points    *)
(* (BdpArp) and of the key readers (KrServer).  They share no variable: a  *)
(* behaviour is about one of them, chosen at the start.                    *)
(***************************************************************************)
EXTENDS BdpArp

CONSTANTS
    KR_MAX, Readers, Start, Loop, Fds, Owners, None, KR_NUM_ALL, Msgs, ADDR_GET,
    MaxRequests, MaxKrScans

VARIABLES
    which,          \* "bdp" or "kr"
    table, devFd, loopback, conn, asked, inq, line, up, got, called, stale,
    krScan, requests

Kr == INSTANCE KrServer

ASSUME ArpBounds == Kr!KrConstants

krVars ==
    <<table, devFd, loopback, conn, asked, inq, line, up, got, called, stale,
      krScan, requests>>
allVars == <<which, vars, krVars>>

SumInit ==
    /\ which \in {"bdp", "kr"}
    /\ Init
    /\ Kr!Init
    /\ which = "bdp" => devFd /\ ~loopback

Bdping(A) == which = "bdp" /\ A /\ UNCHANGED <<which, krVars>>

Kring(A) == which = "kr" /\ A /\ UNCHANGED <<which, vars>>

SumNext == Bdping(Next) \/ Kring(Kr!Next)

(* The fairness BdpArp and KrServer state.  One of them moves and a scan   *)
(* is in one place, so that a condition on a disjunction is one on each.   *)
SumSpec ==
    /\ SumInit
    /\ [][SumNext]_allVars
    /\ WF_allVars(Bdping(Noted(ScanFlushed)) \/ Kring(Kr!svsKrAvailableGet))
    /\ WF_allVars(Bdping(Noted(ScanArp)) \/ Kring(Kr!ScanAddressGet))
    /\ WF_allVars(Bdping(Noted(ScanPoll)) \/ Kring(Kr!ScanSlept))
    /\ WF_allVars(Bdping(Noted(ScanRoundOver)))

-----------------------------------------------------------------------------
(* A client of the KR server gets only answers to what it asked for on its *)
(* connection, unless its descriptor had an owner before it: svsKrRx finds *)
(* the client by the number the reader sends back (svsKr.c:737-765).       *)
OwnAnswers == Kr!OwnAnswers

(* The numbers of devices keep naming the same devices: of a BDP until the *)
(* next flush, of the key readers for ever, and no reader goes behind the  *)
(* end of the table (svsKrArpTableUpdate).                                 *)
NumbersKept == NumbersStable /\ Kr!TableKept

(* svsBdpScanForce and svsKrScan end, whatever devices answer and when.    *)
ScansEnd == ScanEnds /\ Kr!KrScanEnds
=============================================================================
