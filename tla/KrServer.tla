------------------------------ MODULE KrServer ------------------------------
(***************************************************************************)
(* The key reader (KR) server of svsd (src/src/svsKr.c) between its clients*)
(* and the serial line, and the scan an application makes of it            *)
(* (svsKrScan, src/src/svsApi.c:2283).                                     *)
(*                                                                         *)
(* One thread runs the handlers, each to its end. A request is written to  *)
(* the line and forgotten: the frame carries the number of the client's    *)
(* socket, a reader's answer brings it back, and that number alone decides *)
(* who gets the answer. FrameRx puts the frames together; here they come   *)
(* whole. A client may leave while its answer is under way, and the next   *)
(* one gets its descriptor.                                                *)
(***************************************************************************)
EXTENDS Integers, Sequences, SequencesExt

CONSTANTS
    KR_MAX,       \* 1
    Readers,      \* addresses of key readers
    Start,        \* the first four octets of an address: a function
    Zero,         \* the address of all zeroes, of an unset reader
    Broadcast,    \* addr_broadcast
    Loop,         \* the address loopback puts for a broadcast
    Fds,          \* descriptors of the server's client sockets
    Owners,       \* applications
    None,         \* no application
    KR_NUM_ALL,
    Msgs,         \* message ids with a request of their own
    ADDR_GET,     \* MSG_ID_KR_ADDR_GET, in Msgs
    MaxRequests,  \* bound: requests, unasked frames and answers to scans
    MaxKrScans    \* bound: scans in a behaviour

Address == Readers \cup {Zero, Broadcast, Loop}

KrConstants ==
    /\ KR_MAX \in Nat \ {0}
    /\ Start \in [Address -> Nat]
    /\ Zero # Broadcast
    /\ {Zero, Broadcast} \cap (Readers \cup {Loop}) = {}
    /\ Fds \subseteq Nat \ {0}
    /\ None \notin Owners
    /\ KR_NUM_ALL \in Nat /\ KR_NUM_ALL >= KR_MAX
    /\ ADDR_GET \in Msgs
    /\ MaxRequests \in Nat
    /\ MaxKrScans \in Nat

VARIABLES
    table,     \* kr_state[..].kr_addr, kr_max of them
    devFd,     \* the serial line is open
    loopback,  \* the configuration's kr:loopback
    conn,      \* the application at each client socket
    asked,     \* message ids the application has asked for there
    inq,       \* requests in each client socket
    line,      \* frames on their way to the readers
    up,        \* frames that have come from the readers
    got,       \* answers sent on each client socket
    called,    \* messages sent to the callback server
    stale,     \* sockets whose number an older connection had
    krScan,    \* svsKrScan in one of the applications
    requests   \* counter of the bound

vars == <<table, devFd, loopback, conn, asked, inq, line, up, got, called,
          stale, krScan, requests>>

svsKrMaxGet == Len(table)

Request == [msg : Msgs, dev : Nat]

Frame == [addr : Address, fd : Int, msg : Msgs, fits : BOOLEAN]

TypeOK ==
    /\ table \in Seq(Address) /\ Len(table) <= KR_MAX
    /\ devFd \in BOOLEAN
    /\ loopback \in BOOLEAN
    /\ conn \in [Fds -> Owners \cup {None}]
    /\ asked \in [Fds -> SUBSET Msgs]
    /\ inq \in [Fds -> Seq(Request)]
    /\ line \in Seq(Frame)
    /\ up \in Seq(Frame)
    /\ got \in [Fds -> SUBSET Msgs]
    /\ called \in SUBSET Msgs
    /\ stale \subseteq Fds
    /\ krScan \in [pc : {"idle", "count", "ask", "sleep"}, old : 0..KR_MAX,
                 max : 0..KR_MAX, cnt : 0..MaxKrScans]
    /\ requests \in 0..MaxRequests

(* svsKrServerInit: a line that cannot be opened is no failure.            *)
svsKrServerInit ==
    /\ table = <<>>
    /\ devFd \in BOOLEAN
    /\ loopback \in BOOLEAN
    /\ called = {}

Init ==
    /\ svsKrServerInit
    /\ conn = [f \in Fds |-> None]
    /\ asked = [f \in Fds |-> {}]
    /\ inq = [f \in Fds |-> <<>>]
    /\ line = <<>>
    /\ up = <<>>
    /\ got = [f \in Fds |-> {}]
    /\ stale = {}
    /\ krScan = [pc |-> "idle", old |-> 0, max |-> 0, cnt |-> 0]
    /\ requests = 0

-----------------------------------------------------------------------------
(* Clients: accept() gives the lowest free descriptor.                     *)

Connect(o) ==
    /\ \A f \in Fds : conn[f] # o
    /\ \E f \in Fds :
          /\ conn[f] = None
          /\ \A g \in Fds : g < f => conn[g] # None
          /\ conn' = [conn EXCEPT ![f] = o]
          /\ asked' = [asked EXCEPT ![f] = {}]
          /\ got' = [got EXCEPT ![f] = {}]
    /\ UNCHANGED <<table, devFd, loopback, inq, line, up, called, stale, krScan,
                   requests>>

(* Answers still under way will go to the socket's next owner.             *)
Disconnect(f) ==
    /\ conn[f] # None
    /\ conn' = [conn EXCEPT ![f] = None]
    /\ inq' = [inq EXCEPT ![f] = <<>>]
    /\ stale' = IF asked[f] = {} THEN stale ELSE stale \cup {f}
    /\ UNCHANGED <<table, devFd, loopback, asked, line, up, got, called, krScan,
                   requests>>

(* A transfer, or one of its ten repetitions.                              *)
Ask(f, m, n) ==
    /\ conn[f] # None
    /\ requests < MaxRequests
    /\ requests' = requests + 1
    /\ asked' = [asked EXCEPT ![f] = @ \cup {m}]
    /\ inq' = [inq EXCEPT ![f] = Append(@, [msg |-> m, dev |-> n])]
    /\ UNCHANGED <<table, devFd, loopback, conn, line, up, got, called, stale,
                   krScan>>

-----------------------------------------------------------------------------
(* The server's handlers.                                                  *)

svsKrVirtualToPhysical(n) ==
    IF n = KR_NUM_ALL THEN Broadcast ELSE table[n + 1]

(* svsDevWrite writes all, or gives up on an error or after 100 tries; a   *)
(* frame that is cut short is lost.                                        *)
svsDevWrite(frame) ==
    \/ line' = Append(line, frame)
    \/ UNCHANGED line

svsKrTx(f, r) ==
    IF ~devFd THEN UNCHANGED line
    ELSE svsDevWrite([addr |-> svsKrVirtualToPhysical(r.dev), fd |-> f,
                      msg |-> r.msg, fits |-> TRUE])

(* A request with a number out of range is dropped without an answer.      *)
svsSocketClientKrHandler(f) ==
    /\ inq[f] # <<>>
    /\ LET r == Head(inq[f])
       IN  IF r.dev # KR_NUM_ALL /\ r.dev >= svsKrMaxGet
           THEN UNCHANGED line
           ELSE svsKrTx(f, r)
    /\ inq' = [inq EXCEPT ![f] = Tail(@)]
    /\ UNCHANGED <<table, devFd, loopback, conn, asked, up, got, called, stale,
                   krScan, requests>>

Valid(a) == a \notin {Zero, Broadcast}

(* Only four of the eight octets are compared; when the table is full, or  *)
(* the address is not valid, it stays as it is.                            *)
svsKrArpTableUpdate(a) ==
    IF /\ Valid(a)
       /\ \A i \in DOMAIN table : Start[table[i]] # Start[a]
       /\ Len(table) < KR_MAX
    THEN Append(table, a) ELSE table

(* The table is not consulted: every valid address is reader 0's.          *)
svsKrPhysicalToVirtual(a) == Valid(a)

(* Mutant: an answer goes to the callback server and to the clients.       *)
DeliverToAll(frame) ==
    /\ got' = [f \in Fds |-> IF conn[f] # None THEN got[f] \cup {frame.msg}
                                               ELSE got[f]]
    /\ called' = called \cup {frame.msg}

(* A frame with a socket number is an answer, one with 0 is a device's own *)
(* message, one with a negative number was not to be answered.             *)
Deliver(frame) ==
    /\ got' = IF frame.fd \in Fds /\ conn[frame.fd] # None
              THEN [got EXCEPT ![frame.fd] = @ \cup {frame.msg}] ELSE got
    /\ called' = IF frame.fd = 0 THEN called \cup {frame.msg} ELSE called

(* The tail of svsKrRx: a whole frame has come. A failed table update is   *)
(* forgotten when the address is looked up; in loopback errors are too.    *)
svsKrRx ==
    /\ up # <<>>
    /\ LET frame == Head(up)
           a == IF loopback /\ frame.addr = Broadcast THEN Loop ELSE frame.addr
       IN  /\ table' = IF frame.msg = ADDR_GET THEN svsKrArpTableUpdate(a)
                                               ELSE table
           /\ IF loopback \/ (svsKrPhysicalToVirtual(a) /\ frame.fits)
              THEN Deliver(frame)
              ELSE UNCHANGED <<got, called>>
    /\ up' = Tail(up)
    /\ UNCHANGED <<devFd, loopback, conn, asked, inq, line, stale, krScan, requests>>

-----------------------------------------------------------------------------
(* The line and the readers.                                               *)

(* Readers answer requests to them and broadcasts, perhaps with a message  *)
(* of another length; in loopback the request itself comes back.           *)
ReaderAnswers ==
    /\ line # <<>>
    /\ LET r == Head(line)
       IN  \/ /\ loopback
              /\ up' = Append(up, r)
           \/ /\ ~loopback
              /\ \E a \in Readers, ok \in BOOLEAN :
                    /\ r.addr \in {a, Broadcast}
                    /\ up' = Append(up, [r EXCEPT !.addr = a, !.fits = ok])
           \/ UNCHANGED up                              \* lost
    /\ line' = Tail(line)
    /\ UNCHANGED <<table, devFd, loopback, conn, asked, inq, got, called, stale,
                   krScan, requests>>

(* A key is read: the reader sends a message nobody asked for.             *)
ReaderSpeaks(a, m) ==
    /\ devFd /\ ~loopback
    /\ requests < MaxRequests
    /\ requests' = requests + 1
    /\ up' = Append(up, [addr |-> a, fd |-> 0, msg |-> m, fits |-> TRUE])
    /\ UNCHANGED <<table, devFd, loopback, conn, asked, inq, line, got, called,
                   stale, krScan>>

-----------------------------------------------------------------------------
(* svsKrScan.                                                              *)

svsKrScan ==
    /\ krScan.pc = "idle"
    /\ krScan.cnt < MaxKrScans
    /\ krScan' = [pc |-> "count", old |-> 0, max |-> 0, cnt |-> krScan.cnt + 1]
    /\ UNCHANGED <<table, devFd, loopback, conn, asked, inq, line, up, got,
                   called, stale, requests>>

svsKrAvailableGet ==
    /\ krScan.pc = "count"
    /\ krScan' \in {[krScan EXCEPT !.old = krScan.max, !.max = svsKrMaxGet, !.pc = "ask"],
                  [krScan EXCEPT !.pc = "idle"]}
    /\ UNCHANGED <<table, devFd, loopback, conn, asked, inq, line, up, got,
                   called, stale, requests>>

(* svsKrAddressGet to KR_NUM_ALL: it is not followed through its client's  *)
(* socket; an answer, its time-out, or a failure that ends the scan.       *)
ScanAddressGet ==
    /\ krScan.pc = "ask"
    /\ \/ /\ krScan' = [krScan EXCEPT !.pc = "sleep"]
          /\ \/ /\ devFd /\ ~loopback
                /\ requests < MaxRequests
                /\ requests' = requests + 1
                /\ \E a \in Readers :
                      up' = Append(up, [addr |-> a, fd |-> -1,
                                        msg |-> ADDR_GET, fits |-> TRUE])
             \/ UNCHANGED <<up, requests>>
       \/ /\ krScan' = [krScan EXCEPT !.pc = "idle"]
          /\ UNCHANGED <<up, requests>>
    /\ UNCHANGED <<table, devFd, loopback, conn, asked, inq, line, got, called,
                   stale>>

(* Another round as long as the count changes.                             *)
ScanAgain == [krScan EXCEPT !.pc = IF krScan.old # krScan.max THEN "count" ELSE "idle"]

ScanSlept ==
    /\ krScan.pc = "sleep"
    /\ krScan' = ScanAgain
    /\ UNCHANGED <<table, devFd, loopback, conn, asked, inq, line, up, got,
                   called, stale, requests>>

-----------------------------------------------------------------------------
Clients ==
    \/ \E o \in Owners : Connect(o)
    \/ \E f \in Fds : Disconnect(f)
    \/ \E f \in Fds, m \in Msgs, n \in 0..KR_MAX \cup {KR_NUM_ALL} : Ask(f, m, n)

Server == svsKrRx \/ \E f \in Fds : svsSocketClientKrHandler(f)

Line == ReaderAnswers \/ \E a \in Readers, m \in Msgs : ReaderSpeaks(a, m)

Scan == svsKrScan \/ svsKrAvailableGet \/ ScanAddressGet \/ ScanSlept

Next == Clients \/ Server \/ Line \/ Scan

Spec == Init /\ [][Next]_vars

(* The scanning thread runs; its transfers end by their time-outs.         *)
FairSpec == Spec /\ WF_vars(svsKrAvailableGet) /\ WF_vars(ScanAddressGet)
                 /\ WF_vars(ScanSlept)

-----------------------------------------------------------------------------
(* A client gets only answers to what it asked for on this connection,     *)
(* unless its descriptor had an earlier owner with a request under way; the*)
(* messages of a reader's own and the answers to others never come there.  *)
OwnAnswers == \A f \in Fds \ stale :
                 conn[f] # None => got[f] \subseteq asked[f]

(* Reader 0 stays the reader that announced itself first, and the table is *)
(* never written behind its end, whatever addresses come.                  *)
TableKept == [][IsPrefix(table, table') /\ Len(table') <= KR_MAX]_vars

(* Every scan ends.                                                        *)
KrScanEnds == krScan.pc # "idle" ~> krScan.pc = "idle"

=============================================================================
