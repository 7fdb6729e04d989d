--------------------------- MODULE CallbackServer ---------------------------
(***************************************************************************)
(* The callback server of svsd: svsSocketServerCallbackHandler and the     *)
(* client thread of src/src/svsCallback.c, run by the select loop          *)
(* svsSocketServerThread of src/src/svsSocket.c.                           *)
(*                                                                         *)
(* Producers (the other servers of svsd) send messages; the callback server*)
(* forwards each of them to every registered application, whose client     *)
(* thread calls a callback function. Applications connect, register and    *)
(* exit at any time; the server notices on its next reads and sends.       *)
(*                                                                         *)
(* A connection is a TCP connection on the loopback interface. The far end *)
(* of an application that exited is "closed" (its end of file is read, a   *)
(* first send is accepted), "reset" (it exited with unread messages: the   *)
(* next operation fails) or "broken" (reads return 0, sends fail with      *)
(* EPIPE). Socket buffers are unbounded, so that sends do not block.       *)
(***************************************************************************)
EXTENDS Integers, Sequences, FiniteSets, SequencesExt

CONSTANTS
    Producers,      \* the servers of svsd that send callback messages
    Apps,           \* the applications
    None,           \* no client, no callback function
    FdMax,          \* descriptors the process may have open: 1..FdMax
    REGISTERED_APPS_MAX, \* entries of app_fds: 10
    MaxMsg          \* bound: messages of the producers in a behaviour

Clients == Producers \cup Apps

Fd == 1..FdMax

listener == 0       \* the listening socket

ASSUME CallbackConstants ==
    /\ Producers \cap Apps = {}
    /\ None \notin Clients
    /\ FdMax \in Nat
    /\ REGISTERED_APPS_MAX \in Nat
    /\ MaxMsg \in Nat

VARIABLES
    link,           \* the clients' ends of their connections
    backlog,        \* connections the server has not accepted
    inq,            \* what each client sent and the server has not read
    conn,           \* the server's open descriptors: the client of each, or None
    master,         \* the descriptors select() waits for, the listener aside
    read_fds,       \* descriptors left to handle in this pass of the select loop
    app_fds,        \* app_fds[0..app_cnt-1]
    fwd,            \* the message being forwarded
    rcv,            \* what each application was sent and has not read
    seen,           \* the messages each application has read
    log,            \* the messages the server forwarded or is forwarding
    since,          \* Len(log) when an application was registered
    nmsg,           \* messages the producers sent so far
    called          \* the callback calls: application, owner of the function

vars == <<link, backlog, inq, conn, master, read_fds, app_fds, fwd, rcv, seen,
          log, since, nmsg, called>>

(* A callback message; cb is the application whose request supplied the    *)
(* callback function, None for messages the devices sent on their own.     *)
Msg == [n : 1..MaxMsg, cb : Apps \cup {None}]

MSG_ID_CB_APP == [n |-> 0, cb |-> None]     \* an application's registration

Idle == [pc |-> "select"]

Init ==
    /\ link = [c \in Clients |-> "out"]
    /\ backlog = <<>>
    /\ inq = [c \in Clients |-> <<>>]
    /\ conn = [i \in Fd |-> None]
    /\ master = {}
    /\ read_fds = {}
    /\ app_fds = <<>>
    /\ fwd = Idle
    /\ rcv = [a \in Apps |-> <<>>]
    /\ seen = [a \in Apps |-> <<>>]
    /\ log = <<>>
    /\ since = [a \in Apps |-> 0]
    /\ nmsg = 0
    /\ called = {}

-----------------------------------------------------------------------------
(* The clients.                                                            *)

(* connect(); an application then registers in a step of its own.          *)
svsSocketClientCreate(c) ==
    /\ link[c] = "out"
    /\ link' = [link EXCEPT ![c] = IF c \in Apps THEN "connected" ELSE "up"]
    /\ backlog' = Append(backlog, c)
    /\ UNCHANGED <<inq, conn, master, read_fds, app_fds, fwd, rcv, seen, log,
                   since, nmsg, called>>

Register(a) ==
    /\ link[a] = "connected"
    /\ link' = [link EXCEPT ![a] = "up"]
    /\ inq' = [inq EXCEPT ![a] = Append(@, MSG_ID_CB_APP)]
    /\ UNCHANGED <<backlog, conn, master, read_fds, app_fds, fwd, rcv, seen,
                   log, since, nmsg, called>>

(* The server still has its end of c's connection.                         *)
Connected(c) == (\E k \in DOMAIN backlog : backlog[k] = c)
                \/ (\E i \in Fd : conn[i] = c)

(* A producer's message; it is lost if the server closed the connection,   *)
(* which is never opened again.                                            *)
svsSocketSendCallback(p) ==
    /\ link[p] = "up"
    /\ nmsg < MaxMsg
    /\ nmsg' = nmsg + 1
    /\ \E f \in {a \in Apps : link[a] # "out"} \cup {None} :
         inq' = IF Connected(p)
                THEN [inq EXCEPT ![p] = Append(@, [n |-> nmsg + 1, cb |-> f])]
                ELSE inq
    /\ UNCHANGED <<link, backlog, conn, master, read_fds, app_fds, fwd, rcv,
                   seen, log, since, called>>

(* svsClientCallbackHandler: read a message and call its callback function,*)
(* or the one the application registered for such messages.                *)
svsClientCallbackHandler(a) ==
    /\ link[a] = "up"
    /\ rcv[a] # <<>>
    /\ LET m == Head(rcv[a])
       IN  /\ seen' = [seen EXCEPT ![a] = Append(@, m)]
           /\ called' = called \cup
                {[app |-> a, fn |-> IF m.cb = None THEN a ELSE m.cb]}
    /\ rcv' = [rcv EXCEPT ![a] = Tail(@)]
    /\ UNCHANGED <<link, backlog, inq, conn, master, read_fds, app_fds, fwd,
                   log, since, nmsg>>

(* An application exits: the kernel closes its connection, and resets it if*)
(* there are unread messages.                                              *)
AppExit(a) ==
    /\ link[a] \in {"connected", "up"}
    /\ link' = [link EXCEPT ![a] = IF rcv[a] = <<>> THEN "closed" ELSE "reset"]
    /\ UNCHANGED <<backlog, inq, conn, master, read_fds, app_fds, fwd, rcv,
                   seen, log, since, nmsg, called>>

-----------------------------------------------------------------------------
(* The select loop.                                                        *)

Gone(c) == link[c] \in {"closed", "reset", "broken"}

Readable(i) ==
    IF i = listener THEN backlog # <<>>
                    ELSE inq[conn[i]] # <<>> \/ Gone(conn[i])

(* select(): with a closed descriptor in master it fails with EBADF and is *)
(* called again, for ever.                                                 *)
Select ==
    /\ fwd = Idle
    /\ read_fds = {}
    /\ \A i \in master : conn[i] # None
    /\ read_fds' = {i \in master \cup {listener} : Readable(i)}
    /\ read_fds' # {}
    /\ UNCHANGED <<link, backlog, inq, conn, master, app_fds, fwd, rcv, seen,
                   log, since, nmsg, called>>

(* The descriptors are handled in increasing order.                        *)
Handling(i) ==
    /\ fwd = Idle
    /\ i \in read_fds
    /\ \A j \in read_fds : i <= j

(* Mutant: the new descriptor is not put into master.                      *)
AcceptUnlisted ==
    /\ Handling(listener)
    /\ \E i \in Fd :
         /\ conn[i] = None
         /\ conn' = [conn EXCEPT ![i] = Head(backlog)]
    /\ backlog' = Tail(backlog)
    /\ read_fds' = read_fds \ {listener}
    /\ UNCHANGED <<link, inq, master, app_fds, fwd, rcv, seen, log, since, nmsg, called>>

Accept ==
    /\ Handling(listener)
    /\ \E i \in Fd :
         /\ conn[i] = None
         /\ conn' = [conn EXCEPT ![i] = Head(backlog)]
         /\ master' = master \cup {i}
    /\ backlog' = Tail(backlog)
    /\ read_fds' = read_fds \ {listener}
    /\ UNCHANGED <<link, inq, app_fds, fwd, rcv, seen, log, since, nmsg, called>>

(* Mutant: the entries behind the removed one are not moved up.            *)
DeregisterNoShift(i) ==
    app_fds' = IF \E k \in DOMAIN app_fds : app_fds[k] = i
               THEN Front(app_fds) ELSE app_fds

(* fnClient(i, NULL, NULL): remove the first entry for i, if any.          *)
Deregister(i) ==
    \/ \E k \in DOMAIN app_fds :
         /\ app_fds[k] = i
         /\ \A j \in 1..k-1 : app_fds[j] # i
         /\ app_fds' = RemoveAt(app_fds, k)
    \/ /\ \A k \in DOMAIN app_fds : app_fds[k] # i
       /\ UNCHANGED app_fds

(* What the loop does after ERR_SOCK_DISC.                                 *)
CloseSocket(i) ==
    /\ Deregister(i)
    /\ conn' = [conn EXCEPT ![i] = None]
    /\ master' = master \ {i}

HasRoom == Len(app_fds) < REGISTERED_APPS_MAX

(* A registration arrives; it is dropped when app_fds is full.             *)
RecvRegistration(i) ==
    /\ Handling(i)
    /\ inq[conn[i]] # <<>>
    /\ Head(inq[conn[i]]) = MSG_ID_CB_APP
    /\ inq' = [inq EXCEPT ![conn[i]] = Tail(@)]
    /\ IF HasRoom
       THEN /\ app_fds' = Append(app_fds, i)
            /\ since' = [since EXCEPT ![conn[i]] = Len(log)]
       ELSE UNCHANGED <<app_fds, since>>
    /\ read_fds' = read_fds \ {i}
    /\ UNCHANGED <<link, backlog, conn, master, fwd, rcv, seen, log, nmsg, called>>

(* A message arrives; it is sent to the registered applications one by one.*)
RecvMessage(i) ==
    /\ Handling(i)
    /\ inq[conn[i]] # <<>>
    /\ Head(inq[conn[i]]) # MSG_ID_CB_APP
    /\ fwd' = [pc |-> "forward", i |-> i, m |-> Head(inq[conn[i]]), k |-> 1,
               rc |-> "ERR_PASS"]
    /\ log' = Append(log, Head(inq[conn[i]]))
    /\ inq' = [inq EXCEPT ![conn[i]] = Tail(@)]
    /\ UNCHANGED <<link, backlog, conn, master, read_fds, app_fds, rcv, seen,
                   since, nmsg, called>>

(* Mutant: the end of file is ignored.                                     *)
RecvDisconnectedIgnored(i) ==
    /\ Handling(i)
    /\ inq[conn[i]] = <<>>
    /\ link[conn[i]] \in {"closed", "broken"}
    /\ read_fds' = read_fds \ {i}
    /\ UNCHANGED <<link, backlog, inq, conn, master, app_fds, fwd, rcv, seen,
                   log, since, nmsg, called>>

(* End of file: ERR_SOCK_DISC from svsSocketRecvMsg.                       *)
RecvDisconnected(i) ==
    /\ Handling(i)
    /\ inq[conn[i]] = <<>>
    /\ link[conn[i]] \in {"closed", "broken"}
    /\ CloseSocket(i)
    /\ read_fds' = read_fds \ {i}
    /\ UNCHANGED <<link, backlog, inq, fwd, rcv, seen, log, since, nmsg, called>>

(* A reset: svsSocketRecvMsg closes the descriptor and returns             *)
(* ERR_SOCK_FAIL, which the loop ignores.                                  *)
RecvFailed(i) ==
    /\ Handling(i)
    /\ inq[conn[i]] = <<>>
    /\ link[conn[i]] = "reset"
    /\ link' = [link EXCEPT ![conn[i]] = "broken"]
    /\ conn' = [conn EXCEPT ![i] = None]
    /\ read_fds' = read_fds \ {i}
    /\ UNCHANGED <<backlog, inq, master, app_fds, fwd, rcv, seen, log, since,
                   nmsg, called>>

-----------------------------------------------------------------------------
(* svsSocketServerCallbackHandler forwards a message.                      *)

(* svsSocketSend to the k-th registered application: its return code, and  *)
(* what it does to the connection.                                         *)
Deliver(a) ==
    \/ /\ link[a] \in {"connected", "up"}
       /\ rcv' = [rcv EXCEPT ![a] = Append(@, fwd.m)]
       /\ fwd' = [fwd EXCEPT !.k = @ + 1, !.rc = "ERR_PASS"]
       /\ UNCHANGED link
    \/ /\ link[a] = "closed"
       /\ fwd' = [fwd EXCEPT !.k = @ + 1, !.rc = "ERR_PASS"]
       /\ \E s \in {"closed", "broken"} : link' = [link EXCEPT ![a] = s]
       /\ UNCHANGED rcv
    \/ /\ link[a] = "reset"
       /\ fwd' = [fwd EXCEPT !.k = @ + 1, !.rc = "ERR_FAIL"]
       /\ link' = [link EXCEPT ![a] = "broken"]
       /\ UNCHANGED rcv
    \/ /\ link[a] = "broken"
       /\ fwd' = [fwd EXCEPT !.k = @ + 1, !.rc = "ERR_SOCK_DISC"]
       /\ UNCHANGED <<link, rcv>>

(* Mutant: the last entry of app_fds is left out.                          *)
MoreAppsButLast == fwd.k < Len(app_fds)

MoreApps == fwd.k <= Len(app_fds)

ForwardOne ==
    /\ fwd # Idle
    /\ MoreApps
    /\ IF conn[app_fds[fwd.k]] = None       \* EBADF
       THEN /\ fwd' = [fwd EXCEPT !.k = @ + 1, !.rc = "ERR_FAIL"]
            /\ UNCHANGED <<link, rcv>>
       ELSE Deliver(conn[app_fds[fwd.k]])
    /\ UNCHANGED <<backlog, inq, conn, master, read_fds, app_fds, seen, log,
                   since, nmsg, called>>

(* Mutant: the application that cannot be reached is closed at once, in the*)
(* middle of the pass over read_fds.                                       *)
ForwardDoneCloseApp ==
    /\ fwd # Idle
    /\ ~MoreApps
    /\ IF fwd.rc = "ERR_SOCK_DISC" THEN CloseSocket(Last(app_fds))
                                   ELSE UNCHANGED <<app_fds, conn, master>>
    /\ fwd' = Idle
    /\ read_fds' = read_fds \ {fwd.i}
    /\ UNCHANGED <<link, backlog, inq, rcv, seen, log, since, nmsg, called>>

(* The handler returns the result of the last send, and ERR_SOCK_DISC makes*)
(* the loop close the connection the message came from.                    *)
ForwardDone ==
    /\ fwd # Idle
    /\ ~MoreApps
    /\ IF fwd.rc = "ERR_SOCK_DISC" THEN CloseSocket(fwd.i)
                                   ELSE UNCHANGED <<app_fds, conn, master>>
    /\ fwd' = Idle
    /\ read_fds' = read_fds \ {fwd.i}
    /\ UNCHANGED <<link, backlog, inq, rcv, seen, log, since, nmsg, called>>

-----------------------------------------------------------------------------
svsSocketServerThread ==
    \/ Select
    \/ Accept
    \/ \E i \in Fd : RecvRegistration(i) \/ RecvMessage(i)
                     \/ RecvDisconnected(i) \/ RecvFailed(i)
    \/ ForwardOne
    \/ ForwardDone

ClientStep ==
    \/ \E c \in Clients : svsSocketClientCreate(c)
    \/ \E p \in Producers : svsSocketSendCallback(p)
    \/ \E a \in Apps : Register(a) \/ svsClientCallbackHandler(a) \/ AppExit(a)

Next == svsSocketServerThread \/ ClientStep

Spec == Init /\ [][Next]_vars

(* The server thread keeps running; nothing is asked of the clients.       *)
FairSpec == Spec /\ WF_vars(svsSocketServerThread)

-----------------------------------------------------------------------------
(* Properties.                                                             *)

LinkState == {"out", "connected", "up", "closed", "reset", "broken"}

(* The state has its type, and app_fds does not outgrow its array.         *)
TypeOK ==
    /\ link \in [Clients -> LinkState]
    /\ backlog \in Seq(Clients)
    /\ inq \in [Clients -> Seq(Msg \cup {MSG_ID_CB_APP})]
    /\ conn \in [Fd -> Clients \cup {None}]
    /\ master \subseteq Fd
    /\ read_fds \subseteq master \cup {listener}
    /\ app_fds \in Seq(Fd)
    /\ Len(app_fds) <= REGISTERED_APPS_MAX
    /\ \/ fwd = Idle
       \/ fwd \in [pc : {"forward"}, i : Fd, m : Msg, k : Nat \ {0},
                   rc : {"ERR_PASS", "ERR_FAIL", "ERR_SOCK_DISC"}]
    /\ rcv \in [Apps -> Seq(Msg)]
    /\ seen \in [Apps -> Seq(Msg)]
    /\ log \in Seq(Msg)
    /\ since \in [Apps -> Nat]
    /\ nmsg \in 0..MaxMsg
    /\ called \subseteq [app : Apps, fn : Apps]

(* Every entry of app_fds is the open connection of an application, watched*)
(* by select (or, after a reset, a closed one), and no application is      *)
(* entered twice: whatever order they come, go and are forwarded to in, a  *)
(* descriptor number that is used again never inherits a registration.     *)
RegisteredOpen ==
    /\ \A k \in DOMAIN app_fds :
          /\ app_fds[k] \in master
          /\ conn[app_fds[k]] \in Apps \cup {None}
    /\ \A j, k \in DOMAIN app_fds : app_fds[j] = app_fds[k] => j = k

(* What makes RegisteredOpen inductive. A client has at most one connection*)
(* and one place in the backlog, and an open descriptor is in master.      *)
OneConnection ==
    /\ \A c \in Clients : link[c] = "out" => ~Connected(c)
    /\ \A j, k \in DOMAIN backlog : backlog[j] = backlog[k] => j = k
    /\ \A k \in DOMAIN backlog : \A i \in Fd : conn[i] # backlog[k]
    /\ \A i, j \in Fd : conn[i] # None /\ conn[i] = conn[j] => i = j
    /\ \A i \in Fd : conn[i] # None => i \in master

(* The descriptors of a pass are open when their turn comes; new ones are  *)
(* accepted before any is closed.                                          *)
PassOpen ==
    /\ \A i \in read_fds \ {listener} : conn[i] # None
    /\ listener \in read_fds => /\ backlog # <<>>
                               /\ \A i \in master : conn[i] # None

(* Producers do not register, an application sends nothing but one         *)
(* registration, and is not on the list before that has been read.         *)
RegistersOnce ==
    /\ \A p \in Producers : inq[p] \in Seq(Msg)
    /\ \A a \in Apps : inq[a] = <<>> \/ inq[a] = <<MSG_ID_CB_APP>>
    /\ \A a \in Apps : link[a] \in {"out", "connected"} => inq[a] = <<>>
    /\ \A k \in DOMAIN app_fds : \A a \in Apps :
          conn[app_fds[k]] = a =>
              inq[a] = <<>> /\ link[a] \notin {"out", "connected"}

(* A message being forwarded came from a producer, whose descriptor is not *)
(* on the list.                                                            *)
FromProducer == fwd # Idle => conn[fwd.i] \in Producers

RegInv == /\ RegisteredOpen
          /\ OneConnection
          /\ PassOpen
          /\ RegistersOnce
          /\ FromProducer

(* How many of the logged messages entry k of app_fds was sent.            *)
SentTo(k) == IF fwd # Idle /\ k >= fwd.k THEN Len(log) - 1 ELSE Len(log)

(* A registered application that has not exited got every message that was *)
(* forwarded since it registered, each once and in order: neither the      *)
(* removal of another application nor a failed send skips it.              *)
Complete ==
    \A k \in DOMAIN app_fds :
        LET a == conn[app_fds[k]]
        IN  a \in Apps /\ link[a] = "up" =>
              seen[a] \o rcv[a] = SubSeq(log, since[a] + 1, SentTo(k))

(* The select loop is stuck: a reset closed a descriptor it still waits    *)
(* for.                                                                    *)
Stuck == \E i \in master : conn[i] = None

(* What a client sent is eventually read, unless its connection was closed *)
(* or the loop is stuck.                                                   *)
Drained ==
    \A c \in Clients :
        inq[c] # <<>> ~> inq[c] = <<>> \/ ~Connected(c) \/ Stuck

(* The connection of an application that exited is eventually closed (and, *)
(* by RegisteredOpen, off the list), unless the loop is stuck.             *)
Deregistered ==
    \A a \in Apps : Gone(a) ~> ~Connected(a) \/ Stuck

-----------------------------------------------------------------------------
(* What a comment in the source says and the code does not guarantee.      *)

(* "If it is one of the application sockets then remove it from the list": *)
(* the server notices the exit of every application.                       *)
ExitNoticed == \A a \in Apps : Gone(a) ~> ~Stuck /\ ~Connected(a)

=============================================================================
