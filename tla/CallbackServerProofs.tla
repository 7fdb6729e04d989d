------------------------ MODULE CallbackServerProofs ------------------------
(* Theorems about CallbackServer, for every value of its constants.        *)
EXTENDS CallbackServer, SequenceLemmas, SequenceTheorems, TLAPS

-----------------------------------------------------------------------------
(* The types that several proofs need.                                     *)

(* The types of TypeOK, one by one, with those of the sequences' elements. *)
LEMMA Types ==
    ASSUME TypeOK
    PROVE  /\ link \in [Clients -> LinkState]
           /\ backlog \in Seq(Clients)
           /\ inq \in [Clients -> Seq(Msg \cup {MSG_ID_CB_APP})]
           /\ conn \in [Fd -> Clients \cup {None}]
           /\ master \subseteq Fd
           /\ read_fds \subseteq master \cup {listener}
           /\ app_fds \in Seq(Fd)
           /\ Len(app_fds) \in Nat
           /\ DOMAIN app_fds = 1..Len(app_fds)
           /\ \A k \in 1..Len(app_fds) : app_fds[k] \in Fd
           /\ Len(backlog) \in Nat
           /\ DOMAIN backlog = 1..Len(backlog)
           /\ \A k \in 1..Len(backlog) : backlog[k] \in Clients
           /\ rcv \in [Apps -> Seq(Msg)]
           /\ seen \in [Apps -> Seq(Msg)]
           /\ log \in Seq(Msg)
           /\ since \in [Apps -> Nat]
<1>1. app_fds \in Seq(Fd) /\ backlog \in Seq(Clients)
  BY DEF TypeOK
<1>2. /\ Len(app_fds) \in Nat
      /\ DOMAIN app_fds = 1..Len(app_fds)
      /\ \A k \in 1..Len(app_fds) : app_fds[k] \in Fd
  BY <1>1, LenProperties, ElementOfSeq
<1>3. /\ Len(backlog) \in Nat
      /\ DOMAIN backlog = 1..Len(backlog)
      /\ \A k \in 1..Len(backlog) : backlog[k] \in Clients
  BY <1>1, LenProperties, ElementOfSeq
<1> QED BY <1>1, <1>2, <1>3 DEF TypeOK

LEMMA FdIsNat == Fd \subseteq Nat \ {0} /\ listener \notin Fd
BY CallbackConstants DEF Fd, listener

(* Removing the entry of a descriptor leaves the others in their order.    *)
LEMMA DeregisterProperties ==
    ASSUME TypeOK, NEW i \in Fd, Deregister(i)
    PROVE  /\ app_fds' \in Seq(Fd)
           /\ Len(app_fds') \in Nat
           /\ Len(app_fds') <= Len(app_fds)
           /\ DOMAIN app_fds' = 1..Len(app_fds')
           /\ \/ app_fds' = app_fds /\ \A k \in 1..Len(app_fds) : app_fds[k] # i
              \/ \E k \in 1..Len(app_fds) :
                    /\ app_fds[k] = i
                    /\ Len(app_fds') = Len(app_fds) - 1
                    /\ \A j \in 1..Len(app_fds') :
                          app_fds'[j] = IF j < k THEN app_fds[j] ELSE app_fds[j+1]
<1>0. /\ app_fds \in Seq(Fd)
      /\ Len(app_fds) \in Nat
      /\ DOMAIN app_fds = 1..Len(app_fds)
  BY Types
<1>1. CASE \A k \in DOMAIN app_fds : app_fds[k] # i
  <2>1. app_fds' = app_fds
    BY <1>1 DEF Deregister
  <2>2. \A k \in 1..Len(app_fds) : app_fds[k] # i
    BY <1>0, <1>1
  <2>3. /\ app_fds' \in Seq(Fd)
        /\ Len(app_fds') \in Nat
        /\ Len(app_fds') <= Len(app_fds)
        /\ DOMAIN app_fds' = 1..Len(app_fds')
    BY <1>0, <2>1
  <2> QED BY <2>1, <2>2, <2>3
<1>2. CASE ~\A k \in DOMAIN app_fds : app_fds[k] # i
  <2>1. PICK k \in DOMAIN app_fds : /\ app_fds[k] = i
                                    /\ app_fds' = RemoveAt(app_fds, k)
    BY <1>2 DEF Deregister
  <2>2. /\ app_fds' \in Seq(Fd)
        /\ Len(app_fds') = Len(app_fds) - 1
        /\ \A j \in 1..Len(app_fds)-1 :
              app_fds'[j] = IF j < k THEN app_fds[j] ELSE app_fds[j+1]
    BY <1>0, <2>1, RemoveAtProperties
  <2>3. Len(app_fds') \in Nat /\ DOMAIN app_fds' = 1..Len(app_fds')
    BY <2>2, LenProperties
  <2> QED BY <1>0, <2>1, <2>2, <2>3
<1> QED BY <1>1, <1>2

-----------------------------------------------------------------------------
(* Type correctness.                                                       *)

LEMMA CloseSocketType ==
    ASSUME TypeOK, NEW i \in Fd, CloseSocket(i)
    PROVE  /\ app_fds' \in Seq(Fd)
           /\ Len(app_fds') <= REGISTERED_APPS_MAX
           /\ conn' \in [Fd -> Clients \cup {None}]
           /\ master' \subseteq Fd
           /\ read_fds \ {i} \subseteq master' \cup {listener}
<1>1. Deregister(i)
  BY DEF CloseSocket
<1>2. /\ app_fds' \in Seq(Fd)
      /\ Len(app_fds') \in Nat
      /\ Len(app_fds') <= Len(app_fds)
  BY <1>1, DeregisterProperties
<1>3. Len(app_fds') <= REGISTERED_APPS_MAX
  BY <1>2, Types, CallbackConstants DEF TypeOK
<1>4. conn' \in [Fd -> Clients \cup {None}]
  BY Types DEF CloseSocket
<1>5. /\ master' \subseteq Fd
      /\ read_fds \ {i} \subseteq master' \cup {listener}
  BY Types DEF CloseSocket
<1> QED BY <1>2, <1>3, <1>4, <1>5

(* A descriptor handled in this pass is the open one of a client.          *)
LEMMA HandlingFd ==
    ASSUME TypeOK, PassOpen, NEW i \in Fd, Handling(i)
    PROVE  /\ i \in read_fds
           /\ i \in master
           /\ conn[i] \in Clients
           /\ listener \notin read_fds
<1>1. i \in read_fds /\ \A j \in read_fds : i <= j
  BY DEF Handling
<1>2. i \in master /\ i # listener
  BY <1>1, Types, FdIsNat
<1>3. conn[i] \in Clients
  BY <1>1, <1>2, Types DEF PassOpen
<1>4. listener \notin read_fds
  BY <1>1, FdIsNat DEF listener
<1> QED BY <1>1, <1>2, <1>3, <1>4

Forwarding == [pc : {"forward"}, i : Fd, m : Msg, k : Nat \ {0},
               rc : {"ERR_PASS", "ERR_FAIL", "ERR_SOCK_DISC"}]

(* The state of a forward after one more application.                      *)
LEMMA ForwardingStep ==
    ASSUME NEW f \in Forwarding, NEW e \in {"ERR_PASS", "ERR_FAIL", "ERR_SOCK_DISC"}
    PROVE  [f EXCEPT !.k = @ + 1, !.rc = e] \in Forwarding
<1>1. f.k + 1 \in Nat \ {0}
  BY DEF Forwarding
<1>2. [f EXCEPT !.k = f.k + 1] \in Forwarding
  BY <1>1 DEF Forwarding
<1> QED BY <1>1, <1>2 DEF Forwarding

LEMMA TypeStep ==
    ASSUME TypeOK, RegInv, [Next]_vars
    PROVE  TypeOK'
<1> USE Types
<1>0. MSG_ID_CB_APP \in Msg \cup {MSG_ID_CB_APP} /\ Apps \subseteq Clients
  BY DEF Clients
<1>1. ASSUME NEW c \in Clients, svsSocketClientCreate(c)
      PROVE  TypeOK'
  <2>1. link' \in [Clients -> LinkState]
    BY <1>1 DEF svsSocketClientCreate, LinkState
  <2>2. backlog' \in Seq(Clients)
    BY <1>1, AppendProperties DEF svsSocketClientCreate
  <2> QED BY <1>1, <2>1, <2>2 DEF TypeOK, svsSocketClientCreate
<1>2. ASSUME NEW a \in Apps, Register(a)
      PROVE  TypeOK'
  <2>1. link' \in [Clients -> LinkState]
    BY <1>0, <1>2 DEF Register, LinkState
  <2>2. Append(inq[a], MSG_ID_CB_APP) \in Seq(Msg \cup {MSG_ID_CB_APP})
    BY <1>0, AppendProperties
  <2>3. inq' \in [Clients -> Seq(Msg \cup {MSG_ID_CB_APP})]
    BY <1>0, <1>2, <2>2 DEF Register
  <2> QED BY <1>2, <2>1, <2>3 DEF TypeOK, Register
<1>3. ASSUME NEW p \in Producers, svsSocketSendCallback(p)
      PROVE  TypeOK'
  <2>1. p \in Clients /\ nmsg \in Nat /\ nmsg' \in 0..MaxMsg /\ nmsg + 1 \in 1..MaxMsg
    <3>1. nmsg \in 0..MaxMsg
      BY DEF TypeOK
    <3>2. nmsg < MaxMsg /\ nmsg' = nmsg + 1
      BY <1>3 DEF svsSocketSendCallback
    <3> QED BY <3>1, <3>2, CallbackConstants DEF Clients
  <2>2. PICK f \in Apps \cup {None} :
          inq' = IF Connected(p)
                 THEN [inq EXCEPT ![p] = Append(@, [n |-> nmsg + 1, cb |-> f])]
                 ELSE inq
    BY <1>3 DEF svsSocketSendCallback
  <2>3. [n |-> nmsg + 1, cb |-> f] \in Msg
    BY <2>1 DEF Msg
  <2>4. Append(inq[p], [n |-> nmsg + 1, cb |-> f]) \in Seq(Msg \cup {MSG_ID_CB_APP})
    BY <2>1, <2>3, AppendProperties
  <2>5. inq' \in [Clients -> Seq(Msg \cup {MSG_ID_CB_APP})]
    BY <2>1, <2>2, <2>4
  <2> QED BY <1>3, <2>1, <2>5 DEF TypeOK, svsSocketSendCallback
<1>4. ASSUME NEW a \in Apps, svsClientCallbackHandler(a)
      PROVE  TypeOK'
  <2>1. /\ rcv[a] \in Seq(Msg)
        /\ Head(rcv[a]) \in Msg
        /\ Tail(rcv[a]) \in Seq(Msg)
    BY <1>4, HeadTailProperties DEF svsClientCallbackHandler
  <2>2. rcv' \in [Apps -> Seq(Msg)]
    BY <1>4, <2>1 DEF svsClientCallbackHandler
  <2>3. Append(seen[a], Head(rcv[a])) \in Seq(Msg)
    BY <2>1, AppendProperties
  <2>4. seen' \in [Apps -> Seq(Msg)]
    BY <1>4, <2>3 DEF svsClientCallbackHandler
  <2>5. Head(rcv[a]).cb \in Apps \cup {None}
    BY <2>1 DEF Msg
  <2>6. called' \subseteq [app : Apps, fn : Apps]
    BY <1>4, <2>5 DEF TypeOK, svsClientCallbackHandler
  <2> QED BY <1>4, <2>2, <2>4, <2>6 DEF TypeOK, svsClientCallbackHandler
<1>5. ASSUME NEW a \in Apps, AppExit(a)
      PROVE  TypeOK'
  <2>1. link' \in [Clients -> LinkState]
    BY <1>0, <1>5 DEF AppExit, LinkState
  <2> QED BY <1>5, <2>1 DEF TypeOK, AppExit
<1>6. CASE Select
  <2>1. read_fds' \subseteq master \cup {listener}
    BY <1>6 DEF Select
  <2> QED BY <1>6, <2>1 DEF TypeOK, Select
<1>7. CASE Accept
  <2>1. backlog # <<>>
    BY <1>7 DEF Accept, Handling, RegInv, PassOpen
  <2>2. Head(backlog) \in Clients /\ Tail(backlog) \in Seq(Clients)
    BY <2>1, HeadTailProperties
  <2>3. /\ conn' \in [Fd -> Clients \cup {None}]
        /\ master \subseteq master'
        /\ master' \subseteq Fd
    BY <1>7, <2>2 DEF Accept
  <2>4. read_fds' \subseteq master' \cup {listener}
    BY <1>7, <2>3 DEF Accept
  <2> QED BY <1>7, <2>2, <2>3, <2>4 DEF TypeOK, Accept
<1>8. ASSUME NEW i \in Fd, RecvRegistration(i)
      PROVE  TypeOK'
  <2>1. i \in read_fds /\ conn[i] \in Clients
    BY <1>8, HandlingFd DEF RecvRegistration, RegInv
  <2>2. Tail(inq[conn[i]]) \in Seq(Msg \cup {MSG_ID_CB_APP})
    BY <1>8, <2>1, HeadTailProperties DEF RecvRegistration
  <2>3. inq' \in [Clients -> Seq(Msg \cup {MSG_ID_CB_APP})]
    BY <1>8, <2>1, <2>2 DEF RecvRegistration
  <2>4. read_fds' \subseteq master' \cup {listener}
    BY <1>8 DEF RecvRegistration
  <2>5. app_fds' \in Seq(Fd) /\ Len(app_fds') <= REGISTERED_APPS_MAX
    <3>1. CASE HasRoom
      <4>1. app_fds' = Append(app_fds, i)
        BY <1>8, <3>1 DEF RecvRegistration
      <4>2. app_fds' \in Seq(Fd) /\ Len(app_fds') = Len(app_fds) + 1
        BY <4>1, AppendProperties
      <4> QED BY <3>1, <4>2, CallbackConstants DEF HasRoom
    <3>2. CASE ~HasRoom
      BY <1>8, <3>2 DEF RecvRegistration, TypeOK
    <3> QED BY <3>1, <3>2
  <2>6. since' \in [Apps -> Nat]
    <3>1. Len(log) \in Nat
      BY LenProperties
    <3> QED BY <1>8, <3>1 DEF RecvRegistration
  <2> QED BY <1>8, <2>3, <2>4, <2>5, <2>6 DEF TypeOK, RecvRegistration
<1>9. ASSUME NEW i \in Fd, RecvMessage(i)
      PROVE  TypeOK'
  <2>1. conn[i] \in Clients
    BY <1>9, HandlingFd DEF RecvMessage, RegInv
  <2>2. /\ Tail(inq[conn[i]]) \in Seq(Msg \cup {MSG_ID_CB_APP})
        /\ Head(inq[conn[i]]) \in Msg \cup {MSG_ID_CB_APP}
    BY <1>9, <2>1, HeadTailProperties DEF RecvMessage
  <2>3. inq' \in [Clients -> Seq(Msg \cup {MSG_ID_CB_APP})]
    BY <1>9, <2>1, <2>2 DEF RecvMessage
  <2>4. Head(inq[conn[i]]) \in Msg
    BY <1>9, <2>2 DEF RecvMessage
  <2>5. log' \in Seq(Msg)
    BY <1>9, <2>4, AppendProperties DEF RecvMessage
  <2>6. fwd' \in [pc : {"forward"}, i : Fd, m : Msg, k : Nat \ {0},
                  rc : {"ERR_PASS", "ERR_FAIL", "ERR_SOCK_DISC"}]
    BY <1>9, <2>4 DEF RecvMessage
  <2> QED BY <1>9, <2>3, <2>5, <2>6 DEF TypeOK, RecvMessage
<1>10. ASSUME NEW i \in Fd, RecvDisconnected(i)
       PROVE  TypeOK'
  <2>1. CloseSocket(i) /\ read_fds' = read_fds \ {i}
    BY <1>10 DEF RecvDisconnected
  <2>2. /\ app_fds' \in Seq(Fd)
        /\ Len(app_fds') <= REGISTERED_APPS_MAX
        /\ conn' \in [Fd -> Clients \cup {None}]
        /\ master' \subseteq Fd
        /\ read_fds' \subseteq master' \cup {listener}
    BY <2>1, CloseSocketType
  <2> QED BY <1>10, <2>2 DEF TypeOK, RecvDisconnected
<1>11. ASSUME NEW i \in Fd, RecvFailed(i)
       PROVE  TypeOK'
  <2>1. conn[i] \in Clients
    BY <1>11, HandlingFd DEF RecvFailed, RegInv
  <2>2. link' \in [Clients -> LinkState]
    BY <1>11, <2>1 DEF RecvFailed, LinkState
  <2>3. conn' \in [Fd -> Clients \cup {None}] /\ read_fds' \subseteq master' \cup {listener}
    BY <1>11 DEF RecvFailed
  <2> QED BY <1>11, <2>2, <2>3 DEF TypeOK, RecvFailed
<1>12. CASE ForwardOne
  <2>1. /\ fwd \in [pc : {"forward"}, i : Fd, m : Msg, k : Nat \ {0},
                    rc : {"ERR_PASS", "ERR_FAIL", "ERR_SOCK_DISC"}]
        /\ fwd.k \in 1..Len(app_fds)
    <3>1. fwd \in [pc : {"forward"}, i : Fd, m : Msg, k : Nat \ {0},
                   rc : {"ERR_PASS", "ERR_FAIL", "ERR_SOCK_DISC"}]
      BY <1>12 DEF ForwardOne, TypeOK
    <3> QED BY <1>12, <3>1 DEF ForwardOne, MoreApps
  <2>2. ASSUME NEW e \in {"ERR_PASS", "ERR_FAIL", "ERR_SOCK_DISC"},
               fwd' = [fwd EXCEPT !.k = @ + 1, !.rc = e]
        PROVE  fwd' \in [pc : {"forward"}, i : Fd, m : Msg, k : Nat \ {0},
                         rc : {"ERR_PASS", "ERR_FAIL", "ERR_SOCK_DISC"}]
    BY <2>1, <2>2, ForwardingStep DEF Forwarding
  <2>3. CASE conn[app_fds[fwd.k]] = None
    <3>1. fwd' = [fwd EXCEPT !.k = @ + 1, !.rc = "ERR_FAIL"]
      BY <1>12, <2>3 DEF ForwardOne
    <3> QED BY <1>12, <2>2, <2>3, <3>1 DEF TypeOK, ForwardOne
  <2>4. CASE conn[app_fds[fwd.k]] # None
    <3> DEFINE a == conn[app_fds[fwd.k]]
    <3>1. a \in Apps
      BY <2>1, <2>4 DEF RegInv, RegisteredOpen
    <3>2. Deliver(a)
      BY <1>12, <2>4 DEF ForwardOne
    <3>3. fwd' \in [pc : {"forward"}, i : Fd, m : Msg, k : Nat \ {0},
                    rc : {"ERR_PASS", "ERR_FAIL", "ERR_SOCK_DISC"}]
      BY <2>2, <3>2 DEF Deliver
    <3>4. link' \in [Clients -> LinkState]
      BY <1>0, <3>1, <3>2 DEF Deliver, LinkState
    <3>5. Append(rcv[a], fwd.m) \in Seq(Msg)
      BY <2>1, <3>1, AppendProperties
    <3> HIDE DEF a
    <3>6. rcv' \in [Apps -> Seq(Msg)]
      BY <3>1, <3>2, <3>5 DEF Deliver
    <3> QED BY <1>12, <3>3, <3>4, <3>6 DEF TypeOK, ForwardOne
  <2> QED BY <2>3, <2>4
<1>13. CASE ForwardDone
  <2>1. fwd.i \in Fd /\ read_fds' = read_fds \ {fwd.i} /\ fwd' = Idle
    BY <1>13 DEF ForwardDone, TypeOK
  <2>2. /\ app_fds' \in Seq(Fd)
        /\ Len(app_fds') <= REGISTERED_APPS_MAX
        /\ conn' \in [Fd -> Clients \cup {None}]
        /\ master' \subseteq Fd
        /\ read_fds' \subseteq master' \cup {listener}
    <3>1. CASE fwd.rc = "ERR_SOCK_DISC"
      BY <1>13, <2>1, <3>1, CloseSocketType DEF ForwardDone
    <3>2. CASE fwd.rc # "ERR_SOCK_DISC"
      BY <1>13, <2>1, <3>2 DEF ForwardDone, TypeOK
    <3> QED BY <3>1, <3>2
  <2> QED BY <1>13, <2>1, <2>2 DEF TypeOK, ForwardDone
<1>14. CASE UNCHANGED vars
  BY <1>14 DEF vars, TypeOK
<1> QED BY <1>1, <1>2, <1>3, <1>4, <1>5, <1>6, <1>7, <1>8, <1>9, <1>10, <1>11,
           <1>12, <1>13, <1>14
        DEF Next, svsSocketServerThread, ClientStep

-----------------------------------------------------------------------------
(* The invariant behind RegisteredOpen.                                    *)

LEMMA InitInv == Init => TypeOK /\ RegInv
<1> SUFFICES ASSUME Init PROVE TypeOK /\ RegInv
  OBVIOUS
<1> USE DEF Init
<1>1. <<>> \in Seq(Clients) /\ <<>> \in Seq(Fd) /\ <<>> \in Seq(Msg)
      /\ <<>> \in Seq(Msg \cup {MSG_ID_CB_APP}) /\ Len(<<>>) = 0
      /\ DOMAIN <<>> = {}
  BY EmptySeq
<1>2. TypeOK
  BY <1>1, CallbackConstants DEF TypeOK, LinkState
<1>3. RegisteredOpen /\ PassOpen /\ FromProducer
  BY <1>1 DEF RegisteredOpen, PassOpen, FromProducer
<1>4. OneConnection
  BY <1>1, CallbackConstants DEF OneConnection, Connected
<1>5. RegistersOnce
  BY <1>1 DEF RegistersOnce, Clients
<1> QED BY <1>2, <1>3, <1>4, <1>5 DEF RegInv

(* RegInv sees only these variables.                                       *)
LEMMA RegInvStable ==
    ASSUME RegInv,
           UNCHANGED <<link, backlog, inq, conn, master, read_fds, app_fds, fwd>>
    PROVE  RegInv'
BY DEF RegInv, RegisteredOpen, OneConnection, Connected, PassOpen, RegistersOnce,
       FromProducer

(* Only the links change, and none of them back to a state before          *)
(* registration.                                                           *)
LEMMA LinkStep ==
    ASSUME TypeOK, RegInv, NEW c \in Clients, NEW s \in LinkState \ {"out", "connected"},
           link[c] # "out",
           link' = [link EXCEPT ![c] = s],
           UNCHANGED <<backlog, inq, conn, master, read_fds, app_fds>>,
           fwd' # Idle => fwd # Idle /\ fwd'.i = fwd.i
    PROVE  RegInv'
<1> USE Types
<1>1. RegisteredOpen' /\ PassOpen' /\ FromProducer'
  BY DEF RegInv, RegisteredOpen, PassOpen, FromProducer
<1>2. OneConnection'
  BY DEF RegInv, OneConnection, Connected
<1>3. RegistersOnce'
  BY DEF RegInv, RegistersOnce, Clients
<1> QED BY <1>1, <1>2, <1>3 DEF RegInv

(* Closing a connection that is not, or no longer, on the list.            *)
LEMMA CloseStep ==
    ASSUME TypeOK, RegInv, NEW i \in Fd, CloseSocket(i),
           read_fds' = read_fds \ {i},
           fwd' = Idle,
           UNCHANGED <<link, backlog, inq>>
    PROVE  RegInv'
<1> USE Types
<1>1. Deregister(i) /\ conn' = [conn EXCEPT ![i] = None] /\ master' = master \ {i}
  BY DEF CloseSocket
<1>2. /\ app_fds' \in Seq(Fd)
      /\ Len(app_fds') \in Nat
      /\ DOMAIN app_fds' = 1..Len(app_fds')
      /\ Len(app_fds') <= Len(app_fds)
      /\ \/ app_fds' = app_fds /\ \A k \in 1..Len(app_fds) : app_fds[k] # i
         \/ \E k \in 1..Len(app_fds) :
               /\ app_fds[k] = i
               /\ Len(app_fds') = Len(app_fds) - 1
               /\ \A j \in 1..Len(app_fds') :
                     app_fds'[j] = IF j < k THEN app_fds[j] ELSE app_fds[j+1]
  BY <1>1, DeregisterProperties
<1>3. \A j, k \in 1..Len(app_fds) : app_fds[j] = app_fds[k] => j = k
  BY DEF RegInv, RegisteredOpen
<1>4. /\ \A j \in 1..Len(app_fds') : \E k \in 1..Len(app_fds) :
            app_fds'[j] = app_fds[k] /\ app_fds[k] # i
      /\ \A j, k \in 1..Len(app_fds') : app_fds'[j] = app_fds'[k] => j = k
  <2>1. CASE app_fds' = app_fds /\ \A k \in 1..Len(app_fds) : app_fds[k] # i
    BY <1>3, <2>1
  <2>2. ASSUME NEW k \in 1..Len(app_fds),
               app_fds[k] = i,
               Len(app_fds') = Len(app_fds) - 1,
               \A j \in 1..Len(app_fds') :
                  app_fds'[j] = IF j < k THEN app_fds[j] ELSE app_fds[j+1]
        PROVE  /\ \A j \in 1..Len(app_fds') : \E l \in 1..Len(app_fds) :
                     app_fds'[j] = app_fds[l] /\ app_fds[l] # i
               /\ \A j, l \in 1..Len(app_fds') : app_fds'[j] = app_fds'[l] => j = l
    <3> DEFINE old(j) == IF j < k THEN j ELSE j + 1
    <3>1. \A j \in 1..Len(app_fds') : /\ old(j) \in 1..Len(app_fds)
                                      /\ old(j) # k
                                      /\ app_fds'[j] = app_fds[old(j)]
      BY <1>2, <2>2
    <3>2. \A j, l \in 1..Len(app_fds') : old(j) = old(l) => j = l
      BY <1>2, <2>2
    <3> HIDE DEF old
    <3>3. ASSUME NEW j \in 1..Len(app_fds')
          PROVE  \E l \in 1..Len(app_fds) :
                    app_fds'[j] = app_fds[l] /\ app_fds[l] # i
      BY <1>3, <2>2, <3>1, <3>3
    <3>4. ASSUME NEW j \in 1..Len(app_fds'), NEW l \in 1..Len(app_fds'),
                 app_fds'[j] = app_fds'[l]
          PROVE  j = l
      BY <1>3, <3>1, <3>2, <3>4
    <3> QED BY <3>3, <3>4
  <2> QED BY <1>2, <2>1, <2>2
<1>5. RegisteredOpen'
  <2>1. \A k \in 1..Len(app_fds) :
          /\ app_fds[k] \in master
          /\ conn[app_fds[k]] \in Apps \cup {None}
    BY DEF RegInv, RegisteredOpen
  <2>2. \A j \in 1..Len(app_fds') :
          /\ app_fds'[j] \in master'
          /\ conn'[app_fds'[j]] \in Apps \cup {None}
    BY <1>1, <1>4, <2>1
  <2> QED BY <1>2, <1>4, <2>2 DEF RegisteredOpen
<1>6. OneConnection'
  <2>1. /\ \A c \in Clients : link[c] = "out" => ~Connected(c)
        /\ \A j, k \in DOMAIN backlog : backlog[j] = backlog[k] => j = k
        /\ \A k \in DOMAIN backlog : \A j \in Fd : conn[j] # backlog[k]
        /\ \A k, j \in Fd : conn[k] # None /\ conn[k] = conn[j] => k = j
        /\ \A j \in Fd : conn[j] # None => j \in master
    BY DEF RegInv, OneConnection
  <2>2. \A j \in Fd : conn'[j] = IF j = i THEN None ELSE conn[j]
    BY <1>1
  <2>3. \A c \in Clients : c # None
    BY CallbackConstants
  <2>4. \A c \in Clients : link'[c] = "out" => ~Connected(c)'
    BY <2>1, <2>2, <2>3 DEF Connected
  <2>5. \A k \in DOMAIN backlog' : \A j \in Fd : conn'[j] # backlog'[k]
    BY <2>1, <2>2, <2>3
  <2>6. \A k, j \in Fd : conn'[k] # None /\ conn'[k] = conn'[j] => k = j
    BY <2>1, <2>2
  <2>7. \A j \in Fd : conn'[j] # None => j \in master'
    BY <1>1, <2>1, <2>2
  <2> QED BY <2>1, <2>4, <2>5, <2>6, <2>7 DEF OneConnection
<1>7. PassOpen'
  BY <1>1 DEF RegInv, PassOpen
<1>8. RegistersOnce'
  <2>1. \A k \in 1..Len(app_fds) : \A a \in Apps :
          conn[app_fds[k]] = a =>
              inq[a] = <<>> /\ link[a] \notin {"out", "connected"}
    BY DEF RegInv, RegistersOnce
  <2>2. \A j \in 1..Len(app_fds') : conn'[app_fds'[j]] = conn[app_fds'[j]]
    BY <1>1, <1>4
  <2>3. \A j \in 1..Len(app_fds') : \A a \in Apps :
          conn'[app_fds'[j]] = a =>
              inq'[a] = <<>> /\ link'[a] \notin {"out", "connected"}
    <3> SUFFICES ASSUME NEW j \in 1..Len(app_fds'), NEW a \in Apps,
                        conn'[app_fds'[j]] = a
                 PROVE  inq[a] = <<>> /\ link[a] \notin {"out", "connected"}
      OBVIOUS
    <3>1. PICK k \in 1..Len(app_fds) : app_fds'[j] = app_fds[k]
      BY <1>4
    <3>2. conn[app_fds[k]] = a
      BY <2>2, <3>1
    <3> QED BY <2>1, <3>2
  <2> QED BY <1>2, <2>3 DEF RegInv, RegistersOnce
<1>9. FromProducer'
  BY DEF RegInv, FromProducer
<1> QED BY <1>5, <1>6, <1>7, <1>8, <1>9 DEF RegInv

LEMMA RegStep ==
    ASSUME TypeOK, RegInv, [Next]_vars
    PROVE  RegInv'
<1>0. /\ Apps \subseteq Clients /\ Producers \subseteq Clients
      /\ \A c \in Clients : c # None
      /\ \A p \in Producers : p \notin Apps
  BY CallbackConstants DEF Clients
<1>1. ASSUME NEW c \in Clients, svsSocketClientCreate(c)
      PROVE  RegInv'
  <2>1. /\ link[c] = "out"
        /\ ~Connected(c)
        /\ link' = [link EXCEPT ![c] = IF c \in Apps THEN "connected" ELSE "up"]
        /\ UNCHANGED <<inq, conn, master, read_fds, app_fds, fwd>>
    BY <1>1 DEF svsSocketClientCreate, RegInv, OneConnection
  <2>2. /\ Len(backlog') = Len(backlog) + 1
        /\ DOMAIN backlog' = 1..Len(backlog) + 1
        /\ \A k \in 1..Len(backlog) : backlog'[k] = backlog[k]
        /\ backlog'[Len(backlog) + 1] = c
        /\ backlog' # <<>>
    <3>1. backlog' = Append(backlog, c) /\ backlog \in Seq(Clients)
      BY <1>1, Types DEF svsSocketClientCreate
    <3>2. /\ backlog' \in Seq(Clients)
          /\ Len(backlog') = Len(backlog) + 1
          /\ \A k \in 1..Len(backlog) : backlog'[k] = backlog[k]
          /\ backlog'[Len(backlog) + 1] = c
      BY <3>1, AppendProperties
    <3>3. DOMAIN backlog' = 1..Len(backlog) + 1
      BY <3>2, LenProperties
    <3>4. backlog' # <<>>
      BY <3>2, EmptySeq, Types
    <3> QED BY <3>2, <3>3, <3>4
  <2>3. /\ \A k \in 1..Len(backlog) : backlog[k] # c
        /\ \A i \in Fd : conn[i] # c
    BY <2>1, Types DEF Connected
  <2>8. \A k \in 1..Len(backlog) + 1 :
          k \in 1..Len(backlog) \/ k = Len(backlog) + 1
    BY Types
  <2>4. OneConnection'
    <3>1. \A d \in Clients : link'[d] = "out" => ~Connected(d)'
      <4> SUFFICES ASSUME NEW d \in Clients, link'[d] = "out"
                   PROVE  ~Connected(d)'
        OBVIOUS
      <4>1. d # c /\ link[d] = "out"
        BY <2>1, Types
      <4>2. ~Connected(d)
        BY <4>1 DEF RegInv, OneConnection
      <4>3. /\ \A k \in 1..Len(backlog) : backlog[k] # d
            /\ \A i \in Fd : conn[i] # d
        BY <4>2, Types DEF Connected
      <4>4. \A k \in 1..Len(backlog) + 1 : backlog'[k] # d
        BY <2>2, <2>8, <4>1, <4>3
      <4> QED BY <2>1, <2>2, <4>3, <4>4 DEF Connected
    <3>2. \A j, k \in 1..Len(backlog) + 1 : backlog'[j] = backlog'[k] => j = k
      <4>1. \A j, k \in 1..Len(backlog) : backlog[j] = backlog[k] => j = k
        BY Types DEF RegInv, OneConnection
      <4> QED BY <2>2, <2>3, <2>8, <4>1
    <3>3. \A k \in 1..Len(backlog) + 1 : \A i \in Fd : conn[i] # backlog'[k]
      <4>1. \A k \in 1..Len(backlog) : \A i \in Fd : conn[i] # backlog[k]
        BY Types DEF RegInv, OneConnection
      <4> QED BY <2>2, <2>3, <2>8, <4>1
    <3> QED BY <2>1, <2>2, <3>1, <3>2, <3>3 DEF RegInv, OneConnection
  <2>5. RegistersOnce'
    BY <1>0, <2>1, Types DEF RegInv, RegistersOnce
  <2>6. RegisteredOpen' /\ PassOpen' /\ FromProducer'
    BY <2>1, <2>2 DEF RegInv, RegisteredOpen, PassOpen, FromProducer
  <2> QED BY <2>4, <2>5, <2>6 DEF RegInv
<1>2. ASSUME NEW a \in Apps, Register(a)
      PROVE  RegInv'
  <2>1. /\ link[a] = "connected"
        /\ link' = [link EXCEPT ![a] = "up"]
        /\ inq' = [inq EXCEPT ![a] = Append(inq[a], MSG_ID_CB_APP)]
        /\ UNCHANGED <<backlog, conn, master, read_fds, app_fds, fwd>>
    BY <1>2 DEF Register
  <2>2. inq[a] = <<>> /\ Append(inq[a], MSG_ID_CB_APP) = <<MSG_ID_CB_APP>>
    <3>1. inq[a] = <<>>
      BY <2>1 DEF RegInv, RegistersOnce
    <3> DEFINE m == MSG_ID_CB_APP
    <3> HIDE DEF m
    <3>2. Append(<<>>, m) = <<m>>
      OBVIOUS
    <3> QED BY <3>1, <3>2 DEF m
  <2>3. RegistersOnce'
    BY <1>0, <2>1, <2>2, Types DEF RegInv, RegistersOnce
  <2>4. OneConnection'
    BY <1>0, <2>1, Types DEF RegInv, OneConnection, Connected
  <2>5. RegisteredOpen' /\ PassOpen' /\ FromProducer'
    BY <2>1 DEF RegInv, RegisteredOpen, PassOpen, FromProducer
  <2> QED BY <2>3, <2>4, <2>5 DEF RegInv
<1>3. ASSUME NEW p \in Producers, svsSocketSendCallback(p)
      PROVE  RegInv'
  <2>1. /\ UNCHANGED <<link, backlog, conn, master, read_fds, app_fds, fwd>>
        /\ nmsg + 1 \in 1..MaxMsg
    <3>1. nmsg \in 0..MaxMsg
      BY DEF TypeOK
    <3>2. /\ UNCHANGED <<link, backlog, conn, master, read_fds, app_fds, fwd>>
          /\ nmsg < MaxMsg
      BY <1>3 DEF svsSocketSendCallback
    <3> QED BY <3>1, <3>2, CallbackConstants
  <2>2. PICK f \in Apps \cup {None} :
          inq' = IF Connected(p)
                 THEN [inq EXCEPT ![p] = Append(@, [n |-> nmsg + 1, cb |-> f])]
                 ELSE inq
    BY <1>3 DEF svsSocketSendCallback
  <2>3. [n |-> nmsg + 1, cb |-> f] \in Msg
    BY <2>1 DEF Msg
  <2>4. Append(inq[p], [n |-> nmsg + 1, cb |-> f]) \in Seq(Msg)
    BY <2>3, AppendProperties DEF RegInv, RegistersOnce
  <2>5. \A q \in Producers : inq'[q] \in Seq(Msg)
    BY <1>0, <2>2, <2>4, Types DEF RegInv, RegistersOnce
  <2>6. \A a \in Apps : inq'[a] = inq[a]
    BY <1>0, <2>2, Types
  <2>7. RegistersOnce'
    BY <2>1, <2>5, <2>6 DEF RegInv, RegistersOnce
  <2> QED BY <2>1, <2>7 DEF RegInv, RegisteredOpen, OneConnection, Connected,
                            PassOpen, FromProducer
<1>4. ASSUME NEW a \in Apps, svsClientCallbackHandler(a)
      PROVE  RegInv'
  BY <1>4, RegInvStable DEF svsClientCallbackHandler
<1>5. ASSUME NEW a \in Apps, AppExit(a)
      PROVE  RegInv'
  <2>1. PICK s \in {"closed", "reset"} : link' = [link EXCEPT ![a] = s]
    BY <1>5 DEF AppExit
  <2>2. /\ link[a] # "out"
        /\ UNCHANGED <<backlog, inq, conn, master, read_fds, app_fds, fwd>>
    BY <1>5 DEF AppExit
  <2>3. s \in LinkState \ {"out", "connected"}
    BY DEF LinkState
  <2> QED BY <1>0, <2>1, <2>2, <2>3, LinkStep
<1>6. CASE Select
  <2>1. /\ UNCHANGED <<link, backlog, inq, conn, master, app_fds, fwd>>
        /\ \A i \in master : conn[i] # None
        /\ read_fds' \subseteq master \cup {listener}
        /\ listener \in read_fds' => backlog # <<>>
    BY <1>6 DEF Select, Readable
  <2>2. PassOpen'
    BY <2>1 DEF PassOpen
  <2> QED BY <2>1, <2>2 DEF RegInv, RegisteredOpen, OneConnection, Connected,
                            RegistersOnce, FromProducer
<1>7. ASSUME NEW i \in Fd, RecvRegistration(i)
      PROVE  RegInv'
  <2>1. i \in master /\ conn[i] \in Clients /\ listener \notin read_fds
    BY <1>7, HandlingFd DEF RecvRegistration, RegInv
  <2> DEFINE a == conn[i]
  <2>2. a \in Apps /\ inq[a] = <<MSG_ID_CB_APP>> /\ inq[a] # <<>>
    <3>1. inq[a] # <<>> /\ Head(inq[a]) = MSG_ID_CB_APP
      BY <1>7 DEF RecvRegistration
    <3>2. a \notin Producers
      <4> SUFFICES ASSUME a \in Producers PROVE FALSE
        OBVIOUS
      <4>1. inq[a] \in Seq(Msg)
        BY DEF RegInv, RegistersOnce
      <4>2. Head(inq[a]) \in Msg
        BY <3>1, <4>1, HeadTailProperties
      <4>3. MSG_ID_CB_APP.n \in 1..MaxMsg
        BY <3>1, <4>2 DEF Msg
      <4> QED BY <4>3, CallbackConstants DEF MSG_ID_CB_APP
    <3> QED BY <2>1, <3>1, <3>2 DEF Clients, RegInv, RegistersOnce
  <2>3. link[a] \notin {"out", "connected"}
    BY <2>2 DEF RegInv, RegistersOnce
  <2>4. /\ inq' = [inq EXCEPT ![a] = <<>>]
        /\ UNCHANGED <<link, backlog, conn, master, fwd>>
        /\ read_fds' = read_fds \ {i}
    <3>1. Tail(inq[a]) = <<>>
      BY <2>2
    <3> QED BY <1>7, <3>1 DEF RecvRegistration
  <2>5. \A k \in 1..Len(app_fds) : app_fds[k] # i
    BY <2>2, Types DEF RegInv, RegistersOnce
  <2>6. \/ app_fds' = app_fds
        \/ /\ Len(app_fds') = Len(app_fds) + 1
           /\ DOMAIN app_fds' = 1..Len(app_fds) + 1
           /\ \A k \in 1..Len(app_fds) : app_fds'[k] = app_fds[k]
           /\ app_fds'[Len(app_fds) + 1] = i
    <3>1. CASE HasRoom
      <4>1. app_fds' = Append(app_fds, i) /\ app_fds \in Seq(Fd)
        BY <1>7, <3>1, Types DEF RecvRegistration
      <4>2. /\ app_fds' \in Seq(Fd)
            /\ Len(app_fds') = Len(app_fds) + 1
            /\ \A k \in 1..Len(app_fds) : app_fds'[k] = app_fds[k]
            /\ app_fds'[Len(app_fds) + 1] = i
        BY <4>1, AppendProperties
      <4> QED BY <4>2, LenProperties
    <3>2. CASE ~HasRoom
      BY <1>7, <3>2 DEF RecvRegistration
    <3> QED BY <3>1, <3>2
  <2> HIDE DEF a
  <2>7. RegisteredOpen' /\ RegistersOnce'
    <3>0. conn[i] = a /\ a \in Clients
      BY <2>1 DEF a
    <3>1. /\ \A p \in Producers : inq'[p] \in Seq(Msg)
          /\ \A b \in Apps : inq'[b] = <<>> \/ inq'[b] = <<MSG_ID_CB_APP>>
          /\ \A b \in Apps : link'[b] \in {"out", "connected"} => inq'[b] = <<>>
      BY <1>0, <2>2, <2>4, Types DEF RegInv, RegistersOnce
    <3>2. \A k \in 1..Len(app_fds) : \A b \in Apps :
            conn[app_fds[k]] = b =>
                inq'[b] = <<>> /\ link[b] \notin {"out", "connected"}
      BY <1>0, <2>4, Types DEF RegInv, RegistersOnce
    <3>3. inq'[a] = <<>>
      BY <2>4, <3>0, Types
    <3>4. \A k \in 1..Len(app_fds) :
            /\ app_fds[k] \in master
            /\ conn[app_fds[k]] \in Apps \cup {None}
      BY Types DEF RegInv, RegisteredOpen
    <3>5. \A j, k \in 1..Len(app_fds) : app_fds[j] = app_fds[k] => j = k
      BY Types DEF RegInv, RegisteredOpen
    <3>6. CASE app_fds' = app_fds
      BY <2>4, <3>1, <3>2, <3>4, <3>5, <3>6, Types DEF RegisteredOpen, RegistersOnce
    <3>7. CASE /\ Len(app_fds') = Len(app_fds) + 1
               /\ DOMAIN app_fds' = 1..Len(app_fds) + 1
               /\ \A k \in 1..Len(app_fds) : app_fds'[k] = app_fds[k]
               /\ app_fds'[Len(app_fds) + 1] = i
      <4>1. \A k \in 1..Len(app_fds) + 1 :
              k \in 1..Len(app_fds) \/ k = Len(app_fds) + 1
        BY Types
      <4>2. \A k \in 1..Len(app_fds) + 1 :
              /\ app_fds'[k] \in master
              /\ conn[app_fds'[k]] \in Apps \cup {None}
        BY <2>1, <2>2, <3>0, <3>4, <3>7, <4>1
      <4>3. \A j, k \in 1..Len(app_fds) + 1 : app_fds'[j] = app_fds'[k] => j = k
        BY <2>5, <3>5, <3>7, <4>1
      <4>4. \A k \in 1..Len(app_fds) + 1 : \A b \in Apps :
              conn[app_fds'[k]] = b =>
                  inq'[b] = <<>> /\ link[b] \notin {"out", "connected"}
        BY <2>3, <3>0, <3>2, <3>3, <3>7, <4>1
      <4> QED BY <2>4, <3>1, <3>7, <4>2, <4>3, <4>4 DEF RegisteredOpen, RegistersOnce
    <3> QED BY <2>6, <3>6, <3>7
  <2>8. PassOpen'
    BY <2>1, <2>4 DEF RegInv, PassOpen
  <2> QED BY <2>4, <2>7, <2>8 DEF RegInv, OneConnection, Connected, FromProducer
<1>8. ASSUME NEW i \in Fd, RecvMessage(i)
      PROVE  RegInv'
  <2>1. conn[i] \in Clients
    BY <1>8, HandlingFd DEF RecvMessage, RegInv
  <2> DEFINE p == conn[i]
  <2>2. /\ inq[p] # <<>> /\ Head(inq[p]) # MSG_ID_CB_APP
        /\ inq' = [inq EXCEPT ![p] = Tail(inq[p])]
        /\ fwd'.i = i
        /\ UNCHANGED <<link, backlog, conn, master, read_fds, app_fds>>
    BY <1>8 DEF RecvMessage
  <2>3. p \in Producers
    <3>1. p \notin Apps
      <4> SUFFICES ASSUME p \in Apps PROVE FALSE
        OBVIOUS
      <4>1. inq[p] = <<MSG_ID_CB_APP>>
        BY <2>2 DEF RegInv, RegistersOnce
      <4>2. Head(<<MSG_ID_CB_APP>>) = MSG_ID_CB_APP
        OBVIOUS
      <4> QED BY <2>2, <4>1, <4>2
    <3> QED BY <2>1, <3>1 DEF Clients
  <2>4. FromProducer'
    BY <2>2, <2>3 DEF FromProducer
  <2>5. Tail(inq[p]) \in Seq(Msg)
    BY <2>2, <2>3, HeadTailProperties DEF RegInv, RegistersOnce
  <2> HIDE DEF p
  <2>6. /\ \A q \in Producers : inq'[q] \in Seq(Msg)
        /\ \A a \in Apps : inq'[a] = inq[a]
    BY <1>0, <2>2, <2>3, <2>5, Types DEF RegInv, RegistersOnce
  <2>7. RegistersOnce'
    BY <2>2, <2>6 DEF RegInv, RegistersOnce
  <2> QED BY <2>2, <2>4, <2>7 DEF RegInv, RegisteredOpen, OneConnection, Connected,
                                 PassOpen
<1>9. ASSUME NEW i \in Fd, RecvDisconnected(i)
      PROVE  RegInv'
  BY <1>9, CloseStep DEF RecvDisconnected, Handling
<1>10. ASSUME NEW i \in Fd, RecvFailed(i)
       PROVE  RegInv'
  <2>1. i \in master /\ conn[i] \in Clients /\ listener \notin read_fds
    BY <1>10, HandlingFd DEF RecvFailed, RegInv
  <2>2. /\ link[conn[i]] = "reset"
        /\ link' = [link EXCEPT ![conn[i]] = "broken"]
        /\ conn' = [conn EXCEPT ![i] = None]
        /\ read_fds' = read_fds \ {i}
        /\ fwd = Idle
        /\ UNCHANGED <<backlog, inq, master, app_fds, fwd>>
    BY <1>10 DEF RecvFailed, Handling
  <2>4. \A j \in Fd : conn'[j] = IF j = i THEN None ELSE conn[j]
    BY <2>2, Types
  <2>5. \A c \in Clients : link'[c] \in {"out", "connected"} => link'[c] = link[c]
    BY <2>1, <2>2, Types
  <2>6. RegisteredOpen'
    BY <2>2, <2>4, Types DEF RegInv, RegisteredOpen
  <2>7. OneConnection'
    <3>1. /\ \A c \in Clients : link[c] = "out" => ~Connected(c)
          /\ \A j, k \in DOMAIN backlog : backlog[j] = backlog[k] => j = k
          /\ \A k \in DOMAIN backlog : \A j \in Fd : conn[j] # backlog[k]
          /\ \A k, j \in Fd : conn[k] # None /\ conn[k] = conn[j] => k = j
          /\ \A j \in Fd : conn[j] # None => j \in master
      BY DEF RegInv, OneConnection
    <3>2. \A c \in Clients : link'[c] = "out" => ~Connected(c)'
      BY <1>0, <2>2, <2>4, <2>5, <3>1 DEF Connected
    <3>3. \A k \in DOMAIN backlog : \A j \in Fd : conn'[j] # backlog[k]
      BY <1>0, <2>4, <3>1, Types
    <3>4. \A k, j \in Fd : conn'[k] # None /\ conn'[k] = conn'[j] => k = j
      BY <2>4, <3>1
    <3>5. \A j \in Fd : conn'[j] # None => j \in master
      BY <2>4, <3>1
    <3> QED BY <2>2, <3>1, <3>2, <3>3, <3>4, <3>5 DEF OneConnection
  <2>8. PassOpen'
    BY <2>1, <2>2, <2>4, Types DEF RegInv, PassOpen
  <2>9. RegistersOnce'
    <3>1. \A c \in Clients : link'[c] = link[c] \/ link'[c] = "broken"
      BY <2>1, <2>2, Types
    <3>2. \A k \in 1..Len(app_fds) : \A a \in Apps :
            conn'[app_fds[k]] = a => conn[app_fds[k]] = a
      BY <1>0, <2>4, Types
    <3>3. \A a \in Apps : link'[a] \in {"out", "connected"} => link[a] \in {"out", "connected"}
      BY <1>0, <3>1
    <3>4. /\ \A p \in Producers : inq[p] \in Seq(Msg)
          /\ \A a \in Apps : inq[a] = <<>> \/ inq[a] = <<MSG_ID_CB_APP>>
          /\ \A a \in Apps : link[a] \in {"out", "connected"} => inq[a] = <<>>
          /\ \A k \in DOMAIN app_fds : \A a \in Apps :
                conn[app_fds[k]] = a =>
                    inq[a] = <<>> /\ link[a] \notin {"out", "connected"}
      BY DEF RegInv, RegistersOnce
    <3>5. DOMAIN app_fds = 1..Len(app_fds)
      BY Types
    <3>6. \A k \in DOMAIN app_fds : \A a \in Apps :
            conn'[app_fds[k]] = a =>
                inq[a] = <<>> /\ link'[a] \notin {"out", "connected"}
      BY <3>2, <3>3, <3>4, <3>5
    <3> QED BY <2>2, <3>3, <3>4, <3>6 DEF RegistersOnce
  <2>10. FromProducer'
    BY <2>2 DEF FromProducer
  <2> QED BY <2>6, <2>7, <2>8, <2>9, <2>10 DEF RegInv
<1>11. CASE Accept
  <2>1. PICK i \in Fd : /\ conn[i] = None
                        /\ conn' = [conn EXCEPT ![i] = Head(backlog)]
                        /\ master' = master \cup {i}
    BY <1>11 DEF Accept
  <2>2. /\ backlog' = Tail(backlog)
        /\ read_fds' = read_fds \ {listener}
        /\ listener \in read_fds
        /\ fwd = Idle
        /\ UNCHANGED <<link, inq, app_fds, fwd>>
    BY <1>11 DEF Accept, Handling
  <2>3. backlog # <<>> /\ \A j \in master : conn[j] # None
    BY <2>2 DEF RegInv, PassOpen
  <2>4. i \notin master /\ \A k \in 1..Len(app_fds) : app_fds[k] # i
    BY <2>1, <2>3, Types DEF RegInv, RegisteredOpen
  <2> DEFINE c == backlog[1]
  <2>5. /\ Len(backlog) \in Nat \ {0}
        /\ Head(backlog) = c
        /\ c \in Clients
        /\ Len(backlog') = Len(backlog) - 1
        /\ DOMAIN backlog' = 1..Len(backlog) - 1
        /\ \A k \in 1..Len(backlog) - 1 : backlog'[k] = backlog[k+1]
    <3>1. /\ backlog' \in Seq(Clients)
          /\ Len(backlog') = Len(backlog) - 1
          /\ \A k \in 1..Len(Tail(backlog)) : backlog'[k] = backlog[k+1]
      BY <2>2, <2>3, Types, HeadTailProperties
    <3>2. Len(backlog) \in Nat \ {0} /\ Head(backlog) = c
      BY <2>3, Types, EmptySeq, HeadTailProperties
    <3> QED BY <2>2, <3>1, <3>2, Types, LenProperties
  <2>6. \A j \in Fd : conn'[j] = IF j = i THEN c ELSE conn[j]
    BY <2>1, <2>5, Types
  <2>7. /\ \A d \in Clients : link[d] = "out" => ~Connected(d)
        /\ \A j, k \in 1..Len(backlog) : backlog[j] = backlog[k] => j = k
        /\ \A k \in 1..Len(backlog) : \A j \in Fd : conn[j] # backlog[k]
        /\ \A k, j \in Fd : conn[k] # None /\ conn[k] = conn[j] => k = j
        /\ \A j \in Fd : conn[j] # None => j \in master
    BY Types DEF RegInv, OneConnection
  <2>8. 1 \in 1..Len(backlog) /\ \A k \in 1..Len(backlog) - 1 : k + 1 \in 2..Len(backlog)
    BY <2>5
  <2>9. OneConnection'
    <3>1. Connected(c)
      BY <2>8, Types DEF Connected
    <3>2. link[c] # "out"
      BY <2>5, <2>7, <3>1
    <3>3. \A d \in Clients : link'[d] = "out" => ~Connected(d)'
      <4> SUFFICES ASSUME NEW d \in Clients, link[d] = "out"
                   PROVE  ~Connected(d)'
        BY <2>2
      <4>1. ~Connected(d) /\ d # c
        BY <2>7, <3>2
      <4>2. \A k \in 1..Len(backlog) : backlog[k] # d
        BY <4>1, Types DEF Connected
      <4>3. \A k \in 1..Len(backlog) - 1 : backlog'[k] # d
        BY <2>5, <2>8, <4>2
      <4> HIDE DEF c
      <4>4. \A j \in Fd : conn'[j] # d
        BY <2>6, <4>1 DEF Connected
      <4> QED BY <2>5, <4>3, <4>4 DEF Connected
    <3>4. \A j, k \in 1..Len(backlog) - 1 : backlog'[j] = backlog'[k] => j = k
      <4> SUFFICES ASSUME NEW j \in 1..Len(backlog) - 1, NEW k \in 1..Len(backlog) - 1,
                          backlog'[j] = backlog'[k]
                   PROVE  j = k
        OBVIOUS
      <4>1. backlog[j+1] = backlog[k+1] /\ j + 1 \in 1..Len(backlog)
            /\ k + 1 \in 1..Len(backlog)
        BY <2>5, <2>8
      <4>2. j + 1 = k + 1
        BY <2>7, <4>1
      <4> QED BY <4>2
    <3>5. \A k \in 1..Len(backlog) - 1 : \A j \in Fd : conn'[j] # backlog'[k]
      <4> SUFFICES ASSUME NEW k \in 1..Len(backlog) - 1, NEW j \in Fd
                   PROVE  conn'[j] # backlog'[k]
        OBVIOUS
      <4>1. backlog'[k] = backlog[k+1] /\ k + 1 \in 1..Len(backlog) /\ k + 1 # 1
        BY <2>5, <2>8
      <4>2. backlog[k+1] # c /\ conn[j] # backlog[k+1]
        BY <2>7, <2>8, <4>1
      <4> QED BY <2>6, <4>1, <4>2
    <3>6. \A j \in Fd : conn[j] # c
      BY <2>7, <2>8
    <3> HIDE DEF c
    <3>7. \A k, j \in Fd : conn'[k] # None /\ conn'[k] = conn'[j] => k = j
      BY <2>6, <2>7, <3>6
    <3>8. \A j \in Fd : conn'[j] # None => j \in master'
      BY <2>1, <2>6, <2>7
    <3> QED BY <2>5, <3>3, <3>4, <3>5, <3>7, <3>8 DEF OneConnection
  <2>10. \A k \in 1..Len(app_fds) : conn'[app_fds[k]] = conn[app_fds[k]]
    BY <2>4, <2>6, Types
  <2>11. RegisteredOpen'
    BY <2>1, <2>2, <2>10, Types DEF RegInv, RegisteredOpen
  <2>12. RegistersOnce'
    BY <2>2, <2>10, Types DEF RegInv, RegistersOnce
  <2> HIDE DEF c
  <2>13. PassOpen'
    <3>1. \A j \in read_fds \ {listener} : j \in Fd /\ conn[j] # None
      BY Types DEF RegInv, PassOpen
    <3>2. \A j \in read_fds \ {listener} : conn'[j] # None
      BY <1>0, <2>5, <2>6, <3>1
    <3> QED BY <2>2, <3>2 DEF PassOpen
  <2>14. FromProducer'
    BY <2>2 DEF RegInv, FromProducer
  <2> QED BY <2>9, <2>11, <2>12, <2>13, <2>14 DEF RegInv
<1>12. CASE ForwardOne
  <2>1. /\ fwd # Idle
        /\ UNCHANGED <<backlog, inq, conn, master, read_fds, app_fds>>
        /\ fwd \in Forwarding
        /\ fwd.k \in 1..Len(app_fds)
    <3>1. fwd # Idle /\ fwd.k <= Len(app_fds)
          /\ UNCHANGED <<backlog, inq, conn, master, read_fds, app_fds>>
      BY <1>12 DEF ForwardOne, MoreApps
    <3>2. fwd \in Forwarding
      BY <3>1 DEF TypeOK, Forwarding
    <3> QED BY <3>1, <3>2, Types DEF Forwarding
  <2>2. ASSUME NEW e \in {"ERR_PASS", "ERR_FAIL", "ERR_SOCK_DISC"},
               fwd' = [fwd EXCEPT !.k = @ + 1, !.rc = e]
        PROVE  fwd'.i = fwd.i
    BY <2>1, <2>2 DEF Forwarding
  <2>3. ASSUME fwd'.i = fwd.i, UNCHANGED link
        PROVE  RegInv'
    <3>1. FromProducer'
      BY <2>1, <2>3 DEF RegInv, FromProducer
    <3> QED BY <2>1, <2>3, <3>1 DEF RegInv, RegisteredOpen, OneConnection, Connected,
                                    PassOpen, RegistersOnce
  <2>4. CASE conn[app_fds[fwd.k]] = None
    <3>1. fwd' = [fwd EXCEPT !.k = @ + 1, !.rc = "ERR_FAIL"] /\ UNCHANGED link
      BY <1>12, <2>4 DEF ForwardOne
    <3> QED BY <2>2, <2>3, <3>1
  <2>5. CASE conn[app_fds[fwd.k]] # None
    <3> DEFINE a == conn[app_fds[fwd.k]]
    <3>1. a \in Apps
      BY <2>1, <2>5, Types DEF RegInv, RegisteredOpen
    <3>2. Deliver(a)
      BY <1>12, <2>5 DEF ForwardOne
    <3> HIDE DEF a
    <3>3. fwd'.i = fwd.i
      BY <2>2, <3>2 DEF Deliver
    <3>4. \/ UNCHANGED link
          \/ \E s \in {"closed", "broken"} :
               link[a] # "out" /\ link' = [link EXCEPT ![a] = s]
      BY <3>2 DEF Deliver
    <3>5. CASE UNCHANGED link
      BY <2>3, <3>3, <3>5
    <3>6. ASSUME NEW s \in {"closed", "broken"}, link[a] # "out",
                 link' = [link EXCEPT ![a] = s]
          PROVE  RegInv'
      <4>1. s \in LinkState \ {"out", "connected"} /\ a \in Clients
        BY <1>0, <3>1 DEF LinkState
      <4> QED BY <2>1, <3>3, <3>6, <4>1, LinkStep
    <3> QED BY <3>4, <3>5, <3>6
  <2> QED BY <2>4, <2>5
<1>13. CASE ForwardDone
  <2>1. /\ fwd.i \in Fd
        /\ read_fds' = read_fds \ {fwd.i}
        /\ fwd' = Idle
        /\ UNCHANGED <<link, backlog, inq>>
    BY <1>13 DEF ForwardDone, TypeOK
  <2>2. CASE fwd.rc = "ERR_SOCK_DISC"
    BY <1>13, <2>1, <2>2, CloseStep DEF ForwardDone
  <2>3. CASE fwd.rc # "ERR_SOCK_DISC"
    <3>1. UNCHANGED <<app_fds, conn, master>>
      BY <1>13, <2>3 DEF ForwardDone
    <3>2. PassOpen' /\ FromProducer'
      BY <2>1, <3>1 DEF RegInv, PassOpen, FromProducer
    <3> QED BY <2>1, <3>1, <3>2 DEF RegInv, RegisteredOpen, OneConnection, Connected,
                                    RegistersOnce
  <2> QED BY <2>2, <2>3
<1>14. CASE UNCHANGED vars
  BY <1>14, RegInvStable DEF vars
<1> QED BY <1>1, <1>2, <1>3, <1>4, <1>5, <1>6, <1>7, <1>8, <1>9, <1>10, <1>11,
           <1>12, <1>13, <1>14
        DEF Next, svsSocketServerThread, ClientStep

(* The callback server keeps its types, app_fds within its array included, *)
(* for any number of producers, applications and descriptors.              *)
THEOREM TypeCorrect == Spec => []TypeOK
<1>1. Init => TypeOK /\ RegInv
  BY InitInv
<1>2. TypeOK /\ RegInv /\ [Next]_vars => (TypeOK /\ RegInv)'
  BY TypeStep, RegStep
<1> QED BY <1>1, <1>2, PTL DEF Spec

(* app_fds holds the open descriptors of applications, each once: no       *)
(* descriptor that is closed, used again or handed to a producer stays     *)
(* registered, unless a connection was reset.                              *)
THEOREM RegisteredOpenCorrect == Spec => []RegisteredOpen
<1>1. Init => TypeOK /\ RegInv
  BY InitInv
<1>2. TypeOK /\ RegInv /\ [Next]_vars => (TypeOK /\ RegInv)'
  BY TypeStep, RegStep
<1>3. RegInv => RegisteredOpen
  BY DEF RegInv
<1> QED BY <1>1, <1>2, <1>3, PTL DEF Spec

-----------------------------------------------------------------------------
(* The messages each application gets.                                     *)

(* Before its registration has been read, an application was sent nothing. *)
Fresh ==
    \A a \in Apps : inq[a] # <<>> \/ link[a] \in {"out", "connected"}
                        => seen[a] = <<>> /\ rcv[a] = <<>>

(* The message being forwarded is the last one of the log.                 *)
Logged == fwd # Idle => Len(log) # 0 /\ log[Len(log)] = fwd.m

(* Application a got the messages up to the n-th since it registered.      *)
Caught(a, n) ==
    /\ since[a] <= n
    /\ seen[a] \o rcv[a] = SubSeq(log, since[a] + 1, n)

AllCaught ==
    \A k \in DOMAIN app_fds :
        conn[app_fds[k]] \in Apps /\ link[conn[app_fds[k]]] = "up"
            => Caught(conn[app_fds[k]], SentTo(k))

SentInv == Fresh /\ Logged /\ AllCaught

(* What is sent goes behind what waits; the log up to n does not change as *)
(* it grows, and its last message is what a forward sends.                 *)
LEMMA JoinAppend ==
    ASSUME NEW S, NEW s \in Seq(S), NEW t \in Seq(S), NEW e \in S
    PROVE  s \o Append(t, e) = Append(s \o t, e)
<1>1. <<e>> \in Seq(S) /\ s \o t \in Seq(S)
  BY ConcatProperties
<1>2. Append(t, e) = t \o <<e>> /\ Append(s \o t, e) = (s \o t) \o <<e>>
  BY <1>1, AppendIsConcat
<1> QED BY <1>1, <1>2, ConcatAssociative

(* Reading a message moves it from what was sent to what was seen.         *)
LEMMA JoinMoved ==
    ASSUME NEW S, NEW s \in Seq(S), NEW t \in Seq(S), t # <<>>
    PROVE  Append(s, Head(t)) \o Tail(t) = s \o t
<1>1. /\ Head(t) \in S /\ Tail(t) \in Seq(S) /\ <<Head(t)>> \in Seq(S)
      /\ Len(t) \in Nat \ {0} /\ Head(t) = t[1]
  BY HeadTailProperties, EmptySeq
<1>2. t = <<Head(t)>> \o Tail(t)
  <2>1. SubSeq(t, 1, Len(t)) = <<t[1]>> \o SubSeq(t, 1 + 1, Len(t))
    BY <1>1, SubSeqRecursiveFirst
  <2>2. SubSeq(t, 1, Len(t)) = t /\ SubSeq(t, 2, Len(t)) = Tail(t)
    BY SubSeqFull, TailIsSubSeq
  <2> QED BY <1>1, <2>1, <2>2
<1>3. Append(s, Head(t)) = s \o <<Head(t)>>
  BY <1>1, AppendIsConcat
<1>4. (s \o <<Head(t)>>) \o Tail(t) = s \o (<<Head(t)>> \o Tail(t))
  BY <1>1, ConcatAssociative
<1> QED BY <1>2, <1>3, <1>4

LEMMA LogGrows ==
    ASSUME NEW S, NEW s \in Seq(S), NEW e \in S, NEW n \in Nat, n <= Len(s)
    PROVE  SubSeq(Append(s, e), n + 1, Len(s)) = SubSeq(s, n + 1, Len(s))
<1>1. Len(s) \in Nat /\ n + 1 \in Int
  BY LenProperties
<1>2. CASE n = Len(s)
  <2>1. Len(s) < n + 1
    BY <1>1, <1>2
  <2> QED BY <1>1, <2>1, SubSeqEmpty
<1>3. CASE n # Len(s)
  <2>1. Append(s, e) = s \o <<e>> /\ <<e>> \in Seq(S)
    BY AppendIsConcat
  <2>2. n + 1 \in 1..Len(s) /\ Len(s) \in 1..Len(s)
    BY <1>1, <1>3
  <2>3. SubSeq(s \o <<e>>, n + 1, Len(s)) = SubSeq(s, n + 1, Len(s))
    BY <2>1, <2>2, SubSeqOfConcat1
  <2> QED BY <2>1, <2>3
<1> QED BY <1>2, <1>3

LEMMA LogEnd ==
    ASSUME NEW S, NEW s \in Seq(S), NEW n \in Nat, n < Len(s)
    PROVE  /\ SubSeq(s, n + 1, Len(s) - 1) \in Seq(S) /\ s[Len(s)] \in S
           /\ SubSeq(s, n + 1, Len(s)) = Append(SubSeq(s, n + 1, Len(s) - 1), s[Len(s)])
<1>1. Len(s) \in Nat /\ n + 1 \in 1..Len(s) /\ Len(s) \in n + 1..Len(s) /\ Len(s) \in 1..Len(s)
  BY LenProperties
<1>2. \A i \in n + 1..Len(s) - 1 : s[i] \in S
  BY <1>1, ElementOfSeq
<1>3. SubSeq(s, n + 1, Len(s) - 1) \in Seq(S)
  <2>1. n + 1 \in Int /\ Len(s) - 1 \in Int
    BY <1>1
  <2> QED BY <1>2, <2>1, SubSeqProperties
<1>4. s[Len(s)] \in S
  BY <1>1, ElementOfSeq
<1>5. SubSeq(s, n + 1, Len(s)) = SubSeq(s, n + 1, Len(s) - 1) \o <<s[Len(s)]>>
  BY <1>1, SubSeqRecursiveSecond
<1>6. Append(SubSeq(s, n + 1, Len(s) - 1), s[Len(s)])
        = SubSeq(s, n + 1, Len(s) - 1) \o <<s[Len(s)]>>
  BY <1>3, <1>4, AppendIsConcat
<1> QED BY <1>3, <1>4, <1>5, <1>6

(* An application that is on the list after a step was on it before, and   *)
(* as much was sent to it.                                                 *)
LEMMA CaughtKept ==
    ASSUME AllCaught, UNCHANGED <<log, since>>,
           \A k \in DOMAIN app_fds' : \A a \in Apps :
              conn'[app_fds'[k]] = a /\ link'[a] = "up" =>
                 /\ link[a] = "up"
                 /\ seen'[a] \o rcv'[a] = seen[a] \o rcv[a]
                 /\ \E j \in DOMAIN app_fds : conn[app_fds[j]] = a /\ SentTo(k)' = SentTo(j)
    PROVE  AllCaught'
<1> SUFFICES ASSUME NEW k \in DOMAIN app_fds', NEW a \in Apps,
                    conn'[app_fds'[k]] = a, link'[a] = "up"
             PROVE  Caught(a, SentTo(k))'
  BY DEF AllCaught
<1>1. PICK j \in DOMAIN app_fds : conn[app_fds[j]] = a /\ SentTo(k)' = SentTo(j)
  OBVIOUS
<1>2. Caught(a, SentTo(j))
  BY <1>1 DEF AllCaught
<1> QED BY <1>1, <1>2 DEF Caught

(* A close registers nobody.                                               *)
LEMMA CloseKeeps ==
    ASSUME TypeOK, NEW i \in Fd, CloseSocket(i)
    PROVE  \A k \in DOMAIN app_fds' : \A a \in Apps :
              conn'[app_fds'[k]] = a => \E j \in DOMAIN app_fds : conn[app_fds[j]] = a
<1> SUFFICES ASSUME NEW k \in DOMAIN app_fds', NEW a \in Apps, conn'[app_fds'[k]] = a
             PROVE  \E j \in DOMAIN app_fds : conn[app_fds[j]] = a
  OBVIOUS
<1>1. /\ DOMAIN app_fds = 1..Len(app_fds) /\ DOMAIN app_fds' = 1..Len(app_fds')
      /\ Len(app_fds) \in Nat /\ Len(app_fds') \in Nat
      /\ app_fds' \in Seq(Fd)
      /\ \/ app_fds' = app_fds
         \/ \E l \in 1..Len(app_fds) :
               /\ Len(app_fds') = Len(app_fds) - 1
               /\ \A j \in 1..Len(app_fds') :
                     app_fds'[j] = IF j < l THEN app_fds[j] ELSE app_fds[j+1]
  BY Types, DeregisterProperties DEF CloseSocket
<1>2. \E j \in DOMAIN app_fds : app_fds[j] = app_fds'[k]
  <2>1. CASE app_fds' = app_fds
    BY <2>1
  <2>2. ASSUME NEW l \in 1..Len(app_fds),
               Len(app_fds') = Len(app_fds) - 1,
               \A j \in 1..Len(app_fds') :
                  app_fds'[j] = IF j < l THEN app_fds[j] ELSE app_fds[j+1]
        PROVE  \E j \in DOMAIN app_fds : app_fds[j] = app_fds'[k]
    <3>1. k \in 1..Len(app_fds) /\ k + 1 \in 1..Len(app_fds)
      BY <1>1, <2>2
    <3>2. app_fds'[k] = app_fds[k] \/ app_fds'[k] = app_fds[k+1]
      BY <1>1, <2>2
    <3> QED BY <1>1, <3>1, <3>2
  <2> QED BY <1>1, <2>1, <2>2
<1>3. conn' = [conn EXCEPT ![i] = None] /\ None \notin Apps /\ conn \in [Fd -> Clients \cup {None}]
  BY CallbackConstants, Types DEF CloseSocket, Clients
<1>4. app_fds'[k] \in Fd
  BY <1>1, ElementOfSeq
<1>5. conn[app_fds'[k]] = a
  BY <1>3, <1>4
<1> QED BY <1>2, <1>5

(* The steps of the clients, ...                                           *)
LEMMA SentClient ==
    ASSUME TypeOK, RegInv, SentInv, ClientStep
    PROVE  SentInv'
<1> USE Types
<1>1. Apps \subseteq Clients /\ Producers \cap Apps = {}
  BY CallbackConstants DEF Clients
<1>2. \A k \in DOMAIN app_fds : \A a \in Apps :
         conn[app_fds[k]] = a => link[a] \notin {"out", "connected"}
  BY DEF RegInv, RegistersOnce
<1>3. ASSUME NEW c \in Clients, svsSocketClientCreate(c) PROVE SentInv'
  <2>1. /\ UNCHANGED <<inq, conn, app_fds, fwd, rcv, seen, log, since>>
        /\ link[c] = "out" /\ \A d \in Clients \ {c} : link'[d] = link[d]
        /\ c \in Apps => link'[c] = "connected"
    BY <1>3 DEF svsSocketClientCreate
  <2>2. Fresh'
    BY <1>1, <2>1 DEF SentInv, Fresh
  <2>3. Logged'
    BY <2>1 DEF SentInv, Logged
  <2>4. \A k : SentTo(k)' = SentTo(k)
    BY <2>1 DEF SentTo
  <2>5. AllCaught'
    BY <1>1, <2>1, <2>4, CaughtKept DEF SentInv
  <2> QED BY <2>2, <2>3, <2>5 DEF SentInv
<1>4. ASSUME NEW a \in Apps, Register(a) PROVE SentInv'
  <2>1. /\ UNCHANGED <<conn, app_fds, fwd, rcv, seen, log, since>>
        /\ link[a] = "connected" /\ \A d \in Clients \ {a} : link'[d] = link[d] /\ inq'[d] = inq[d]
    BY <1>1, <1>4 DEF Register
  <2>2. Fresh'
    BY <1>1, <2>1 DEF SentInv, Fresh
  <2>3. Logged'
    BY <2>1 DEF SentInv, Logged
  <2>4. \A k : SentTo(k)' = SentTo(k)
    BY <2>1 DEF SentTo
  <2>5. AllCaught'
    BY <1>1, <1>2, <2>1, <2>4, CaughtKept DEF SentInv
  <2> QED BY <2>2, <2>3, <2>5 DEF SentInv
<1>5. ASSUME NEW p \in Producers, svsSocketSendCallback(p) PROVE SentInv'
  <2>1. /\ UNCHANGED <<link, conn, app_fds, fwd, rcv, seen, log, since>>
        /\ \A d \in Clients \ {p} : inq'[d] = inq[d]
    BY <1>5 DEF svsSocketSendCallback
  <2>2. Fresh'
    BY <1>1, <2>1 DEF SentInv, Fresh
  <2>3. Logged'
    BY <2>1 DEF SentInv, Logged
  <2>4. \A k : SentTo(k)' = SentTo(k)
    BY <2>1 DEF SentTo
  <2>5. AllCaught'
    BY <2>1, <2>4, CaughtKept DEF SentInv
  <2> QED BY <2>2, <2>3, <2>5 DEF SentInv
<1>6. ASSUME NEW a \in Apps, svsClientCallbackHandler(a) PROVE SentInv'
  <2>1. /\ UNCHANGED <<link, inq, conn, app_fds, fwd, log, since>>
        /\ rcv[a] # <<>>
        /\ rcv' = [rcv EXCEPT ![a] = Tail(@)]
        /\ seen' = [seen EXCEPT ![a] = Append(@, Head(rcv[a]))]
    BY <1>6 DEF svsClientCallbackHandler
  <2>2. Fresh'
    BY <1>1, <2>1 DEF SentInv, Fresh
  <2>3. Logged'
    BY <2>1 DEF SentInv, Logged
  <2>4. \A k : SentTo(k)' = SentTo(k)
    BY <2>1 DEF SentTo
  <2>5. \A b \in Apps : seen'[b] \o rcv'[b] = seen[b] \o rcv[b]
    <3>1. Append(seen[a], Head(rcv[a])) \o Tail(rcv[a]) = seen[a] \o rcv[a]
      BY <2>1, JoinMoved
    <3> QED BY <2>1, <3>1
  <2>6. AllCaught'
    BY <2>1, <2>4, <2>5, CaughtKept DEF SentInv
  <2> QED BY <2>2, <2>3, <2>6 DEF SentInv
<1>7. ASSUME NEW a \in Apps, AppExit(a) PROVE SentInv'
  <2>1. /\ UNCHANGED <<inq, conn, app_fds, fwd, rcv, seen, log, since>>
        /\ link'[a] \in {"closed", "reset"} /\ \A d \in Clients \ {a} : link'[d] = link[d]
    BY <1>1, <1>7 DEF AppExit
  <2>2. Fresh'
    BY <1>1, <2>1 DEF SentInv, Fresh
  <2>3. Logged'
    BY <2>1 DEF SentInv, Logged
  <2>4. \A k : SentTo(k)' = SentTo(k)
    BY <2>1 DEF SentTo
  <2>5. AllCaught'
    BY <1>1, <2>1, <2>4, CaughtKept DEF SentInv
  <2> QED BY <2>2, <2>3, <2>5 DEF SentInv
<1> QED BY <1>3, <1>4, <1>5, <1>6, <1>7 DEF ClientStep

(* ... of the select loop while no message is forwarded, ...               *)
LEMMA SentLoop ==
    ASSUME TypeOK, RegInv, SentInv, fwd = Idle,
           Select \/ Accept \/ \E i \in Fd : RecvDisconnected(i) \/ RecvFailed(i)
    PROVE  SentInv'
<1> USE Types
<1>1. Apps \subseteq Clients /\ None \notin Apps
  BY CallbackConstants DEF Clients
<1>2. UNCHANGED <<inq, fwd, rcv, seen, log, since>>
  BY DEF Select, Accept, RecvDisconnected, RecvFailed
<1>3. \A a \in Clients : link'[a] = link[a] \/ link'[a] = "broken"
  <2>1. ASSUME NEW i \in Fd, RecvFailed(i) PROVE \A a \in Clients : link'[a] = link[a] \/ link'[a] = "broken"
    <3>1. conn[i] \in Clients
      BY <2>1, HandlingFd DEF RecvFailed, RegInv
    <3> QED BY <2>1, <3>1 DEF RecvFailed
  <2> QED BY <2>1 DEF Select, Accept, RecvDisconnected
<1>4. Fresh' /\ Logged'
  BY <1>1, <1>2, <1>3 DEF SentInv, Fresh, Logged
<1>5. \A j, k : SentTo(k)' = SentTo(j)
  BY <1>2 DEF SentTo
<1>6. \A k \in DOMAIN app_fds' : \A a \in Apps :
         conn'[app_fds'[k]] = a => \E j \in DOMAIN app_fds : conn[app_fds[j]] = a
  <2>1. CASE Select
    BY <2>1 DEF Select
  <2>2. CASE Accept
    <3>1. PICK i \in Fd : conn[i] = None /\ conn' = [conn EXCEPT ![i] = Head(backlog)]
      BY <2>2 DEF Accept
    <3>2. \A k \in DOMAIN app_fds : app_fds[k] \in master /\ app_fds[k] \in Fd
      BY DEF RegInv, RegisteredOpen
    <3>3. \A j \in master : conn[j] # None
      BY <2>2 DEF Accept, Handling, RegInv, PassOpen
    <3>4. \A k \in DOMAIN app_fds : conn'[app_fds[k]] = conn[app_fds[k]]
      BY <3>1, <3>2, <3>3
    <3> QED BY <2>2, <3>4 DEF Accept
  <2>3. ASSUME NEW i \in Fd, RecvDisconnected(i)
        PROVE  \A k \in DOMAIN app_fds' : \A a \in Apps :
                  conn'[app_fds'[k]] = a => \E j \in DOMAIN app_fds : conn[app_fds[j]] = a
    BY <2>3, CloseKeeps DEF RecvDisconnected
  <2>4. ASSUME NEW i \in Fd, RecvFailed(i)
        PROVE  \A k \in DOMAIN app_fds' : \A a \in Apps :
                  conn'[app_fds'[k]] = a => \E j \in DOMAIN app_fds : conn[app_fds[j]] = a
    BY <1>1, <2>4 DEF RecvFailed
  <2> QED BY <2>1, <2>2, <2>3, <2>4
<1>7. AllCaught'
  BY <1>1, <1>2, <1>3, <1>5, <1>6, CaughtKept DEF SentInv
<1> QED BY <1>4, <1>7 DEF SentInv

(* ... a registration, ...                                                 *)
LEMMA SentRegistration ==
    ASSUME TypeOK, RegInv, SentInv, NEW i \in Fd, RecvRegistration(i)
    PROVE  SentInv'
<1> USE Types
<1> DEFINE n == Len(app_fds) + 1
<1>0. PICK a : a = conn[i]
  OBVIOUS
<1>1. Apps \subseteq Clients /\ Clients = Producers \cup Apps
  BY DEF Clients
<1>2. /\ UNCHANGED <<link, conn, fwd, rcv, seen, log>> /\ fwd = Idle
      /\ inq[a] # <<>> /\ Head(inq[a]) = MSG_ID_CB_APP
      /\ inq' = [inq EXCEPT ![a] = Tail(@)]
      /\ \/ app_fds' = Append(app_fds, i) /\ since' = [since EXCEPT ![a] = Len(log)]
         \/ UNCHANGED <<app_fds, since>>
  BY <1>0, <1>1 DEF RecvRegistration, Handling
<1>3. a \in Apps /\ seen[a] = <<>> /\ rcv[a] = <<>>
  <2>1. a \in Clients
    BY <1>0, HandlingFd DEF RecvRegistration, RegInv
  <2>2. ASSUME a \in Producers PROVE FALSE
    <3>1. inq[a] \in Seq(Msg)
      BY <2>2 DEF RegInv, RegistersOnce
    <3>2. Head(inq[a]) \in Msg
      BY <1>2, <3>1, HeadTailProperties
    <3> QED BY <1>2, <3>2, CallbackConstants DEF Msg, MSG_ID_CB_APP
  <2> QED BY <1>1, <1>2, <2>1, <2>2 DEF SentInv, Fresh
<1>4. \A k \in DOMAIN app_fds : conn[app_fds[k]] # a
  BY <1>2, <1>3 DEF RegInv, RegistersOnce
<1>5. Len(log) \in Nat
  BY LenProperties
<1>6. Fresh'
  <2>1. \A b \in Apps : inq'[b] = inq[b] \/ b = a
    BY <1>1, <1>2
  <2> QED BY <1>2, <1>3, <2>1 DEF SentInv, Fresh
<1>7. Logged'
  BY <1>2 DEF SentInv, Logged
<1>8. \A k : SentTo(k)' = Len(log) /\ SentTo(k) = Len(log)
  BY <1>2 DEF SentTo
<1>9. CASE app_fds' = Append(app_fds, i) /\ since' = [since EXCEPT ![a] = Len(log)]
  <2>1. /\ \A k \in DOMAIN app_fds' : k = n \/ k \in DOMAIN app_fds
        /\ \A k \in DOMAIN app_fds : app_fds'[k] = app_fds[k]
        /\ app_fds'[n] = i
    <3>1. /\ app_fds' \in Seq(Fd) /\ Len(app_fds') = n
          /\ \A k \in 1..Len(app_fds) : app_fds'[k] = app_fds[k]
          /\ app_fds'[n] = i
      BY <1>9, AppendProperties
    <3>2. DOMAIN app_fds' = 1..n
      BY <3>1, LenProperties
    <3> QED BY <3>1, <3>2
  <2>2. ASSUME NEW k, SentTo(k)' = Len(log) PROVE Caught(a, SentTo(k))'
    <3>1. since'[a] = Len(log)
      BY <1>3, <1>9
    <3>2. seen'[a] \o rcv'[a] = <<>>
      BY <1>2, <1>3, EmptySeq, ConcatEmptySeq
    <3>3. SubSeq(log, Len(log) + 1, Len(log)) = <<>>
      <4>1. Len(log) + 1 \in Int /\ Len(log) \in Int /\ Len(log) < Len(log) + 1
        BY <1>5
      <4> QED BY <4>1, SubSeqEmpty
    <3> QED BY <1>2, <1>5, <2>2, <3>1, <3>2, <3>3 DEF Caught
  <2>3. ASSUME NEW k \in DOMAIN app_fds, NEW b \in Apps, conn[app_fds[k]] = b, link[b] = "up"
        PROVE  Caught(b, SentTo(k))'
    <3>1. Caught(b, SentTo(k))
      BY <2>3 DEF SentInv, AllCaught
    <3>2. since'[b] = since[b]
      BY <1>4, <1>9, <2>3
    <3>3. SentTo(k)' = SentTo(k)
      BY <1>8
    <3> QED BY <1>2, <3>1, <3>2, <3>3 DEF Caught
  <2>4. AllCaught'
    <3> SUFFICES ASSUME NEW k \in DOMAIN app_fds', NEW b \in Apps, conn[app_fds'[k]] = b,
                        link[b] = "up"
                 PROVE  Caught(b, SentTo(k))'
      BY <1>2 DEF AllCaught
    <3>1. CASE k = n
      <4>1. b = a
        BY <1>0, <2>1, <3>1
      <4> QED BY <1>8, <2>2, <4>1
    <3>2. CASE k \in DOMAIN app_fds
      <4>1. app_fds'[k] = app_fds[k]
        BY <2>1, <3>2
      <4> QED BY <2>3, <3>2, <4>1
    <3> QED BY <2>1, <3>1, <3>2
  <2> QED BY <1>6, <1>7, <2>4 DEF SentInv
<1>10. CASE UNCHANGED <<app_fds, since>>
  <2>1. AllCaught'
    BY <1>2, <1>8, <1>10, CaughtKept DEF SentInv
  <2> QED BY <1>6, <1>7, <2>1 DEF SentInv
<1> QED BY <1>2, <1>9, <1>10

(* ... a message, which no application has been sent yet, ...              *)
LEMMA SentMessage ==
    ASSUME TypeOK, RegInv, SentInv, NEW i \in Fd, RecvMessage(i)
    PROVE  SentInv'
<1> USE Types
<1> DEFINE c == conn[i]
           m == Head(inq[c])
<1>1. Apps \subseteq Clients /\ Clients = Producers \cup Apps
  BY DEF Clients
<1>2. /\ UNCHANGED <<link, conn, app_fds, rcv, seen, since>> /\ fwd = Idle
      /\ inq[c] # <<>> /\ m # MSG_ID_CB_APP
      /\ fwd' = [pc |-> "forward", i |-> i, m |-> m, k |-> 1, rc |-> "ERR_PASS"]
      /\ log' = Append(log, m)
      /\ inq' = [inq EXCEPT ![c] = Tail(@)]
  BY DEF RecvMessage, Handling
<1>3. c \in Clients /\ c \notin Apps
  <2>1. c \in Clients
    BY HandlingFd DEF RecvMessage, RegInv
  <2>2. ASSUME c \in Apps PROVE FALSE
    <3>1. inq[c] = <<MSG_ID_CB_APP>>
      BY <1>2, <2>2 DEF RegInv, RegistersOnce
    <3> QED BY <1>2, <3>1
  <2> QED BY <2>1, <2>2
<1>4. m \in Msg
  <2>1. m \in Msg \cup {MSG_ID_CB_APP}
    BY <1>2, <1>3, HeadTailProperties
  <2> QED BY <1>2, <2>1
<1>5. Fresh'
  BY <1>1, <1>2, <1>3 DEF SentInv, Fresh
<1> HIDE DEF m
<1>6. /\ Len(log) \in Nat /\ log' \in Seq(Msg) /\ Len(log') = Len(log) + 1
      /\ log'[Len(log) + 1] = m
  BY <1>2, <1>4, LenProperties, AppendProperties
<1>7. Logged'
  <2>1. fwd'.m = m
    BY <1>2
  <2> QED BY <1>6, <2>1 DEF Logged
<1>8. \A k \in DOMAIN app_fds : SentTo(k)' = Len(log) /\ SentTo(k) = Len(log)
  <2>1. fwd' # Idle /\ fwd'.k = 1
    BY <1>2 DEF Idle
  <2> QED BY <1>2, <1>6, <2>1 DEF SentTo
<1>9. AllCaught'
  <2> SUFFICES ASSUME NEW k \in DOMAIN app_fds, NEW a \in Apps, conn[app_fds[k]] = a, link[a] = "up"
               PROVE  Caught(a, SentTo(k))'
    BY <1>2 DEF AllCaught
  <2>1. since[a] <= Len(log) /\ seen[a] \o rcv[a] = SubSeq(log, since[a] + 1, Len(log))
    BY <1>8 DEF SentInv, AllCaught, Caught
  <2>2. since[a] \in Nat
    OBVIOUS
  <2>3. SubSeq(log', since[a] + 1, Len(log)) = SubSeq(log, since[a] + 1, Len(log))
    BY <1>2, <1>4, <2>1, <2>2, LogGrows
  <2>4. since'[a] <= Len(log) /\ seen'[a] \o rcv'[a] = SubSeq(log', since'[a] + 1, Len(log))
    BY <1>2, <2>1, <2>3
  <2> QED BY <1>8, <2>4 DEF Caught
<1> QED BY <1>5, <1>7, <1>9 DEF SentInv

(* ... a send, ...                                                         *)
LEMMA SentOne ==
    ASSUME TypeOK, RegInv, SentInv, ForwardOne
    PROVE  SentInv'
<1> USE Types
<1> DEFINE n == fwd.k
           f == app_fds[n]
<1>1. Apps \subseteq Clients /\ None \notin Apps
  BY CallbackConstants DEF Clients
<1>2. /\ UNCHANGED <<inq, conn, app_fds, seen, log, since>>
      /\ fwd # Idle /\ fwd \in Forwarding /\ n \in DOMAIN app_fds
  <2>1. /\ UNCHANGED <<inq, conn, app_fds, seen, log, since>>
        /\ fwd # Idle /\ fwd \in Forwarding /\ n <= Len(app_fds)
    BY DEF ForwardOne, MoreApps, TypeOK, Forwarding
  <2>2. n \in Nat \ {0}
    BY <2>1 DEF Forwarding
  <2> QED BY <2>1, <2>2
<1>3. /\ \E e \in {"ERR_PASS", "ERR_FAIL", "ERR_SOCK_DISC"} :
            fwd' = [fwd EXCEPT !.k = @ + 1, !.rc = e]
      /\ conn[f] = None => UNCHANGED <<link, rcv>>
      /\ conn[f] # None => Deliver(conn[f])
  BY DEF ForwardOne, Deliver
<1>4. fwd' # Idle /\ fwd'.m = fwd.m /\ fwd'.k = n + 1 /\ n \in Nat \ {0}
  <2>1. fwd'.pc = "forward" /\ fwd'.m = fwd.m /\ fwd'.k = n + 1
    BY <1>2, <1>3 DEF Forwarding
  <2>2. n \in Nat \ {0}
    BY <1>2 DEF Forwarding
  <2>3. fwd' # Idle
    BY <2>1 DEF Idle
  <2> QED BY <2>1, <2>2, <2>3
<1>5. conn[f] # None => /\ conn[f] \in Apps /\ inq[conn[f]] = <<>>
                        /\ link[conn[f]] \notin {"out", "connected"}
  BY <1>2 DEF RegInv, RegisteredOpen, RegistersOnce
<1>6. /\ Len(log) \in Nat /\ Len(log) # 0 /\ log[Len(log)] = fwd.m /\ fwd.m \in Msg
  BY <1>2, LenProperties DEF SentInv, Logged, Forwarding
<1>7. Logged'
  BY <1>2, <1>4, <1>6 DEF Logged
<1>8. \A a \in Apps : conn[f] # a => link'[a] = link[a] /\ rcv'[a] = rcv[a]
  BY <1>1, <1>3 DEF Deliver
<1>9. ASSUME NEW a \in Apps, conn[f] = a, link'[a] = "up"
      PROVE  link[a] = "up" /\ rcv'[a] = Append(rcv[a], fwd.m)
  <2>1. Deliver(a)
    BY <1>1, <1>3, <1>9
  <2> QED BY <1>1, <1>5, <1>9, <2>1 DEF Deliver
<1>10. ASSUME NEW a \in Apps, conn[f] = a PROVE link'[a] \notin {"out", "connected"}
  <2>1. Deliver(a)
    BY <1>1, <1>3, <1>10
  <2> QED BY <1>1, <1>5, <1>10, <2>1 DEF Deliver
<1>11. Fresh'
  <2> SUFFICES ASSUME NEW a \in Apps, inq[a] # <<>> \/ link'[a] \in {"out", "connected"}
               PROVE  seen[a] = <<>> /\ rcv'[a] = <<>>
    BY <1>2 DEF Fresh
  <2>1. conn[f] # a
    BY <1>1, <1>5, <1>10
  <2> QED BY <1>8, <2>1 DEF SentInv, Fresh
<1>12. AllCaught'
  <2> SUFFICES ASSUME NEW k \in DOMAIN app_fds, NEW a \in Apps, conn[app_fds[k]] = a, link'[a] = "up"
               PROVE  Caught(a, SentTo(k))'
    BY <1>2 DEF AllCaught
  <2>1. k \in Nat
    OBVIOUS
  <2>2. CASE k = n
    <3>1. conn[f] = a /\ link[a] = "up" /\ rcv'[a] = Append(rcv[a], fwd.m)
      BY <1>9, <2>2
    <3>2. SentTo(k) = Len(log) - 1 /\ SentTo(k)' = Len(log)
      BY <1>2, <1>4, <2>1, <2>2 DEF SentTo
    <3>3. since[a] <= Len(log) - 1 /\ seen[a] \o rcv[a] = SubSeq(log, since[a] + 1, Len(log) - 1)
      BY <3>1, <3>2 DEF SentInv, AllCaught, Caught
    <3>4. since[a] \in Nat /\ since[a] < Len(log) /\ seen[a] \in Seq(Msg) /\ rcv[a] \in Seq(Msg)
      BY <1>6, <3>3
    <3>5. SubSeq(log, since[a] + 1, Len(log)) = Append(seen[a] \o rcv[a], fwd.m)
      BY <1>6, <3>3, <3>4, LogEnd
    <3>6. seen[a] \o Append(rcv[a], fwd.m) = Append(seen[a] \o rcv[a], fwd.m)
      BY <1>6, <3>4, JoinAppend
    <3>7. since'[a] <= Len(log) /\ seen'[a] \o rcv'[a] = SubSeq(log', since'[a] + 1, Len(log))
      <4>1. since'[a] = since[a] /\ seen'[a] = seen[a] /\ log' = log
        BY <1>2
      <4>2. seen'[a] \o rcv'[a] = SubSeq(log', since'[a] + 1, Len(log))
        BY <3>1, <3>5, <3>6, <4>1
      <4> QED BY <1>6, <3>4, <4>1, <4>2
    <3> QED BY <3>2, <3>7 DEF Caught
  <2>3. CASE k # n
    <3>1. f # app_fds[k]
      BY <1>2, <2>3 DEF RegInv, RegisteredOpen
    <3>2. f \in Fd /\ app_fds[k] \in Fd
      BY <1>2
    <3>3. conn[f] # a
      BY <1>1, <3>1, <3>2 DEF RegInv, OneConnection
    <3>4. link[a] = "up" /\ rcv'[a] = rcv[a]
      BY <1>8, <3>3
    <3>5. SentTo(k)' = SentTo(k)
      BY <1>2, <1>4, <2>1, <2>3 DEF SentTo
    <3>6. Caught(a, SentTo(k))
      BY <3>4 DEF SentInv, AllCaught
    <3> QED BY <1>2, <3>4, <3>5, <3>6 DEF Caught
  <2> QED BY <2>2, <2>3
<1> QED BY <1>7, <1>11, <1>12 DEF SentInv

(* ... and the end of the forwarding, when all have been sent it.          *)
LEMMA SentDone ==
    ASSUME TypeOK, RegInv, SentInv, ForwardDone
    PROVE  SentInv'
<1> USE Types
<1>1. /\ UNCHANGED <<link, inq, rcv, seen, log, since>> /\ fwd' = Idle /\ fwd # Idle
      /\ fwd \in Forwarding /\ ~(fwd.k <= Len(app_fds))
      /\ CloseSocket(fwd.i) \/ UNCHANGED <<app_fds, conn, master>>
  BY DEF ForwardDone, MoreApps, TypeOK, Forwarding
<1>2. Fresh' /\ Logged'
  BY <1>1 DEF SentInv, Fresh, Logged
<1>3. fwd.i \in Fd /\ fwd.k \in Nat
  BY <1>1 DEF Forwarding
<1>4. \A k \in DOMAIN app_fds : SentTo(k) = Len(log)
  BY <1>1, <1>3 DEF SentTo
<1>5. \A k : SentTo(k)' = Len(log)
  BY <1>1 DEF SentTo
<1>6. \A k \in DOMAIN app_fds' : \A a \in Apps :
         conn'[app_fds'[k]] = a => \E j \in DOMAIN app_fds : conn[app_fds[j]] = a
  BY <1>1, <1>3, CloseKeeps
<1>7. AllCaught'
  BY <1>1, <1>4, <1>5, <1>6, CaughtKept DEF SentInv
<1> QED BY <1>2, <1>7 DEF SentInv

LEMMA SentStep ==
    ASSUME TypeOK, RegInv, SentInv, [Next]_vars
    PROVE  SentInv'
<1>1. CASE svsSocketServerThread
  <2>1. Select \/ Accept \/ (\E i \in Fd : RecvDisconnected(i) \/ RecvFailed(i)) => fwd = Idle
    BY DEF Select, Accept, RecvDisconnected, RecvFailed, Handling
  <2> QED BY <1>1, <2>1, SentLoop, SentRegistration, SentMessage, SentOne, SentDone
          DEF svsSocketServerThread
<1>2. CASE ClientStep
  BY <1>2, SentClient
<1>3. CASE UNCHANGED vars
  BY <1>3 DEF vars, SentInv, Fresh, Logged, AllCaught, Caught, SentTo
<1> QED BY <1>1, <1>2, <1>3 DEF Next

(* For any number of producers, applications, descriptors and messages: a  *)
(* registered application that has not exited got every message that was   *)
(* forwarded since it registered, each once and in order                   *)
(* (svsSocketServerCallbackHandler, src/src/svsCallback.c).                *)
THEOREM CompleteCorrect == Spec => []Complete
<1>1. Init => TypeOK /\ RegInv /\ SentInv
  <2> SUFFICES ASSUME Init PROVE SentInv
    BY InitInv
  <2>1. DOMAIN <<>> = {}
    OBVIOUS
  <2> QED BY <2>1 DEF Init, SentInv, Fresh, Logged, AllCaught
<1>2. TypeOK /\ RegInv /\ SentInv /\ [Next]_vars => (TypeOK /\ RegInv /\ SentInv)'
  BY TypeStep, RegStep, SentStep
<1>3. SentInv => Complete
  BY DEF SentInv, AllCaught, Caught, Complete
<1> QED BY <1>1, <1>2, <1>3, PTL DEF Spec

=============================================================================
