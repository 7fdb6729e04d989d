-------------------------- MODULE BdpFramesProofs --------------------------
(* Theorems about BdpFrames, for every value of its constants.             *)
EXTENDS BdpFrames, SequenceLemmas, SequenceTheorems, TLAPS

-----------------------------------------------------------------------------
(* Type correctness.                                                       *)

LEMMA RequestTypes ==
    ASSUME NEW r \in Requests
    PROVE  /\ r.timeout \in Nat
           /\ ClientTimeout(r) \in Nat
<1>1. r \in Request
  BY BdpConstants
<1>2. r.timeout \in Nat
  BY <1>1 DEF Request
<1> QED BY <1>2, BdpConstants DEF ClientTimeout

LEMMA NextSeqType ==
    ASSUME NEW s \in 1..SEQ_MAX
    PROVE  NextSeq(s) \in 1..SEQ_MAX
BY BdpConstants DEF NextSeq

(* svsBdpNodeRemove keeps the list well typed and one shorter.             *)
LEMMA NodeRemoveType ==
    ASSUME TypeOK, NEW k \in DOMAIN nodes, svsBdpNodeRemove(k)
    PROVE  /\ k \in 1..Len(nodes)
           /\ Len(nodes) \in Nat
           /\ nodes' \in Seq(Node)
           /\ Len(nodes') = Len(nodes) - 1
           /\ \A i \in 1..Len(nodes') :
                 nodes'[i] = IF i < k THEN nodes[i] ELSE nodes[i+1]
           /\ active_frames' \in Nat
<1>1. nodes \in Seq(Node) /\ active_frames \in Nat
  BY DEF TypeOK
<1>2. Len(nodes) \in Nat /\ DOMAIN nodes = 1..Len(nodes)
  BY <1>1, LenProperties
<1>3. /\ nodes' \in Seq(Node)
      /\ Len(nodes') = Len(nodes) - 1
      /\ \A i \in 1..Len(nodes)-1 :
            nodes'[i] = IF i < k THEN nodes[i] ELSE nodes[i+1]
  BY <1>1, <1>2, RemoveAtProperties DEF svsBdpNodeRemove
<1>4. active_frames' \in Nat
  BY <1>1 DEF svsBdpNodeRemove
<1> QED BY <1>2, <1>3, <1>4

(* A transmission puts at most a well-typed response on the wire.          *)
LEMMA FrameSendType ==
    ASSUME TypeOK, NEW n \in Node, svsBdpFrameSend(n)
    PROVE  /\ wire' \subseteq Response
           /\ sent' \in [1..MaxReq -> Nat]
<1>1. n.id \in 1..MaxReq /\ n.seq \in 1..SEQ_MAX
  BY DEF Node
<1>2. sent' \in [1..MaxReq -> Nat]
  BY <1>1 DEF TypeOK, svsBdpFrameSend
<1>3. ASSUME NEW a \in BOOLEAN
      PROVE  [id |-> n.id, att |-> sent[n.id] + 1, seq |-> n.seq, ack |-> a]
               \in Response
  BY <1>1, BdpConstants DEF TypeOK, Response
<1>4. wire' \subseteq Response
  BY <1>3 DEF TypeOK, svsBdpFrameSend
<1> QED BY <1>2, <1>4

(* The frame manager keeps its state in its types, the numbers of frames   *)
(* and the place of the walk included (svsBdp.c).                          *)
THEOREM TypeCorrect == Spec => []TypeOK
<1>1. Init => TypeOK
  <2> SUFFICES ASSUME Init PROVE TypeOK
    OBVIOUS
  <2>1. <<>> \in Seq(Requests) /\ <<>> \in Seq(Node) /\ Len(<<>>) = 0
    BY EmptySeq
  <2>2. DOMAIN nodes = {}
    BY DEF Init
  <2>3. req \in Seq(Requests) /\ Len(req) <= MaxReq /\ nodes \in Seq(Node)
    BY <2>1, BdpConstants DEF Init
  <2>4. cursor \in 0..Len(nodes) /\ seq_num \in 1..SEQ_MAX
    BY <2>1, BdpConstants DEF Init
  <2>5. sent \in [1..MaxReq -> Nat]
    BY DEF Init
  <2> QED BY <2>2, <2>3, <2>4, <2>5 DEF Init, TypeOK
<1>2. TypeOK /\ [Next]_vars => TypeOK'
  <2> SUFFICES ASSUME TypeOK, [Next]_vars PROVE TypeOK'
    OBVIOUS
  <2>1. /\ Len(nodes) \in Nat
        /\ DOMAIN nodes = 1..Len(nodes)
        /\ \A i \in 1..Len(nodes) : /\ nodes[i] \in Node
                                    /\ nodes[i].id \in DOMAIN req
        /\ Len(req) \in Nat
        /\ DOMAIN req = 1..Len(req)
        /\ \A i \in 1..Len(req) : req[i] \in Requests
    BY LenProperties, ElementOfSeq DEF TypeOK
  <2>2. ASSUME NEW r \in Requests, svsBdpTx(r) PROVE TypeOK'
    <3>1. tx' \in Node
      BY <2>2, RequestTypes, BdpConstants DEF svsBdpTx, TypeOK, Node
    <3>2. seq_num' \in 1..SEQ_MAX
      BY <2>2, NextSeqType DEF svsBdpTx, TypeOK
    <3>3. /\ req' \in Seq(Requests)
          /\ Len(req') = Len(req) + 1
          /\ Len(req') <= MaxReq
          /\ DOMAIN req \subseteq DOMAIN req'
      BY <2>1, <2>2, BdpConstants DEF svsBdpTx, TypeOK
    <3>4. tx'.id = Len(req')
      BY <2>2, <3>3 DEF svsBdpTx
    <3> QED BY <2>1, <2>2, <3>1, <3>2, <3>3, <3>4 DEF svsBdpTx, TypeOK
  <2>3. ASSUME NEW r \in Requests, svsBdpTxDrop(r) PROVE TypeOK'
    <3>1. /\ req' \in Seq(Requests)
          /\ Len(req') <= MaxReq
          /\ DOMAIN req \subseteq DOMAIN req'
      BY <2>1, <2>3, BdpConstants DEF svsBdpTxDrop, TypeOK
    <3> QED BY <2>1, <2>3, <3>1 DEF svsBdpTxDrop, TypeOK
  <2>4. CASE svsBdpFrameAdd
    <3>1. /\ nodes' \in Seq(Node)
          /\ Len(nodes') = Len(nodes) + 1
          /\ \A i \in 1..Len(nodes') :
                nodes'[i] = IF i <= Len(nodes) THEN nodes[i] ELSE tx
      BY <2>1, <2>4 DEF svsBdpFrameAdd, TypeOK
    <3>2. tx.id \in DOMAIN req
      BY <2>1, <2>4 DEF svsBdpFrameAdd, TypeOK, Node
    <3>3. \A i \in DOMAIN nodes' : nodes'[i].id \in DOMAIN req'
      BY <2>1, <2>4, <3>1, <3>2, LenProperties DEF svsBdpFrameAdd
    <3> QED BY <2>1, <2>4, <3>1, <3>3 DEF svsBdpFrameAdd, TypeOK
  <2>5. CASE FramePass
    BY <2>1, <2>5 DEF FramePass, TypeOK
  <2>6. CASE FrameSkip
    BY <2>1, <2>6 DEF FrameSkip, Step, TypeOK
  <2>7. ASSUME NEW k \in DOMAIN nodes, svsBdpNodeRemove(k), req' = req
        PROVE  /\ nodes' \in Seq(Node)
               /\ \A i \in DOMAIN nodes' : nodes'[i].id \in DOMAIN req'
               /\ Len(nodes') = Len(nodes) - 1
               /\ active_frames' \in Nat
    <3>1. /\ nodes' \in Seq(Node)
          /\ Len(nodes') = Len(nodes) - 1
          /\ \A i \in 1..Len(nodes') :
                 nodes'[i] = IF i < k THEN nodes[i] ELSE nodes[i+1]
          /\ active_frames' \in Nat
      BY <2>7, NodeRemoveType
    <3>2. DOMAIN nodes' = 1..Len(nodes')
      BY <3>1, LenProperties
    <3> QED BY <2>1, <2>7, <3>1, <3>2
  <2>8. CASE FrameSendIdle
    <3>1. cursor \in 1..Len(nodes) /\ nodes[cursor] \in Node
      BY <2>1, <2>8 DEF FrameSendIdle, TypeOK
    <3> DEFINE n == nodes[cursor]
               r == req[n.id]
    <3>2. r.timeout \in Nat
      BY <2>1, <3>1, RequestTypes
    <3>3. wire' \subseteq Response /\ sent' \in [1..MaxReq -> Nat]
      BY <2>8, <3>1, FrameSendType DEF FrameSendIdle
    <3>4. CASE OneShot(r)
      <4>1. svsBdpNodeRemove(cursor) /\ Step(cursor, Len(nodes) - 1)
        BY <2>8, <3>4 DEF FrameSendIdle
      <4>2. /\ nodes' \in Seq(Node)
            /\ \A i \in DOMAIN nodes' : nodes'[i].id \in DOMAIN req'
            /\ Len(nodes') = Len(nodes) - 1
            /\ active_frames' \in Nat
        BY <2>1, <2>7, <2>8, <3>1, <4>1 DEF FrameSendIdle
      <4>3. cursor' \in 0..Len(nodes')
        BY <2>1, <3>1, <4>1, <4>2 DEF Step
      <4> QED BY <2>8, <3>3, <4>2, <4>3 DEF FrameSendIdle, TypeOK
    <3>5. CASE ~OneShot(r)
      <4>1. /\ nodes' = [nodes EXCEPT ![cursor] =
                           [n EXCEPT !.state = 1, !.rem = r.timeout,
                                     !.retry = 0]]
            /\ Step(cursor + 1, Len(nodes))
            /\ UNCHANGED active_frames
        BY <2>8, <3>5 DEF FrameSendIdle
      <4>2. [n EXCEPT !.state = 1, !.rem = r.timeout, !.retry = 0] \in Node
        <5>1. [n EXCEPT !.state = 1] \in Node
          BY <3>1 DEF Node
        <5>2. [n EXCEPT !.state = 1, !.rem = r.timeout] \in Node
          BY <5>1, <3>2 DEF Node
        <5>3. 0 \in 0..BDP_RETRY_MAX
          BY BdpConstants
        <5> QED BY <5>2, <5>3 DEF Node
      <4>3. /\ nodes' \in Seq(Node)
            /\ Len(nodes') = Len(nodes)
            /\ DOMAIN nodes' = DOMAIN nodes
            /\ \A i \in DOMAIN nodes : nodes'[i].id = nodes[i].id
        BY <2>1, <3>1, <4>1, <4>2 DEF TypeOK
      <4> QED BY <2>1, <2>8, <3>1, <3>3, <4>1, <4>3
              DEF FrameSendIdle, Step, TypeOK
    <3> QED BY <3>4, <3>5
  <2>9. CASE FrameRetry
    <3>1. cursor \in 1..Len(nodes) /\ nodes[cursor] \in Node
      BY <2>1, <2>9 DEF FrameRetry, TypeOK
    <3> DEFINE n == nodes[cursor]
               r == req[n.id]
    <3>2. r.timeout \in Nat
      BY <2>1, <3>1, RequestTypes
    <3>3. wire' \subseteq Response /\ sent' \in [1..MaxReq -> Nat]
      BY <2>9, <3>1, FrameSendType DEF FrameRetry
    <3>4. nodes' = [nodes EXCEPT ![cursor] =
                      [n EXCEPT !.rem = r.timeout, !.retry = n.retry + 1]]
      BY <2>9 DEF FrameRetry
    <3>5. [n EXCEPT !.rem = r.timeout, !.retry = n.retry + 1] \in Node
      BY <2>9, <3>1, <3>2, BdpConstants DEF FrameRetry, RetriesLeft, Node
    <3>6. /\ nodes' \in Seq(Node)
          /\ Len(nodes') = Len(nodes)
          /\ DOMAIN nodes' = DOMAIN nodes
          /\ \A i \in DOMAIN nodes : nodes'[i].id = nodes[i].id
      BY <2>1, <3>1, <3>4, <3>5 DEF TypeOK
    <3> QED BY <2>1, <2>9, <3>1, <3>3, <3>6 DEF FrameRetry, Step, TypeOK
  <2>10. CASE FrameGiveUp
    <3>1. cursor \in 1..Len(nodes)
      BY <2>1, <2>10 DEF FrameGiveUp, TypeOK
    <3>2. /\ nodes' \in Seq(Node)
          /\ \A i \in DOMAIN nodes' : nodes'[i].id \in DOMAIN req'
          /\ Len(nodes') = Len(nodes) - 1
          /\ active_frames' \in Nat
      BY <2>1, <2>7, <2>10, <3>1 DEF FrameGiveUp
    <3>3. cursor' \in 0..Len(nodes')
      BY <2>1, <2>10, <3>1, <3>2 DEF FrameGiveUp, Step
    <3> QED BY <2>10, <3>2, <3>3 DEF FrameGiveUp, TypeOK
  <2>11. ASSUME NEW m \in wire, RxDiscard(m) PROVE TypeOK'
    BY <2>11 DEF RxDiscard, TypeOK
  <2>12. ASSUME NEW m \in Response, NEW d \in Destination,
                NEW nid \in 0..MaxReq
         PROVE  Fate(m, nid, d) \in [rid : 0..MaxReq, att : Nat,
                                     nid : 0..MaxReq, dest : Destination]
    BY <2>12 DEF Fate, Response
  <2>13. 0 \in 0..MaxReq
    BY BdpConstants
  <2>14. ASSUME NEW m \in wire, RxArp(m) PROVE TypeOK'
    BY <2>12, <2>13, <2>14 DEF RxArp, TypeOK, Destination
  <2>15. ASSUME NEW m \in wire, RxNoClient(m) PROVE TypeOK'
    BY <2>12, <2>13, <2>15 DEF RxNoClient, TypeOK, Destination
  <2>16. ASSUME NEW m \in wire, svsBdpFrameFindAndRemove(m) PROVE TypeOK'
    <3>1. PICK k \in DOMAIN nodes :
            /\ rx' = [pc |-> "found", node |-> nodes[k], m |-> m]
            /\ svsBdpNodeRemove(k)
      BY <2>16 DEF svsBdpFrameFindAndRemove
    <3>2. rx' \in [pc : {"found", "send"}, node : Node, m : Response]
      BY <2>1, <3>1 DEF TypeOK
    <3>3. cursor = 0 /\ cursor' = 0 /\ Len(nodes') \in Nat
      BY <2>1, <2>7, <2>16, <3>1, LenProperties DEF svsBdpFrameFindAndRemove
    <3> QED BY <2>7, <2>16, <3>1, <3>2, <3>3
            DEF svsBdpFrameFindAndRemove, TypeOK
  <2>17. ASSUME NEW m \in wire, RxUnexpected(m) PROVE TypeOK'
    BY <2>12, <2>13, <2>17 DEF RxUnexpected, TypeOK, Destination
  <2>18. CASE RxCheck
    <3>1. rx \in [pc : {"found", "send"}, node : Node, m : Response]
      BY <2>18 DEF RxCheck, TypeOK
    <3>2. Verdict(rx.node, rx.m) \in Destination
      BY DEF Verdict, Destination
    <3>3. rx.m \in Response /\ rx.node.id \in 0..MaxReq
      BY <3>1 DEF Node
    <3>4. Fate(rx.m, rx.node.id, Verdict(rx.node, rx.m))
             \in [rid : 0..MaxReq, att : Nat, nid : 0..MaxReq,
                  dest : Destination]
      BY <2>12, <3>2, <3>3
    <3>5. out' \subseteq [rid : 0..MaxReq, att : Nat, nid : 0..MaxReq,
                          dest : Destination]
      BY <2>18, <3>4 DEF RxCheck, TypeOK
    <3>6. \/ rx' = [pc |-> "read"]
          \/ rx' \in [pc : {"found", "send"}, node : Node, m : Response]
      BY <2>18, <3>1 DEF RxCheck
    <3> QED BY <2>18, <3>5, <3>6 DEF RxCheck, TypeOK
  <2>19. CASE RxSend
    <3>1. rx \in [pc : {"found", "send"}, node : Node, m : Response]
      BY <2>19 DEF RxSend, TypeOK
    <3>2. rx.m \in Response /\ rx.node.id \in 0..MaxReq
      BY <3>1 DEF Node
    <3>3. Fate(rx.m, rx.node.id, "client")
             \in [rid : 0..MaxReq, att : Nat, nid : 0..MaxReq,
                  dest : Destination]
      BY <2>12, <3>2 DEF Destination
    <3> QED BY <2>19, <3>3 DEF RxSend, TypeOK
  <2>20. CASE DeviceEvent
    <3>1. ASSUME NEW a \in 1..MaxAsync
          PROVE  [id |-> 0, att |-> a, seq |-> 0, ack |-> FALSE] \in Response
      BY BdpConstants DEF Response
    <3> QED BY <2>20, <3>1 DEF DeviceEvent, TypeOK
  <2>21. CASE Tick
    <3>1. ASSUME NEW n \in Node
          PROVE  Age(n) \in Node /\ Age(n).id = n.id
      <4>1. Dec(n.rem) \in Nat /\ Dec(n.crem) \in Nat
        BY DEF Dec, Node
      <4>2. [n EXCEPT !.rem = Dec(n.rem)] \in Node
        BY <4>1 DEF Node
      <4>3. /\ [n EXCEPT !.rem = Dec(n.rem), !.crem = Dec(n.crem)] \in Node
            /\ [n EXCEPT !.rem = Dec(n.rem), !.crem = Dec(n.crem)].id = n.id
        BY <4>1, <4>2 DEF Node
      <4> QED BY <4>3 DEF Age
    <3>2. /\ nodes' \in Seq(Node)
          /\ Len(nodes') = Len(nodes)
          /\ DOMAIN nodes' = DOMAIN nodes
          /\ \A i \in DOMAIN nodes : nodes'[i].id = nodes[i].id
      BY <2>1, <2>21, <3>1 DEF Tick, TypeOK
    <3>3. /\ tx' \in Node \cup {NoFrame}
          /\ tx' # NoFrame => tx # NoFrame /\ tx'.id = tx.id
      BY <2>21, <3>1 DEF Tick, TypeOK
    <3>4. \/ rx' = [pc |-> "read"]
          \/ rx' \in [pc : {"found", "send"}, node : Node, m : Response]
      BY <2>21, <3>1 DEF Tick, TypeOK
    <3> QED BY <2>21, <3>2, <3>3, <3>4 DEF Tick, TypeOK
  <2>22. CASE UNCHANGED vars
    BY <2>22 DEF vars, TypeOK
  <2> QED
    BY <2>2, <2>3, <2>4, <2>5, <2>6, <2>8, <2>9, <2>10, <2>11, <2>14, <2>15,
       <2>16, <2>17, <2>18, <2>19, <2>20, <2>21, <2>22
       DEF Next, TxThread, FrameThread, RxThread
<1> QED BY <1>1, <1>2, PTL DEF Spec

-----------------------------------------------------------------------------
(* The order of the list. OldestFirst is not inductive: that the frame     *)
(* thread, finding no active frame for a device, does not overtake an idle *)
(* frame further up follows from WalkBlocked, which says why the pass left *)
(* that frame behind.                                                      *)

(* The list as a sequence.                                                 *)
LEMMA TypeFacts ==
    ASSUME TypeOK
    PROVE  /\ Len(nodes) \in Nat
           /\ DOMAIN nodes = 1..Len(nodes)
           /\ \A i \in 1..Len(nodes) : /\ nodes[i] \in Node
                                       /\ nodes[i].id \in 1..Len(req)
                                       /\ nodes[i].id \in Int
                                       /\ nodes[i].state \in {0, 1}
           /\ Len(req) \in Nat
           /\ DOMAIN req = 1..Len(req)
           /\ cursor \in 0..Len(nodes)
           /\ active_frames \in Nat
<1>1. nodes \in Seq(Node) /\ req \in Seq(Requests)
  BY DEF TypeOK
<1>2. /\ Len(nodes) \in Nat
      /\ DOMAIN nodes = 1..Len(nodes)
      /\ Len(req) \in Nat
      /\ DOMAIN req = 1..Len(req)
  BY <1>1, LenProperties
<1>3. \A i \in 1..Len(nodes) : nodes[i] \in Node /\ nodes[i].id \in 1..Len(req)
  BY <1>1, <1>2, ElementOfSeq DEF TypeOK
<1>4. \A i \in 1..Len(nodes) : nodes[i].id \in Int /\ nodes[i].state \in {0, 1}
  BY <1>3 DEF Node
<1> QED BY <1>2, <1>3, <1>4 DEF TypeOK

(* Unlinking a node keeps the order of the others.                         *)
LEMMA RemoveKeepsOrder ==
    ASSUME TypeOK, OldestFirst, ActiveFramesExact, TxYoungest,
           NEW k \in DOMAIN nodes, svsBdpNodeRemove(k),
           req' = req, tx' = tx
    PROVE  OldestFirst' /\ ActiveFramesExact' /\ TxYoungest'
<1>1. /\ k \in 1..Len(nodes)
      /\ nodes' \in Seq(Node)
      /\ Len(nodes') = Len(nodes) - 1
      /\ \A i \in 1..Len(nodes') :
            nodes'[i] = IF i < k THEN nodes[i] ELSE nodes[i+1]
  BY NodeRemoveType
<1>2. DOMAIN nodes' = 1..Len(nodes')
  BY <1>1, LenProperties
<1> DEFINE old(i) == IF i < k THEN i ELSE i + 1
<1>3. ASSUME NEW i \in DOMAIN nodes'
      PROVE  old(i) \in DOMAIN nodes /\ nodes'[i] = nodes[old(i)]
  BY <1>1, <1>2, TypeFacts
<1>4. OldestFirst'
  <2> SUFFICES ASSUME NEW i \in DOMAIN nodes', NEW j \in DOMAIN nodes', i < j
               PROVE  /\ nodes'[i].id < nodes'[j].id
                      /\ SameDevice(i, j)' => nodes'[j].state = 0
    BY DEF OldestFirst
  <2>1. old(i) < old(j)
    BY <1>1, <1>2, TypeFacts
  <2> HIDE DEF old
  <2> QED BY <1>3, <2>1 DEF OldestFirst, SameDevice
<1>5. ActiveFramesExact'
  <2>1. active_frames' = Len(nodes')
    BY <1>1, TypeFacts DEF ActiveFramesExact, svsBdpNodeRemove
  <2> QED BY <1>1, <2>1, TypeFacts, BdpConstants DEF ActiveFramesExact
<1>6. TxYoungest'
  <2> HIDE DEF old
  <2> QED BY <1>3 DEF TxYoungest
<1> QED BY <1>4, <1>5, <1>6

(* A step that changes neither the length of the list nor the id and state *)
(* of a node keeps the invariant, if the pass does not move on.            *)
LEMMA SameShapeKeepsInv ==
    ASSUME TypeOK, ListInv,
           Len(nodes') = Len(nodes), DOMAIN nodes' = DOMAIN nodes,
           \A i \in DOMAIN nodes : /\ nodes'[i].id = nodes[i].id
                                   /\ nodes'[i].state = nodes[i].state,
           \A i \in DOMAIN req : req'[i] = req[i],
           cursor' = cursor, active_frames' = active_frames
    PROVE  /\ OldestFirst'
           /\ WalkBlocked'
           /\ (tx' = NoFrame) = (tx = NoFrame) => ActiveFramesExact'
<1>1. \A i, j \in DOMAIN nodes : SameDevice(i, j)' = SameDevice(i, j)
  BY TypeFacts DEF SameDevice
<1>2. OldestFirst'
  BY <1>1 DEF ListInv, OldestFirst
<1>3. WalkBlocked'
  <2> SUFFICES ASSUME NEW i \in 1..cursor'-1, nodes'[i].state = 0
               PROVE  \E j \in 1..i-1 : nodes'[j].state = 1 /\ SameDevice(j, i)'
    BY DEF WalkBlocked
  <2>0. i \in 1..cursor-1 /\ i \in DOMAIN nodes /\ nodes[i].state = 0
    BY TypeFacts
  <2>1. PICK j \in 1..i-1 : nodes[j].state = 1 /\ SameDevice(j, i)
    BY <2>0 DEF ListInv, WalkBlocked
  <2>2. i \in DOMAIN nodes /\ j \in DOMAIN nodes
    BY <2>0, TypeFacts
  <2> QED BY <1>1, <2>1, <2>2
<1>4. (tx' = NoFrame) = (tx = NoFrame) => ActiveFramesExact'
  BY DEF ListInv, ActiveFramesExact
<1> QED BY <1>2, <1>3, <1>4

(* The pass may leave node cursor behind when it is active, or idle behind *)
(* an active node for its device.                                          *)
LEMMA StepKeepsWalk ==
    ASSUME TypeOK, ListInv, cursor # 0, Step(cursor + 1, Len(nodes)),
           req' = req, Len(nodes') = Len(nodes), DOMAIN nodes' = DOMAIN nodes,
           \A i \in DOMAIN nodes :
              /\ nodes'[i].id = nodes[i].id
              /\ i # cursor => nodes'[i].state = nodes[i].state,
           \/ nodes'[cursor].state = 1
           \/ /\ nodes'[cursor].state = nodes[cursor].state
              /\ DeviceBusy(cursor)
    PROVE  WalkBlocked'
<1>1. \A i, j \in DOMAIN nodes : SameDevice(i, j)' = SameDevice(i, j)
  BY TypeFacts DEF SameDevice
<1>2. cursor \in 1..Len(nodes) /\ cursor \in DOMAIN nodes
  BY TypeFacts
<1> SUFFICES ASSUME NEW i \in 1..cursor'-1, nodes'[i].state = 0
             PROVE  \E j \in 1..i-1 : nodes'[j].state = 1 /\ SameDevice(j, i)'
  BY DEF WalkBlocked
<1>3. i \in 1..cursor /\ i \in DOMAIN nodes
  BY <1>2, TypeFacts DEF Step
<1>4. CASE i < cursor
  <2>1. PICK j \in 1..i-1 : nodes[j].state = 1 /\ SameDevice(j, i)
    BY <1>3, <1>4, TypeFacts DEF ListInv, WalkBlocked
  <2>2. j \in DOMAIN nodes /\ j # cursor
    BY <1>3, <1>4, TypeFacts
  <2> QED BY <1>1, <1>3, <2>1, <2>2
<1>5. CASE i = cursor
  <2>1. nodes[cursor].state = 0 /\ DeviceBusy(cursor)
    BY <1>5
  <2>2. PICK j \in DOMAIN nodes : /\ j # cursor
                                  /\ nodes[j].state = 1
                                  /\ SameDevice(j, cursor)
    BY <2>1 DEF DeviceBusy, SameDevice
  <2>3. j < cursor
    <3>1. CASE cursor < j
      <4>1. SameDevice(cursor, j)
        BY <2>2 DEF SameDevice
      <4> QED BY <1>2, <2>2, <3>1, <4>1 DEF ListInv, OldestFirst
    <3> QED BY <1>2, <2>2, <3>1, TypeFacts
  <2> QED BY <1>1, <1>2, <1>5, <2>2, <2>3, TypeFacts
<1> QED BY <1>2, <1>3, <1>4, <1>5

(* The listed frames keep the order of their requests, at most one frame   *)
(* per device is active and it is the oldest one, and active_frames counts *)
(* the list exactly, for any number of requests, devices and retries.      *)
THEOREM ListCorrect == Spec => []ListInv
<1>1. Init => ListInv
  <2> SUFFICES ASSUME Init PROVE ListInv
    OBVIOUS
  <2>1. DOMAIN nodes = {} /\ Len(nodes) = 0 /\ 1..cursor-1 = {}
    BY DEF Init
  <2> QED BY <2>1, BdpConstants
          DEF Init, ListInv, OldestFirst, ActiveFramesExact, WalkBlocked,
              TxYoungest
<1>2. TypeOK /\ TypeOK' /\ ListInv /\ [Next]_vars => ListInv'
  <2> SUFFICES ASSUME TypeOK, TypeOK', ListInv, [Next]_vars PROVE ListInv'
    OBVIOUS
  <2>1. ASSUME UNCHANGED <<req, nodes, active_frames, tx, cursor>>
        PROVE  ListInv'
    <3>1. OldestFirst' /\ WalkBlocked' /\ ActiveFramesExact'
      BY <2>1, SameShapeKeepsInv
    <3> QED BY <2>1, <3>1 DEF ListInv, TxYoungest
  <2>2. ASSUME NEW r \in Requests, svsBdpTx(r) PROVE ListInv'
    <3>1. \A i \in DOMAIN req : req'[i] = req[i]
      BY <2>2 DEF svsBdpTx, TypeOK
    <3>2. OldestFirst' /\ WalkBlocked'
      BY <2>2, <3>1, SameShapeKeepsInv DEF svsBdpTx
    <3>3. ActiveFramesExact'
      BY <2>2, BdpConstants, TypeFacts
         DEF svsBdpTx, ListInv, ActiveFramesExact
    <3>4. TxYoungest'
      BY <2>2, TypeFacts DEF svsBdpTx, TxYoungest
    <3> QED BY <3>2, <3>3, <3>4 DEF ListInv
  <2>3. ASSUME NEW r \in Requests, svsBdpTxDrop(r) PROVE ListInv'
    <3>1. \A i \in DOMAIN req : req'[i] = req[i]
      BY <2>3 DEF svsBdpTxDrop, TypeOK
    <3>2. OldestFirst' /\ WalkBlocked' /\ ActiveFramesExact'
      BY <2>3, <3>1, SameShapeKeepsInv DEF svsBdpTxDrop
    <3> QED BY <2>3, <3>2 DEF svsBdpTxDrop, ListInv, TxYoungest
  <2>4. CASE svsBdpFrameAdd
    <3>1. /\ Len(nodes') = Len(nodes) + 1
          /\ DOMAIN nodes' = 1..Len(nodes)+1
          /\ \A i \in 1..Len(nodes) : nodes'[i] = nodes[i]
          /\ nodes'[Len(nodes)+1] = tx
          /\ tx \in Node
          /\ req' = req
      BY <2>4, TypeFacts DEF svsBdpFrameAdd, TypeOK
    <3>2. tx.state = 0
      BY <2>4 DEF svsBdpFrameAdd, ListInv, TxYoungest
    <3>3. OldestFirst'
      BY <2>4, <3>1, <3>2, TypeFacts
         DEF svsBdpFrameAdd, ListInv, OldestFirst, TxYoungest, SameDevice
    <3>4. ActiveFramesExact'
      BY <2>4, <3>1, TypeFacts DEF svsBdpFrameAdd, ListInv, ActiveFramesExact
    <3>5. WalkBlocked' /\ TxYoungest'
      BY <2>4 DEF svsBdpFrameAdd, WalkBlocked, TxYoungest
    <3> QED BY <3>3, <3>4, <3>5 DEF ListInv
  <2>5. CASE FramePass
    <3>1. WalkBlocked'
      BY <2>5 DEF FramePass, WalkBlocked
    <3> QED BY <2>5, <3>1
            DEF FramePass, ListInv, OldestFirst, ActiveFramesExact, TxYoungest,
                SameDevice
  <2>6. CASE FrameSkip
    <3>1. WalkBlocked'
      <4>1. nodes[cursor].state = 0 \/ nodes[cursor].state = 1
        BY <2>6, TypeFacts DEF FrameSkip
      <4> QED BY <2>6, <4>1, StepKeepsWalk DEF FrameSkip
    <3> QED BY <2>6, <3>1
            DEF FrameSkip, ListInv, OldestFirst, ActiveFramesExact, TxYoungest,
                SameDevice
  <2>7. ASSUME cursor # 0, svsBdpNodeRemove(cursor),
               Step(cursor, Len(nodes) - 1), req' = req, tx' = tx
        PROVE  ListInv'
    <3>1. cursor \in 1..Len(nodes) /\ cursor \in DOMAIN nodes
      BY <2>7, TypeFacts
    <3>2. OldestFirst' /\ ActiveFramesExact' /\ TxYoungest'
      BY <2>7, <3>1, RemoveKeepsOrder DEF ListInv
    <3>3. /\ Len(nodes') = Len(nodes) - 1
          /\ \A i \in 1..Len(nodes') : i < cursor => nodes'[i] = nodes[i]
      BY <2>7, <3>1, NodeRemoveType
    <3>4. WalkBlocked'
      <4> SUFFICES ASSUME NEW i \in 1..cursor'-1, nodes'[i].state = 0
                   PROVE  \E j \in 1..i-1 : /\ nodes'[j].state = 1
                                            /\ SameDevice(j, i)'
        BY DEF WalkBlocked
      <4>1. i \in 1..cursor-1 /\ nodes'[i] = nodes[i]
        BY <2>7, <3>1, <3>3, TypeFacts DEF Step
      <4>2. PICK j \in 1..i-1 : nodes[j].state = 1 /\ SameDevice(j, i)
        BY <4>1 DEF ListInv, WalkBlocked
      <4>3. nodes'[j] = nodes[j]
        BY <3>1, <3>3, <4>1, TypeFacts
      <4> QED BY <2>7, <4>1, <4>2, <4>3 DEF SameDevice
    <3> QED BY <3>2, <3>4 DEF ListInv
  <2>8. CASE FrameSendIdle
    <3>1. cursor \in 1..Len(nodes) /\ cursor \in DOMAIN nodes
      BY <2>8, TypeFacts DEF FrameSendIdle
    <3>2. CASE OneShot(req[nodes[cursor].id])
      BY <2>7, <2>8, <3>2 DEF FrameSendIdle
    <3>3. CASE ~OneShot(req[nodes[cursor].id])
      <4>1. /\ Len(nodes') = Len(nodes)
            /\ DOMAIN nodes' = DOMAIN nodes
            /\ \A i \in DOMAIN nodes :
                  /\ nodes'[i].id = nodes[i].id
                  /\ i # cursor => nodes'[i].state = nodes[i].state
            /\ nodes'[cursor].state = 1
            /\ Step(cursor + 1, Len(nodes))
            /\ UNCHANGED <<req, active_frames, tx>>
            /\ ~DeviceBusy(cursor)
            /\ nodes[cursor].state = 0
        <5> DEFINE e == [nodes[cursor] EXCEPT
                           !.state = 1, !.retry = 0,
                           !.rem = req[nodes[cursor].id].timeout]
        <5>1. nodes' = [nodes EXCEPT ![cursor] = e]
          BY <2>8, <3>3 DEF FrameSendIdle
        <5>2. e.id = nodes[cursor].id /\ e.state = 1
          BY <3>1, TypeFacts DEF Node
        <5> HIDE DEF e
        <5>3. /\ Len(nodes') = Len(nodes)
              /\ DOMAIN nodes' = DOMAIN nodes
              /\ nodes'[cursor] = e
              /\ \A i \in DOMAIN nodes : i # cursor => nodes'[i] = nodes[i]
          BY <3>1, <5>1 DEF TypeOK
        <5> QED BY <2>8, <3>3, <5>2, <5>3 DEF FrameSendIdle
      <4>2. WalkBlocked'
        BY <3>1, <4>1, StepKeepsWalk, TypeFacts
      <4>3. ASSUME NEW i \in DOMAIN nodes, i < cursor, SameDevice(i, cursor)
            PROVE  FALSE
        <5>1. nodes[i].state # 1
          BY <3>1, <4>1, <4>3 DEF DeviceBusy, SameDevice
        <5>2. i \in 1..cursor-1 /\ nodes[i].state = 0
          BY <3>1, <4>3, <5>1, TypeFacts
        <5>3. PICK j \in 1..i-1 : nodes[j].state = 1 /\ SameDevice(j, i)
          BY <5>2 DEF ListInv, WalkBlocked
        <5>4. j \in DOMAIN nodes /\ j # cursor
          BY <3>1, <5>2, TypeFacts
        <5> QED BY <4>1, <4>3, <5>3, <5>4 DEF DeviceBusy, SameDevice
      <4>4. OldestFirst'
        <5> SUFFICES ASSUME NEW i \in DOMAIN nodes, NEW j \in DOMAIN nodes,
                            i < j
                     PROVE  /\ nodes'[i].id < nodes'[j].id
                            /\ SameDevice(i, j)' => nodes'[j].state = 0
          BY <4>1 DEF OldestFirst
        <5>1. SameDevice(i, j)' = SameDevice(i, j)
          BY <4>1 DEF SameDevice
        <5>2. CASE j # cursor
          BY <4>1, <5>1, <5>2 DEF ListInv, OldestFirst
        <5>3. CASE j = cursor
          BY <4>1, <4>3, <5>1, <5>3 DEF ListInv, OldestFirst
        <5> QED BY <5>2, <5>3
      <4>5. ActiveFramesExact' /\ TxYoungest'
        BY <4>1 DEF ListInv, ActiveFramesExact, TxYoungest
      <4> QED BY <4>2, <4>4, <4>5 DEF ListInv
    <3> QED BY <3>2, <3>3
  <2>9. CASE FrameRetry
    <3>1. cursor \in 1..Len(nodes) /\ cursor \in DOMAIN nodes
      BY <2>9, TypeFacts DEF FrameRetry
    <3>2. /\ Len(nodes') = Len(nodes)
          /\ DOMAIN nodes' = DOMAIN nodes
          /\ \A i \in DOMAIN nodes : /\ nodes'[i].id = nodes[i].id
                                     /\ nodes'[i].state = nodes[i].state
          /\ nodes'[cursor].state = 1
          /\ Step(cursor + 1, Len(nodes))
          /\ UNCHANGED <<req, active_frames, tx>>
      <4> DEFINE e == [nodes[cursor] EXCEPT
                         !.rem = req[nodes[cursor].id].timeout,
                         !.retry = nodes[cursor].retry + 1]
      <4>1. nodes' = [nodes EXCEPT ![cursor] = e]
        BY <2>9 DEF FrameRetry
      <4>2. e.id = nodes[cursor].id /\ e.state = 1
        BY <2>9, <3>1, TypeFacts DEF FrameRetry, Node
      <4> HIDE DEF e
      <4>3. /\ Len(nodes') = Len(nodes)
            /\ DOMAIN nodes' = DOMAIN nodes
            /\ nodes'[cursor] = e
            /\ \A i \in DOMAIN nodes : i # cursor => nodes'[i] = nodes[i]
        BY <3>1, <4>1 DEF TypeOK
      <4> QED BY <2>9, <4>2, <4>3 DEF FrameRetry
    <3>3. WalkBlocked'
      BY <3>1, <3>2, StepKeepsWalk, TypeFacts
    <3>4. OldestFirst' /\ ActiveFramesExact' /\ TxYoungest'
      BY <3>2 DEF ListInv, OldestFirst, ActiveFramesExact, TxYoungest,
                  SameDevice
    <3> QED BY <3>3, <3>4 DEF ListInv
  <2>10. CASE FrameGiveUp
    BY <2>7, <2>10 DEF FrameGiveUp
  <2>11. ASSUME NEW m \in wire, svsBdpFrameFindAndRemove(m) PROVE ListInv'
    <3>1. PICK k \in DOMAIN nodes : svsBdpNodeRemove(k)
      BY <2>11 DEF svsBdpFrameFindAndRemove
    <3>2. OldestFirst' /\ ActiveFramesExact' /\ TxYoungest'
      BY <2>11, <3>1, RemoveKeepsOrder DEF svsBdpFrameFindAndRemove, ListInv
    <3>3. WalkBlocked'
      BY <2>11 DEF svsBdpFrameFindAndRemove, WalkBlocked
    <3> QED BY <3>2, <3>3 DEF ListInv
  <2>12. ASSUME NEW m \in wire,
                RxDiscard(m) \/ RxArp(m) \/ RxNoClient(m) \/ RxUnexpected(m)
         PROVE  ListInv'
    BY <2>1, <2>12 DEF RxDiscard, RxArp, RxNoClient, RxUnexpected
  <2>13. CASE RxCheck \/ RxSend \/ DeviceEvent \/ UNCHANGED vars
    BY <2>1, <2>13 DEF RxCheck, RxSend, DeviceEvent, vars
  <2>14. CASE Tick
    <3>1. ASSUME NEW n \in Node
          PROVE  Age(n).id = n.id /\ Age(n).state = n.state
      BY DEF Age, Node
    <3>2. /\ Len(nodes') = Len(nodes)
          /\ DOMAIN nodes' = DOMAIN nodes
          /\ \A i \in DOMAIN nodes : /\ nodes'[i].id = nodes[i].id
                                     /\ nodes'[i].state = nodes[i].state
      BY <2>14, <3>1, TypeFacts DEF Tick, TypeOK
    <3>3. tx' = IF tx = NoFrame THEN tx ELSE Age(tx)
      BY <2>14 DEF Tick
    <3>4. (tx' = NoFrame) = (tx = NoFrame)
      BY <3>1, <3>3 DEF TypeOK, Node, NoFrame
    <3>5. OldestFirst' /\ WalkBlocked' /\ ActiveFramesExact'
      BY <2>14, <3>2, <3>4, SameShapeKeepsInv DEF Tick
    <3>6. TxYoungest'
      BY <3>1, <3>2, <3>3, <3>4 DEF ListInv, TxYoungest, TypeOK
    <3> QED BY <3>5, <3>6 DEF ListInv
  <2> QED
    BY <2>2, <2>3, <2>4, <2>5, <2>6, <2>8, <2>9, <2>10, <2>11, <2>12, <2>13,
       <2>14 DEF Next, TxThread, FrameThread, RxThread
<1> QED BY <1>1, <1>2, TypeCorrect, PTL DEF Spec

(* The same, as the two properties that are checked on small instances.    *)
THEOREM OldestFirstCorrect == Spec => [](OldestFirst /\ ActiveFramesExact)
<1>1. ListInv => OldestFirst /\ ActiveFramesExact
  BY DEF ListInv
<1> QED BY <1>1, ListCorrect, PTL

(* active_frames counts the list and respects its limit, in every state.   *)
THEOREM ActiveFramesCorrect == Spec => []ActiveFramesExact
BY OldestFirstCorrect, PTL

-----------------------------------------------------------------------------
(* Which response answers which request.                                   *)

(* After a removal every node is one of the nodes there were.              *)
LEMMA RemoveKeepsNodes ==
    ASSUME TypeOK, NEW k \in DOMAIN nodes, svsBdpNodeRemove(k)
    PROVE  \A i \in DOMAIN nodes' :
             \E j \in DOMAIN nodes : /\ j # k
                                     /\ nodes'[i] = nodes[j]
                                     /\ j = IF i < k THEN i ELSE i + 1
<1>1. /\ k \in 1..Len(nodes)
      /\ Len(nodes) \in Nat
      /\ nodes' \in Seq(Node)
      /\ Len(nodes') = Len(nodes) - 1
      /\ \A i \in 1..Len(nodes') :
            nodes'[i] = IF i < k THEN nodes[i] ELSE nodes[i+1]
  BY NodeRemoveType
<1>2. DOMAIN nodes' = 1..Len(nodes') /\ DOMAIN nodes = 1..Len(nodes)
  BY <1>1, LenProperties, TypeFacts
<1> QED BY <1>1, <1>2

LEMMA RemoveKeepsMatch ==
    ASSUME TypeOK, MatchInv, NEW k \in DOMAIN nodes, svsBdpNodeRemove(k),
           aliased' = aliased, ~aliased
    PROVE  /\ \A i, j \in DOMAIN nodes' :
                 nodes'[i].seq = nodes'[j].seq => i = j
           /\ \A m \in wire : \A i \in DOMAIN nodes' :
                 m.id # 0 /\ m.seq = nodes'[i].seq => m.id = nodes'[i].id
<1> DEFINE old(i) == IF i < k THEN i ELSE i + 1
<1>1. \A i \in DOMAIN nodes' : /\ old(i) \in DOMAIN nodes
                               /\ nodes'[i] = nodes[old(i)]
  BY RemoveKeepsNodes
<1>2. DOMAIN nodes' \subseteq Int /\ k \in Int
  BY NodeRemoveType, LenProperties
<1>3. \A i, j \in DOMAIN nodes' : old(i) = old(j) => i = j
  BY <1>2
<1> HIDE DEF old
<1> QED BY <1>1, <1>3 DEF MatchInv

(* A transmission answers, if at all, the frame that was sent.             *)
LEMMA FrameSendWire ==
    ASSUME NEW n \in Node, svsBdpFrameSend(n)
    PROVE  \A m \in wire' : \/ m \in wire
                            \/ m.id = n.id /\ m.seq = n.seq
BY DEF svsBdpFrameSend

(* As long as no sequence number is reissued while it is in use, every     *)
(* response svsBdpRx delivers is delivered for the request it answers.     *)
THEOREM MatchCorrect == Spec => []MatchInv
<1>1. Init => MatchInv
  BY DEF Init, MatchInv, ResponseMatch
<1>2. TypeOK /\ TypeOK' /\ MatchInv /\ [Next]_vars => MatchInv'
  <2> SUFFICES ASSUME TypeOK, TypeOK', MatchInv, [Next]_vars, ~aliased'
               PROVE  MatchInv'
    BY DEF MatchInv
  <2>0. ~aliased
    BY DEF Next, TxThread, FrameThread, RxThread, svsBdpTx, svsBdpTxDrop,
           svsBdpFrameAdd, FramePass, FrameSkip, FrameSendIdle, FrameRetry,
           FrameGiveUp, RxDiscard, RxArp, RxNoClient, RxUnexpected,
           svsBdpFrameFindAndRemove, RxCheck, RxSend, DeviceEvent, Tick, vars
  <2>1. ASSUME UNCHANGED <<nodes, rx, out>>, wire' \subseteq wire
        PROVE  MatchInv'
    BY <2>0, <2>1 DEF MatchInv, ResponseMatch
  <2>2. ASSUME NEW r \in Requests, svsBdpTx(r) \/ svsBdpTxDrop(r)
        PROVE  MatchInv'
    BY <2>1, <2>2 DEF svsBdpTx, svsBdpTxDrop
  <2>3. CASE svsBdpFrameAdd
    <3>1. /\ DOMAIN nodes = 1..Len(nodes)
          /\ Len(nodes) \in Nat
          /\ DOMAIN nodes' = 1..Len(nodes)+1
          /\ \A i \in 1..Len(nodes) : nodes'[i] = nodes[i]
          /\ nodes'[Len(nodes)+1] = tx
      BY <2>3, TypeFacts DEF svsBdpFrameAdd, TypeOK
    <3>2. /\ \A i \in DOMAIN nodes : nodes[i].seq # tx.seq
          /\ \A m \in wire : m.id # 0 => m.seq # tx.seq
      BY <2>3 DEF svsBdpFrameAdd, InUse
    <3>3. \A i, j \in DOMAIN nodes' : nodes'[i].seq = nodes'[j].seq => i = j
      BY <2>0, <3>1, <3>2 DEF MatchInv
    <3>4. \A m \in wire : \A i \in DOMAIN nodes' :
             m.id # 0 /\ m.seq = nodes'[i].seq => m.id = nodes'[i].id
      BY <2>0, <3>1, <3>2 DEF MatchInv
    <3> QED BY <2>0, <2>3, <3>3, <3>4
            DEF svsBdpFrameAdd, MatchInv, ResponseMatch
  <2>4. CASE FramePass \/ FrameSkip
    BY <2>1, <2>4 DEF FramePass, FrameSkip
  <2>5. ASSUME NEW k \in DOMAIN nodes,
               \A m \in wire' : \/ m \in wire
                                \/ /\ m.id = nodes[k].id
                                   /\ m.seq = nodes[k].seq
        PROVE  \A m \in wire' : \A i \in DOMAIN nodes :
                 m.id # 0 /\ m.seq = nodes[i].seq => m.id = nodes[i].id
    BY <2>0, <2>5 DEF MatchInv
  <2>6. CASE FrameSendIdle
    <3>1. cursor \in DOMAIN nodes /\ nodes[cursor] \in Node
      BY <2>6, TypeFacts DEF FrameSendIdle
    <3>2. \A m \in wire' : \A i \in DOMAIN nodes :
             m.id # 0 /\ m.seq = nodes[i].seq => m.id = nodes[i].id
      BY <2>5, <2>6, <3>1, FrameSendWire DEF FrameSendIdle
    <3>3. CASE svsBdpNodeRemove(cursor)
      <4>1. \A i, j \in DOMAIN nodes' : nodes'[i].seq = nodes'[j].seq => i = j
        BY <2>0, <2>6, <3>1, <3>3, RemoveKeepsMatch DEF FrameSendIdle
      <4>2. \A m \in wire' : \A i \in DOMAIN nodes' :
               m.id # 0 /\ m.seq = nodes'[i].seq => m.id = nodes'[i].id
        BY <3>1, <3>2, <3>3, RemoveKeepsNodes
      <4> QED BY <2>0, <2>6, <4>1, <4>2
              DEF FrameSendIdle, MatchInv, ResponseMatch
    <3>4. CASE ~svsBdpNodeRemove(cursor)
      <4> DEFINE e == [nodes[cursor] EXCEPT
                         !.state = 1, !.retry = 0,
                         !.rem = req[nodes[cursor].id].timeout]
      <4>1. nodes' = [nodes EXCEPT ![cursor] = e]
        BY <2>6, <3>4 DEF FrameSendIdle
      <4>2. e.id = nodes[cursor].id /\ e.seq = nodes[cursor].seq
        BY <3>1 DEF Node
      <4> HIDE DEF e
      <4>3. /\ DOMAIN nodes' = DOMAIN nodes
            /\ \A i \in DOMAIN nodes : /\ nodes'[i].id = nodes[i].id
                                       /\ nodes'[i].seq = nodes[i].seq
        BY <3>1, <4>1, <4>2 DEF TypeOK
      <4> QED BY <2>0, <2>6, <3>2, <4>3
              DEF FrameSendIdle, MatchInv, ResponseMatch
    <3> QED BY <3>3, <3>4
  <2>7. CASE FrameRetry
    <3>1. cursor \in DOMAIN nodes /\ nodes[cursor] \in Node
      BY <2>7, TypeFacts DEF FrameRetry
    <3>2. \A m \in wire' : \A i \in DOMAIN nodes :
             m.id # 0 /\ m.seq = nodes[i].seq => m.id = nodes[i].id
      BY <2>5, <2>7, <3>1, FrameSendWire DEF FrameRetry
    <3> DEFINE e == [nodes[cursor] EXCEPT
                       !.rem = req[nodes[cursor].id].timeout,
                       !.retry = nodes[cursor].retry + 1]
    <3>3. nodes' = [nodes EXCEPT ![cursor] = e]
      BY <2>7 DEF FrameRetry
    <3>4. e.id = nodes[cursor].id /\ e.seq = nodes[cursor].seq
      BY <3>1 DEF Node
    <3> HIDE DEF e
    <3>5. /\ DOMAIN nodes' = DOMAIN nodes
          /\ \A i \in DOMAIN nodes : /\ nodes'[i].id = nodes[i].id
                                     /\ nodes'[i].seq = nodes[i].seq
      BY <3>1, <3>3, <3>4 DEF TypeOK
    <3> QED BY <2>0, <2>7, <3>2, <3>5 DEF FrameRetry, MatchInv, ResponseMatch
  <2>8. CASE FrameGiveUp
    <3>1. cursor \in DOMAIN nodes
      BY <2>8, TypeFacts DEF FrameGiveUp
    <3>2. /\ \A i, j \in DOMAIN nodes' :
               nodes'[i].seq = nodes'[j].seq => i = j
          /\ \A m \in wire : \A i \in DOMAIN nodes' :
               m.id # 0 /\ m.seq = nodes'[i].seq => m.id = nodes'[i].id
      BY <2>0, <2>8, <3>1, RemoveKeepsMatch DEF FrameGiveUp
    <3> QED BY <2>0, <2>8, <3>2 DEF FrameGiveUp, MatchInv, ResponseMatch
  <2>9. ASSUME NEW m \in wire, RxDiscard(m) PROVE MatchInv'
    BY <2>1, <2>9 DEF RxDiscard
  <2>10. ASSUME NEW m \in wire, RxArp(m) \/ RxUnexpected(m) PROVE MatchInv'
    <3>1. PICK d \in {"arp", "ignored"} : out' = out \cup {Fate(m, 0, d)}
      BY <2>10 DEF RxArp, RxUnexpected
    <3>2. ResponseMatch'
      BY <2>0, <3>1 DEF MatchInv, ResponseMatch, Fate, Answered
    <3> QED BY <2>0, <2>10, <3>2 DEF RxArp, RxUnexpected, MatchInv
  <2>11. ASSUME NEW m \in wire, RxNoClient(m) PROVE MatchInv'
    <3>1. SockFd(m) = 0 => m.id = 0
      BY BdpConstants DEF SockFd, TypeOK, Response
    <3>2. ResponseMatch'
      <4>1. CASE SockFd(m) = 0
        BY <2>0, <2>11, <3>1, <4>1
           DEF RxNoClient, MatchInv, ResponseMatch, Fate, Answered
      <4>2. CASE SockFd(m) # 0
        BY <2>0, <2>11, <4>2
           DEF RxNoClient, MatchInv, ResponseMatch, Fate, Answered
      <4> QED BY <4>1, <4>2
    <3> QED BY <2>0, <2>11, <3>2 DEF RxNoClient, MatchInv
  <2>12. ASSUME NEW m \in wire, svsBdpFrameFindAndRemove(m) PROVE MatchInv'
    <3>1. PICK k \in DOMAIN nodes :
            /\ Matches(k, m.seq)
            /\ rx' = [pc |-> "found", node |-> nodes[k], m |-> m]
            /\ svsBdpNodeRemove(k)
      BY <2>12 DEF svsBdpFrameFindAndRemove
    <3>2. m.id # 0
      BY <2>12 DEF svsBdpFrameFindAndRemove, SockFd
    <3>3. rx'.m.id = rx'.node.id
      BY <2>0, <3>1, <3>2 DEF MatchInv, Matches
    <3>4. /\ \A i, j \in DOMAIN nodes' :
               nodes'[i].seq = nodes'[j].seq => i = j
          /\ \A w \in wire : \A i \in DOMAIN nodes' :
               w.id # 0 /\ w.seq = nodes'[i].seq => w.id = nodes'[i].id
      BY <2>0, <2>12, <3>1, RemoveKeepsMatch DEF svsBdpFrameFindAndRemove
    <3> QED BY <2>0, <2>12, <3>3, <3>4
            DEF svsBdpFrameFindAndRemove, MatchInv, ResponseMatch
  <2>13. CASE RxCheck \/ RxSend
    <3>1. rx.m.id = rx.node.id
      BY <2>0, <2>13 DEF RxCheck, RxSend, MatchInv
    <3>2. rx'.pc # "read" => rx'.m = rx.m /\ rx'.node = rx.node
      BY <2>13 DEF RxCheck, RxSend, TypeOK
    <3>3. \A o \in out' : o \in out \/ o.rid = o.nid
      BY <2>13, <3>1 DEF RxCheck, RxSend, Fate
    <3>4. ResponseMatch'
      BY <2>0, <3>3 DEF MatchInv, ResponseMatch
    <3> QED BY <2>0, <2>13, <3>1, <3>2, <3>4 DEF RxCheck, RxSend, MatchInv
  <2>14. CASE DeviceEvent
    BY <2>0, <2>14 DEF DeviceEvent, MatchInv, ResponseMatch
  <2>15. CASE Tick
    <3>1. ASSUME NEW n \in Node
          PROVE  Age(n).id = n.id /\ Age(n).seq = n.seq
      BY DEF Age, Node
    <3>2. /\ DOMAIN nodes' = DOMAIN nodes
          /\ \A i \in DOMAIN nodes : /\ nodes'[i].id = nodes[i].id
                                     /\ nodes'[i].seq = nodes[i].seq
      BY <2>15, <3>1, TypeFacts DEF Tick, TypeOK
    <3>3. rx'.pc # "read" => /\ rx.pc # "read"
                             /\ rx'.m = rx.m
                             /\ rx'.node.id = rx.node.id
      BY <2>15, <3>1 DEF Tick, TypeOK
    <3> QED BY <2>0, <2>15, <3>2, <3>3 DEF Tick, MatchInv, ResponseMatch
  <2>16. CASE UNCHANGED vars
    BY <2>1, <2>16 DEF vars
  <2> QED
    BY <2>2, <2>3, <2>4, <2>6, <2>7, <2>8, <2>9, <2>10, <2>11, <2>12, <2>13,
       <2>14, <2>15, <2>16 DEF Next, TxThread, FrameThread, RxThread
<1> QED BY <1>1, <1>2, TypeCorrect, PTL DEF Spec

-----------------------------------------------------------------------------
(* No response is delivered twice.                                         *)

(* Where the frames of the next state come from.                           *)
LEMMA IdsStep ==
    ASSUME TypeOK, TypeOK', [Next]_vars
    PROVE  /\ \A k \in DOMAIN nodes' :
                \/ \E j \in DOMAIN nodes : nodes'[k].id = nodes[j].id
                \/ tx # NoFrame /\ nodes'[k].id = tx.id
           /\ tx' # NoFrame => \/ tx # NoFrame /\ tx'.id = tx.id
                               \/ tx'.id = Len(req) + 1
           /\ Len(req') >= Len(req)
<1> DEFINE FromList == \A k \in DOMAIN nodes' :
                          \E j \in DOMAIN nodes : nodes'[k].id = nodes[j].id
           FromTx == \A k \in DOMAIN nodes' :
                        \/ \E j \in DOMAIN nodes : nodes'[k].id = nodes[j].id
                        \/ tx # NoFrame /\ nodes'[k].id = tx.id
           Tx == tx' # NoFrame => \/ tx # NoFrame /\ tx'.id = tx.id
                                  \/ tx'.id = Len(req) + 1
           Log == Len(req') >= Len(req)
<1>0. Len(req) \in Nat
  BY TypeFacts
<1>1. ASSUME UNCHANGED <<nodes, tx, req>> PROVE FromTx /\ Tx /\ Log
  BY <1>0, <1>1
<1>2. ASSUME NEW r \in Requests, svsBdpTx(r) \/ svsBdpTxDrop(r)
      PROVE  FromTx /\ Tx /\ Log
  BY <1>0, <1>2 DEF svsBdpTx, svsBdpTxDrop, TypeOK
<1>3. CASE svsBdpFrameAdd
  <2>1. /\ DOMAIN nodes = 1..Len(nodes)
        /\ Len(nodes) \in Nat
        /\ DOMAIN nodes' = 1..Len(nodes)+1
        /\ \A i \in 1..Len(nodes) : nodes'[i] = nodes[i]
        /\ nodes'[Len(nodes)+1] = tx
    BY <1>3, TypeFacts DEF svsBdpFrameAdd, TypeOK
  <2> QED BY <1>0, <1>3, <2>1 DEF svsBdpFrameAdd
<1>4. ASSUME NEW k \in DOMAIN nodes, svsBdpNodeRemove(k)
      PROVE  FromList
  BY <1>4, RemoveKeepsNodes
<1>5. CASE FrameSendIdle
  <2>1. cursor \in DOMAIN nodes /\ nodes[cursor] \in Node
    BY <1>5, TypeFacts DEF FrameSendIdle
  <2>2. CASE svsBdpNodeRemove(cursor)
    BY <1>0, <1>4, <1>5, <2>1, <2>2 DEF FrameSendIdle
  <2>3. CASE ~svsBdpNodeRemove(cursor)
    <3> DEFINE e == [nodes[cursor] EXCEPT
                       !.state = 1, !.retry = 0,
                       !.rem = req[nodes[cursor].id].timeout]
    <3>1. nodes' = [nodes EXCEPT ![cursor] = e]
      BY <1>5, <2>3 DEF FrameSendIdle
    <3>2. e.id = nodes[cursor].id
      BY <2>1 DEF Node
    <3> HIDE DEF e
    <3>3. FromList
      BY <2>1, <3>1, <3>2 DEF TypeOK
    <3> QED BY <1>0, <1>5, <3>3 DEF FrameSendIdle
  <2> QED BY <2>2, <2>3
<1>6. CASE FrameRetry
  <2>1. cursor \in DOMAIN nodes /\ nodes[cursor] \in Node
    BY <1>6, TypeFacts DEF FrameRetry
  <2> DEFINE e == [nodes[cursor] EXCEPT
                     !.rem = req[nodes[cursor].id].timeout,
                     !.retry = nodes[cursor].retry + 1]
  <2>2. nodes' = [nodes EXCEPT ![cursor] = e]
    BY <1>6 DEF FrameRetry
  <2>3. e.id = nodes[cursor].id
    BY <2>1 DEF Node
  <2> HIDE DEF e
  <2>4. FromList
    BY <2>1, <2>2, <2>3 DEF TypeOK
  <2> QED BY <1>0, <1>6, <2>4 DEF FrameRetry
<1>7. CASE FrameGiveUp
  <2>1. cursor \in DOMAIN nodes
    BY <1>7, TypeFacts DEF FrameGiveUp
  <2>2. FromList
    BY <1>4, <1>7, <2>1 DEF FrameGiveUp
  <2> QED BY <1>0, <1>7, <2>2 DEF FrameGiveUp
<1>8. ASSUME NEW m \in wire, svsBdpFrameFindAndRemove(m)
      PROVE  FromTx /\ Tx /\ Log
  <2>1. FromList
    BY <1>4, <1>8 DEF svsBdpFrameFindAndRemove
  <2> QED BY <1>0, <1>8, <2>1 DEF svsBdpFrameFindAndRemove
<1>9. CASE Tick
  <2>1. ASSUME NEW n \in Node PROVE Age(n).id = n.id
    BY DEF Age, Node
  <2>2. FromList
    BY <1>9, <2>1, TypeFacts DEF Tick, TypeOK
  <2>3. Tx
    BY <1>9, <2>1 DEF Tick, TypeOK
  <2> QED BY <1>0, <1>9, <2>2, <2>3 DEF Tick
<1>10. CASE FramePass \/ FrameSkip \/ DeviceEvent \/ RxCheck \/ RxSend
            \/ UNCHANGED vars
  BY <1>1, <1>10 DEF FramePass, FrameSkip, DeviceEvent, RxCheck, RxSend, vars
<1>11. ASSUME NEW m \in wire,
              RxDiscard(m) \/ RxArp(m) \/ RxNoClient(m) \/ RxUnexpected(m)
       PROVE  FromTx /\ Tx /\ Log
  BY <1>1, <1>11 DEF RxDiscard, RxArp, RxNoClient, RxUnexpected
<1> QED
  BY <1>2, <1>3, <1>5, <1>6, <1>7, <1>8, <1>9, <1>10, <1>11
     DEF Next, TxThread, FrameThread, RxThread

(* A frame that left the list for the RX thread never comes back.          *)
LEMMA ConsumedStable ==
    ASSUME TypeOK, TypeOK', [Next]_vars, NEW i \in Nat, Consumed(i)
    PROVE  Consumed(i)'
<1>1. Len(req) \in Nat /\ Len(req') \in Nat
  BY LenProperties DEF TypeOK
<1>2. i <= Len(req')
  BY <1>1, IdsStep DEF Consumed
<1>3. \A k \in DOMAIN nodes' : nodes'[k].id # i
  BY IdsStep DEF Consumed
<1>4. tx' # NoFrame => tx'.id # i
  BY <1>1, IdsStep DEF Consumed
<1> QED BY <1>2, <1>3, <1>4 DEF Consumed

(* Every frame is matched with at most one response: whoever takes it off  *)
(* the list under the mutex decides, and nobody lists it again.            *)
THEOREM OnceCorrect == Spec => []OnceInv
<1>1. Init => OnceInv
  BY DEF Init, OnceInv
<1>2. TypeOK /\ TypeOK' /\ ListInv /\ OnceInv /\ [Next]_vars => OnceInv'
  <2> SUFFICES ASSUME TypeOK, TypeOK', ListInv, OnceInv, [Next]_vars
               PROVE  OnceInv'
    OBVIOUS
  <2>1. \A o \in out : o.nid \in Nat /\ Consumed(o.nid)'
    BY ConsumedStable DEF TypeOK, OnceInv
  <2>2. rx.pc # "read" =>
           \E i \in Nat : /\ i = rx.node.id
                         /\ Consumed(i)'
                         /\ \A o \in out : o.nid # i
    <3> SUFFICES ASSUME rx.pc # "read"
                 PROVE  \E i \in Nat : /\ i = rx.node.id
                                      /\ Consumed(i)'
                                      /\ \A o \in out : o.nid # i
      OBVIOUS
    <3>1. rx.node.id \in Nat
      BY DEF TypeOK, Node
    <3>2. PICK i \in Nat : i = rx.node.id
      BY <3>1
    <3>3. Consumed(i) /\ \A o \in out : o.nid # i
      BY <3>2 DEF OnceInv
    <3>4. Consumed(i)'
      BY <3>3, ConsumedStable
    <3> QED BY <3>2, <3>3, <3>4
  <2>3. ASSUME UNCHANGED <<rx, out>> PROVE OnceInv'
    BY <2>1, <2>2, <2>3 DEF OnceInv
  <2>4. Consumed(0)'
    <3>1. Len(req') \in Nat
      BY LenProperties DEF TypeOK
    <3>2. \A k \in DOMAIN nodes' : nodes'[k].id # 0
      BY LenProperties, ElementOfSeq DEF TypeOK
    <3>3. tx' # NoFrame => tx'.id # 0
      BY DEF TypeOK, Node
    <3> QED BY <3>1, <3>2, <3>3 DEF Consumed
  <2>5. ASSUME NEW m \in wire, RxArp(m) \/ RxNoClient(m) \/ RxUnexpected(m)
        PROVE  OnceInv'
    <3>1. \A o \in out' : o \in out \/ o.nid = 0
      BY <2>5 DEF RxArp, RxNoClient, RxUnexpected, Fate
    <3>2. rx' = rx
      BY <2>5 DEF RxArp, RxNoClient, RxUnexpected
    <3>3. rx'.pc = "read"
      BY <2>5 DEF RxArp, RxNoClient, RxUnexpected
    <3> QED BY <2>1, <2>4, <3>1, <3>3 DEF OnceInv
  <2>6. ASSUME NEW m \in wire, svsBdpFrameFindAndRemove(m) PROVE OnceInv'
    <3>1. PICK k \in DOMAIN nodes :
            /\ rx' = [pc |-> "found", node |-> nodes[k], m |-> m]
            /\ svsBdpNodeRemove(k)
      BY <2>6 DEF svsBdpFrameFindAndRemove
    <3>2. UNCHANGED <<req, tx, out>>
      BY <2>6 DEF svsBdpFrameFindAndRemove
    <3>3. PICK i \in Nat : i = nodes[k].id /\ i <= Len(req)
      BY TypeFacts
    <3>4. \A j \in DOMAIN nodes : j # k => nodes[j].id # i
      BY <3>3, TypeFacts DEF ListInv, OldestFirst
    <3>5. \A j \in DOMAIN nodes' : nodes'[j].id # i
      BY <3>1, <3>4, RemoveKeepsNodes
    <3>6. tx # NoFrame => tx.id # i
      BY <3>3, TypeFacts DEF ListInv, TxYoungest
    <3>7. Consumed(i)'
      BY <3>2, <3>3, <3>5, <3>6 DEF Consumed
    <3>8. \A o \in out : o.nid # i
      BY <3>3 DEF OnceInv, Consumed
    <3>9. rx'.node.id = i
      BY <3>1, <3>3
    <3> QED BY <2>1, <3>2, <3>7, <3>8, <3>9 DEF OnceInv
  <2>7. CASE RxCheck \/ RxSend
    <3>1. rx.pc # "read"
      BY <2>7 DEF RxCheck, RxSend
    <3>2. \/ rx' = [rx EXCEPT !.pc = "send"] /\ out' = out
          \/ /\ rx'.pc = "read"
             /\ \E f : f.nid = rx.node.id /\ out' = out \cup {f}
      <4>1. CASE RxCheck
        <5> DEFINE f == Fate(rx.m, rx.node.id, Verdict(rx.node, rx.m))
        <5>1. f.nid = rx.node.id
          BY DEF Fate
        <5> HIDE DEF f
        <5>2. \/ rx' = [rx EXCEPT !.pc = "send"] /\ out' = out
              \/ rx' = [pc |-> "read"] /\ out' = out \cup {f}
          BY <4>1 DEF RxCheck, f
        <5> QED BY <5>1, <5>2
      <4>2. CASE RxSend
        BY <4>2 DEF RxSend, Fate
      <4> QED BY <2>7, <4>1, <4>2
    <3>3. CASE rx' = [rx EXCEPT !.pc = "send"] /\ out' = out
      <4>1. rx'.node = rx.node
        BY <3>1, <3>3 DEF TypeOK
      <4> QED BY <2>1, <2>2, <3>1, <3>3, <4>1 DEF OnceInv
    <3>4. CASE /\ rx'.pc = "read"
               /\ \E f : f.nid = rx.node.id /\ out' = out \cup {f}
      <4>1. PICK f : f.nid = rx.node.id /\ out' = out \cup {f}
        BY <3>4
      <4>2. PICK i \in Nat : /\ i = rx.node.id
                             /\ Consumed(i)'
                             /\ \A o \in out : o.nid # i
        BY <2>2, <3>1
      <4>3. \A o \in out' : Consumed(o.nid)'
        BY <2>1, <4>1, <4>2
      <4>4. \A o, p \in out' : o.nid # 0 /\ o.nid = p.nid => o = p
        BY <4>1, <4>2 DEF OnceInv
      <4> QED BY <3>4, <4>3, <4>4 DEF OnceInv
    <3> QED BY <3>2, <3>3, <3>4
  <2>8. CASE Tick
    <3>1. ASSUME NEW n \in Node PROVE Age(n).id = n.id
      BY DEF Age, Node
    <3>2. rx'.pc # "read" => rx.pc # "read" /\ rx'.node.id = rx.node.id
      BY <2>8, <3>1 DEF Tick, TypeOK
    <3> QED BY <2>1, <2>2, <2>8, <3>2 DEF Tick, OnceInv
  <2>9. ASSUME NEW r \in Requests, svsBdpTx(r) \/ svsBdpTxDrop(r)
        PROVE  OnceInv'
    BY <2>3, <2>9 DEF svsBdpTx, svsBdpTxDrop
  <2>10. CASE svsBdpFrameAdd \/ FrameThread \/ DeviceEvent \/ UNCHANGED vars
    BY <2>3, <2>10 DEF svsBdpFrameAdd, FrameThread, FramePass, FrameSkip,
                       FrameSendIdle, FrameRetry, FrameGiveUp, DeviceEvent,
                       vars
  <2>11. ASSUME NEW m \in wire, RxDiscard(m) PROVE OnceInv'
    BY <2>3, <2>11 DEF RxDiscard
  <2> QED
    BY <2>5, <2>6, <2>7, <2>8, <2>9, <2>10, <2>11
       DEF Next, TxThread, RxThread
<1> QED BY <1>1, <1>2, TypeCorrect, ListCorrect, PTL DEF Spec

(* A response reaches the client or the callback server only for the       *)
(* request it answers, and only once per request, for any number of        *)
(* requests in flight, as long as no sequence number in use is reissued.   *)
THEOREM DeliveryCorrect == Spec => [](ResponseMatch /\ AnsweredOnce)
<1>1. TypeOK /\ MatchInv /\ OnceInv => ResponseMatch /\ AnsweredOnce
  <2> SUFFICES ASSUME TypeOK, MatchInv, OnceInv
               PROVE  ResponseMatch /\ AnsweredOnce
    OBVIOUS
  <2>1. ResponseMatch
    BY DEF MatchInv, ResponseMatch
  <2> SUFFICES ASSUME ~aliased, NEW o \in out, NEW p \in out,
                      o.rid # 0, o.rid = p.rid,
                      {o.dest, p.dest} \subseteq Answered
               PROVE  o = p
    BY <2>1 DEF AnsweredOnce
  <2>2. o.nid = o.rid /\ p.nid = p.rid
    BY <2>1 DEF ResponseMatch
  <2> QED BY <2>2 DEF OnceInv
<1> QED BY <1>1, TypeCorrect, MatchCorrect, OnceCorrect, PTL

-----------------------------------------------------------------------------
(* How often a request goes on the bus.                                    *)

(* What RetryBudget says of one node.                                      *)
Budgeted(n) ==
    /\ sent[n.id] = (IF n.state = 0 THEN 0 ELSE n.retry + 1)
    /\ n.state = 1 => ~OneShot(req[n.id])

LEMMA BudgetOfNodes ==
    RetryBudget <=> /\ \A i \in 1..MaxReq : sent[i] <= BDP_RETRY_MAX + 1
                    /\ \A i \in DOMAIN nodes : Budgeted(nodes[i])
BY DEF RetryBudget, Budgeted

(* A request is transmitted at most BDP_RETRY_MAX + 1 times, exactly once  *)
(* if nobody answers it, and its frame's retry counter counts the resends. *)
THEOREM BudgetCorrect == Spec => []SentInv
<1>1. Init => SentInv
  <2> SUFFICES ASSUME Init PROVE SentInv
    OBVIOUS
  <2>1. DOMAIN nodes = {} /\ \A i \in 1..MaxReq : sent[i] = 0
    BY DEF Init
  <2> QED BY <2>1, BdpConstants DEF Init, SentInv, RetryBudget
<1>2. TypeOK /\ TypeOK' /\ ListInv /\ SentInv /\ [Next]_vars => SentInv'
  <2> SUFFICES ASSUME TypeOK, TypeOK', ListInv, SentInv, [Next]_vars
               PROVE  SentInv'
    OBVIOUS
  <2>1. /\ BDP_RETRY_MAX \in Nat
        /\ MaxReq \in Nat
        /\ Len(req) \in Nat
        /\ \A i \in 1..MaxReq : sent[i] \in Nat
    BY BdpConstants, TypeFacts DEF TypeOK
  <2>2. \A i \in DOMAIN nodes : /\ Budgeted(nodes[i])
                                /\ nodes[i] \in Node
                                /\ nodes[i].id \in 1..MaxReq
                                /\ nodes[i].id \in DOMAIN req
    <3>1. \A i \in DOMAIN nodes : nodes[i] \in Node /\ Budgeted(nodes[i])
      BY TypeFacts, BudgetOfNodes DEF SentInv
    <3> QED BY <3>1, TypeFacts DEF Node
  <2>3. ASSUME UNCHANGED <<req, nodes, tx, sent>> PROVE SentInv'
    BY <2>3 DEF SentInv, RetryBudget, OneShot, NoAck
  <2>4. ASSUME NEW r \in Requests, svsBdpTx(r) \/ svsBdpTxDrop(r)
        PROVE  SentInv'
    <3>1. /\ Len(req') = Len(req) + 1
          /\ Len(req') <= MaxReq
          /\ \A i \in DOMAIN req : req'[i] = req[i]
          /\ UNCHANGED <<nodes, sent>>
      <4>1. req' = Append(req, r) /\ UNCHANGED <<nodes, sent>>
        BY <2>4 DEF svsBdpTx, svsBdpTxDrop
      <4>2. /\ Len(Append(req, r)) = Len(req) + 1
            /\ \A i \in DOMAIN req : Append(req, r)[i] = req[i]
        BY DEF TypeOK
      <4>3. Len(req') <= MaxReq
        BY DEF TypeOK
      <4> QED BY <4>1, <4>2, <4>3
    <3>2. \A i \in DOMAIN nodes : req'[nodes[i].id] = req[nodes[i].id]
      BY <2>2, <3>1
    <3>3. RetryBudget'
      BY <3>1, <3>2 DEF SentInv, RetryBudget
    <3>4. tx' # NoFrame => tx'.id = Len(req) + 1
      BY <2>4 DEF svsBdpTx, svsBdpTxDrop
    <3>5. tx' # NoFrame => sent'[tx'.id] = 0
      BY <2>1, <3>1, <3>4 DEF SentInv
    <3> QED BY <2>1, <3>1, <3>3, <3>5 DEF SentInv
  <2>5. CASE svsBdpFrameAdd
    <3>1. /\ DOMAIN nodes = 1..Len(nodes)
          /\ Len(nodes) \in Nat
          /\ DOMAIN nodes' = 1..Len(nodes)+1
          /\ \A i \in 1..Len(nodes) : nodes'[i] = nodes[i]
          /\ nodes'[Len(nodes)+1] = tx
          /\ tx # NoFrame
          /\ UNCHANGED <<req, sent>>
          /\ tx' = NoFrame
      BY <2>5, TypeFacts DEF svsBdpFrameAdd, TypeOK
    <3>2. tx.state = 0 /\ sent[tx.id] = 0
      BY <3>1 DEF SentInv, ListInv, TxYoungest
    <3>3. RetryBudget'
      BY <3>1, <3>2 DEF SentInv, RetryBudget, OneShot, NoAck
    <3> QED BY <3>1, <3>3 DEF SentInv
  <2>6. ASSUME NEW k \in DOMAIN nodes, svsBdpNodeRemove(k),
               UNCHANGED <<req, tx, sent>>
        PROVE  SentInv'
    <3>1. \A i \in DOMAIN nodes' : \E j \in DOMAIN nodes : nodes'[i] = nodes[j]
      BY <2>6, RemoveKeepsNodes
    <3>2. RetryBudget'
      BY <2>6, <3>1 DEF SentInv, RetryBudget, OneShot, NoAck
    <3> QED BY <2>6, <3>2 DEF SentInv
  <2>7. ASSUME NEW k \in DOMAIN nodes, svsBdpFrameSend(nodes[k]),
               sent[nodes[k].id] <= BDP_RETRY_MAX
        PROVE  /\ sent'[nodes[k].id] = sent[nodes[k].id] + 1
               /\ \A i \in 1..MaxReq : /\ sent'[i] <= BDP_RETRY_MAX + 1
                                       /\ i # nodes[k].id => sent'[i] = sent[i]
               /\ \A j \in DOMAIN nodes : j # k => nodes[j].id # nodes[k].id
               /\ tx # NoFrame => sent'[tx.id] = 0
               /\ \A i \in 1..MaxReq : i > Len(req) => sent'[i] = 0
    <3>1. sent' = [sent EXCEPT ![nodes[k].id] = sent[nodes[k].id] + 1]
      BY <2>7 DEF svsBdpFrameSend
    <3>2. /\ sent'[nodes[k].id] = sent[nodes[k].id] + 1
          /\ \A i \in 1..MaxReq : i # nodes[k].id => sent'[i] = sent[i]
      BY <2>2, <3>1 DEF TypeOK
    <3>3. \A i \in 1..MaxReq : sent'[i] <= BDP_RETRY_MAX + 1
      BY <2>1, <2>2, <2>7, <3>2 DEF SentInv, RetryBudget
    <3>4. \A j \in DOMAIN nodes : j # k => nodes[j].id # nodes[k].id
      BY TypeFacts DEF ListInv, OldestFirst
    <3>5. tx # NoFrame => tx.id # nodes[k].id /\ tx.id \in 1..MaxReq
      BY TypeFacts DEF ListInv, TxYoungest, TypeOK, Node
    <3>6. tx # NoFrame => sent'[tx.id] = 0
      BY <3>2, <3>5 DEF SentInv
    <3>7. nodes[k].id <= Len(req)
      BY TypeFacts
    <3>8. \A i \in 1..MaxReq : i > Len(req) => sent'[i] = 0
      BY <2>1, <3>2, <3>7, TypeFacts DEF SentInv
    <3> QED BY <3>2, <3>3, <3>4, <3>6, <3>8
  <2>8. CASE FrameSendIdle
    <3>1. cursor \in DOMAIN nodes /\ nodes[cursor].state = 0
      BY <2>8, TypeFacts DEF FrameSendIdle
    <3>2. sent[nodes[cursor].id] = 0
      BY <2>2, <3>1 DEF Budgeted
    <3>3. /\ sent'[nodes[cursor].id] = 1
          /\ \A i \in 1..MaxReq :
                /\ sent'[i] <= BDP_RETRY_MAX + 1
                /\ i # nodes[cursor].id => sent'[i] = sent[i]
          /\ \A j \in DOMAIN nodes :
                j # cursor => nodes[j].id # nodes[cursor].id
          /\ tx # NoFrame => sent'[tx.id] = 0
          /\ \A i \in 1..MaxReq : i > Len(req) => sent'[i] = 0
      BY <2>1, <2>7, <2>8, <3>1, <3>2 DEF FrameSendIdle
    <3>4. UNCHANGED <<req, tx>>
      BY <2>8 DEF FrameSendIdle
    <3>5. \A j \in DOMAIN nodes : j # cursor =>
             /\ sent'[nodes[j].id] =
                  (IF nodes[j].state = 0 THEN 0 ELSE nodes[j].retry + 1)
             /\ nodes[j].state = 1 => ~OneShot(req[nodes[j].id])
      BY <2>2, <3>3 DEF Budgeted
    <3>6. RetryBudget'
      <4>1. CASE OneShot(req[nodes[cursor].id])
        <5>1. \A i \in DOMAIN nodes' :
                 \E j \in DOMAIN nodes : j # cursor /\ nodes'[i] = nodes[j]
          BY <2>8, <3>1, <4>1, RemoveKeepsNodes DEF FrameSendIdle
        <5> QED BY <3>3, <3>4, <3>5, <5>1 DEF RetryBudget
      <4>2. CASE ~OneShot(req[nodes[cursor].id])
        <5> DEFINE e == [nodes[cursor] EXCEPT
                           !.state = 1, !.retry = 0,
                           !.rem = req[nodes[cursor].id].timeout]
        <5>1. nodes' = [nodes EXCEPT ![cursor] = e]
          BY <2>8, <4>2 DEF FrameSendIdle
        <5>2. e.id = nodes[cursor].id /\ e.state = 1 /\ e.retry = 0
          BY <2>2, <3>1 DEF Node
        <5> HIDE DEF e
        <5>3. /\ DOMAIN nodes' = DOMAIN nodes
              /\ nodes'[cursor] = e
              /\ \A i \in DOMAIN nodes : i # cursor => nodes'[i] = nodes[i]
          BY <3>1, <5>1 DEF TypeOK
        <5>4. \A i \in DOMAIN nodes' :
                 /\ sent'[nodes'[i].id] =
                      (IF nodes'[i].state = 0 THEN 0 ELSE nodes'[i].retry + 1)
                 /\ nodes'[i].state = 1 => ~OneShot(req'[nodes'[i].id])
          BY <3>3, <3>4, <3>5, <4>2, <5>2, <5>3
        <5> QED BY <3>3, <5>4 DEF RetryBudget
      <4> QED BY <4>1, <4>2
    <3> QED BY <3>3, <3>4, <3>6 DEF SentInv
  <2>9. CASE FrameRetry
    <3>1. /\ cursor \in DOMAIN nodes
          /\ nodes[cursor].state = 1
          /\ nodes[cursor].retry < BDP_RETRY_MAX
          /\ nodes[cursor].retry \in Nat
      BY <2>2, <2>9, TypeFacts DEF FrameRetry, RetriesLeft, Node
    <3>2. sent[nodes[cursor].id] = nodes[cursor].retry + 1
      BY <2>2, <3>1 DEF Budgeted
    <3>3. /\ sent'[nodes[cursor].id] = nodes[cursor].retry + 2
          /\ \A i \in 1..MaxReq :
                /\ sent'[i] <= BDP_RETRY_MAX + 1
                /\ i # nodes[cursor].id => sent'[i] = sent[i]
          /\ \A j \in DOMAIN nodes :
                j # cursor => nodes[j].id # nodes[cursor].id
          /\ tx # NoFrame => sent'[tx.id] = 0
          /\ \A i \in 1..MaxReq : i > Len(req) => sent'[i] = 0
      <4>1. sent[nodes[cursor].id] <= BDP_RETRY_MAX
        BY <2>1, <3>1, <3>2
      <4>2. svsBdpFrameSend(nodes[cursor])
        BY <2>9 DEF FrameRetry
      <4> QED BY <2>7, <3>1, <3>2, <4>1, <4>2
    <3>4. UNCHANGED <<req, tx>>
      BY <2>9 DEF FrameRetry
    <3>5. \A j \in DOMAIN nodes : j # cursor =>
             /\ sent'[nodes[j].id] =
                  (IF nodes[j].state = 0 THEN 0 ELSE nodes[j].retry + 1)
             /\ nodes[j].state = 1 => ~OneShot(req[nodes[j].id])
      BY <2>2, <3>3 DEF Budgeted
    <3>6. RetryBudget'
      <4> DEFINE e == [nodes[cursor] EXCEPT
                         !.rem = req[nodes[cursor].id].timeout,
                         !.retry = nodes[cursor].retry + 1]
      <4>1. nodes' = [nodes EXCEPT ![cursor] = e]
        BY <2>9 DEF FrameRetry
      <4>2. /\ e.id = nodes[cursor].id
            /\ e.state = 1
            /\ e.retry = nodes[cursor].retry + 1
        BY <2>2, <3>1 DEF Node
      <4> HIDE DEF e
      <4>3. /\ DOMAIN nodes' = DOMAIN nodes
            /\ nodes'[cursor] = e
            /\ \A i \in DOMAIN nodes : i # cursor => nodes'[i] = nodes[i]
        BY <3>1, <4>1 DEF TypeOK
      <4>4. ~OneShot(req[nodes[cursor].id])
        BY <2>2, <3>1 DEF Budgeted
      <4>5. \A i \in DOMAIN nodes' :
               /\ sent'[nodes'[i].id] =
                    (IF nodes'[i].state = 0 THEN 0 ELSE nodes'[i].retry + 1)
               /\ nodes'[i].state = 1 => ~OneShot(req'[nodes'[i].id])
        BY <3>1, <3>3, <3>4, <3>5, <4>2, <4>3, <4>4
      <4> QED BY <3>3, <4>5 DEF RetryBudget
    <3> QED BY <3>3, <3>4, <3>6 DEF SentInv
  <2>10. CASE FrameGiveUp
    <3>1. cursor \in DOMAIN nodes
      BY <2>10, TypeFacts DEF FrameGiveUp
    <3> QED BY <2>6, <2>10, <3>1 DEF FrameGiveUp
  <2>11. ASSUME NEW m \in wire, svsBdpFrameFindAndRemove(m) PROVE SentInv'
    BY <2>6, <2>11 DEF svsBdpFrameFindAndRemove
  <2>12. CASE Tick
    <3>1. ASSUME NEW n \in Node
          PROVE  Age(n).id = n.id /\ Age(n).state = n.state
                 /\ Age(n).retry = n.retry
      BY DEF Age, Node
    <3>2. /\ DOMAIN nodes' = DOMAIN nodes
          /\ \A i \in DOMAIN nodes : /\ nodes'[i].id = nodes[i].id
                                     /\ nodes'[i].state = nodes[i].state
                                     /\ nodes'[i].retry = nodes[i].retry
      BY <2>12, <3>1, TypeFacts DEF Tick, TypeOK
    <3>3. tx' # NoFrame => tx # NoFrame /\ tx'.id = tx.id
      BY <2>12, <3>1 DEF Tick, TypeOK
    <3>4. UNCHANGED <<req, sent>>
      BY <2>12 DEF Tick
    <3>5. RetryBudget'
      BY <3>2, <3>4 DEF SentInv, RetryBudget
    <3> QED BY <3>3, <3>4, <3>5 DEF SentInv
  <2>13. CASE FramePass \/ FrameSkip \/ DeviceEvent \/ RxCheck \/ RxSend
              \/ UNCHANGED vars
    BY <2>3, <2>13
       DEF FramePass, FrameSkip, DeviceEvent, RxCheck, RxSend, vars
  <2>14. ASSUME NEW m \in wire,
                RxDiscard(m) \/ RxArp(m) \/ RxNoClient(m) \/ RxUnexpected(m)
         PROVE  SentInv'
    BY <2>3, <2>14 DEF RxDiscard, RxArp, RxNoClient, RxUnexpected
  <2> QED
    BY <2>4, <2>5, <2>8, <2>9, <2>10, <2>11, <2>12, <2>13, <2>14
       DEF Next, TxThread, FrameThread, RxThread
<1> QED BY <1>1, <1>2, TypeCorrect, ListCorrect, PTL DEF Spec

(* The part of it that is checked on small instances.                      *)
THEOREM RetryBudgetCorrect == Spec => []RetryBudget
<1>1. SentInv => RetryBudget
  BY DEF SentInv
<1> QED BY <1>1, BudgetCorrect, PTL

-----------------------------------------------------------------------------
(* BdpFrames implements BdpService: the refinement mapping is the one of   *)
(* the instance Service in BdpFrames.                                      *)

(* Every response on the wire answers a request that was sent.             *)
WireInv ==
    /\ \A m \in wire : m.id # 0 => m.id \in DOMAIN req /\ sent[m.id] > 0
    /\ rx.pc # "read" => rx.m.id \in DOMAIN req /\ rx.m.id # 0

(* What is not sent does not disturb the wire, ...                         *)
LEMMA WireKept ==
    ASSUME TypeOK, WireInv, wire' \subseteq wire, UNCHANGED <<sent, rx>>,
           req' = req \/ \E r \in Requests : req' = Append(req, r)
    PROVE  WireInv'
<1>1. DOMAIN req \subseteq DOMAIN req'
  BY TypeFacts, AppendProperties, LenProperties DEF TypeOK
<1> QED BY <1>1 DEF WireInv

(* ... and what is sent may bring an answer to itself.                     *)
LEMMA WireSend ==
    ASSUME TypeOK, WireInv, NEW n \in Node, n.id \in DOMAIN req, svsBdpFrameSend(n),
           UNCHANGED <<req, rx>>
    PROVE  WireInv'
<1>1. n.id \in 1..MaxReq /\ n.id # 0
  BY DEF Node
<1>2. /\ sent'[n.id] = sent[n.id] + 1 /\ sent[n.id] \in Nat
      /\ \A i \in 1..MaxReq : sent[i] \in Nat /\ (i # n.id => sent'[i] = sent[i])
  BY <1>1 DEF svsBdpFrameSend, TypeOK
<1>3. ASSUME NEW m \in wire', m.id # 0 PROVE m.id \in DOMAIN req /\ sent'[m.id] > 0
  <2>1. CASE m \in wire
    <3>1. m.id \in 0..MaxReq
      BY <2>1 DEF TypeOK, Response
    <3>2. m.id \in 1..MaxReq /\ m.id \in DOMAIN req /\ sent[m.id] > 0
      BY <1>3, <2>1, <3>1, BdpConstants DEF WireInv
    <3> QED BY <1>2, <3>2
  <2>2. CASE m \notin wire
    <3>1. m.id = n.id
      BY <1>3, <2>2, FrameSendWire
    <3> QED BY <1>2, <3>1
  <2> QED BY <2>1, <2>2
<1> QED BY <1>3 DEF WireInv

(* Every answer on the wire or in the hands of the RX thread is one to a   *)
(* request that was accepted and sent (svsBdpFrameSend).                   *)
THEOREM WireCorrect == Spec => []WireInv
<1>1. Init => WireInv
  BY DEF Init, WireInv
<1>2. TypeOK /\ WireInv /\ [Next]_vars => WireInv'
  <2> SUFFICES ASSUME TypeOK, WireInv, [Next]_vars PROVE WireInv'
    OBVIOUS
  <2>1. CASE TxThread
    BY <2>1, WireKept DEF TxThread, svsBdpTx, svsBdpTxDrop, svsBdpFrameAdd
  <2>2. CASE FramePass \/ FrameSkip \/ FrameGiveUp
    BY <2>2, WireKept DEF FramePass, FrameSkip, FrameGiveUp
  <2>3. CASE FrameSendIdle \/ FrameRetry
    <3>1. cursor \in DOMAIN nodes
      BY <2>3, TypeFacts DEF FrameSendIdle, FrameRetry
    <3>2. nodes[cursor] \in Node /\ nodes[cursor].id \in DOMAIN req
      BY <3>1, TypeFacts
    <3> QED BY <2>3, <3>2, WireSend DEF FrameSendIdle, FrameRetry
  <2>4. CASE RxThread
    <3>1. ASSUME NEW m \in wire, RxDiscard(m) \/ RxArp(m) \/ RxNoClient(m) \/ RxUnexpected(m)
          PROVE  WireInv'
      BY <3>1, WireKept DEF RxDiscard, RxArp, RxNoClient, RxUnexpected
    <3>2. ASSUME NEW m \in wire, svsBdpFrameFindAndRemove(m) PROVE WireInv'
      <4>1. PICK k \in DOMAIN nodes : rx' = [pc |-> "found", node |-> nodes[k], m |-> m]
        BY <3>2 DEF svsBdpFrameFindAndRemove
      <4>2. rx'.m = m /\ wire' \subseteq wire /\ UNCHANGED <<req, sent>>
        BY <3>2, <4>1 DEF svsBdpFrameFindAndRemove
      <4>3. m.id # 0
        BY <3>2 DEF svsBdpFrameFindAndRemove, SockFd
      <4> QED BY <4>2, <4>3 DEF WireInv
    <3>3. CASE RxCheck \/ RxSend
      <4>1. rx.pc # "read" /\ UNCHANGED <<req, wire, sent>>
        BY <3>3 DEF RxCheck, RxSend
      <4>2. rx'.pc = "read" \/ rx'.m = rx.m
        BY <3>3 DEF RxCheck, RxSend, TypeOK
      <4> QED BY <4>1, <4>2 DEF WireInv
    <3> QED BY <2>4, <3>1, <3>2, <3>3 DEF RxThread
  <2>5. CASE DeviceEvent
    <3>1. \A m \in wire' : m \in wire \/ m.id = 0
      BY <2>5 DEF DeviceEvent
    <3> QED BY <2>5, <3>1 DEF DeviceEvent, WireInv
  <2>6. CASE Tick
    <3>1. (rx'.pc # "read") => rx.pc # "read" /\ rx'.m = rx.m
      BY <2>6 DEF Tick, TypeOK
    <3> QED BY <2>6, <3>1 DEF Tick, WireInv
  <2>7. CASE UNCHANGED vars
    BY <2>7, WireKept DEF vars
  <2> QED BY <2>1, <2>2, <2>3, <2>4, <2>5, <2>6, <2>7 DEF Next, FrameThread
<1> QED BY <1>1, <1>2, TypeCorrect, PTL DEF Spec

-----------------------------------------------------------------------------
(* How the abstract state follows the list.                                *)

(* A request is listed once, and not while it is about to be listed.       *)
LEMMA Ids ==
    ASSUME TypeOK, ListInv
    PROVE  /\ \A i, j \in DOMAIN nodes : nodes[i].id = nodes[j].id => i = j
           /\ \A i \in DOMAIN nodes : tx # NoFrame => nodes[i].id # tx.id
<1>1. \A i \in DOMAIN nodes : i \in Int /\ nodes[i].id \in Int
  BY TypeFacts
<1>2. \A i, j \in DOMAIN nodes : i < j => nodes[i].id < nodes[j].id
  BY DEF ListInv, OldestFirst
<1>3. \A i \in DOMAIN nodes : tx # NoFrame => nodes[i].id < tx.id
  BY DEF ListInv, TxYoungest
<1>4. ASSUME NEW i \in DOMAIN nodes, tx # NoFrame PROVE nodes[i].id # tx.id
  BY <1>1, <1>3, <1>4
<1>5. ASSUME NEW i \in DOMAIN nodes, NEW j \in DOMAIN nodes, nodes[i].id = nodes[j].id
      PROVE  i = j
  BY <1>1, <1>2, <1>5
<1> QED BY <1>4, <1>5

(* Listed sees only the requests and states of the list, ...               *)
LEMMA ListedSame ==
    ASSUME DOMAIN nodes' = DOMAIN nodes,
           \A i \in DOMAIN nodes : /\ nodes'[i].id = nodes[i].id
                                   /\ nodes'[i].state = nodes[i].state
    PROVE  Listed(0)' = Listed(0) /\ Listed(1)' = Listed(1)
BY DEF Listed

(* ... and a removal takes one request out of it.                          *)
LEMMA ListedRemove ==
    ASSUME TypeOK, ListInv, NEW k \in DOMAIN nodes, svsBdpNodeRemove(k)
    PROVE  /\ Listed(0)' = Listed(0) \ {nodes[k].id}
           /\ Listed(1)' = Listed(1) \ {nodes[k].id}
<1> DEFINE old(i) == IF i < k THEN i ELSE i + 1
           new(i) == IF i < k THEN i ELSE i - 1
<1>1. \A i \in DOMAIN nodes' : old(i) \in DOMAIN nodes /\ old(i) # k /\ nodes'[i] = nodes[old(i)]
  BY RemoveKeepsNodes
<1>2. ASSUME NEW i \in DOMAIN nodes, i # k
      PROVE  new(i) \in DOMAIN nodes' /\ nodes'[new(i)] = nodes[i]
  <2>1. /\ k \in 1..Len(nodes) /\ Len(nodes) \in Nat /\ nodes' \in Seq(Node)
        /\ Len(nodes') = Len(nodes) - 1 /\ i \in 1..Len(nodes)
        /\ \A j \in 1..Len(nodes') : nodes'[j] = IF j < k THEN nodes[j] ELSE nodes[j+1]
    BY NodeRemoveType, TypeFacts
  <2>2. DOMAIN nodes' = 1..Len(nodes')
    BY <2>1, LenProperties
  <2>3. new(i) \in 1..Len(nodes')
    BY <1>2, <2>1
  <2> QED BY <1>2, <2>1, <2>2, <2>3
<1>3. \A i \in DOMAIN nodes : i # k => nodes[i].id # nodes[k].id
  BY Ids
<1> HIDE DEF old, new
<1>4. ASSUME NEW x, NEW st PROVE x \in Listed(st)' <=> x \in Listed(st) /\ x # nodes[k].id
  <2>1. ASSUME x \in Listed(st)' PROVE x \in Listed(st) /\ x # nodes[k].id
    BY <1>1, <1>3, <2>1 DEF Listed
  <2>2. ASSUME x \in Listed(st), x # nodes[k].id PROVE x \in Listed(st)'
    BY <1>2, <2>2 DEF Listed
  <2> QED BY <2>1, <2>2
<1> QED BY <1>4

-----------------------------------------------------------------------------
(* Every step is one of the service's, or none.                            *)

(* The invariants the steps rely on.                                       *)
ServiceInv == TypeOK /\ ListInv /\ MatchInv /\ OnceInv /\ SentInv /\ WireInv

LEMMA ServiceInit == Init => Service!Init
<1> SUFFICES ASSUME Init PROVE Service!Init
  OBVIOUS
<1>1. Listed(0) = {} /\ Listed(1) = {}
  BY DEF Init, Listed
<1>2. Asked = <<>>
  BY DEF Init, Asked
<1>3. Waiting = {} /\ Active = {} /\ Matched = {} /\ Answers = {} /\ aliased = FALSE
  BY <1>1 DEF Init, Waiting, Active, Matched, Answers
<1> QED BY <1>2, <1>3 DEF Service!Init

(* A step that changes none of the abstract variables.                     *)
LEMMA ServiceStutter ==
    ASSUME Asked' = Asked, Waiting' = Waiting, Active' = Active, Matched' = Matched,
           Answers' = Answers, aliased' = aliased
    PROVE  UNCHANGED Service!vars
BY DEF Service!vars

(* A new request.                                                          *)
LEMMA ServiceAsk ==
    ASSUME ServiceInv, NEW r \in Requests, svsBdpTx(r) \/ svsBdpTxDrop(r)
    PROVE  Service!Next
<1>1. req' = Append(req, r) /\ UNCHANGED <<nodes, rx, out, aliased>> /\ tx = NoFrame
  BY DEF svsBdpTx, svsBdpTxDrop
<1>2. req \in Seq(Requests) /\ Len(req) \in Nat
  BY LenProperties DEF ServiceInv, TypeOK
<1>3. Asked' = Append(Asked, r.dev) /\ Len(Asked) = Len(req)
  BY <1>1, <1>2 DEF Asked
<1>4. UNCHANGED <<Active, Matched, Answers, aliased>> /\ Listed(0)' = Listed(0)
  BY <1>1 DEF Active, Listed, Matched, Answers
<1>5. Waiting' \in {Waiting, Waiting \cup {Len(Asked) + 1}}
  <2>1. Waiting = Listed(0)
    BY <1>1 DEF Waiting
  <2>2. CASE svsBdpTx(r)
    <3>1. tx'.id = Len(req) + 1
      BY <2>2 DEF svsBdpTx
    <3> QED BY <1>3, <1>4, <2>1, <3>1 DEF Waiting
  <2>3. CASE svsBdpTxDrop(r)
    BY <1>1, <1>4, <2>1, <2>3 DEF Waiting, svsBdpTxDrop
  <2> QED BY <2>2, <2>3
<1>6. r.dev \in {q.dev : q \in Requests}
  OBVIOUS
<1> QED BY <1>3, <1>4, <1>5, <1>6 DEF Service!Next, Service!Ask

(* A frame is listed: nothing, or a sequence number is reissued.           *)
LEMMA ServiceAdd ==
    ASSUME ServiceInv, svsBdpFrameAdd
    PROVE  [Service!Next]_(Service!vars)
<1>1. /\ nodes' = Append(nodes, tx) /\ tx # NoFrame /\ tx' = NoFrame
      /\ UNCHANGED <<req, rx, out>> /\ aliased' \in {aliased, TRUE}
  BY DEF svsBdpFrameAdd, ServiceInv, TypeOK
<1>2. nodes \in Seq(Node) /\ tx \in Node /\ Len(nodes) \in Nat /\ DOMAIN nodes = 1..Len(nodes)
  BY <1>1, LenProperties DEF ServiceInv, TypeOK
<1>3. /\ DOMAIN nodes' = 1..(Len(nodes) + 1) /\ nodes'[Len(nodes) + 1] = tx
      /\ \A i \in 1..Len(nodes) : nodes'[i] = nodes[i]
  BY <1>1, <1>2, AppendProperties, LenProperties
<1>4. tx.state = 0
  BY <1>1 DEF ServiceInv, ListInv, TxYoungest
<1>5. Listed(0)' = Listed(0) \cup {tx.id} /\ Listed(1)' = Listed(1)
  BY <1>2, <1>3, <1>4 DEF Listed
<1>6. UNCHANGED <<Asked, Waiting, Active, Matched, Answers>>
  BY <1>1, <1>5 DEF Asked, Waiting, Active, Matched, Answers
<1> QED BY <1>1, <1>6, ServiceStutter DEF Service!Next, Service!Reissue

(* A step that keeps the requests, the answers and the lists of ids.       *)
LEMMA ServiceSame ==
    ASSUME UNCHANGED <<req, out, aliased>>, Listed(0)' = Listed(0), Listed(1)' = Listed(1),
           (tx' = NoFrame) = (tx = NoFrame), tx # NoFrame => tx'.id = tx.id,
           (rx'.pc = "read") = (rx.pc = "read"), rx.pc # "read" => rx'.node.id = rx.node.id
    PROVE  UNCHANGED Service!vars
<1>1. UNCHANGED <<Asked, Waiting, Active, Matched, Answers>>
  BY DEF Asked, Waiting, Active, Matched, Answers
<1> QED BY <1>1, ServiceStutter

(* The frame that is sent is the oldest one for its device.                *)
LEMMA SentOldest ==
    ASSUME ServiceInv, cursor # 0, nodes[cursor].state = 0, ~DeviceBusy(cursor)
    PROVE  Service!Oldest(nodes[cursor].id)
<1>1. cursor \in DOMAIN nodes /\ cursor \in Int /\ cursor >= 1
  BY TypeFacts DEF ServiceInv
<1>2. \A k \in DOMAIN nodes : k \in Int /\ k >= 1 /\ nodes[k].id \in Int /\ nodes[k].state \in {0, 1}
                                /\ nodes[k].id \in DOMAIN req
  BY TypeFacts DEF ServiceInv
<1>3. ASSUME NEW k \in DOMAIN nodes, SameDevice(k, cursor) PROVE nodes[cursor].id <= nodes[k].id
  <2>1. CASE k < cursor
    <3>1. nodes[k].state = 0
      BY <1>1, <1>2, <1>3, <2>1 DEF DeviceBusy, SameDevice
    <3>2. PICK j \in 1..k-1 : nodes[j].state = 1 /\ SameDevice(j, k)
      BY <1>1, <1>2, <2>1, <3>1 DEF ServiceInv, ListInv, WalkBlocked
    <3>3. j \in DOMAIN nodes /\ j # cursor
      BY <1>1, <1>2, <2>1, <3>2, TypeFacts DEF ServiceInv
    <3> QED BY <1>3, <3>2, <3>3 DEF DeviceBusy, SameDevice
  <2>2. CASE cursor < k
    BY <1>1, <1>2, <2>2 DEF ServiceInv, ListInv, OldestFirst
  <2> QED BY <1>1, <1>2, <2>1, <2>2
<1>4. ASSUME NEW k \in DOMAIN nodes, Asked[nodes[k].id] = Asked[nodes[cursor].id]
      PROVE  nodes[cursor].id <= nodes[k].id
  BY <1>1, <1>2, <1>3, <1>4 DEF Asked, SameDevice
<1>5. tx # NoFrame => nodes[cursor].id <= tx.id
  <2>1. tx # NoFrame => nodes[cursor].id < tx.id /\ tx.id \in Int
    BY <1>1 DEF ServiceInv, ListInv, TxYoungest, TypeOK, Node
  <2> QED BY <1>1, <1>2, <2>1
<1> QED BY <1>4, <1>5 DEF Service!Oldest, Waiting, Active, Listed

LEMMA ServiceStart == ASSUME ServiceInv, FrameSendIdle PROVE Service!Next
<1> DEFINE i == nodes[cursor].id
<1>1. /\ cursor # 0 /\ nodes[cursor].state = 0 /\ ~DeviceBusy(cursor)
      /\ UNCHANGED <<req, tx, rx, out, aliased>>
  BY DEF FrameSendIdle
<1>2. cursor \in DOMAIN nodes
  BY <1>1, TypeFacts DEF ServiceInv
<1>3. i \in Listed(0) /\ i \notin Listed(1) /\ (tx # NoFrame => i # tx.id)
  BY <1>1, <1>2, Ids DEF Listed, ServiceInv
<1>4. /\ Listed(0)' = Listed(0) \ {i}
      /\ Listed(1)' \in {Listed(1), Listed(1) \cup {i}}
  <2>1. CASE svsBdpNodeRemove(cursor)
    BY <1>2, <1>3, <2>1, ListedRemove DEF ServiceInv
  <2>2. CASE \E t \in Nat : nodes' = [nodes EXCEPT ![cursor].state = 1, ![cursor].rem = t,
                                                    ![cursor].retry = 0]
    <3>1. /\ DOMAIN nodes' = DOMAIN nodes
          /\ nodes'[cursor].id = i /\ nodes'[cursor].state = 1
          /\ \A k \in DOMAIN nodes : k # cursor => nodes'[k] = nodes[k]
      BY <1>2, <2>2, TypeFacts DEF ServiceInv, Node
    <3>2. \A k \in DOMAIN nodes : k # cursor => nodes[k].id # i
      BY <1>2, Ids DEF ServiceInv
    <3>3. ASSUME NEW x PROVE x \in Listed(0)' <=> x \in Listed(0) /\ x # i
      BY <1>2, <3>1, <3>2 DEF Listed
    <3>4. ASSUME NEW x PROVE x \in Listed(1)' <=> x \in Listed(1) \/ x = i
      BY <1>1, <1>2, <3>1, <3>2 DEF Listed
    <3> QED BY <3>3, <3>4
  <2>3. req[i] \in Requests
    BY <1>2, TypeFacts DEF ServiceInv, TypeOK
  <2>4. req[i].timeout \in Nat
    BY <2>3, RequestTypes
  <2> QED BY <2>1, <2>2, <2>4 DEF FrameSendIdle
<1>5. UNCHANGED <<Asked, Matched, Answers, aliased>>
  BY <1>1 DEF Asked, Matched, Answers
<1>6. i \in Waiting /\ Waiting' = Waiting \ {i} /\ Active' \in {Active, Active \cup {i}}
  BY <1>1, <1>3, <1>4 DEF Waiting, Active
<1>7. Service!Oldest(i)
  BY <1>1, SentOldest
<1> QED BY <1>5, <1>6, <1>7 DEF Service!Next, Service!Start

LEMMA ServiceGiveUp == ASSUME ServiceInv, FrameGiveUp PROVE Service!Next
<1> DEFINE i == nodes[cursor].id
<1>1. /\ cursor # 0 /\ nodes[cursor].state = 1 /\ svsBdpNodeRemove(cursor)
      /\ UNCHANGED <<req, tx, rx, out, aliased>>
  BY DEF FrameGiveUp
<1>2. cursor \in DOMAIN nodes
  BY <1>1, TypeFacts DEF ServiceInv
<1>3. i \in Listed(1) /\ i \notin Listed(0) /\ (tx # NoFrame => i # tx.id)
  BY <1>1, <1>2, Ids DEF Listed, ServiceInv
<1>4. Listed(0)' = Listed(0) /\ Listed(1)' = Listed(1) \ {i}
  BY <1>1, <1>2, <1>3, ListedRemove DEF ServiceInv
<1>5. UNCHANGED <<Asked, Waiting, Matched, Answers, aliased>>
  BY <1>1, <1>4 DEF Asked, Waiting, Matched, Answers
<1> QED BY <1>3, <1>4, <1>5 DEF Service!Next, Service!GiveUp, Active

LEMMA ServiceMatch ==
    ASSUME ServiceInv, NEW m \in wire, svsBdpFrameFindAndRemove(m)
    PROVE  Service!Next
<1>1. rx.pc = "read" /\ UNCHANGED <<req, tx, out, aliased>> /\ m.id # 0
  BY DEF svsBdpFrameFindAndRemove, SockFd
<1>2. PICK k \in DOMAIN nodes : /\ Matches(k, m.seq) /\ svsBdpNodeRemove(k)
                                /\ rx' = [pc |-> "found", node |-> nodes[k], m |-> m]
  BY DEF svsBdpFrameFindAndRemove
<1> DEFINE i == nodes[k].id
<1>3. i \in Listed(0) \cup Listed(1) /\ (tx # NoFrame => i # tx.id)
  BY Ids, TypeFacts DEF Listed, ServiceInv
<1>4. Listed(0)' = Listed(0) \ {i} /\ Listed(1)' = Listed(1) \ {i}
  BY <1>2, ListedRemove DEF ServiceInv
<1>5. ~aliased => i \in Listed(1)
  <2> SUFFICES ASSUME ~aliased PROVE i \in Listed(1)
    OBVIOUS
  <2>1. m.id = i
    BY <1>1, <1>2 DEF ServiceInv, MatchInv, Matches
  <2>2. sent[i] > 0
    BY <1>1, <2>1 DEF ServiceInv, WireInv
  <2>3. nodes[k].state # 0
    BY <2>2 DEF ServiceInv, SentInv, RetryBudget
  <2>4. nodes[k].state = 1
    BY <2>3, TypeFacts DEF ServiceInv
  <2> QED BY <2>4 DEF Listed
<1>6. Matched = {} /\ Matched' = {i}
  BY <1>1, <1>2 DEF Matched
<1>7. UNCHANGED <<Asked, Answers, aliased>>
  BY <1>1 DEF Asked, Answers
<1>8. Waiting' = Waiting \ {i} /\ Active' = Active \ {i}
  BY <1>1, <1>3, <1>4 DEF Waiting, Active
<1>9. i \in Active \/ (aliased /\ i \in Waiting)
  <2>1. aliased \in BOOLEAN
    BY DEF ServiceInv, TypeOK
  <2> QED BY <1>3, <1>5, <2>1 DEF Active, Waiting
<1> QED BY <1>6, <1>7, <1>8, <1>9 DEF Service!Next, Service!Match

(* What becomes of an answer that was found.                               *)
LEMMA ServiceAnswer ==
    ASSUME ServiceInv, rx.pc # "read", rx'.pc = "read", NEW d,
           out' = out \cup {Fate(rx.m, rx.node.id, d)},
           UNCHANGED <<req, nodes, tx, aliased>>
    PROVE  Service!Next
<1> DEFINE i == rx.node.id
           j == rx.m.id
<1>1. UNCHANGED <<Asked, Waiting, Active, aliased>>
  BY DEF Asked, Waiting, Active, Listed
<1>2. Matched = {i} /\ Matched' = {}
  BY DEF Matched
<1>3. j # 0 /\ j \in DOMAIN req
  BY DEF ServiceInv, WireInv
<1>4. Answers' = IF d \in Answered THEN Answers \cup {<<i, j>>} ELSE Answers
  <2>1. PICK f : f = Fate(rx.m, rx.node.id, d)
    OBVIOUS
  <2>2. f.rid = j /\ f.nid = i /\ f.dest = d /\ out' = out \cup {f}
    BY <2>1 DEF Fate
  <2>3. ASSUME NEW x
        PROVE  x \in Answers' <=> x \in Answers \/ (d \in Answered /\ x = <<i, j>>)
    BY <1>3, <2>2 DEF Answers
  <2>4. CASE d \in Answered
    BY <2>3, <2>4
  <2>5. CASE d \notin Answered
    BY <2>3, <2>5
  <2> QED BY <2>4, <2>5
<1>5. CASE d \notin Answered
  BY <1>1, <1>2, <1>4, <1>5 DEF Service!Next, Service!Ignore
<1>6. CASE d \in Answered
  <2>1. i = j \/ aliased
    BY DEF ServiceInv, MatchInv
  <2>2. \A p \in Answers : p[1] # i
    BY DEF ServiceInv, OnceInv, Answers
  <2>3. j \in DOMAIN Asked
    BY <1>3 DEF Asked
  <2> QED BY <1>1, <1>2, <1>4, <1>6, <2>1, <2>2, <2>3 DEF Service!Next, Service!Answer
<1> QED BY <1>5, <1>6

(* Frames nobody waits for leave no answer behind.                         *)
LEMMA ServiceUnmatched ==
    ASSUME ServiceInv, NEW m \in wire,
           RxDiscard(m) \/ RxArp(m) \/ RxNoClient(m) \/ RxUnexpected(m)
    PROVE  UNCHANGED Service!vars
<1>1. UNCHANGED <<req, nodes, tx, rx, aliased>>
  BY DEF RxDiscard, RxArp, RxNoClient, RxUnexpected
<1>2. out' # out =>
        \E d \in Destination : out' = out \cup {Fate(m, 0, d)} /\ (m.id = 0 \/ d \notin Answered)
  BY DEF Destination, RxDiscard, RxArp, RxNoClient, RxUnexpected, SockFd, Answered
<1>3. Answers' = Answers
  <2>1. CASE out' = out
    BY <2>1 DEF Answers
  <2>2. CASE out' # out
    <3>1. PICK d \in Destination : out' = out \cup {Fate(m, 0, d)} /\ (m.id = 0 \/ d \notin Answered)
      BY <1>2, <2>2
    <3>2. PICK f : f = Fate(m, 0, d)
      OBVIOUS
    <3>3. f.rid = m.id /\ f.dest = d /\ out' = out \cup {f}
      BY <3>1, <3>2 DEF Fate
    <3>4. ~(f.rid # 0 /\ f.dest \in Answered)
      BY <3>1, <3>3
    <3>5. {o \in out' : o.rid # 0 /\ o.dest \in Answered}
            = {o \in out : o.rid # 0 /\ o.dest \in Answered}
      BY <3>3, <3>4
    <3> QED BY <3>5 DEF Answers
  <2> QED BY <2>1, <2>2
<1>4. UNCHANGED <<Asked, Waiting, Active, Matched>>
  BY <1>1 DEF Asked, Waiting, Active, Matched, Listed
<1> QED BY <1>1, <1>3, <1>4, ServiceStutter

LEMMA ServiceStep ==
    ASSUME ServiceInv, [Next]_vars
    PROVE  [Service!Next]_(Service!vars)
<1>1. CASE TxThread
  BY <1>1, ServiceAsk, ServiceAdd DEF TxThread
<1>2. CASE FramePass \/ FrameSkip \/ DeviceEvent \/ UNCHANGED vars
  <2>1. UNCHANGED <<req, nodes, tx, rx, out, aliased>>
    BY <1>2 DEF FramePass, FrameSkip, DeviceEvent, vars
  <2> QED BY <2>1, ServiceSame DEF Listed
<1>3. CASE FrameSendIdle \/ FrameGiveUp
  BY <1>3, ServiceStart, ServiceGiveUp
<1>4. CASE FrameRetry
  <2>1. UNCHANGED <<req, tx, rx, out, aliased>> /\ cursor # 0
    BY <1>4 DEF FrameRetry
  <2>2. cursor \in DOMAIN nodes /\ nodes[cursor] \in Node
    BY <2>1, TypeFacts DEF ServiceInv
  <2>3. /\ DOMAIN nodes' = DOMAIN nodes
        /\ \A k \in DOMAIN nodes : /\ nodes'[k].id = nodes[k].id
                                   /\ nodes'[k].state = nodes[k].state
    BY <1>4, <2>2, TypeFacts DEF FrameRetry, ServiceInv, Node
  <2> QED BY <2>1, <2>3, ListedSame, ServiceSame
<1>5. CASE RxThread
  <2>1. ASSUME RxCheck PROVE [Service!Next]_(Service!vars)
    <3>1. rx.pc = "found" /\ UNCHANGED <<req, nodes, tx, aliased>>
      BY <2>1 DEF RxCheck
    <3>2. CASE rx'.pc = "read"
      <4>1. PICK d : out' = out \cup {Fate(rx.m, rx.node.id, d)}
        BY <2>1, <3>1, <3>2 DEF RxCheck, ServiceInv, TypeOK
      <4> QED BY <3>1, <3>2, <4>1, ServiceAnswer
    <3>3. CASE rx'.pc # "read"
      <4>1. rx'.node = rx.node /\ out' = out
        BY <2>1, <3>1, <3>3 DEF RxCheck, ServiceInv, TypeOK
      <4> QED BY <3>1, <3>3, <4>1, ServiceSame DEF Listed
    <3> QED BY <3>2, <3>3
  <2>2. ASSUME RxSend PROVE Service!Next
    <3>1. /\ rx.pc = "send" /\ rx'.pc = "read" /\ UNCHANGED <<req, nodes, tx, aliased>>
          /\ out' = out \cup {Fate(rx.m, rx.node.id, "client")}
      BY <2>2 DEF RxSend
    <3> QED BY <3>1, ServiceAnswer
  <2> QED BY <1>5, <2>1, <2>2, ServiceMatch, ServiceUnmatched DEF RxThread
<1>6. CASE Tick
  <2>1. /\ UNCHANGED <<req, out, aliased>>
        /\ nodes' = [k \in DOMAIN nodes |-> Age(nodes[k])]
    BY <1>6 DEF Tick
  <2>2. /\ DOMAIN nodes' = DOMAIN nodes
        /\ \A k \in DOMAIN nodes : /\ nodes'[k].id = nodes[k].id
                                   /\ nodes'[k].state = nodes[k].state
    BY <2>1, TypeFacts DEF Age, ServiceInv, Node
  <2>3. (tx' = NoFrame) = (tx = NoFrame) /\ (tx # NoFrame => tx'.id = tx.id)
    BY <1>6 DEF Tick, Age, NoFrame, ServiceInv, TypeOK, Node
  <2>4. /\ (rx'.pc = "read") = (rx.pc = "read")
        /\ rx.pc # "read" => rx'.node.id = rx.node.id
    BY <1>6 DEF Tick, Age, ServiceInv, TypeOK, Node
  <2> QED BY <2>1, <2>2, <2>3, <2>4, ListedSame, ServiceSame
<1> QED BY <1>1, <1>2, <1>3, <1>4, <1>5, <1>6 DEF Next, FrameThread

(* The frame manager keeps the promise of BdpService, for any requests,    *)
(* devices, limits and sequence numbers.                                   *)
THEOREM ServiceCorrect == Spec => RequestService
<1>1. Init => Service!Init
  BY ServiceInit
<1>2. ServiceInv /\ [Next]_vars => [Service!Next]_(Service!vars)
  BY ServiceStep
<1>3. Spec => []ServiceInv
  BY TypeCorrect, ListCorrect, MatchCorrect, OnceCorrect, BudgetCorrect, WireCorrect, PTL
     DEF ServiceInv
<1> QED BY <1>1, <1>2, <1>3, PTL DEF Spec, RequestService, Service!Spec

=============================================================================
