------------------------------ MODULE BdpFrames ------------------------------
(***************************************************************************)
(* The BDP frame manager of svsd (src/src/svsBdp.c).                       *)
(*                                                                         *)
(* Three threads share the linked list bdp_node_head under                 *)
(* mutexFrameNodeAccess:                                                   *)
(*  - the BDP-TX socket thread turns a client request into a frame with a  *)
(*    fresh sequence number (svsBdpTx) and appends it (svsBdpFrameAdd);    *)
(*  - the frame thread walks the list every 10 ms, sends idle frames whose *)
(*    device has no active frame, and resends or gives up on active frames *)
(*    that timed out (svsBdpFrameThread);                                  *)
(*  - the BDP-RX socket thread looks a received frame up by its sequence   *)
(*    number, removes it and answers the client or the callback server     *)
(*    (svsBdpRx, svsBdpFrameFindAndRemove).                                *)
(*                                                                         *)
(* Time. The code stores send times and compares differences with          *)
(* svsTimeGet_ms(); here every pending timeout is a countdown: rem = 0 is  *)
(* (tnow - tsent_ms) >= timeout_ms, and crem = 0 is                        *)
(* (now - tsent_client_ms) >= timeout_client_ms.                           *)
(***************************************************************************)
EXTENDS Integers, Sequences, SequencesExt

CONSTANTS
    Requests,       \* the requests clients may send: a set of Request records
    BDP_NUM_ALL,    \* the broadcast device number
    MSG_ID_BDP_ADDR_GET, \* the bus scan message
    MSG_ID_BDP_ACK, \* the message a device returns when its handler failed
    SEQ_MAX,        \* largest sequence number: 0xFF, see svsBdpTx
    ACTIVE_MAX,     \* frames admitted to the list: 255, see svsBdpTx
    BDP_RETRY_MAX,  \* resends of a frame that got no response
    MaxReq,         \* bound: requests in a behaviour
    MaxAsync        \* bound: unsolicited frames in a behaviour

(* What the client library puts in a request's socket header.              *)
Request == [dev : {r.dev : r \in Requests}, msg : {r.msg : r \in Requests},
            blocking : BOOLEAN, callback : BOOLEAN, timeout : Nat]

ASSUME BdpConstants ==
    /\ SEQ_MAX \in Nat \ {0}
    /\ ACTIVE_MAX \in Nat \ {0}
    /\ BDP_RETRY_MAX \in Nat
    /\ MaxReq \in Nat
    /\ MaxAsync \in Nat
    /\ Requests \subseteq Request

VARIABLES
    req,            \* the requests received so far; a frame's id indexes it
    nodes,          \* bdp_node_head: the listed frames, oldest first
    seq_num,        \* bdp_dev_info.seq_num
    active_frames,  \* bdp_dev_info.active_frames
    tx,             \* the frame svsBdpTx built and has not listed yet, or none
    cursor,         \* the frame thread's node; 0 when it is outside its pass
    rx,             \* what the RX thread holds between lookup and delivery
    wire,           \* frames on their way from the devices to the RX thread
    out,            \* what became of every received frame
    sent,           \* transmissions of each request on the bus
    aliased         \* a sequence number was reissued while still in use

vars == <<req, nodes, seq_num, active_frames, tx, cursor, rx, wire, out, sent,
          aliased>>

-----------------------------------------------------------------------------
(* Frames and responses.                                                   *)

Node == [id : 1..MaxReq, seq : 1..SEQ_MAX, state : {0, 1},
         rem : Nat, crem : Nat, retry : 0..BDP_RETRY_MAX]

(* A response carries back the request's seq and sockFd; att tells the     *)
(* transmission it answers. id 0 stands for an unsolicited frame.          *)
Response == [id : 0..MaxReq, att : Nat, seq : 0..SEQ_MAX, ack : BOOLEAN]

NoFrame == [id |-> 0]

(* The flag BDP_MSG_FRAME_FLAG_NO_ACK as the client library sets it.       *)
NoAck(r) ==
    LET nothingToWaitFor == r.timeout = 0 /\ (r.blocking \/ ~r.callback)
    IN  IF r.dev = BDP_NUM_ALL
        THEN r.msg # MSG_ID_BDP_ADDR_GET /\ nothingToWaitFor
        ELSE nothingToWaitFor \/ (~r.blocking /\ ~r.callback)

(* How long the client waits: long enough for every retry.                 *)
ClientTimeout(r) == r.timeout * (BDP_RETRY_MAX + 1)

(* sockFd as the frame header carries it: -1 for a broadcast, 0 for an     *)
(* unsolicited frame, the client's socket (any positive number) otherwise. *)
SockFd(m) ==
    IF m.id = 0 THEN 0 ELSE IF req[m.id].dev = BDP_NUM_ALL THEN -1 ELSE m.id

(* The message id of a response.                                           *)
RspMsg(m) == IF m.ack THEN MSG_ID_BDP_ACK ELSE req[m.id].msg

IsArp(m) == m.id # 0 /\ RspMsg(m) = MSG_ID_BDP_ADDR_GET

(* Mutant: the wrap-around to 0, which stands for unsolicited frames.      *)
NextSeqZero(s) == (s + 1) % (SEQ_MAX + 1)

NextSeq(s) == IF s = SEQ_MAX THEN 1 ELSE s + 1

(* The sequence number s still names a listed frame or a response.         *)
InUse(s) ==
    \/ \E i \in DOMAIN nodes : nodes[i].seq = s
    \/ \E m \in wire : m.id # 0 /\ m.seq = s

Init ==
    /\ req = <<>>
    /\ nodes = <<>>
    /\ seq_num = 1
    /\ active_frames = 0
    /\ tx = NoFrame
    /\ cursor = 0
    /\ rx = [pc |-> "read"]
    /\ wire = {}
    /\ out = {}
    /\ sent = [i \in 1..MaxReq |-> 0]
    /\ aliased = FALSE

-----------------------------------------------------------------------------
(* The BDP-TX thread.                                                      *)

(* svsBdpTx up to svsBdpFrameAdd: build the frame, take a sequence number. *)
svsBdpTx(r) ==
    /\ tx = NoFrame
    /\ Len(req) < MaxReq
    /\ active_frames < ACTIVE_MAX
    /\ req' = Append(req, r)
    /\ tx' = [id |-> Len(req) + 1, seq |-> seq_num, state |-> 0, rem |-> 0,
              crem |-> ClientTimeout(r), retry |-> 0]
    /\ seq_num' = NextSeq(seq_num)
    /\ UNCHANGED <<nodes, active_frames, cursor, rx, wire, out, sent, aliased>>

(* The request is refused and nobody is told: too many active frames       *)
(* (ERR_BUSY), or a device number outside the ARP table, which the handler *)
(* and svsBdpVirtualToPhysical check (the table itself is in BdpArp).      *)
svsBdpTxDrop(r) ==
    /\ tx = NoFrame
    /\ Len(req) < MaxReq
    /\ active_frames >= ACTIVE_MAX \/ r.dev # BDP_NUM_ALL
    /\ req' = Append(req, r)
    /\ UNCHANGED <<nodes, seq_num, active_frames, tx, cursor, rx, wire, out,
                   sent, aliased>>

(* svsBdpFrameAdd and svsBdpNodeAddFromTail, under the mutex.              *)
svsBdpFrameAdd ==
    /\ tx # NoFrame
    /\ cursor = 0
    /\ nodes' = Append(nodes, tx)
    /\ active_frames' = active_frames + 1
    /\ aliased' = (aliased \/ InUse(tx.seq))
    /\ tx' = NoFrame
    /\ UNCHANGED <<req, seq_num, cursor, rx, wire, out, sent>>

-----------------------------------------------------------------------------
(* The frame thread. Its pass holds the mutex from the first node to the   *)
(* last, the transmissions and their back-off delays included.             *)

(* Mutants: only the rest of the list is searched; idle frames count too.  *)
DeviceBusyAhead(k) ==
    \E j \in DOMAIN nodes : /\ j > k
                            /\ nodes[j].state = 1
                            /\ req[nodes[j].id].dev = req[nodes[k].id].dev
DeviceBusyIdle(k) ==
    \E j \in DOMAIN nodes : /\ j # k
                            /\ req[nodes[j].id].dev = req[nodes[k].id].dev

(* Another frame for the same device is active.                            *)
DeviceBusy(k) ==
    \E j \in DOMAIN nodes : /\ j # k
                            /\ nodes[j].state = 1
                            /\ req[nodes[j].id].dev = req[nodes[k].id].dev

(* A frame that is removed as soon as it was sent.                         *)
OneShot(r) == r.dev = BDP_NUM_ALL \/ NoAck(r) \/ r.timeout = 0

(* svsBdpFrameSend: the frame is lost, not answered, or answered by the    *)
(* device with the message itself or with an ACK. A failure to send is not *)
(* told from a loss: the caller ignores the return code.                   *)
svsBdpFrameSend(n) ==
    /\ sent' = [sent EXCEPT ![n.id] = @ + 1]
    /\ \/ wire' = wire
       \/ /\ ~NoAck(req[n.id])
          /\ \E a \in BOOLEAN :
                wire' = wire \cup {[id |-> n.id, att |-> sent[n.id] + 1,
                                    seq |-> n.seq, ack |-> a]}

(* The next node of the walk, in a list of the given length.               *)
Step(k, len) == cursor' = IF k <= len THEN k ELSE 0

(* Mutants: the counter is not decremented; the node is not unlinked.      *)
NodeRemoveUncounted(k) ==
    nodes' = RemoveAt(nodes, k) /\ UNCHANGED active_frames
NodeRemoveNothing(k) == UNCHANGED <<nodes, active_frames>>

(* svsBdpNodeRemove of node k.                                             *)
svsBdpNodeRemove(k) ==
    /\ nodes' = RemoveAt(nodes, k)
    /\ active_frames' = IF active_frames > 0 THEN active_frames - 1 ELSE 0

FramePass ==
    /\ cursor = 0
    /\ nodes # <<>>
    /\ cursor' = 1
    /\ UNCHANGED <<req, nodes, seq_num, active_frames, tx, rx, wire, out, sent,
                   aliased>>

(* An idle frame behind an active one for the same device stays idle, and  *)
(* an active frame that has not timed out is left alone.                   *)
FrameSkip ==
    /\ cursor # 0
    /\ IF nodes[cursor].state = 0 THEN DeviceBusy(cursor)
                                  ELSE nodes[cursor].rem > 0
    /\ Step(cursor + 1, Len(nodes))
    /\ UNCHANGED <<req, nodes, seq_num, active_frames, tx, rx, wire, out, sent,
                   aliased>>

(* First transmission of an idle frame.                                    *)
FrameSendIdle ==
    /\ cursor # 0
    /\ nodes[cursor].state = 0
    /\ ~DeviceBusy(cursor)
    /\ LET n == nodes[cursor]
           r == req[n.id]
       IN  /\ svsBdpFrameSend(n)
           /\ IF OneShot(r)
              THEN /\ svsBdpNodeRemove(cursor)
                   /\ Step(cursor, Len(nodes) - 1)
              ELSE /\ nodes' = [nodes EXCEPT ![cursor].state = 1,
                                             ![cursor].rem = r.timeout,
                                             ![cursor].retry = 0]
                   /\ Step(cursor + 1, Len(nodes))
                   /\ UNCHANGED active_frames
    /\ UNCHANGED <<req, seq_num, tx, rx, out, aliased>>

(* Mutant: one resend too many.                                            *)
RetriesLeftOneMore(n) == n.retry <= BDP_RETRY_MAX

RetriesLeft(n) == n.retry < BDP_RETRY_MAX

(* An active frame timed out: resend it while retries are left.            *)
FrameRetry ==
    /\ cursor # 0
    /\ nodes[cursor].state = 1
    /\ nodes[cursor].rem = 0
    /\ RetriesLeft(nodes[cursor])
    /\ svsBdpFrameSend(nodes[cursor])
    /\ nodes' = [nodes EXCEPT ![cursor].rem = req[nodes[cursor].id].timeout,
                              ![cursor].retry = @ + 1]
    /\ Step(cursor + 1, Len(nodes))
    /\ UNCHANGED <<req, seq_num, active_frames, tx, rx, out, aliased>>

(* ... and drop it when there are none.                                    *)
FrameGiveUp ==
    /\ cursor # 0
    /\ nodes[cursor].state = 1
    /\ nodes[cursor].rem = 0
    /\ ~RetriesLeft(nodes[cursor])
    /\ svsBdpNodeRemove(cursor)
    /\ Step(cursor, Len(nodes) - 1)
    /\ UNCHANGED <<req, seq_num, tx, rx, wire, out, sent, aliased>>

FrameThread ==
    FramePass \/ FrameSkip \/ FrameSendIdle \/ FrameRetry \/ FrameGiveUp

-----------------------------------------------------------------------------
(* The BDP-RX thread.                                                      *)

(* What happened to response m; nid is the frame it was matched with.      *)
Fate(m, nid, dest) == [rid |-> m.id, att |-> m.att, nid |-> nid, dest |-> dest]

(* A frame that fails its checks before the list is consulted (CRC, length,*)
(* message id, address, response size), or is lost on the bus.             *)
RxDiscard(m) ==
    /\ rx.pc = "read"
    /\ wire' = wire \ {m}
    /\ UNCHANGED <<req, nodes, seq_num, active_frames, tx, cursor, rx, out,
                   sent, aliased>>

(* A response to a bus scan feeds the ARP table and goes no further.       *)
RxArp(m) ==
    /\ rx.pc = "read"
    /\ IsArp(m)
    /\ wire' = wire \ {m}
    /\ out' = out \cup {Fate(m, 0, "arp")}
    /\ UNCHANGED <<req, nodes, seq_num, active_frames, tx, cursor, rx, sent,
                   aliased>>

(* sockFd <= 0: unsolicited frames go to the callback server, responses to *)
(* a broadcast are logged.                                                 *)
RxNoClient(m) ==
    /\ rx.pc = "read"
    /\ ~IsArp(m)
    /\ SockFd(m) <= 0
    /\ wire' = wire \ {m}
    /\ out' = out \cup {Fate(m, 0, IF SockFd(m) = 0 THEN "callback"
                                                    ELSE "ignored")}
    /\ UNCHANGED <<req, nodes, seq_num, active_frames, tx, cursor, rx, sent,
                   aliased>>

(* Mutant: any listed frame will do.                                       *)
MatchesHead(k, s) == k = 1

(* svsBdpNodeFind: the first listed frame with sequence number s.          *)
Matches(k, s) == /\ nodes[k].seq = s
                 /\ \A j \in 1..k-1 : nodes[j].seq # s

(* svsBdpFrameFindAndRemove, under the mutex: the frame is copied out and  *)
(* removed.                                                                *)
svsBdpFrameFindAndRemove(m) ==
    /\ rx.pc = "read"
    /\ ~IsArp(m)
    /\ SockFd(m) > 0
    /\ cursor = 0
    /\ wire' = wire \ {m}
    /\ \E k \in DOMAIN nodes :
         /\ Matches(k, m.seq)
         /\ rx' = [pc |-> "found", node |-> nodes[k], m |-> m]
         /\ svsBdpNodeRemove(k)
    /\ UNCHANGED <<req, seq_num, tx, cursor, out, sent, aliased>>

(* The frame is not in the list: logged and ignored.                       *)
RxUnexpected(m) ==
    /\ rx.pc = "read"
    /\ ~IsArp(m)
    /\ SockFd(m) > 0
    /\ cursor = 0
    /\ \A k \in DOMAIN nodes : nodes[k].seq # m.seq
    /\ wire' = wire \ {m}
    /\ out' = out \cup {Fate(m, 0, "ignored")}
    /\ UNCHANGED <<req, nodes, seq_num, active_frames, tx, cursor, rx, sent,
                   aliased>>

(* The checks between lookup and delivery, in the order of the code: where *)
(* the response m goes, given the frame n it was matched with.             *)
Verdict(n, m) ==
    LET r == req[n.id]
    IN  CASE r.msg # RspMsg(m) /\ ~m.ack        -> "ignored"
          [] r.timeout = 0 /\ ~r.callback       -> "ignored"
          [] r.callback                         -> "callback"
          [] n.crem = 0                         -> "expired"
          [] OTHER                              -> "client"

(* svsBdpRx decides; a response for the client is sent in the next step.   *)
RxCheck ==
    /\ rx.pc = "found"
    /\ LET v == Verdict(rx.node, rx.m)
       IN  IF v = "client"
           THEN rx' = [rx EXCEPT !.pc = "send"] /\ UNCHANGED out
           ELSE /\ rx' = [pc |-> "read"]
                /\ out' = out \cup {Fate(rx.m, rx.node.id, v)}
    /\ UNCHANGED <<req, nodes, seq_num, active_frames, tx, cursor, wire, sent,
                   aliased>>

(* svsSocketSendBdp on the sockFd the response carried.                    *)
RxSend ==
    /\ rx.pc = "send"
    /\ rx' = [pc |-> "read"]
    /\ out' = out \cup {Fate(rx.m, rx.node.id, "client")}
    /\ UNCHANGED <<req, nodes, seq_num, active_frames, tx, cursor, wire, sent,
                   aliased>>

RxThread ==
    \/ \E m \in wire : \/ RxDiscard(m)
                       \/ RxArp(m)
                       \/ RxNoClient(m)
                       \/ svsBdpFrameFindAndRemove(m)
                       \/ RxUnexpected(m)
    \/ RxCheck
    \/ RxSend

-----------------------------------------------------------------------------
(* The environment: devices that report on their own, and time.            *)

DeviceEvent ==
    /\ \E a \in 1..MaxAsync :
         /\ \A m \in wire : ~(m.id = 0 /\ m.att = a)
         /\ \A o \in out : ~(o.rid = 0 /\ o.att = a)
         /\ wire' = wire \cup {[id |-> 0, att |-> a, seq |-> 0, ack |-> FALSE]}
    /\ UNCHANGED <<req, nodes, seq_num, active_frames, tx, cursor, rx, out,
                   sent, aliased>>

Dec(t) == IF t > 0 THEN t - 1 ELSE 0

Age(n) == [n EXCEPT !.rem = Dec(@), !.crem = Dec(@)]

(* One unit of time passes for every pending timeout.                      *)
Tick ==
    /\ \/ \E i \in DOMAIN nodes : nodes[i].rem > 0 \/ nodes[i].crem > 0
       \/ tx # NoFrame /\ tx.crem > 0
       \/ rx.pc # "read" /\ (rx.node.rem > 0 \/ rx.node.crem > 0)
    /\ nodes' = [i \in DOMAIN nodes |-> Age(nodes[i])]
    /\ tx' = IF tx = NoFrame THEN tx ELSE Age(tx)
    /\ rx' = IF rx.pc = "read" THEN rx ELSE [rx EXCEPT !.node = Age(@)]
    /\ UNCHANGED <<req, seq_num, active_frames, cursor, wire, out, sent,
                   aliased>>

-----------------------------------------------------------------------------
TxThread ==
    \/ \E r \in Requests : svsBdpTx(r) \/ svsBdpTxDrop(r)
    \/ svsBdpFrameAdd

Next == TxThread \/ FrameThread \/ RxThread \/ DeviceEvent \/ Tick

Spec == Init /\ [][Next]_vars

(* The frame thread runs forever and time passes. The TX thread gets the   *)
(* mutex although the frame thread takes it again and again: the frame     *)
(* thread sleeps 10 ms between its passes. Nothing is asked of the clients,*)
(* of the devices, of the bus or of the RX thread.                         *)
FairSpec == /\ Spec
            /\ WF_vars(FrameThread)
            /\ SF_vars(svsBdpFrameAdd)
            /\ WF_vars(Tick)

-----------------------------------------------------------------------------
(* Properties.                                                             *)

Destination == {"client", "callback", "ignored", "expired", "arp"}

(* The state has its type: listed frames name received requests, the frame *)
(* in the TX thread's hands the latest one.                                *)
TypeOK ==
    /\ req \in Seq(Requests)
    /\ Len(req) <= MaxReq
    /\ nodes \in Seq(Node)
    /\ \A i \in DOMAIN nodes : nodes[i].id \in DOMAIN req
    /\ seq_num \in 1..SEQ_MAX
    /\ active_frames \in Nat
    /\ tx \in Node \cup {NoFrame}
    /\ tx # NoFrame => tx.id = Len(req)
    /\ cursor \in 0..Len(nodes)
    /\ \/ rx = [pc |-> "read"]
       \/ rx \in [pc : {"found", "send"}, node : Node, m : Response]
    /\ wire \subseteq Response
    /\ out \subseteq [rid : 0..MaxReq, att : Nat, nid : 0..MaxReq,
                      dest : Destination]
    /\ sent \in [1..MaxReq -> Nat]
    /\ aliased \in BOOLEAN

SameDevice(i, j) == req[nodes[i].id].dev = req[nodes[j].id].dev

(* Frames are listed in the order their requests came, no frame twice, and *)
(* a frame becomes active only once no older frame for its device is left. *)
(* Hence a device has at most one active frame, and serves its frames      *)
(* oldest first.                                                           *)
OldestFirst ==
    \A i, j \in DOMAIN nodes : i < j =>
        /\ nodes[i].id < nodes[j].id
        /\ SameDevice(i, j) => nodes[j].state = 0

(* active_frames, which svsBdpTx reads without the mutex, counts the listed*)
(* frames, and the frame about to be listed never makes them exceed the    *)
(* limit: the check and the increment are in different steps.              *)
ActiveFramesExact ==
    /\ active_frames = Len(nodes)
    /\ Len(nodes) + (IF tx = NoFrame THEN 0 ELSE 1) <= ACTIVE_MAX

(* What makes OldestFirst inductive: an idle frame the current pass of the *)
(* frame thread has left behind waits for an active frame in front of it,  *)
(* and the frame in the TX thread's hands is idle and younger than all the *)
(* listed ones.                                                            *)
WalkBlocked ==
    \A i \in 1..cursor-1 : nodes[i].state = 0 =>
        \E j \in 1..i-1 : nodes[j].state = 1 /\ SameDevice(j, i)

TxYoungest ==
    tx # NoFrame => /\ tx.state = 0
                    /\ \A i \in DOMAIN nodes : nodes[i].id < tx.id

ListInv == OldestFirst /\ ActiveFramesExact /\ WalkBlocked /\ TxYoungest

(* A request goes on the bus at most BDP_RETRY_MAX + 1 times; while it is  *)
(* listed its retry counter is the number of resends, and a frame nobody   *)
(* answers never becomes active.                                           *)
RetryBudget ==
    /\ \A i \in 1..MaxReq : sent[i] <= BDP_RETRY_MAX + 1
    /\ \A i \in DOMAIN nodes :
          LET n == nodes[i]
          IN  /\ sent[n.id] = (IF n.state = 0 THEN 0 ELSE n.retry + 1)
              /\ n.state = 1 => ~OneShot(req[n.id])

(* ... because no request is sent before it is listed.                     *)
SentInv ==
    /\ RetryBudget
    /\ tx # NoFrame => sent[tx.id] = 0
    /\ \A i \in 1..MaxReq : i > Len(req) => sent[i] = 0

Answered == {"client", "callback"}

(* As long as no sequence number is reissued while it is in use, a response*)
(* is delivered for the very request it answers.                           *)
ResponseMatch ==
    ~aliased => \A o \in out : o.rid # 0 /\ o.dest \in Answered => o.rid = o.nid

(* ... and at most one response of a request is delivered, although every  *)
(* resend may be answered: whoever removes the frame from the list decides.*)
AnsweredOnce ==
    ~aliased => \A o, p \in out :
        o.rid # 0 /\ o.rid = p.rid /\ {o.dest, p.dest} \subseteq Answered => o = p

(* What makes ResponseMatch inductive: a sequence number names one listed  *)
(* frame, and every response that carries it answers that frame.           *)
MatchInv ==
    ~aliased =>
        /\ \A i, j \in DOMAIN nodes : nodes[i].seq = nodes[j].seq => i = j
        /\ \A m \in wire : \A i \in DOMAIN nodes :
              m.id # 0 /\ m.seq = nodes[i].seq => m.id = nodes[i].id
        /\ rx.pc # "read" => rx.m.id = rx.node.id
        /\ ResponseMatch

(* A frame that was matched with a response is off the list for good, so   *)
(* that it is not matched again, even when sequence numbers are reissued.  *)
Consumed(i) ==
    /\ i <= Len(req)
    /\ \A k \in DOMAIN nodes : nodes[k].id # i
    /\ tx # NoFrame => tx.id # i

OnceInv ==
    /\ \A o \in out : Consumed(o.nid)
    /\ \A o, p \in out : o.nid # 0 /\ o.nid = p.nid => o = p
    /\ rx.pc # "read" => /\ Consumed(rx.node.id)
                         /\ \A o \in out : o.nid # rx.node.id

(* Every frame svsBdpTx built is eventually listed, sent, and off the list *)
(* again, whatever the devices do: no frame starves behind the others for  *)
(* its device. (A stale response that carries a reissued sequence number   *)
(* may take an idle frame off the list before it was sent.)                *)
Settles ==
    \A i \in 1..MaxReq :
        tx.id = i ~> /\ tx.id # i
                     /\ \A k \in DOMAIN nodes : nodes[k].id # i
                     /\ sent[i] > 0 \/ aliased

-----------------------------------------------------------------------------
(* The frame manager as a service: which requests wait, are on the bus, are*)
(* matched with an answer, and have been answered.                         *)

Listed(state) == {nodes[i].id : i \in {k \in DOMAIN nodes : nodes[k].state = state}}

Asked == [i \in DOMAIN req |-> req[i].dev]

Waiting == Listed(0) \cup (IF tx = NoFrame THEN {} ELSE {tx.id})

Active == Listed(1)

Matched == IF rx.pc = "read" THEN {} ELSE {rx.node.id}

Answers == {<<o.nid, o.rid>> : o \in {f \in out : f.rid # 0 /\ f.dest \in Answered}}

Service == INSTANCE BdpService WITH
    Devices <- {r.dev : r \in Requests}, asked <- Asked, waiting <- Waiting,
    active <- Active, matched <- Matched, answers <- Answers, reissued <- aliased

(* The list, the three threads and the sequence numbers keep the promise of*)
(* BdpService: per device, requests are sent in the order they came; an    *)
(* answer is found for a request that was sent, and is its own, as long as *)
(* no sequence number was reissued while in use; and no request is answered*)
(* twice, whatever is resent, late, or reissued.                           *)
RequestService == Service!Spec

=============================================================================
