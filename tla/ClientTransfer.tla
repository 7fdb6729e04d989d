--------------------------- MODULE ClientTransfer ---------------------------
(***************************************************************************)
(* The client's side of a request (src/src/svsSocket.c, lines 214-616).    *)
(*                                                                         *)
(* An application has one connection to each of the BDP, KR and SVS servers*)
(* of svsd. Its threads share them: a transfer takes the channel's mutex,  *)
(* throws away what is in the socket, sends the request, waits for an      *)
(* answer until a time-out, and gives the mutex back. Answers carry no     *)
(* request number, so that an answer which comes after its time-out is     *)
(* taken for the answer to a later request if it arrives behind the flush. *)
(*                                                                         *)
(* The servers' ends of the connections are as in CallbackServer: "up",    *)
(* "closed", "reset" or "broken".                                          *)
(***************************************************************************)
EXTENDS Integers, Sequences, SequencesExt

CONSTANTS
    Threads,        \* the threads of the application
    Requests,       \* what they may ask for: a set of Request records
    None,           \* no thread
    BDP_NUM_ALL,    \* the broadcast device number
    MSG_ID_BDP_ADDR_GET, \* the bus scan message
    MSG_ID_BDP_ACK, \* the message of a device whose handler failed
    KrRetries,      \* transmissions of a KR request: 10
    MaxReq          \* bound: transfers in a behaviour

Chan == {"BDP", "KR", "SVS"}

Request == [chan : Chan, dev : {r.dev : r \in Requests},
            msg : {r.msg : r \in Requests}, blocking : BOOLEAN,
            callback : BOOLEAN, timeout : Int]

ASSUME TransferConstants ==
    /\ None \notin Threads
    /\ Requests \subseteq Request
    /\ \A r \in Requests : r.chan # "BDP" => r.blocking /\ ~r.callback
    /\ KrRetries \in Nat \ {0}
    /\ MaxReq \in Nat

VARIABLES
    req,            \* the transfers so far; a transfer's id indexes it
    lock,           \* mutexSocketClientBdp, ...Kr, ...Svs: their owners
    sockFd,         \* svsBdpSockFdGet() > 0, and so on
    open,           \* the descriptor is open
    peer,           \* the server's end of the connection
    pend,           \* requests the server has, the oldest first
    inq,            \* answers in the client's socket
    th,             \* the threads
    res,            \* what each transfer returned, and the answer it took
    astray          \* channels on which a transfer gave up on an answer

vars == <<req, lock, sockFd, open, peer, pend, inq, th, res, astray>>

(* An answer to transfer id; a BDP may answer with MSG_ID_BDP_ACK instead. *)
Answer == [id : 1..MaxReq, ack : BOOLEAN]

Idle == [pc |-> "idle"]

NoAnswer == [id |-> 0, ack |-> FALSE]

Init ==
    /\ req = <<>>
    /\ lock = [c \in Chan |-> None]
    /\ sockFd = [c \in Chan |-> TRUE]
    /\ open = [c \in Chan |-> TRUE]
    /\ peer = [c \in Chan |-> "up"]
    /\ pend = [c \in Chan |-> <<>>]
    /\ inq = [c \in Chan |-> <<>>]
    /\ th = [t \in Threads |-> Idle]
    /\ res = {}
    /\ astray = {}

Ch(t) == req[th[t].id].chan

Msg(a) == IF a.ack THEN MSG_ID_BDP_ACK ELSE req[a.id].msg

(* The transfer of thread t returns rc, having taken answer a.             *)
Ends(t, rc, a) ==
    th' = [th EXCEPT ![t] = [pc |-> "close", id |-> @.id, retry |-> @.retry,
                             rc |-> rc, ans |-> a]]

Goto(t, pc) == th' = [th EXCEPT ![t].pc = pc]

-----------------------------------------------------------------------------
(* One transfer, from the call of svsSocketServer...TransferSafe on.       *)

Call(t, r) ==
    /\ th[t] = Idle
    /\ Len(req) < MaxReq
    /\ req' = Append(req, r)
    /\ th' = [th EXCEPT ![t] = [pc |-> "lock", id |-> Len(req) + 1, retry |-> 1,
                                rc |-> "ERR_PASS", ans |-> NoAnswer]]
    /\ UNCHANGED <<lock, sockFd, open, peer, pend, inq, res, astray>>

(* Mutant: the mutex is taken from its owner.                              *)
LockAnyway(t) ==
    /\ th[t].pc = "lock"
    /\ lock' = [lock EXCEPT ![Ch(t)] = t]
    /\ Goto(t, "flush")
    /\ UNCHANGED <<req, sockFd, open, peer, pend, inq, res, astray>>

Lock(t) ==
    /\ th[t].pc = "lock"
    /\ lock[Ch(t)] = None
    /\ lock' = [lock EXCEPT ![Ch(t)] = t]
    /\ Goto(t, "flush")
    /\ UNCHANGED <<req, sockFd, open, peer, pend, inq, res, astray>>

(* The check of the descriptor, which SVS transfers do not make, and       *)
(* svsSocketRecvFlush.                                                     *)
svsSocketRecvFlush(t) ==
    /\ th[t].pc = "flush"
    /\ LET c == Ch(t)
       IN  \/ /\ c # "SVS" /\ ~sockFd[c]
              /\ Ends(t, "ERR_FAIL", NoAnswer)
              /\ UNCHANGED <<open, inq>>
           \/ /\ c = "SVS" \/ sockFd[c]
              /\ ~open[c] \/ peer[c] = "reset"
              /\ Ends(t, "ERR_SOCK_FAIL", NoAnswer)
              /\ open' = [open EXCEPT ![c] = FALSE]
              /\ UNCHANGED inq
           \/ /\ c = "SVS" \/ sockFd[c]
              /\ open[c]
              /\ peer[c] # "reset"
              /\ inq' = [inq EXCEPT ![c] = <<>>]
              /\ IF peer[c] = "up" THEN Goto(t, "send")
                                   ELSE Ends(t, "ERR_SOCK_DISC", NoAnswer)
              /\ UNCHANGED open
    /\ UNCHANGED <<req, lock, sockFd, peer, pend, res, astray>>

(* svsSocketSend and, for a call that waits, setsockopt: a negative        *)
(* time-out is refused, after the request was sent.                        *)
svsSocketSend(t) ==
    /\ th[t].pc = "send"
    /\ LET c == Ch(t)
           r == req[th[t].id]
           sent == IF ~r.blocking THEN Ends(t, "ERR_PASS", NoAnswer)
                   ELSE IF r.timeout < 0 THEN Ends(t, "ERR_FAIL", NoAnswer)
                   ELSE Goto(t, "recv")
       IN  \/ /\ ~open[c]
              /\ Ends(t, "ERR_FAIL", NoAnswer)
              /\ UNCHANGED <<peer, pend, astray>>
           \/ /\ open[c]
              /\ peer[c] = "up"
              /\ pend' = [pend EXCEPT ![c] = Append(@, th[t].id)]
              /\ sent
              /\ astray' = IF r.blocking /\ r.timeout < 0 THEN astray \cup {c}
                                                          ELSE astray
              /\ UNCHANGED peer
           \/ /\ open[c]
              /\ peer[c] = "closed"
              /\ peer' = [peer EXCEPT ![c] = "broken"]
              /\ sent
              /\ UNCHANGED <<pend, astray>>
           \/ /\ open[c]
              /\ peer[c] \in {"reset", "broken"}
              /\ peer' = [peer EXCEPT ![c] = "broken"]
              /\ Ends(t, IF peer[c] = "reset" THEN "ERR_FAIL" ELSE "ERR_SOCK_DISC",
                      NoAnswer)
              /\ UNCHANGED <<pend, astray>>
    /\ UNCHANGED <<req, lock, sockFd, open, inq, res>>

(* Validation of answer a to request r; the BDP transfer only logs a wrong *)
(* message id.                                                             *)
Verdict(r, a) ==
    CASE r.chan = "BDP" /\ Msg(a) # r.msg /\ a.ack -> "status"
      [] r.chan = "BDP" /\ r.dev # BDP_NUM_ALL /\ req[a.id].dev # r.dev
           -> "ERR_FAIL"
      [] r.chan = "KR" /\ Msg(a) # r.msg -> "ERR_FAIL"
      [] r.chan = "SVS" /\ (req[a.id].dev # r.dev \/ Msg(a) # r.msg)
           -> "ERR_FAIL"
      [] OTHER -> "ERR_PASS"

(* svsSocketRecvMsg returns an answer.                                     *)
RecvAnswer(t) ==
    /\ th[t].pc = "recv"
    /\ inq[Ch(t)] # <<>>
    /\ LET a == Head(inq[Ch(t)])
       IN  Ends(t, Verdict(req[th[t].id], a), a)
    /\ inq' = [inq EXCEPT ![Ch(t)] = Tail(@)]
    /\ UNCHANGED <<req, lock, sockFd, open, peer, pend, res, astray>>

(* Mutant: one transmission too many.                                      *)
RetryLeftOneMore(t) == Ch(t) = "KR" /\ th[t].retry <= KrRetries

RetryLeft(t) == Ch(t) = "KR" /\ th[t].retry < KrRetries

(* Mutant: the counter of the KR loop is not incremented.                  *)
ResendUncounted(t) == Goto(t, "send")

(* The next round of the KR loop.                                          *)
Resend(t) == th' = [th EXCEPT ![t].pc = "send", ![t].retry = @ + 1]

(* The time-out of the socket; a time-out of 0 waits for ever on the KR and*)
(* SVS channels, and is replaced by BDP_TIMEOUT_MIN_MS on the BDP channel. *)
RecvTimeout(t) ==
    /\ th[t].pc = "recv"
    /\ inq[Ch(t)] = <<>>
    /\ peer[Ch(t)] = "up"
    /\ Ch(t) = "BDP" \/ req[th[t].id].timeout > 0
    /\ IF RetryLeft(t) THEN Resend(t)
                       ELSE Ends(t, "ERR_COMMS_TIMEOUT", NoAnswer)
    /\ astray' = astray \cup {Ch(t)}
    /\ UNCHANGED <<req, lock, sockFd, open, peer, pend, inq, res>>

(* The server is gone. recv() goes on with a descriptor that another thread*)
(* closed while it was waiting.                                            *)
RecvError(t) ==
    /\ th[t].pc = "recv"
    /\ inq[Ch(t)] = <<>>
    /\ peer[Ch(t)] # "up"
    /\ IF peer[Ch(t)] = "reset"
       THEN /\ Ends(t, "ERR_SOCK_FAIL", NoAnswer)
            /\ open' = [open EXCEPT ![Ch(t)] = FALSE]
            /\ peer' = [peer EXCEPT ![Ch(t)] = "broken"]
       ELSE /\ Ends(t, "ERR_SOCK_DISC", NoAnswer)
            /\ UNCHANGED <<open, peer>>
    /\ UNCHANGED <<req, lock, sockFd, pend, inq, res, astray>>

(* setsockopt() or recv() on a descriptor another thread closed.           *)
RecvClosed(t) ==
    /\ th[t].pc = "recv"
    /\ ~open[Ch(t)]
    /\ \E rc \in {"ERR_FAIL", "ERR_SOCK_FAIL"} : Ends(t, rc, NoAnswer)
    /\ astray' = astray \cup {Ch(t)}
    /\ UNCHANGED <<req, lock, sockFd, open, peer, pend, inq, res>>

(* The descriptor that is closed after ERR_SOCK_DISC: the SVS transfer     *)
(* closes the one of the KR channel (and then descriptor 0).               *)
Victim(t) == IF Ch(t) = "SVS" THEN "KR" ELSE Ch(t)

Close(t) ==
    /\ th[t].pc = "close"
    /\ open' = IF th[t].rc = "ERR_SOCK_DISC" /\ sockFd[Victim(t)]
               THEN [open EXCEPT ![Victim(t)] = FALSE] ELSE open
    /\ Goto(t, "unlock")
    /\ UNCHANGED <<req, lock, sockFd, peer, pend, inq, res, astray>>

Unlock(t) ==
    /\ th[t].pc = "unlock"
    /\ sockFd' = IF th[t].rc = "ERR_SOCK_DISC"
                 THEN [sockFd EXCEPT ![Victim(t)] = FALSE] ELSE sockFd
    /\ lock' = [lock EXCEPT ![Ch(t)] = None]
    /\ res' = res \cup {[id |-> th[t].id, rc |-> th[t].rc, ans |-> th[t].ans]}
    /\ th' = [th EXCEPT ![t] = Idle]
    /\ UNCHANGED <<req, open, peer, pend, inq, astray>>

Transfer(t) ==
    \/ svsSocketRecvFlush(t) \/ svsSocketSend(t)
    \/ RecvAnswer(t) \/ RecvTimeout(t) \/ RecvError(t) \/ RecvClosed(t)
    \/ Close(t) \/ Unlock(t)

-----------------------------------------------------------------------------
(* svsd, as the client sees it.                                            *)

(* BDP_MSG_FRAME_FLAG_NO_ACK of a request to one device.                   *)
NoAck(r) == \/ r.timeout = 0 /\ (r.blocking \/ ~r.callback)
            \/ ~r.blocking /\ ~r.callback

(* The requests that are answered on the client's socket, see svsBdpRx.    *)
Answerable(r) ==
    r.chan = "BDP" => /\ r.dev # BDP_NUM_ALL
                      /\ r.msg # MSG_ID_BDP_ADDR_GET
                      /\ ~NoAck(r)
                      /\ ~r.callback

(* The devices on a bus answer in any order; the KR and SVS servers have   *)
(* one request at a time.                                                  *)
ServerAnswer(c) ==
    /\ \E k \in DOMAIN pend[c] :
         /\ c # "BDP" => k = 1
         /\ Answerable(req[pend[c][k]])
         /\ pend' = [pend EXCEPT ![c] = RemoveAt(@, k)]
         /\ \E ack \in BOOLEAN :
              /\ ack => c = "BDP"
              /\ inq' = [inq EXCEPT ![c] =
                           Append(@, [id |-> pend[c][k], ack |-> ack])]
    /\ UNCHANGED <<req, lock, sockFd, open, peer, th, res, astray>>

(* A request that is not answered: it or its answer was lost or refused, or*)
(* no answer was asked for.                                                *)
ServerDrop(c) ==
    /\ c # "SVS"
    /\ \E k \in DOMAIN pend[c] : pend' = [pend EXCEPT ![c] = RemoveAt(@, k)]
    /\ UNCHANGED <<req, lock, sockFd, open, peer, inq, th, res, astray>>

(* svsd exits, with all its connections.                                   *)
ServerExit ==
    /\ \A c \in Chan : peer[c] = "up"
    /\ peer' \in [Chan -> {"closed", "reset"}]
    /\ \A c \in Chan : peer'[c] = "reset" => pend[c] # <<>>
    /\ pend' = [c \in Chan |-> <<>>]
    /\ inq' = [c \in Chan |-> IF peer'[c] = "reset" THEN <<>> ELSE inq[c]]
    /\ UNCHANGED <<req, lock, sockFd, open, th, res, astray>>

Server == ServerExit \/ \E c \in Chan : ServerAnswer(c) \/ ServerDrop(c)

-----------------------------------------------------------------------------
Next ==
    \/ \E t \in Threads : \/ \E r \in Requests : Call(t, r)
                          \/ Lock(t)
                          \/ Transfer(t)
    \/ Server

Spec == Init /\ [][Next]_vars

(* A thread in a transfer runs on, and time-outs happen. Nothing is asked  *)
(* of svsd, or of the order in which threads get a mutex.                  *)
FairSpec == Spec /\ \A t \in Threads : WF_vars(Transfer(t))

-----------------------------------------------------------------------------
(* Properties.                                                             *)

Rc == {"ERR_PASS", "ERR_FAIL", "ERR_COMMS_TIMEOUT", "ERR_SOCK_DISC",
       "ERR_SOCK_FAIL", "status"}

(* The state has its type; a KR request is sent at most KrRetries times.   *)
TypeOK ==
    /\ req \in Seq(Requests)
    /\ Len(req) <= MaxReq
    /\ lock \in [Chan -> Threads \cup {None}]
    /\ sockFd \in [Chan -> BOOLEAN]
    /\ open \in [Chan -> BOOLEAN]
    /\ peer \in [Chan -> {"up", "closed", "reset", "broken"}]
    /\ pend \in [Chan -> Seq(1..MaxReq)]
    /\ inq \in [Chan -> Seq(Answer)]
    /\ \A t \in Threads :
          \/ th[t] = Idle
          \/ /\ th[t] \in [pc : {"lock", "flush", "send", "recv", "close", "unlock"},
                           id : 1..MaxReq, retry : 1..KrRetries, rc : Rc,
                           ans : Answer \cup {NoAnswer}]
             /\ th[t].id \in DOMAIN req
    /\ res \subseteq [id : 1..MaxReq, rc : Rc, ans : Answer \cup {NoAnswer}]
    /\ astray \subseteq Chan

(* As long as no transfer on a channel gave up on its answer, every answer *)
(* a transfer takes is the one to its own request, whatever the threads do *)
(* with the channel in the meantime.                                       *)
OwnAnswer ==
    \A x \in res : x.ans.id # 0 /\ req[x.id].chan \notin astray => x.ans.id = x.id

(* A transfer that has its mutex gives it back, on every path and whatever *)
(* svsd does, unless it is a KR or SVS transfer with time-out 0 (which     *)
(* SO_RCVTIMEO takes for none).                                            *)
TransferEnds ==
    \A t \in Threads : \A c \in Chan :
        lock[c] = t /\ (c = "BDP" \/ req[th[t].id].timeout # 0) ~> lock[c] # t

-----------------------------------------------------------------------------
(* What a comment in the source says and the code does not guarantee.      *)

(* "we should have received a message with the same msgID sent": a transfer*)
(* that succeeds returns an answer to the message it sent.                 *)
SameMsgID ==
    \A x \in res : x.rc = "ERR_PASS" /\ x.ans.id # 0 =>
        Msg(x.ans) = req[x.id].msg

=============================================================================
