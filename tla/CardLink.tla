------------------------------ MODULE CardLink ------------------------------
(***************************************************************************)
(* The serial link to the card reader: ccr.origin/Prtcl_RS232C_8.c and the *)
(* port functions of RS232C_Interface.c it calls.                          *)
(*                                                                         *)
(* Threads call ConnectDevice, DisconnectDevice, ExecuteCommand and        *)
(* CancelCommand on one port.  A command is sent and acknowledged, the     *)
(* reply is read and acknowledged; both are repeated after a NAK or a      *)
(* time-out.  What the reader sends is one stream that two threads may     *)
(* read at the same time: cancelling takes another semaphore than          *)
(* executing.                                                              *)
(*                                                                         *)
(* The stream is a sequence of tokens: the control bytes, and a reply as   *)
(* STX, its length, its body with the CRC.  A body may hold bytes that     *)
(* look like control bytes.  The semaphores of the ports are initialised   *)
(* by each ConnectDevice; their destruction (RS232C_End) changes nothing   *)
(* in the GNU C library.  What calls other than ExecuteCommand return is   *)
(* not recorded.                                                           *)
(***************************************************************************)
EXTENDS Integers, Sequences, FiniteSets

CONSTANTS
  Threads,
  Functions,     \* which of the four functions each thread calls
  Connected,     \* the port is open at the start
  MaxCommands,   \* bound on ExecuteCommand
  MaxEvents,     \* bound on the calls of the three other functions and on the
                   \* faults of the reader and the line, taken together
  CommandRetry,  \* DEFAULT_COMMAND_RETRY
  ReceiveRetry,  \* DEFAULT_RECEIVE_RETRY
  NakRetry       \* DEFAULT_NAK_RETRY

LinkConstants ==
  /\ IsFiniteSet(Threads)
  /\ Functions \in [Threads -> SUBSET {"connect", "disconnect", "execute", "cancel"}]
  /\ Connected \in BOOLEAN
  /\ MaxCommands \in Nat /\ MaxEvents \in Nat
  /\ CommandRetry \in Nat /\ ReceiveRetry \in Nat /\ NakRetry \in Nat

VARIABLES
  linkPc,  \* where each thread is
  call,    \* the local variables of its call
  sem,     \* the semaphores of the port
  info,    \* the flags of g_Information[Port]
  tx,      \* bytes on their way to the reader
  rx,      \* bytes the reader sent, not read yet
  unit,    \* the reader: busy with a command, and the last one it took
  issued,  \* number of commands executed so far
  events,  \* number of other calls and faults so far
  reinit,  \* a semaphore was initialised while a thread held it
  astray   \* a command was repeated or given up that the reader has or will get, or a
           \* byte of a late reply was taken for its acknowledgement

vars == <<linkPc, call, sem, info, tx, rx, unit, issued, events, reinit, astray>>

Executing == {"send", "ack", "first", "second", "length", "body", "garbled", "done"}
Cancelling == {"mark", "cancel", "check", "answer1", "answer2", "unmark"}
PCs == {"idle", "enter", "connect1", "connect2", "disconnect1", "disconnect2", "cancelenter"}
         \cup Executing \cup Cancelling

Results == {"none", "NO_ERROR", "CANCEL_SESSION", "FAILED_TO_SEND", "FAILED_TO_RECEIVE",
            "CANCELED", "REPLY_TIMEOUT", "ACK_TIMEOUT", "NAK_OVERTIMES",
            "CHARACTER_TIMEOUT", "NOT_CONNECTED"}

Control(c) == [kind |-> c, id |-> 0, good |-> TRUE]
Reply(i, good) == <<Control("STX"), Control("LEN"), [kind |-> "BODY", id |-> i, good |-> good]>>

NoCall == [id |-> 0, retry |-> 0, crc |-> 0, nak |-> FALSE, ret |-> "none", reply |-> 0]

Init ==
  /\ linkPc = [t \in Threads |-> "idle"]
  /\ call = [t \in Threads |-> NoCall]
  /\ sem = [connect |-> 1, execute |-> 1, cancel |-> 1]
  /\ info = [connected |-> Connected, cancelFlag |-> FALSE, cancelReceive |-> Connected]
  /\ tx = <<>> /\ rx = <<>>
  /\ unit = [busy |-> 0, last |-> 0]
  /\ issued = 0 /\ events = 0
  /\ reinit = FALSE /\ astray = FALSE

Goto(t, l) == linkPc' = [linkPc EXCEPT ![t] = l]
Return(t, r) == call' = [call EXCEPT ![t].ret = r]
\* ends an ExecuteCommand with error r (goto _END)
Fail(t, r) == Goto(t, "done") /\ Return(t, r)

LineSame == UNCHANGED <<tx, rx>>
ReaderSame == UNCHANGED <<unit, astray>>
BoundsSame == UNCHANGED <<issued, events, reinit>>

----------------------------------------------------------------------------
(* ConnectDevice and DisconnectDevice                                      *)

Event == events < MaxEvents /\ events' = events + 1

\* RS232C_Init: every semaphore starts from one again, held or not
RS232C_Init ==
  /\ sem' = [s \in DOMAIN sem |-> 1]
  /\ reinit' = (reinit \/ \E s \in DOMAIN sem : sem[s] # 1)

ConnectDevice(t) ==
  /\ linkPc[t] = "idle" /\ Event
  /\ RS232C_Init
  /\ Goto(t, "connect1")
  /\ LineSame /\ ReaderSame /\ UNCHANGED <<call, info, issued>>

ConnectEnter(t) ==
  /\ linkPc[t] = "connect1" /\ sem.connect > 0
  /\ sem' = [sem EXCEPT !.connect = @ - 1]
  /\ Goto(t, "connect2")
  /\ LineSame /\ ReaderSame /\ BoundsSame /\ UNCHANGED <<call, info>>

\* with both semaphores: refuse, or open the port, drop what it holds
\* (RS232C_PortOpen, RS232C_PortFlush) and reset the flags; release both
ConnectOpen(t) ==
  /\ linkPc[t] = "connect2" /\ sem.execute > 0
  /\ sem' = [sem EXCEPT !.connect = @ + 1]
  /\ Goto(t, "idle")
  /\ \/ info.connected /\ UNCHANGED <<info, rx, events>>
     \/ ~info.connected /\ Event
        /\ UNCHANGED <<info, rx>>
     \/ /\ ~info.connected
        /\ info' = [connected |-> TRUE, cancelFlag |-> FALSE, cancelReceive |-> TRUE]
        /\ rx' = <<>> /\ UNCHANGED events
  /\ UNCHANGED <<call, tx, unit, astray, issued, reinit>>

DisconnectDevice(t) ==
  /\ linkPc[t] = "idle" /\ Event
  /\ IF info.connected THEN Goto(t, "disconnect1") ELSE UNCHANGED linkPc
  /\ LineSame /\ ReaderSame /\ UNCHANGED <<call, sem, info, issued, reinit>>

DisconnectEnter(t) ==
  /\ linkPc[t] = "disconnect1" /\ sem.connect > 0
  /\ sem' = [sem EXCEPT !.connect = @ - 1]
  /\ Goto(t, "disconnect2")
  /\ LineSame /\ ReaderSame /\ BoundsSame /\ UNCHANGED <<call, info>>

\* RS232C_PortClose once no command is executed; both semaphores are released
DisconnectClose(t) ==
  /\ linkPc[t] = "disconnect2" /\ sem.execute > 0
  /\ sem' = [sem EXCEPT !.connect = @ + 1]
  /\ info' = [info EXCEPT !.connected = FALSE]
  /\ Goto(t, "idle")
  /\ LineSame /\ ReaderSame /\ BoundsSame /\ UNCHANGED call

----------------------------------------------------------------------------
(* ExecuteCommand                                                          *)

ExecuteCommand(t) ==
  /\ linkPc[t] = "idle" /\ issued < MaxCommands
  /\ issued' = issued + 1
  /\ IF info.connected
     THEN Goto(t, "enter") /\ call' = [call EXCEPT ![t] = [NoCall EXCEPT !.id = issued + 1]]
     ELSE Return(t, "NOT_CONNECTED") /\ UNCHANGED linkPc
  /\ LineSame /\ ReaderSame /\ UNCHANGED <<sem, info, events, reinit>>

\* a command is refused while another one is being cancelled
ExecuteEnter(t) ==
  /\ linkPc[t] = "enter" /\ sem.execute > 0
  /\ sem' = [sem EXCEPT !.execute = @ - 1]
  /\ IF info.cancelFlag THEN Fail(t, "CANCEL_SESSION") ELSE Goto(t, "send") /\ UNCHANGED call
  /\ LineSame /\ ReaderSame /\ BoundsSame /\ UNCHANGED info

\* RS232C_SendData; writing to a closed port fails
Send(m) == IF info.connected THEN tx' = Append(tx, m) ELSE UNCHANGED tx

\* _RETRY_COMMAND
SendCommand(t) ==
  /\ linkPc[t] = "send"
  /\ IF call[t].retry > CommandRetry
     THEN Fail(t, IF call[t].nak THEN "NAK_OVERTIMES" ELSE "ACK_TIMEOUT") /\ UNCHANGED tx
     ELSE IF ~info.connected THEN Fail(t, "FAILED_TO_SEND") /\ UNCHANGED tx
     ELSE Send([kind |-> "COMMAND", id |-> call[t].id]) /\ Goto(t, "ack") /\ UNCHANGED call
  /\ ReaderSame /\ BoundsSame /\ UNCHANGED <<rx, sem, info>>

\* what a token may look like to one who expects control bytes
LooksLike(m) == IF m.kind = "BODY" THEN {"ACK", "NAK", "other"} ELSE {m.kind}

Read(t) == info.connected /\ rx # <<>> /\ rx' = Tail(rx)

\* nothing to read until the time-out, or no port to read from; a reader that
\* is only slower than the time-out counts as a fault
Silence(slow) ==
  /\ rx = <<>> \/ ~info.connected
  /\ IF info.connected /\ slow THEN Event ELSE UNCHANGED events

\* the reader got, or will get, the command that is repeated or given up now
Delivered(t) == unit.last = call[t].id \/ \E i \in DOMAIN tx : tx[i].id = call[t].id

\* _RETRY_ACK_RES: whatever is neither ACK nor NAK is dropped
ReceiveAck(t) ==
  /\ linkPc[t] = "ack" /\ Read(t)
  /\ \E b \in LooksLike(Head(rx)) :
       \/ /\ b = "ACK" /\ Goto(t, "first")
          /\ call' = [call EXCEPT ![t].retry = 1, ![t].crc = 1]
          /\ info' = [info EXCEPT !.cancelReceive = FALSE]
          /\ astray' = (astray \/ Head(rx).kind = "BODY")
       \/ /\ b = "NAK" /\ Goto(t, "send")
          /\ call' = [call EXCEPT ![t].retry = @ + 1, ![t].nak = TRUE]
          /\ astray' = (astray \/ Delivered(t)) /\ UNCHANGED info
       \/ b \notin {"ACK", "NAK"} /\ UNCHANGED <<linkPc, call, info, astray>>
  /\ BoundsSame /\ UNCHANGED <<tx, unit, sem>>

AckTimeout(t) ==
  /\ linkPc[t] = "ack" /\ Silence(tx # <<>>)
  /\ IF info.connected
     THEN Goto(t, "send") /\ call' = [call EXCEPT ![t].retry = @ + 1, ![t].nak = FALSE]
     ELSE Fail(t, "FAILED_TO_RECEIVE")
  /\ astray' = (astray \/ Delivered(t))
  /\ LineSame /\ UNCHANGED <<unit, sem, info, issued, reinit>>

RepliesLeft(t) == call[t].retry =< ReceiveRetry

\* _RETRY_REPLY: the first byte of a reply, or of the answer to a cancellation
ReceiveFirst(t) ==
  /\ linkPc[t] = "first" /\ RepliesLeft(t) /\ Read(t)
  /\ Goto(t, CASE Head(rx).kind = "DLE" -> "second"
               [] Head(rx).kind = "STX" -> "length"
               [] OTHER -> "first")
  /\ ReaderSame /\ BoundsSame /\ UNCHANGED <<call, tx, sem, info>>

RepliesOver(t) ==
  /\ linkPc[t] = "first" /\ ~RepliesLeft(t)
  /\ Fail(t, "CHARACTER_TIMEOUT")
  /\ LineSame /\ ReaderSame /\ BoundsSame /\ UNCHANGED <<sem, info>>

\* the time-out of the caller, or of one character
ReplyTimeout(t) ==
  /\ \/ linkPc[t] = "first" /\ RepliesLeft(t)
     \/ linkPc[t] \in {"second", "length"}
  /\ Silence(unit.busy # 0 \/ tx # <<>>)
  /\ Fail(t, IF info.connected THEN "REPLY_TIMEOUT" ELSE "FAILED_TO_RECEIVE")
  /\ LineSame /\ ReaderSame /\ UNCHANGED <<sem, info, issued, reinit>>

ReceiveSecond(t) ==
  /\ linkPc[t] = "second" /\ Read(t)
  /\ Fail(t, IF Head(rx).kind = "EOT" THEN "CANCELED" ELSE "FAILED_TO_RECEIVE")
  /\ ReaderSame /\ BoundsSame /\ UNCHANGED <<tx, sem, info>>

\* two bytes that are not a length give a meaningless one
ReceiveLength(t) ==
  /\ linkPc[t] = "length" /\ Read(t)
  /\ Goto(t, IF Head(rx).kind = "LEN" THEN "body" ELSE "garbled")
  /\ ReaderSame /\ BoundsSame /\ UNCHANGED <<call, tx, sem, info>>

\* NAK after a reply that ended too early, or whose CRC is wrong
RetryReply(t) ==
  /\ Send([kind |-> "NAK", id |-> 0]) /\ Goto(t, "first")
  /\ call' = [call EXCEPT ![t].retry = @ + 1]

BadCrc(t) ==
  IF call[t].crc > NakRetry
  THEN Fail(t, "FAILED_TO_RECEIVE") /\ UNCHANGED tx
  ELSE /\ Send([kind |-> "NAK", id |-> 0]) /\ Goto(t, "first")
       /\ call' = [call EXCEPT ![t].crc = @ + 1]

ReceiveBody(t) ==
  /\ linkPc[t] = "body" /\ Read(t)
  /\ IF Head(rx).kind = "BODY" /\ Head(rx).good
     THEN /\ Goto(t, "done") /\ UNCHANGED tx
          /\ call' = [call EXCEPT ![t].ret = "NO_ERROR", ![t].reply = Head(rx).id]
     ELSE BadCrc(t)
  /\ ReaderSame /\ BoundsSame /\ UNCHANGED <<sem, info>>

BodyTimeout(t) ==
  /\ linkPc[t] = "body" /\ Silence(FALSE)
  /\ IF info.connected THEN RetryReply(t) ELSE Fail(t, "FAILED_TO_RECEIVE") /\ UNCHANGED tx
  /\ ReaderSame /\ UNCHANGED <<rx, sem, info, issued, reinit>>

\* any number of bytes is taken for the body, too few or with a wrong CRC
ReceiveGarbled(t) ==
  /\ linkPc[t] = "garbled"
  /\ \E n \in 0..Len(rx) : rx' = SubSeq(rx, n + 1, Len(rx))
  /\ RetryReply(t) \/ BadCrc(t)
  /\ ReaderSame /\ BoundsSame /\ UNCHANGED <<sem, info>>

\* mutant: the semaphore is not released
ExecuteEndKeeps(t) ==
  /\ linkPc[t] = "done"
  /\ info' = [info EXCEPT !.cancelReceive = TRUE]
  /\ Goto(t, "idle")
  /\ call' = [call EXCEPT ![t].retry = 0, ![t].crc = 0, ![t].nak = FALSE]
  /\ LineSame /\ ReaderSame /\ BoundsSame /\ UNCHANGED sem

\* _END
ExecuteEnd(t) ==
  /\ linkPc[t] = "done"
  /\ info' = [info EXCEPT !.cancelReceive = TRUE]
  /\ sem' = [sem EXCEPT !.execute = @ + 1]
  /\ Goto(t, "idle")
  /\ call' = [call EXCEPT ![t].retry = 0, ![t].crc = 0, ![t].nak = FALSE]
  /\ LineSame /\ ReaderSame /\ BoundsSame

----------------------------------------------------------------------------
(* CancelCommand.  command_step is never assigned, so that its test lets   *)
(* every cancellation pass.                                                *)

CancelCommand(t) ==
  /\ linkPc[t] = "idle" /\ Event
  /\ IF info.connected THEN Goto(t, "cancelenter") ELSE UNCHANGED linkPc
  /\ LineSame /\ ReaderSame /\ UNCHANGED <<call, sem, info, issued, reinit>>

CancelEnter(t) ==
  /\ linkPc[t] = "cancelenter" /\ sem.cancel > 0
  /\ sem' = [sem EXCEPT !.cancel = @ - 1]
  /\ Goto(t, "mark")
  /\ LineSame /\ ReaderSame /\ BoundsSame /\ UNCHANGED <<call, info>>

CancelMark(t) ==
  /\ linkPc[t] = "mark"
  /\ info' = [info EXCEPT !.cancelFlag = TRUE]
  /\ Goto(t, "cancel")
  /\ LineSame /\ ReaderSame /\ BoundsSame /\ UNCHANGED <<call, sem>>

CancelSend(t) ==
  /\ linkPc[t] = "cancel"
  /\ Send([kind |-> "CANCEL", id |-> 0])
  /\ Goto(t, IF info.connected THEN "check" ELSE "unmark")
  /\ ReaderSame /\ BoundsSame /\ UNCHANGED <<call, rx, sem, info>>

\* only when no command waits for its reply is the answer read here
CancelCheck(t) ==
  /\ linkPc[t] = "check"
  /\ Goto(t, IF info.cancelReceive THEN "answer1" ELSE "unmark")
  /\ LineSame /\ ReaderSame /\ BoundsSame /\ UNCHANGED <<call, sem, info>>

CancelReceive(t) ==
  /\ linkPc[t] \in {"answer1", "answer2"} /\ Read(t)
  /\ Goto(t, IF linkPc[t] = "answer1" THEN "answer2" ELSE "unmark")
  /\ ReaderSame /\ BoundsSame /\ UNCHANGED <<call, tx, sem, info>>

CancelTimeout(t) ==
  /\ linkPc[t] \in {"answer1", "answer2"} /\ Silence(tx # <<>>)
  /\ Goto(t, "unmark")
  /\ LineSame /\ ReaderSame /\ UNCHANGED <<call, sem, info, issued, reinit>>

\* mutant: the semaphore is not released
CancelEndKeeps(t) ==
  /\ linkPc[t] = "unmark"
  /\ info' = [info EXCEPT !.cancelFlag = FALSE]
  /\ Goto(t, "idle")
  /\ LineSame /\ ReaderSame /\ BoundsSame /\ UNCHANGED <<call, sem>>

CancelEnd(t) ==
  /\ linkPc[t] = "unmark"
  /\ info' = [info EXCEPT !.cancelFlag = FALSE]
  /\ sem' = [sem EXCEPT !.cancel = @ + 1]
  /\ Goto(t, "idle")
  /\ LineSame /\ ReaderSame /\ BoundsSame /\ UNCHANGED call

----------------------------------------------------------------------------
(* The reader and the line (external)                                      *)

ReaderStep == UNCHANGED <<linkPc, call, sem, info, issued, reinit, astray>>

\* a command is taken when the one before it is done
ReaderTake ==
  /\ tx # <<>> /\ Head(tx).kind = "COMMAND" /\ unit.busy = 0
  /\ tx' = Tail(tx)
  /\ unit' = [busy |-> Head(tx).id, last |-> Head(tx).id]
  /\ rx' = Append(rx, Control("ACK"))
  /\ ReaderStep /\ UNCHANGED events

ReaderRefuse ==
  /\ Event /\ tx # <<>> /\ Head(tx).kind = "COMMAND"
  /\ tx' = Tail(tx)
  /\ rx' \in {rx, Append(rx, Control("NAK"))}
  /\ ReaderStep /\ UNCHANGED unit

ReaderReply ==
  /\ unit.busy # 0
  /\ \/ rx' = rx \o Reply(unit.busy, TRUE) /\ UNCHANGED events
     \/ rx' = rx \o Reply(unit.busy, FALSE) /\ Event
     \/ rx' = rx \o SubSeq(Reply(unit.busy, TRUE), 1, 2) /\ Event
  /\ unit' = [unit EXCEPT !.busy = 0]
  /\ ReaderStep /\ UNCHANGED tx

\* a NAK makes the reader repeat its reply, a cancellation ends what it is doing
ReaderControl ==
  /\ tx # <<>> /\ Head(tx).kind # "COMMAND"
  /\ tx' = Tail(tx)
  /\ CASE Head(tx).kind = "NAK" -> unit' = [unit EXCEPT !.busy = IF @ = 0 THEN unit.last ELSE @]
                                   /\ UNCHANGED rx
       [] Head(tx).kind = "CANCEL" -> unit' = [unit EXCEPT !.busy = 0]
                                      /\ rx' = rx \o <<Control("DLE"), Control("EOT")>>
  /\ ReaderStep /\ UNCHANGED events

----------------------------------------------------------------------------

Execute(t) ==
  \/ ExecuteEnter(t) \/ SendCommand(t) \/ ReceiveAck(t) \/ AckTimeout(t)
  \/ ReceiveFirst(t) \/ RepliesOver(t) \/ ReplyTimeout(t) \/ ReceiveSecond(t)
  \/ ReceiveLength(t) \/ ReceiveBody(t) \/ BodyTimeout(t) \/ ReceiveGarbled(t)
  \/ ExecuteEnd(t)

Cancel(t) ==
  \/ CancelEnter(t) \/ CancelMark(t) \/ CancelSend(t) \/ CancelCheck(t)
  \/ CancelReceive(t) \/ CancelTimeout(t) \/ CancelEnd(t)

Open(t) == ConnectEnter(t) \/ ConnectOpen(t) \/ DisconnectEnter(t) \/ DisconnectClose(t)

Calls(t) ==
  \/ "connect" \in Functions[t] /\ ConnectDevice(t)
  \/ "disconnect" \in Functions[t] /\ DisconnectDevice(t)
  \/ "execute" \in Functions[t] /\ ExecuteCommand(t)
  \/ "cancel" \in Functions[t] /\ CancelCommand(t)

Reader == ReaderTake \/ ReaderRefuse \/ ReaderReply \/ ReaderControl

\* a call under way
Going(t) == Execute(t) \/ Cancel(t) \/ Open(t)

Next == Reader \/ \E t \in Threads : Calls(t) \/ Going(t)

\* a call under way goes on; what reached the reader is answered, unless that
\* counts as a fault, so that only the bounded faults delay an answer for ever
Fairness == WF_vars(Reader) /\ \A t \in Threads : SF_vars(Going(t))

Spec == Init /\ [][Next]_vars /\ Fairness

----------------------------------------------------------------------------

TypeOK ==
  /\ linkPc \in [Threads -> PCs]
  /\ call \in [Threads -> [id : 0..MaxCommands, retry : Nat, crc : Nat, nak : BOOLEAN,
                           ret : Results, reply : 0..MaxCommands]]
  /\ sem \in [{"connect", "execute", "cancel"} -> Nat]
  /\ info \in [connected : BOOLEAN, cancelFlag : BOOLEAN, cancelReceive : BOOLEAN]
  /\ unit \in [busy : 0..MaxCommands, last : 0..MaxCommands]
  /\ issued \in 0..MaxCommands /\ events \in 0..MaxEvents
  /\ reinit \in BOOLEAN /\ astray \in BOOLEAN

\* A reply that ExecuteCommand returns is the reply to its own command, whatever was
\* lost, repeated, cancelled or came late before it, as long as the reader was not made
\* to execute one command astray, no byte of a late reply looked like the acknowledgement
\* and commands were sent one at a time: replies carry no number the code looks at.
OwnReply ==
  ~astray /\ ~reinit =>
    \A t \in Threads : call[t].ret = "NO_ERROR" /\ call[t].id # 0
                         => call[t].reply = call[t].id

Inside(t) == linkPc[t] \in Executing
Opening(t) == linkPc[t] \in {"connect2", "disconnect2"}

\* One command at a time is on the line, and the semaphores of the port say so: until
\* ConnectDevice initialises them again while one is held.
OneAtATime ==
  ~reinit => /\ sem.execute + Cardinality({t \in Threads : Inside(t)}) = 1
             /\ sem.cancel + Cardinality({t \in Threads : linkPc[t] \in Cancelling}) = 1
             /\ sem.connect + Cardinality({t \in Threads : Opening(t)}) = 1

\* Every call comes to an end, whatever commands and answers are lost, damaged, or taken
\* by the wrong thread: no retry goes on for ever and no semaphore is kept.
CallsEnd == \A t \in Threads : []<>(linkPc[t] = "idle")

=============================================================================
