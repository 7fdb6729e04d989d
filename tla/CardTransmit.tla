---------------------------- MODULE CardTransmit ----------------------------
(***************************************************************************)
(* ICC and SAM data through the reader: _TransmitControl and               *)
(* TransmitControl (ccr.origin/Prtcl_RS232C_8_FuncDef.c).  Data longer     *)
(* than one command goes in several; what comes back may also take         *)
(* several replies, which are put together in the caller's buffer.         *)
(*                                                                         *)
(* A parameter code is written without the ICC or SAM flag: 4 the only     *)
(* part, 5 a part with more to come, 6 the last part, 7 asks for more of   *)
(* the reply, 15 (0x0F) is the reader's abort request.                     *)
(***************************************************************************)
EXTENDS Integers, Sequences

CONSTANTS
  MaxSend,      \* bound on the bytes to send
  MaxRoom,      \* bound on the caller's buffer
  MaxReply,     \* bound on the data of one reply
  ChunkLength,  \* GetMax_IC_SAM_DataLength()
  MaxReplies    \* bound on the replies to one transmission

TransmitConstants ==
  /\ MaxSend \in Nat /\ MaxRoom \in Nat /\ MaxReply \in Nat /\ MaxReplies \in Nat
  /\ ChunkLength \in Nat \ {0}

VARIABLES
  sendPc,    \* "idle", "command", "reply", "copy"
  size,      \* bytes the caller wants sent
  room,      \* SizeOfDataToReceive
  left,      \* DataSizeToSend
  index,     \* pIndex, counted from pDataStrage
  last,      \* LastTimeParameterCode
  part,      \* the command on its way: parameter code, first byte, bytes
  complete,
  received,  \* CurrentDataSize
  piece,     \* data of the reply to be copied
  storage,   \* pDataStrage was allocated and not freed
  sendRet,
  first,     \* Init: the first command of the transmission
  taken,     \* the reader has taken bytes 1..taken, in order
  replies,   \* number of replies so far
  cut        \* the caller's buffer was too small

vars == <<sendPc, size, room, left, index, last, part, complete, received, piece,
          storage, sendRet, first, taken, replies, cut>>

NoCommand == [par |-> 0, from |-> 0, n |-> 0]

Init ==
  /\ sendPc = "idle" /\ size = 0 /\ room = 0 /\ left = 0 /\ index = 0 /\ last = 0
  /\ part = NoCommand /\ complete = FALSE /\ received = 0 /\ piece = 0
  /\ storage = FALSE /\ sendRet = "none" /\ first = TRUE /\ taken = 0 /\ replies = 0
  /\ cut = FALSE

\* RS232C_8_ICCardTransmit, RS232C_8_SAMTransmit: copy the data, unless there is no memory
Transmit(n, m) ==
  /\ sendPc = "idle" /\ sendRet = "none"
  /\ size' = n /\ room' = m /\ left' = n /\ index' = 0 /\ first' = TRUE
  /\ \/ storage' = TRUE /\ sendPc' = "command" /\ UNCHANGED <<sendRet, complete>>
     \/ storage' = FALSE /\ sendPc' = "idle" /\ sendRet' = "NO_MEMORY" /\ complete' = TRUE
  /\ UNCHANGED <<last, part, received, piece, taken, replies, cut>>

\* what the next call of TransmitControl sends
Part ==
  IF left = 0 THEN [par |-> 7, from |-> index, n |-> 0]
  ELSE IF left =< ChunkLength THEN [par |-> IF first THEN 4 ELSE 6, from |-> index, n |-> left]
  ELSE [par |-> 5, from |-> index, n |-> ChunkLength]

\* error: free the data and return
GiveUp(r) ==
  /\ sendPc' = "idle" /\ sendRet' = r /\ complete' = TRUE /\ storage' = FALSE

\* after the first command the parameter code of the last reply decides what is left to do
More == first \/ left > 0 \/ last = 5
Finished == ~first /\ left = 0 /\ last \in {4, 6}

SendPart ==
  /\ sendPc = "command" /\ More
  /\ part' = IF first /\ left = 0 THEN [par |-> 4, from |-> 0, n |-> 0] ELSE Part
  /\ sendPc' = "reply"
  /\ UNCHANGED <<size, room, left, index, last, complete, received, piece, storage, sendRet,
                 first, taken, replies, cut>>

SetEnd ==
  /\ sendPc = "command" /\ Finished
  /\ complete' = TRUE /\ storage' = FALSE /\ sendPc' = "idle" /\ sendRet' = "NO_ERROR"
  /\ UNCHANGED <<size, room, left, index, last, part, received, piece, first, taken,
                 replies, cut>>

Unexpected ==
  /\ sendPc = "command" /\ ~More /\ ~Finished
  /\ GiveUp("UNEXPECTED")
  /\ UNCHANGED <<size, room, left, index, last, part, received, piece, first, taken,
                 replies, cut>>

\* the reader takes a part only where the one before it ended
Takes == IF part.from = taken THEN taken + part.n ELSE taken

\* RS232C_8_ExecuteCommand fails, perhaps after the reader took the part, or the reply is
\* negative, of no known kind, or the reader's abort request
ReplyBad ==
  /\ sendPc = "reply"
  /\ taken' \in {taken, Takes}
  /\ \E r \in {"EXECUTION_FAILED", "NEGATIVE_REPLY", "UNEXPECTED", "ABORT_REQUEST"} : GiveUp(r)
  /\ UNCHANGED <<size, room, left, index, last, part, received, piece, first, replies, cut>>

\* mutant: the next part starts where this one did
ReplyGoodIndexKept(par, n) ==
  /\ sendPc = "reply" /\ replies < MaxReplies
  /\ replies' = replies + 1
  /\ taken' = Takes
  /\ left' = left - part.n
  /\ last' = par /\ piece' = n /\ sendPc' = "copy" /\ first' = FALSE
  /\ UNCHANGED <<size, room, index, part, complete, received, storage, sendRet, cut>>

ReplyGood(par, n) ==
  /\ sendPc = "reply" /\ replies < MaxReplies
  /\ replies' = replies + 1
  /\ taken' = Takes
  /\ left' = left - part.n
  /\ index' = IF part.par = 5 THEN index + part.n ELSE index
  /\ last' = par /\ piece' = n /\ sendPc' = "copy" /\ first' = FALSE
  /\ UNCHANGED <<size, room, part, complete, received, storage, sendRet, cut>>

\* the reply goes behind what was received before
CopyReply ==
  /\ sendPc = "copy" /\ room >= received + piece
  /\ received' = received + piece
  /\ sendPc' = "command"
  /\ UNCHANGED <<size, room, left, index, last, part, complete, piece, storage, sendRet,
                 first, taken, replies, cut>>

\* no room: what fits is copied and the transmission ends there, its data still allocated
CopyCut ==
  /\ sendPc = "copy" /\ room < received + piece
  /\ received' = room
  /\ cut' = TRUE /\ sendPc' = "idle" /\ sendRet' = "NO_ERROR"
  /\ UNCHANGED <<size, room, left, index, last, part, complete, piece, storage, first,
                 taken, replies>>

Next ==
  \/ \E n \in 0..MaxSend, m \in 0..MaxRoom : Transmit(n, m)
  \/ SendPart \/ SetEnd \/ Unexpected \/ ReplyBad \/ CopyReply \/ CopyCut
  \/ \E par \in {4, 5, 6, 7}, n \in 0..MaxReply : ReplyGood(par, n)

Spec == Init /\ [][Next]_vars

----------------------------------------------------------------------------

TypeOK ==
  /\ sendPc \in {"idle", "command", "reply", "copy"}
  /\ size \in Nat /\ room \in Nat /\ left \in Nat /\ index \in Nat /\ taken \in Nat
  /\ received \in Nat /\ piece \in Nat /\ replies \in Nat /\ last \in 0..7
  /\ part \in [par : 0..7, from : Nat, n : Nat]
  /\ complete \in BOOLEAN /\ storage \in BOOLEAN /\ first \in BOOLEAN /\ cut \in BOOLEAN
  /\ sendRet \in {"none", "NO_ERROR", "NO_MEMORY", "EXECUTION_FAILED", "NEGATIVE_REPLY",
              "UNEXPECTED", "ABORT_REQUEST"}

\* A transmission that succeeds gave the reader all the data, every byte once and in
\* order, whatever lengths the parts and the replies have; unless the reply did not fit
\* in the caller's buffer, in which case what was not sent yet is silently dropped.
SentWhole ==
  /\ sendRet = "NO_ERROR" /\ ~cut => taken = size
  /\ sendPc \in {"command", "copy"} => taken = size - left

\* The reply never overruns the caller's buffer, and the copy of the data is freed exactly
\* when the transmission ends, unless it ends because the buffer is too small.
Memory ==
  /\ received =< room
  /\ storage <=> (sendPc # "idle" \/ cut)

=============================================================================
