---------------------------- MODULE ClientProofs ----------------------------
(***************************************************************************)
(* Proofs about the client library (Client): uploads, calls and transfers, *)
(* in this order.  Each part keeps its variables to itself, so that a step *)
(* of the sum is a step of one part or leaves it as it is (UploadMoves,    *)
(* CallMoves, TransferMoves), and each has an invariant of its own.        *)
(***************************************************************************)
EXTENDS Client, SequenceLemmas, TLAPS

-----------------------------------------------------------------------------
(* ClientUpload: what the device holds while the loop runs.                *)

LEMMA UploadMoves == [SumNext]_allVars => [Image!Next]_(Image!vars)
BY DEF SumNext, Transferring, Calling, Uploading, allVars, imageVars, Image!vars

LEMMA UploadBounds == Image!UploadConstants
BY ClientBounds

(* The blocks before the offset are stored, and the one that is sent lies  *)
(* in the file; the image is ended when the last block was not full.       *)
Behind ==
    /\ stored <= size
    /\ uploadPc \notin {"idle", "done"} => offset <= stored
    /\ uploadPc \in {"available", "open"} => offset = 0 /\ lastLen = 0
    /\ uploadPc = "read" =>
         \/ offset = 0 /\ lastLen = 0
         \/ lastLen < Block => offset = size /\ ended
    /\ uploadPc \in {"send", "sent"} =>
         /\ len <= size - offset
         /\ len < Block => offset + len = size
    /\ uploadPc = "sent" /\ uploadRc = "ERR_PASS" =>
         /\ offset + len <= stored
         /\ len < Block => ended

UploadInv == Image!TypeOK /\ Behind /\ Image!Uploaded

LEMMA UploadInit == Image!Init => UploadInv
<1> SUFFICES ASSUME Image!Init PROVE UploadInv
  OBVIOUS
<1>1. Image!TypeOK
  <2>1. uploadFn \in Image!Functions /\ uploadRc \in Image!Results
    BY DEF Image!Init, Image!Functions, Image!Results
  <2>2. erasing \in BOOLEAN /\ ended \in BOOLEAN
    BY DEF Image!Init
  <2>3. /\ len \in 0..Block /\ lastLen \in 0..Block /\ tries \in 0..255 /\ retries \in 0..255
        /\ faults \in 0..MaxFaults /\ uploads \in 0..MaxUploads
    BY UploadBounds DEF Image!UploadConstants, Image!Init
  <2> QED BY <2>1, <2>2, <2>3 DEF Image!Init, Image!TypeOK
<1>2. Behind /\ Image!Uploaded
  BY DEF Image!Init, Behind, Image!Uploaded
<1> QED BY <1>1, <1>2 DEF UploadInv

LEMMA UploadStep ==
    ASSUME UploadInv, [Image!Next]_(Image!vars)
    PROVE  UploadInv'
<1> USE UploadBounds DEF Image!UploadConstants, UploadInv, Image!TypeOK, Image!Uploaded
<1>1. CASE \E f \in Image!Functions : Image!Begin(f)
  <2>1. PICK f \in Image!Functions : Image!Begin(f)
    BY <1>1
  <2>2. /\ size' \in Nat /\ retries' \in 0..255 /\ uploadFn' = f
        /\ offset' = 0 /\ len' = 0 /\ lastLen' = 0 /\ tries' = 0 /\ stored' = 0
        /\ ~ended' /\ uploadRc' = "uninitialised"
        /\ uploadPc' \in {"open", "available"} /\ uploads' \in 0..MaxUploads
        /\ UNCHANGED faults
    BY <2>1 DEF Image!Begin
  <2>4. erasing' \in BOOLEAN /\ ended' \in BOOLEAN
    BY <2>1 DEF Image!Begin
  <2>3. Image!TypeOK'
    BY <2>2, <2>4 DEF Image!Results
  <2>5. stored' = 0 /\ offset' = 0 /\ 0 <= size'
    BY <2>2
  <2>6. Behind'
    <3>1. /\ stored' = 0 /\ offset' = 0 /\ lastLen' = 0 /\ 0 <= size'
          /\ uploadPc' \notin {"read", "send", "sent"}
      BY <2>2
    <3> QED BY ONLY <3>1 DEF Behind
  <2>7. Image!Uploaded'
    BY <2>2
  <2> QED BY <2>3, <2>6, <2>7
<1>2. CASE Image!CheckNumber
  BY <1>2 DEF Image!CheckNumber, Image!Results, Behind
<1>3. CASE Image!OpenFile
  BY <1>3 DEF Image!OpenFile, Image!Results, Behind
<1>4. CASE Image!ReadBlock
  <2>1. /\ Image!Chunk \in 0..Block /\ Image!Chunk <= size - offset
        /\ Image!Chunk < Block => offset + Image!Chunk = size
    BY <1>4 DEF Image!ReadBlock, Image!Chunk, Behind
  <2>2. Image!TypeOK'
    BY <1>4, <2>1 DEF Image!ReadBlock, Image!Results
  <2>3. Behind'
    BY <1>4, <2>1 DEF Image!ReadBlock, Behind
  <2>4. Image!Uploaded'
    <3>1. CASE Image!Chunk < Block /\ lastLen # Block /\ uploadPc' = "done"
      <4>1. lastLen < Block
        BY <3>1
      <4> QED BY <1>4, <2>1, <3>1, <4>1 DEF Image!ReadBlock, Behind
    <3>2. CASE ~(Image!Chunk < Block /\ lastLen # Block /\ uploadPc' = "done")
      BY <1>4, <3>2 DEF Image!ReadBlock
    <3> QED BY <3>1, <3>2
  <2> QED BY <2>2, <2>3, <2>4
<1>5. CASE Image!SendBlock
  <2>1. /\ uploadPc = "send" /\ uploadPc' \in {"send", "sent"}
        /\ UNCHANGED <<uploadFn, size, retries, offset, len, lastLen, erasing, uploads>>
        /\ faults' \in 0..MaxFaults /\ tries' \in 0..255 /\ uploadRc' \in Image!Results
    BY <1>5 DEF Image!SendBlock, Image!Results
  <2>2. \/ Image!Store
        \/ UNCHANGED <<stored, ended>> /\ uploadRc' # "ERR_PASS"
    BY <1>5 DEF Image!SendBlock
  <2>3. /\ stored' \in Nat /\ ended' \in BOOLEAN /\ offset <= stored' /\ stored' <= size
        /\ uploadRc' = "ERR_PASS" => offset + len <= stored' /\ (len < Block => ended')
    <3>1. CASE Image!Store
      <4>1. stored' \in Nat /\ offset <= stored' /\ stored' <= size /\ offset + len <= stored'
        BY <2>1, <3>1 DEF Image!Store, Behind
      <4>2. ended' \in BOOLEAN /\ (len < Block => ended')
        BY <3>1 DEF Image!Store
      <4> QED BY <4>1, <4>2
    <3>2. CASE UNCHANGED <<stored, ended>> /\ uploadRc' # "ERR_PASS"
      BY <2>1, <3>2 DEF Behind
    <3> QED BY <2>2, <3>1, <3>2
  <2>4. Image!TypeOK'
    BY <2>1, <2>3
  <2>5. Behind'
    BY <2>1, <2>3 DEF Behind
  <2> QED BY <2>1, <2>4, <2>5
<1>6. CASE Image!NextBlock
  <2>0. /\ offset' = offset + len /\ lastLen' = len /\ erasing' = FALSE
        /\ UNCHANGED <<uploadFn, size, retries, len, tries, uploadRc, stored, ended, faults, uploads>>
        /\ uploadPc = "sent"
        /\ uploadPc' = IF uploadRc = "ERR_PASS" /\ len > 0 THEN "read" ELSE "done"
    BY <1>6 DEF Image!NextBlock
  <2>4. erasing' \in BOOLEAN
    BY <2>0
  <2>5. UNCHANGED <<uploadFn, size, retries, len, tries, uploadRc, stored, ended, faults, uploads>>
    BY <2>0
  <2>6. offset' \in Nat /\ lastLen' \in 0..Block /\ uploadPc' \in {"read", "done"}
    BY <2>0
  <2>1. Image!TypeOK'
    BY <2>4, <2>5, <2>6
  <2>2. CASE uploadRc = "ERR_PASS"
    <3>1. offset + len <= stored /\ (len < Block => ended /\ offset + len = size)
      BY <2>0, <2>2 DEF Behind
    <3>2. Behind'
      BY <2>0, <2>2, <3>1 DEF Behind
    <3>3. Image!Uploaded'
      BY <2>0, <2>2, <3>1 DEF Behind
    <3> QED BY <2>1, <3>2, <3>3
  <2>3. CASE uploadRc # "ERR_PASS"
    <3>1. uploadPc' = "done" /\ uploadRc' # "ERR_PASS"
      BY <2>0, <2>3
    <3>2. stored' <= size'
      BY <2>0 DEF Behind
    <3>3. Behind'
      BY <3>1, <3>2 DEF Behind
    <3> QED BY <2>1, <3>1, <3>3
  <2> QED BY <2>2, <2>3
<1>7. CASE Image!Return
  BY <1>7 DEF Image!Return, Behind
<1>8. CASE UNCHANGED Image!vars
  BY <1>8 DEF Image!vars, Behind
<1>9. ASSUME NEW f \in Image!Functions, Image!Upload(f) PROVE UploadInv'
  BY <1>1, <1>2, <1>3, <1>4, <1>5, <1>6, <1>7, <1>9 DEF Image!Upload
<1> QED BY <1>8, <1>9 DEF Image!Next, Image!svsBdpFirmwareUpgrade, Image!Functions,
           Image!svsBdpBootblockUpload, Image!svsKrFirmwareUpgrade, Image!svsKrBootblockUpload

LEMMA UploadCorrect == SumSpec => []UploadInv
<1>1. SumInit => UploadInv
  BY UploadInit DEF SumInit
<1>2. UploadInv /\ [SumNext]_allVars => UploadInv'
  BY UploadMoves, UploadStep
<1> QED BY <1>1, <1>2, PTL DEF SumSpec

(* For files, blocks and retries of any size, and any exchanges that fail  *)
(* or lose their answer: an upload of at least one block that returns      *)
(* ERR_PASS has put the whole file and the end of the image in the device  *)
(* (svsApi.c:970-1025).                                                    *)
THEOREM UploadedCorrect == SumSpec => []Uploaded
<1>1. UploadInv => Uploaded
  BY DEF UploadInv, Uploaded
<1> QED BY <1>1, UploadCorrect, PTL

-----------------------------------------------------------------------------
(* ClientCalls: what a call has when it returns.                           *)

LEMMA CallMoves == [SumNext]_allVars => [Api!Next]_(Api!vars)
BY DEF SumNext, Transferring, Calling, Uploading, allVars, apiVars, Api!vars

LEMMA CallBounds == Api!CallConstants
BY ClientBounds

(* A function that copies the answer of a call that passed looks at the    *)
(* status of the answer.                                                   *)
LEMMA FunctionForm ==
    ASSUME NEW f \in Api!Functions
    PROVE  "data" \in f.has => "status" \in f.has
BY DEF Api!Functions, Api!Fn, Api!svsBdpLedSet, Api!svsBdpPowerSet, Api!svsBdpPowerGet,
      Api!svsBdpBikeLockGet, Api!svsBdpBikeLockSet, Api!svsBdpBuzzerSet, Api!svsBdpLockKeyGet,
      Api!svsBdpRfidGet, Api!svsBdpChangeMode, Api!svsBdpGetMode, Api!svsBdpGetApplicationRev,
      Api!svsBdpGetBootblockRev, Api!svsBdpBootblockInstall, Api!svsBdpMemoryCrc,
      Api!svsBdpMsnForceGet, Api!svsBdpMsnGet, Api!svsBdpMsnFlush, Api!svsBdpSwitchGet,
      Api!svsBdpJtagDebugSet, Api!svsBdpConsole, Api!svsBdpStatsGet, Api!svsBdpEcho,
      Api!svsBdpMotorGet, Api!svsBdpMotorSet, Api!svsBdpCompatibilityGet,
      Api!svsBdpCompatibilitySet, Api!svsBdpCommsGet, Api!svsBdpCommsSet,
      Api!svsKrAddressGet, Api!svsKrPowerSet, Api!svsKrRfidGet, Api!svsKrChangeMode,
      Api!svsKrGetMode, Api!svsKrGetApplicationRev, Api!svsKrGetBootblockRev, Api!svsKrEcho,
      Api!svsKrBootblockInstall, Api!svsKrMemoryCrc, Api!svsKrPowerGet,
      Api!svsModulePowerSet, Api!svsModulePowerGet, Api!svsModuleMsnGet

(* Until the transfer there is no answer.                                  *)
Unanswered == pc \in {"ask", "range", "transfer"} => done = "none" /\ out = "kept"

CallInv == Api!TypeOK /\ Unanswered /\ Api!PassMeansDone /\ Api!Filled

LEMMA CallInit == Api!Init => CallInv
<1> SUFFICES ASSUME Api!Init PROVE CallInv
  OBVIOUS
<1>1. fn \in Api!Functions
  BY DEF Api!Init, Api!Functions
<1>2. Api!TypeOK
  BY <1>1, CallBounds DEF Api!CallConstants, Api!Init, Api!TypeOK, Api!Status, Api!Result
<1> QED BY <1>2 DEF CallInv, Unanswered, Api!Init, Api!PassMeansDone, Api!Filled

LEMMA CallStep ==
    ASSUME CallInv, [Api!Next]_(Api!vars)
    PROVE  CallInv'
<1> USE CallBounds DEF Api!CallConstants, CallInv, Api!Status, Api!Result
<1>1. ASSUME NEW f \in Api!Functions, Api!Call(f) PROVE CallInv'
  <2>1. PICK n \in Api!Numbers(f), v \in BOOLEAN, b \in BOOLEAN :
          arg' = [num |-> n, value |-> v, block |-> b]
    BY <1>1 DEF Api!Call
  <2>2. n \in Nat
    BY DEF Api!Numbers, Api!Max
  <2>3. arg' \in [num : Nat, value : BOOLEAN, block : BOOLEAN]
    BY <2>1, <2>2
  <2>4. /\ fn' = f /\ seen' = 0 /\ done' = "none" /\ out' = "kept" /\ UNCHANGED count
        /\ calls' \in 0..MaxCalls
    BY <1>1 DEF Api!Call, Api!TypeOK
  <2>5. \/ pc' = "done" /\ rc' \in {"ERR_FAIL", "ERR_NOT_IMPLEMENTED"}
        \/ pc' \in {"ask", "range"} /\ UNCHANGED rc
    BY <1>1 DEF Api!Call, Api!Return
  <2>6. Api!TypeOK'
    BY <2>3, <2>4, <2>5 DEF Api!TypeOK
  <2> QED BY <2>4, <2>5, <2>6 DEF Unanswered, Api!PassMeansDone, Api!Filled
<1>2. CASE Api!AvailableGet
  <2>1. seen' \in Nat
    <3>1. count.BDP \in Nat /\ count.KR \in Nat /\ seen \in Nat
      BY DEF Api!TypeOK
    <3> QED BY <1>2, <3>1 DEF Api!AvailableGet, Api!Table
  <2>2. /\ UNCHANGED <<fn, arg, count, done, out, calls>> /\ pc = "ask"
        /\ \/ pc' = "range" /\ UNCHANGED rc
           \/ pc' = "done" /\ rc' = "ERR_FAIL"
    BY <1>2 DEF Api!AvailableGet, Api!Return
  <2>3. Api!TypeOK'
    BY <2>1, <2>2 DEF Api!TypeOK
  <2> QED BY <2>2, <2>3 DEF Unanswered, Api!PassMeansDone, Api!Filled
<1>3. CASE Api!Validate
  <2>1. /\ UNCHANGED <<fn, arg, count, seen, done, out, calls>> /\ pc = "range"
        /\ \/ pc' = "transfer" /\ UNCHANGED rc
           \/ pc' = "done" /\ rc' = "ERR_FAIL"
    BY <1>3 DEF Api!Validate, Api!Return
  <2>2. Api!TypeOK'
    BY <2>1 DEF Api!TypeOK
  <2> QED BY <2>1, <2>2 DEF Unanswered, Api!PassMeansDone, Api!Filled
<1>4. CASE Api!Transfer
  <2>1. /\ UNCHANGED <<fn, arg, count, seen, calls>> /\ pc = "transfer" /\ pc' = "done"
        /\ done = "none" /\ out = "kept" /\ fn \in Api!Functions /\ arg.block \in BOOLEAN
    BY <1>4 DEF Api!Transfer, Api!Answered, Api!Return, Unanswered, Api!TypeOK
  <2>2. ASSUME NEW s \in Api!Status, Api!Answered(s), arg.block PROVE CallInv'
    <3>1. "data" \in fn.has => "status" \in fn.has
      BY <2>1, FunctionForm
    <3>2. /\ done' = s /\ rc' = (IF "status" \in fn.has THEN s ELSE "ERR_PASS")
          /\ out' = IF "copy" \in fn.has \/ ("data" \in fn.has /\ s = "ERR_PASS")
                    THEN "answer" ELSE "kept"
      BY <2>2 DEF Api!Answered, Api!Return
    <3>3. Api!TypeOK'
      BY <2>1, <3>2 DEF Api!TypeOK
    <3>4. Unanswered' /\ Api!PassMeansDone'
      BY <2>1, <3>2 DEF Unanswered, Api!PassMeansDone
    <3>5. Api!Filled'
      BY <2>1, <2>2, <3>1, <3>2 DEF Api!Filled
    <3> QED BY <3>3, <3>4, <3>5
  <2>3. CASE /\ ~arg.block /\ Api!Return("ERR_PASS") /\ UNCHANGED done
             /\ out' \in {"zero", "kept"}
    <3>1. Api!TypeOK'
      BY <2>1, <2>3 DEF Api!TypeOK, Api!Return
    <3> QED BY <2>1, <2>3, <3>1 DEF Api!Return, Unanswered, Api!PassMeansDone, Api!Filled
  <2>4. CASE /\ rc' \in {"ERR_COMMS_TIMEOUT", "ERR_FAIL", "ERR_INV_MSG_ID"} /\ UNCHANGED out
             /\ done' \in Api!Status \cup {"none"}
    <3>1. Api!TypeOK'
      BY <2>1, <2>4 DEF Api!TypeOK
    <3> QED BY <2>1, <2>4, <3>1 DEF Unanswered, Api!PassMeansDone, Api!Filled
  <2> QED BY <1>4, <2>2, <2>3, <2>4 DEF Api!Transfer, Api!Return
<1>5. CASE Api!Idle
  BY <1>5 DEF Api!Idle, Api!TypeOK, Unanswered, Api!PassMeansDone, Api!Filled
<1>6. CASE Api!TablesChange
  <2>1. count.BDP \in Nat /\ count.KR \in Nat
    BY DEF Api!TypeOK
  <2>2. count' \in [BDP : 0..BDP_MAX, KR : 0..KR_MAX]
    <3>1. count' \in [BDP : {0, count.BDP + 1}, KR : {count.KR, count.KR + 1}]
      BY <1>6 DEF Api!TablesChange
    <3>2. count'.BDP \in Nat /\ count'.KR \in Nat
      BY <2>1, <3>1
    <3>3. count'.BDP \in 0..BDP_MAX /\ count'.KR \in 0..KR_MAX
      BY <1>6, <3>2 DEF Api!TablesChange
    <3>4. count' = [BDP |-> count'.BDP, KR |-> count'.KR]
      BY <3>1
    <3> QED BY <3>3, <3>4
  <2> QED BY <1>6, <2>2 DEF Api!TablesChange, Api!TypeOK, Unanswered, Api!PassMeansDone, Api!Filled
<1>7. CASE UNCHANGED Api!vars
  BY <1>7 DEF Api!vars, Api!TypeOK, Unanswered, Api!PassMeansDone, Api!Filled
<1> QED BY <1>1, <1>2, <1>3, <1>4, <1>5, <1>6, <1>7 DEF Api!Next

LEMMA CallCorrect == SumSpec => []CallInv
<1>1. SumInit => CallInv
  BY CallInit DEF SumInit
<1>2. CallInv /\ [SumNext]_allVars => CallInv'
  BY CallMoves, CallStep
<1> QED BY <1>1, <1>2, PTL DEF SumSpec

(* For every function of the interface and tables of any size that change  *)
(* between the steps: a call that waited and returned ERR_PASS was carried *)
(* out, and the caller's data are the answer to it (svsApi.c).             *)
THEOREM CallsHonestCorrect == SumSpec => []CallsHonest
<1>1. CallInv => CallsHonest
  BY DEF CallInv, CallsHonest
<1> QED BY <1>1, CallCorrect, PTL

-----------------------------------------------------------------------------
(* ClientTransfer: the answers on a channel are the one that is awaited.   *)

LEMMA TransferMoves == [SumNext]_allVars => [Next]_vars
BY DEF SumNext, Transferring, Calling, Uploading, allVars, vars

Places == {"lock", "flush", "send", "recv", "close", "unlock"}

Moving ==
    [pc : Places, id : 1..MaxReq, retry : 1..KrRetries, rc : Rc, ans : Answer \cup {NoAnswer}]

Typed ==
    /\ TypeOK
    /\ th \in [Threads -> {Idle} \cup Moving]
    /\ \A x \in res : x.id \in DOMAIN req

(* A transfer has the mutex of its channel from the flush on, ...          *)
Held == \A t \in Threads : th[t].pc \in Places \ {"lock"} => lock[Ch(t)] = t

(* ... requests and answers are on their channel, ...                      *)
OnChannel ==
    \A c \in Chan :
        /\ \A k \in DOMAIN pend[c] : pend[c][k] \in DOMAIN req /\ req[pend[c][k]].chan = c
        /\ \A k \in DOMAIN inq[c] : inq[c][k].id \in DOMAIN req /\ req[inq[c][k].id].chan = c
        /\ peer[c] # "up" => pend[c] = <<>>

(* ... and where no transfer gave up, they hold one request to be answered *)
(* or its answer at most, which a thread waits for.                        *)
Awaited(i) == \E t \in Threads : th[t].pc = "recv" /\ th[t].id = i

OneAwaited ==
    \A c \in Chan \ astray :
        /\ \A k \in DOMAIN pend[c] : req[pend[c][k]].blocking =>
              /\ Awaited(pend[c][k])
              /\ inq[c] = <<>>
              /\ \A j \in DOMAIN pend[c] : req[pend[c][j]].blocking => j = k
        /\ \A k \in DOMAIN inq[c] : k = 1 /\ Awaited(inq[c][k].id)

Taken ==
    \A t \in Threads :
        th[t].pc \in {"close", "unlock"} /\ th[t].ans.id # 0 /\ Ch(t) \notin astray
            => th[t].ans.id = th[t].id

TransferInv == Typed /\ Held /\ OnChannel /\ OneAwaited /\ Taken /\ OwnAnswer

(* What a thread in a transfer is.                                         *)
LEMMA ThreadForm ==
    ASSUME Typed, NEW t \in Threads, th[t].pc \in Places
    PROVE  /\ th[t] \in Moving /\ th[t].id \in DOMAIN req /\ th[t].id \in 1..MaxReq
           /\ req[th[t].id] \in Requests /\ req[th[t].id] \in Request /\ Ch(t) \in Chan
<1>1. th[t] # Idle
  BY DEF Idle, Places
<1>2. th[t] \in Moving /\ th[t].id \in DOMAIN req
  BY <1>1 DEF Typed, TypeOK
<1>3. req[th[t].id] \in Requests
  BY <1>2, ElementOfSeq, LenProperties DEF Typed, TypeOK
<1>4. req[th[t].id] \in Request
  BY <1>3, TransferConstants
<1> QED BY <1>2, <1>3, <1>4 DEF Moving, Ch, Request

(* The requests p and answers q of a channel on which thread t, which has  *)
(* the mutex, makes transfer i and waits or not.                           *)
Mine(p, q, i, waits) ==
    /\ \A k \in DOMAIN p : req[p[k]].blocking =>
          /\ waits /\ p[k] = i /\ q = <<>>
          /\ \A j \in DOMAIN p : req[p[j]].blocking => j = k
    /\ \A k \in DOMAIN q : k = 1 /\ waits /\ q[k].id = i

(* Of a thread past the lock: the channel holds its request or its answer, *)
(* and no other that is waited for.                                        *)
LEMMA Sole ==
    ASSUME TransferInv, NEW t \in Threads, th[t].pc \in Places \ {"lock"}, Ch(t) \notin astray
    PROVE  Mine(pend[Ch(t)], inq[Ch(t)], th[t].id, th[t].pc = "recv")
<1>1. Ch(t) \in Chan /\ Ch(t) \in Chan \ astray
  BY ThreadForm DEF TransferInv
<1>2. PICK c \in Chan \ astray : c = Ch(t)
  BY <1>1
<1>3. ASSUME NEW i, Awaited(i), i \in DOMAIN req, req[i].chan = c
      PROVE  th[t].pc = "recv" /\ i = th[t].id
  <2>1. PICK u \in Threads : th[u].pc = "recv" /\ th[u].id = i
    BY <1>3 DEF Awaited
  <2>2. Ch(u) = c
    BY <1>3, <2>1 DEF Ch
  <2>3. lock[c] = u /\ lock[c] = t
    BY <1>2, <2>1, <2>2 DEF TransferInv, Held, Places
  <2> QED BY <2>1, <2>3
<1>4. /\ \A k \in DOMAIN pend[c] : pend[c][k] \in DOMAIN req /\ req[pend[c][k]].chan = c
      /\ \A k \in DOMAIN inq[c] : inq[c][k].id \in DOMAIN req /\ req[inq[c][k].id].chan = c
  BY DEF TransferInv, OnChannel
<1>5. /\ \A k \in DOMAIN pend[c] : req[pend[c][k]].blocking =>
            /\ Awaited(pend[c][k])
            /\ inq[c] = <<>>
            /\ \A j \in DOMAIN pend[c] : req[pend[c][j]].blocking => j = k
      /\ \A k \in DOMAIN inq[c] : k = 1 /\ Awaited(inq[c][k].id)
  BY DEF TransferInv, OneAwaited
<1>6. Mine(pend[c], inq[c], th[t].id, th[t].pc = "recv")
  BY <1>3, <1>4, <1>5 DEF Mine
<1> QED BY <1>2, <1>6

Sorts ==
    /\ sockFd \in [Chan -> BOOLEAN]
    /\ open \in [Chan -> BOOLEAN]
    /\ peer \in [Chan -> {"up", "closed", "reset", "broken"}]
    /\ pend \in [Chan -> Seq(1..MaxReq)]
    /\ inq \in [Chan -> Seq(Answer)]
    /\ astray \subseteq Chan

(* A step of thread t inside its transfer: e is its new state.             *)
LEMMA ThreadStep ==
    ASSUME TransferInv, NEW t \in Threads, th[t].pc \in Places \ {"lock"},
           NEW e \in Moving, e.id = th[t].id, e.pc # "lock", th' = [th EXCEPT ![t] = e],
           UNCHANGED <<req, lock, res>>, Sorts', OnChannel', astray \subseteq astray',
           \A c \in Chan \ {Ch(t)} : pend'[c] = pend[c] /\ inq'[c] = inq[c],
           Ch(t) \notin astray' => Mine(pend'[Ch(t)], inq'[Ch(t)], e.id, e.pc = "recv"),
           /\ e.pc \in {"close", "unlock"} /\ e.ans.id # 0 /\ Ch(t) \notin astray'
                => e.ans.id = e.id
    PROVE  TransferInv'
<1>1. /\ th \in [Threads -> {Idle} \cup Moving] /\ th[t].id \in DOMAIN req /\ Ch(t) \in Chan
  BY ThreadForm DEF TransferInv, Typed
<1>2. th'[t] = e /\ \A u \in Threads : u # t => th'[u] = th[u]
  BY <1>1
<1>3. Ch(t)' = Ch(t) /\ \A u \in Threads : Ch(u)' = Ch(u)
  BY <1>2 DEF Ch
<1>4. Typed'
  <2>1. th' \in [Threads -> {Idle} \cup Moving]
    BY <1>1
  <2>5. \A u \in Threads : \/ th[u] = Idle
                           \/ th[u] \in Moving /\ th[u].id \in DOMAIN req
    <3> SUFFICES ASSUME NEW u \in Threads, th[u] # Idle
                 PROVE  th[u] \in Moving /\ th[u].id \in DOMAIN req
      OBVIOUS
    <3>1. th[u] \in Moving
      BY <1>1
    <3>2. th[u].id \in DOMAIN req
      BY DEF TransferInv, Typed, TypeOK
    <3> QED BY <3>1, <3>2
  <2>2. \A u \in Threads : \/ th'[u] = Idle
                           \/ th'[u] \in Moving /\ th'[u].id \in DOMAIN req
    BY <1>1, <1>2, <2>5
  <2>3. req' = req /\ lock' = lock /\ res' = res
    OBVIOUS
  <2>4. TypeOK'
    BY <2>2, <2>3 DEF TransferInv, Typed, TypeOK, Moving, Places, Sorts
  <2> QED BY <2>1, <2>3, <2>4 DEF TransferInv, Typed
<1>5. Held'
  BY <1>2, <1>3 DEF TransferInv, Held
<1>6. OneAwaited'
  <2> SUFFICES ASSUME NEW c \in Chan, c \notin astray'
               PROVE  /\ \A k \in DOMAIN pend'[c] : req[pend'[c][k]].blocking =>
                           /\ \E u \in Threads : th'[u].pc = "recv" /\ th'[u].id = pend'[c][k]
                           /\ inq'[c] = <<>>
                           /\ \A j \in DOMAIN pend'[c] : req[pend'[c][j]].blocking => j = k
                      /\ \A k \in DOMAIN inq'[c] :
                           /\ k = 1
                           /\ \E u \in Threads : th'[u].pc = "recv" /\ th'[u].id = inq'[c][k].id
    BY DEF OneAwaited, Awaited
  <2>1. CASE c = Ch(t)
    <3>1. Mine(pend'[c], inq'[c], e.id, e.pc = "recv")
      BY <2>1
    <3>2. e.pc = "recv" => \E u \in Threads : th'[u].pc = "recv" /\ th'[u].id = e.id
      BY <1>2
    <3>3. \A k \in DOMAIN pend'[c] : req[pend'[c][k]].blocking =>
            /\ e.pc = "recv" /\ pend'[c][k] = e.id /\ inq'[c] = <<>>
            /\ \A j \in DOMAIN pend'[c] : req[pend'[c][j]].blocking => j = k
      BY <3>1 DEF Mine
    <3>4. \A k \in DOMAIN inq'[c] : k = 1 /\ e.pc = "recv" /\ inq'[c][k].id = e.id
      BY <3>1 DEF Mine
    <3> QED BY <3>2, <3>3, <3>4
  <2>2. CASE c # Ch(t)
    <3>1. pend'[c] = pend[c] /\ inq'[c] = inq[c] /\ c \in Chan \ astray
      BY <2>2
    <3>2. ASSUME NEW i, Awaited(i), i \in DOMAIN req, req[i].chan = c
          PROVE  \E u \in Threads : th'[u].pc = "recv" /\ th'[u].id = i
      <4>1. PICK u \in Threads : th[u].pc = "recv" /\ th[u].id = i
        BY <3>2 DEF Awaited
      <4>2. u # t
        BY <2>2, <3>2, <4>1 DEF Ch
      <4> QED BY <1>2, <4>1, <4>2
    <3>3. /\ \A k \in DOMAIN pend[c] : pend[c][k] \in DOMAIN req /\ req[pend[c][k]].chan = c
          /\ \A k \in DOMAIN inq[c] : inq[c][k].id \in DOMAIN req /\ req[inq[c][k].id].chan = c
      BY DEF TransferInv, OnChannel
    <3>4. /\ \A k \in DOMAIN pend[c] : req[pend[c][k]].blocking =>
                /\ Awaited(pend[c][k])
                /\ inq[c] = <<>>
                /\ \A j \in DOMAIN pend[c] : req[pend[c][j]].blocking => j = k
          /\ \A k \in DOMAIN inq[c] : k = 1 /\ Awaited(inq[c][k].id)
      BY <3>1 DEF TransferInv, OneAwaited
    <3> QED BY <3>1, <3>2, <3>3, <3>4
  <2> QED BY <2>1, <2>2
<1>7. Taken'
  <2> SUFFICES ASSUME NEW u \in Threads, th'[u].pc \in {"close", "unlock"}, th'[u].ans.id # 0,
                      Ch(u)' \notin astray'
               PROVE  th'[u].ans.id = th'[u].id
    BY DEF Taken
  <2>1. CASE u = t
    BY <1>2, <1>3, <2>1
  <2>2. CASE u # t
    BY <1>2, <1>3, <2>2 DEF TransferInv, Taken
  <2> QED BY <2>1, <2>2
<1>8. OwnAnswer'
  BY DEF TransferInv, OwnAnswer
<1> QED BY <1>4, <1>5, <1>6, <1>7, <1>8 DEF TransferInv

LEMMA Parts == TransferInv => Sorts
BY DEF TransferInv, Typed, TypeOK, Sorts

(* The end of a transfer as a state of its thread, ...                     *)
LEMMA EndForm ==
    ASSUME Typed, NEW t \in Threads, th[t].pc \in Places, NEW x \in Rc,
           NEW a \in Answer \cup {NoAnswer}, Ends(t, x, a)
    PROVE  \E e \in Moving :
             /\ th' = [th EXCEPT ![t] = e] /\ e.id = th[t].id
             /\ e.pc = "close" /\ e.rc = x /\ e.ans = a
<1> DEFINE e == [pc |-> "close", id |-> th[t].id, retry |-> th[t].retry, rc |-> x, ans |-> a]
<1>1. th[t] \in Moving /\ th \in [Threads -> {Idle} \cup Moving]
  BY ThreadForm DEF Typed
<1>2. e \in Moving
  BY <1>1 DEF Moving, Places
<1>3. th' = [th EXCEPT ![t] = e]
  BY <1>1 DEF Ends
<1> QED BY <1>2, <1>3

(* ... and a step inside it.                                               *)
LEMMA GotoForm ==
    ASSUME Typed, NEW t \in Threads, th[t].pc \in Places, NEW l \in Places, Goto(t, l)
    PROVE  \E e \in Moving :
             /\ th' = [th EXCEPT ![t] = e] /\ e.id = th[t].id
             /\ e.pc = l /\ e.rc = th[t].rc /\ e.ans = th[t].ans
<1> DEFINE e == [th[t] EXCEPT !.pc = l]
<1>1. th[t] \in Moving /\ th \in [Threads -> {Idle} \cup Moving]
  BY ThreadForm DEF Typed
<1>2. e \in Moving /\ e.pc = l /\ e.id = th[t].id /\ e.rc = th[t].rc /\ e.ans = th[t].ans
  BY <1>1 DEF Moving
<1>3. th' = [th EXCEPT ![t] = e]
  BY <1>1 DEF Goto
<1> QED BY <1>2, <1>3

(* What the channels keep when none of them gets a request or an answer.   *)
LEMMA ChannelsKept ==
    ASSUME OnChannel, UNCHANGED <<req, pend>>,
           \A c \in Chan : inq'[c] = inq[c] \/ inq'[c] = <<>>,
           \A c \in Chan : peer'[c] # "up" => peer[c] # "up" \/ pend[c] = <<>>
    PROVE  OnChannel'
<1>1. DOMAIN <<>> = {}
  OBVIOUS
<1>2. ASSUME NEW c \in Chan
      PROVE  /\ \A k \in DOMAIN pend'[c] : pend'[c][k] \in DOMAIN req' /\ req'[pend'[c][k]].chan = c
             /\ \A k \in DOMAIN inq'[c] : inq'[c][k].id \in DOMAIN req' /\ req'[inq'[c][k].id].chan = c
             /\ peer'[c] # "up" => pend'[c] = <<>>
  BY <1>1 DEF OnChannel
<1> QED BY <1>2 DEF OnChannel

(* One lemma per step of a transfer and of svsd.                           *)
LEMMA TransferFlush ==
    ASSUME TransferInv, NEW t \in Threads, svsSocketRecvFlush(t)
    PROVE  TransferInv'
<1>1. /\ th[t].pc = "flush" /\ th[t].pc \in Places \ {"lock"} /\ Ch(t) \in Chan /\ Typed
      /\ UNCHANGED <<req, lock, sockFd, peer, pend, res, astray>>
  BY ThreadForm DEF svsSocketRecvFlush, Places, TransferInv
<1>2. PICK e \in Moving :
        /\ th' = [th EXCEPT ![t] = e] /\ e.id = th[t].id
        /\ e.pc = "send" \/ (e.pc = "close" /\ e.ans = NoAnswer)
  <2>1. \/ \E x \in {"ERR_FAIL", "ERR_SOCK_FAIL", "ERR_SOCK_DISC"} : Ends(t, x, NoAnswer)
        \/ Goto(t, "send")
    BY DEF svsSocketRecvFlush
  <2>2. ASSUME NEW x \in {"ERR_FAIL", "ERR_SOCK_FAIL", "ERR_SOCK_DISC"}, Ends(t, x, NoAnswer)
        PROVE  \E e \in Moving : /\ th' = [th EXCEPT ![t] = e] /\ e.id = th[t].id
                                 /\ e.pc = "close" /\ e.ans = NoAnswer
    <3>1. x \in Rc
      BY DEF Rc
    <3> QED BY <1>1, <2>2, <3>1, EndForm
  <2>3. CASE Goto(t, "send")
    BY <1>1, <2>3, GotoForm DEF Places
  <2> QED BY <2>1, <2>2, <2>3
<1>3. Sorts /\ Sorts'
  <2>1. Sorts
    BY Parts
  <2>2. open' \in [Chan -> BOOLEAN] /\ inq' \in [Chan -> Seq(Answer)]
    <3>1. <<>> \in Seq(Answer)
      BY EmptySeq
    <3>2. open' = open \/ open' = [open EXCEPT ![Ch(t)] = FALSE]
      BY DEF svsSocketRecvFlush
    <3>3. inq' = inq \/ inq' = [inq EXCEPT ![Ch(t)] = <<>>]
      BY DEF svsSocketRecvFlush
    <3> QED BY <2>1, <3>1, <3>2, <3>3 DEF Sorts
  <2> QED BY <1>1, <2>1, <2>2 DEF Sorts
<1>4. /\ inq'[Ch(t)] = inq[Ch(t)] \/ inq'[Ch(t)] = <<>>
      /\ \A c \in Chan \ {Ch(t)} : inq'[c] = inq[c]
  BY <1>1, <1>3 DEF svsSocketRecvFlush, Sorts
<1>5. OnChannel'
  BY <1>1, <1>4, ChannelsKept DEF TransferInv
<1>6. Ch(t) \notin astray => Mine(pend'[Ch(t)], inq'[Ch(t)], e.id, e.pc = "recv")
  <2> SUFFICES ASSUME Ch(t) \notin astray PROVE Mine(pend[Ch(t)], inq'[Ch(t)], e.id, FALSE)
    BY <1>1, <1>2 DEF Mine
  <2>1. Mine(pend[Ch(t)], inq[Ch(t)], e.id, FALSE)
    BY <1>1, <1>2, Sole
  <2>2. DOMAIN <<>> = {}
    OBVIOUS
  <2> QED BY <1>4, <2>1, <2>2 DEF Mine
<1>7. NoAnswer.id = 0
  BY DEF NoAnswer
<1>8. /\ e.pc # "lock" /\ astray \subseteq astray'
      /\ \A c \in Chan \ {Ch(t)} : pend'[c] = pend[c] /\ inq'[c] = inq[c]
      /\ Ch(t) \notin astray' => Mine(pend'[Ch(t)], inq'[Ch(t)], e.id, e.pc = "recv")
      /\ e.pc \in {"close", "unlock"} /\ e.ans.id # 0 /\ Ch(t) \notin astray' => e.ans.id = e.id
  BY <1>1, <1>2, <1>4, <1>6, <1>7
<1> QED BY <1>1, <1>2, <1>3, <1>5, <1>8, ThreadStep

LEMMA TransferSend ==
    ASSUME TransferInv, NEW t \in Threads, svsSocketSend(t)
    PROVE  TransferInv'
<1> DEFINE c == Ch(t)
           r == req[th[t].id]
<1>1. /\ th[t].pc = "send" /\ th[t].pc \in Places \ {"lock"} /\ c \in Chan /\ Typed
      /\ r \in Request /\ th[t].id \in DOMAIN req /\ th[t].id \in 1..MaxReq /\ r.chan = c
      /\ UNCHANGED <<req, lock, sockFd, open, inq, res>>
  BY ThreadForm DEF svsSocketSend, Places, TransferInv, Ch
<1>2. Sorts /\ OnChannel
  BY Parts DEF TransferInv
<1>3. PICK e \in Moving :
        /\ th' = [th EXCEPT ![t] = e] /\ e.id = th[t].id
        /\ e.pc = "recv" \/ (e.pc = "close" /\ e.ans = NoAnswer)
        /\ pend' # pend /\ r.blocking /\ c \notin astray' => e.pc = "recv"
  <2>1. ASSUME NEW x \in {"ERR_PASS", "ERR_FAIL", "ERR_SOCK_DISC"}, Ends(t, x, NoAnswer)
        PROVE  \E e \in Moving : /\ th' = [th EXCEPT ![t] = e] /\ e.id = th[t].id
                                 /\ e.pc = "close" /\ e.ans = NoAnswer
    <3>1. x \in Rc
      BY DEF Rc
    <3> QED BY <1>1, <2>1, <3>1, EndForm
  <2>2. CASE Goto(t, "recv")
    BY <1>1, <2>2, GotoForm DEF Places
  <2>3. \/ Goto(t, "recv")
        \/ /\ \E x \in {"ERR_PASS", "ERR_FAIL", "ERR_SOCK_DISC"} : Ends(t, x, NoAnswer)
           /\ ~r.blocking \/ UNCHANGED pend \/ c \in astray'
    BY DEF svsSocketSend
  <2> QED BY <2>1, <2>2, <2>3
<1>4. /\ \/ UNCHANGED pend
         \/ peer[c] = "up" /\ UNCHANGED peer /\ pend' = [pend EXCEPT ![c] = Append(@, th[t].id)]
      /\ UNCHANGED peer \/ (peer[c] # "up" /\ peer' = [peer EXCEPT ![c] = "broken"])
      /\ UNCHANGED astray \/ astray' = astray \cup {c}
  BY DEF svsSocketSend
<1> HIDE DEF c, r
<1>5. pend[c] \in Seq(1..MaxReq) /\ Append(pend[c], th[t].id) \in Seq(1..MaxReq)
  BY <1>1, <1>2, AppendProperties DEF Sorts
<1>6. Sorts'
  <2>1. pend' \in [Chan -> Seq(1..MaxReq)]
    BY <1>1, <1>2, <1>4, <1>5 DEF Sorts
  <2>2. peer' \in [Chan -> {"up", "closed", "reset", "broken"}] /\ astray' \subseteq Chan
    BY <1>1, <1>2, <1>4 DEF Sorts
  <2> QED BY <1>1, <1>2, <2>1, <2>2 DEF Sorts
<1>7. \A d \in Chan \ {c} : pend'[d] = pend[d] /\ inq'[d] = inq[d]
  BY <1>1, <1>2, <1>4 DEF Sorts
<1>8. pend'[c] = pend[c] \/ (pend'[c] = Append(pend[c], th[t].id) /\ peer' = peer /\ peer[c] = "up")
  BY <1>1, <1>2, <1>4 DEF Sorts
<1>9. /\ Len(pend[c]) \in Nat /\ DOMAIN pend[c] = 1..Len(pend[c])
      /\ pend'[c] = Append(pend[c], th[t].id) =>
           /\ DOMAIN pend'[c] = 1..(Len(pend[c]) + 1)
           /\ \A k \in DOMAIN pend'[c] : \/ k \in DOMAIN pend[c] /\ pend'[c][k] = pend[c][k]
                                         \/ k = Len(pend[c]) + 1 /\ pend'[c][k] = th[t].id
  <2>1. Len(pend[c]) \in Nat /\ DOMAIN pend[c] = 1..Len(pend[c])
    BY <1>5, LenProperties
  <2>2. CASE pend'[c] = Append(pend[c], th[t].id)
    <3>1. /\ pend'[c] \in Seq(1..MaxReq) /\ Len(pend'[c]) = Len(pend[c]) + 1
          /\ \A i \in 1..Len(pend[c]) : pend'[c][i] = pend[c][i]
          /\ pend'[c][Len(pend[c]) + 1] = th[t].id
      BY <1>1, <1>5, <2>2, AppendProperties
    <3>2. DOMAIN pend'[c] = 1..(Len(pend[c]) + 1)
      BY <3>1, LenProperties
    <3> QED BY <2>1, <3>1, <3>2
  <2> QED BY <2>1, <2>2
<1>10. OnChannel'
  <2> SUFFICES ASSUME NEW d \in Chan
      PROVE  /\ \A k \in DOMAIN pend'[d] : pend'[d][k] \in DOMAIN req /\ req[pend'[d][k]].chan = d
             /\ \A k \in DOMAIN inq'[d] : inq'[d][k].id \in DOMAIN req /\ req[inq'[d][k].id].chan = d
             /\ peer'[d] # "up" => pend'[d] = <<>>
    BY <1>1 DEF OnChannel
  <2>1. /\ \A k \in DOMAIN pend[d] : pend[d][k] \in DOMAIN req /\ req[pend[d][k]].chan = d
        /\ \A k \in DOMAIN inq[d] : inq[d][k].id \in DOMAIN req /\ req[inq[d][k].id].chan = d
        /\ peer[d] # "up" => pend[d] = <<>>
    BY <1>2 DEF OnChannel
  <2>2. inq'[d] = inq[d]
    BY <1>1
  <2>3. peer'[d] # "up" => peer[d] # "up"
    BY <1>2, <1>4 DEF Sorts
  <2>4. CASE pend'[d] = pend[d]
    BY <2>1, <2>2, <2>3, <2>4
  <2>5. CASE d = c /\ pend'[c] = Append(pend[c], th[t].id) /\ peer' = peer /\ peer[c] = "up"
    <3>1. req[th[t].id].chan = c
      BY <1>1 DEF r
    <3> QED BY <1>1, <1>9, <2>1, <2>2, <2>5, <3>1
  <2> QED BY <1>7, <1>8, <2>4, <2>5
<1>11. ASSUME c \notin astray'
       PROVE  Mine(pend'[c], inq'[c], e.id, e.pc = "recv")
  <2>1. c \notin astray
    BY <1>4, <1>11
  <2>2. Mine(pend[c], inq[c], th[t].id, FALSE)
    BY <1>1, <2>1, Sole DEF c
  <2>3. /\ \A k \in DOMAIN pend[c] : ~req[pend[c][k]].blocking
        /\ \A k \in DOMAIN inq[c] : FALSE
    BY <2>2 DEF Mine
  <2>4. inq[c] = <<>> /\ inq'[c] = <<>>
    <3>1. inq[c] \in Seq(Answer)
      BY <1>1, <1>2 DEF Sorts
    <3>2. DOMAIN inq[c] = 1..Len(inq[c]) /\ Len(inq[c]) \in Nat
      BY <3>1, LenProperties
    <3>3. Len(inq[c]) = 0
      <4> SUFFICES ASSUME Len(inq[c]) # 0 PROVE FALSE
        OBVIOUS
      <4>1. 1 \in DOMAIN inq[c]
        BY <3>2
      <4> QED BY <2>3, <4>1
    <3> QED BY <1>1, <3>1, <3>3, EmptySeq
  <2>5. CASE pend'[c] = pend[c]
    BY <2>3, <2>4, <2>5 DEF Mine
  <2>6. CASE pend'[c] # pend[c]
    <3>1. pend'[c] = Append(pend[c], th[t].id) /\ pend' # pend
      BY <1>8, <2>6
    <3>2. \A k \in DOMAIN pend'[c] : req[pend'[c][k]].blocking =>
            k = Len(pend[c]) + 1 /\ pend'[c][k] = th[t].id
      BY <1>9, <2>3, <3>1
    <3>3. r.blocking => e.pc = "recv"
      BY <1>3, <1>11, <3>1
    <3>4. \A k \in DOMAIN pend'[c] : req[pend'[c][k]].blocking =>
            /\ e.pc = "recv" /\ pend'[c][k] = e.id /\ inq'[c] = <<>>
            /\ \A j \in DOMAIN pend'[c] : req[pend'[c][j]].blocking => j = k
      BY <1>3, <2>4, <3>2, <3>3 DEF r
    <3>5. \A k \in DOMAIN inq'[c] : FALSE
      BY <2>4
    <3> QED BY <3>4, <3>5 DEF Mine
  <2> QED BY <2>5, <2>6
<1>12. NoAnswer.id = 0
  BY DEF NoAnswer
<1>13. /\ e.pc # "lock" /\ astray \subseteq astray'
       /\ e.pc \in {"close", "unlock"} /\ e.ans.id # 0 /\ Ch(t) \notin astray' => e.ans.id = e.id
       /\ UNCHANGED <<req, lock, res>>
  BY <1>1, <1>3, <1>4, <1>12
<1>14. /\ \A d \in Chan \ {Ch(t)} : pend'[d] = pend[d] /\ inq'[d] = inq[d]
       /\ Ch(t) \notin astray' => Mine(pend'[Ch(t)], inq'[Ch(t)], e.id, e.pc = "recv")
  BY <1>7, <1>11 DEF c
<1> QED BY <1>1, <1>3, <1>6, <1>10, <1>13, <1>14, ThreadStep

(* What is left of a sequence of which the k-th element is taken.          *)
LEMMA OneLess ==
    ASSUME NEW S, NEW s \in Seq(S), NEW k \in DOMAIN s
    PROVE  /\ RemoveAt(s, k) \in Seq(S)
           /\ \A j \in DOMAIN RemoveAt(s, k) :
                 \E i \in DOMAIN s : i # k /\ RemoveAt(s, k)[j] = s[i]
           /\ \A j, l \in DOMAIN RemoveAt(s, k) : j # l =>
                 \E i, m \in DOMAIN s : i # m /\ RemoveAt(s, k)[j] = s[i] /\ RemoveAt(s, k)[l] = s[m]
<1> DEFINE q == RemoveAt(s, k)
           at(j) == IF j < k THEN j ELSE j + 1
<1>1. DOMAIN s = 1..Len(s) /\ Len(s) \in Nat /\ k \in 1..Len(s)
  BY LenProperties
<1>2. /\ q \in Seq(S) /\ Len(q) = Len(s) - 1
      /\ \A i \in 1..Len(s) - 1 : q[i] = IF i < k THEN s[i] ELSE s[i + 1]
  BY <1>1, RemoveAtProperties
<1> HIDE DEF q
<1>3. DOMAIN q = 1..(Len(s) - 1)
  BY <1>2, LenProperties
<1>4. \A j \in DOMAIN q : at(j) \in DOMAIN s /\ at(j) # k /\ q[j] = s[at(j)]
  BY <1>1, <1>2, <1>3
<1>5. \A j, l \in DOMAIN q : j # l => at(j) # at(l)
  BY <1>1, <1>3
<1> HIDE DEF at
<1>6. \A j \in DOMAIN q : \E i \in DOMAIN s : i # k /\ q[j] = s[i]
  BY <1>4
<1>7. \A j, l \in DOMAIN q : j # l => \E i, m \in DOMAIN s : i # m /\ q[j] = s[i] /\ q[l] = s[m]
  BY <1>4, <1>5
<1> QED BY <1>2, <1>6, <1>7 DEF q

(* A sequence without its first element.                                   *)
LEMMA FirstLess ==
    ASSUME NEW S, NEW s \in Seq(S), s # <<>>
    PROVE  /\ Head(s) \in S /\ 1 \in DOMAIN s /\ Head(s) = s[1] /\ Tail(s) \in Seq(S)
           /\ \A k \in DOMAIN Tail(s) : k + 1 \in DOMAIN s /\ k + 1 # 1 /\ Tail(s)[k] = s[k + 1]
<1>1. DOMAIN s = 1..Len(s) /\ Len(s) \in Nat
  BY LenProperties
<1>2. /\ Head(s) \in S /\ Tail(s) \in Seq(S) /\ Len(Tail(s)) = Len(s) - 1
      /\ \A i \in 1..Len(Tail(s)) : Tail(s)[i] = s[i + 1]
  BY HeadTailProperties
<1>3. Len(s) # 0
  BY EmptySeq
<1>4. DOMAIN Tail(s) = 1..Len(Tail(s))
  BY <1>2, LenProperties
<1>5. \A k \in DOMAIN Tail(s) : k + 1 \in DOMAIN s /\ k + 1 # 1 /\ Tail(s)[k] = s[k + 1]
  BY <1>1, <1>2, <1>4
<1>6. 1 \in DOMAIN s /\ Head(s) = s[1]
  BY <1>1, <1>3
<1> QED BY <1>2, <1>5, <1>6

LEMMA TransferTakes ==
    ASSUME TransferInv, NEW t \in Threads, RecvAnswer(t)
    PROVE  TransferInv'
<1> DEFINE c == Ch(t)
           a == Head(inq[c])
<1>1. /\ th[t].pc = "recv" /\ th[t].pc \in Places \ {"lock"} /\ c \in Chan /\ Typed
      /\ inq[c] # <<>> /\ inq' = [inq EXCEPT ![c] = Tail(@)]
      /\ UNCHANGED <<req, lock, sockFd, open, peer, pend, res, astray>>
  BY ThreadForm DEF RecvAnswer, Places, TransferInv
<1>2. Sorts /\ OnChannel /\ inq[c] \in Seq(Answer)
  BY <1>1, Parts DEF TransferInv, Sorts
<1>3. /\ a \in Answer /\ 1 \in DOMAIN inq[c] /\ a = inq[c][1] /\ Tail(inq[c]) \in Seq(Answer)
      /\ \A k \in DOMAIN Tail(inq[c]) :
            k + 1 \in DOMAIN inq[c] /\ k + 1 # 1 /\ Tail(inq[c])[k] = inq[c][k + 1]
  BY <1>1, <1>2, FirstLess
<1>4. PICK e \in Moving :
        th' = [th EXCEPT ![t] = e] /\ e.id = th[t].id /\ e.pc = "close" /\ e.ans = a
  <2>1. Verdict(req[th[t].id], a) \in Rc
    BY DEF Verdict, Rc
  <2>2. Ends(t, Verdict(req[th[t].id], a), a)
    BY DEF RecvAnswer
  <2> HIDE DEF a
  <2> QED BY <1>1, <1>3, <2>1, <2>2, EndForm
<1> HIDE DEF c, a
<1>5. /\ inq'[c] = Tail(inq[c]) /\ \A d \in Chan : d # c => inq'[d] = inq[d]
      /\ inq' \in [Chan -> Seq(Answer)]
  BY <1>1, <1>2, <1>3 DEF Sorts
<1>6. Sorts'
  BY <1>1, <1>2, <1>5 DEF Sorts
<1>7. OnChannel'
  <2> SUFFICES ASSUME NEW d \in Chan
      PROVE  /\ \A k \in DOMAIN pend[d] : pend[d][k] \in DOMAIN req /\ req[pend[d][k]].chan = d
             /\ \A k \in DOMAIN inq'[d] : inq'[d][k].id \in DOMAIN req /\ req[inq'[d][k].id].chan = d
             /\ peer[d] # "up" => pend[d] = <<>>
    BY <1>1 DEF OnChannel
  <2>1. /\ \A k \in DOMAIN pend[d] : pend[d][k] \in DOMAIN req /\ req[pend[d][k]].chan = d
        /\ \A k \in DOMAIN inq[d] : inq[d][k].id \in DOMAIN req /\ req[inq[d][k].id].chan = d
        /\ peer[d] # "up" => pend[d] = <<>>
    BY <1>2 DEF OnChannel
  <2>2. CASE d = c
    <3>1. \A k \in DOMAIN inq'[c] : \E j \in DOMAIN inq[c] : inq'[c][k] = inq[c][j]
      BY <1>3, <1>5
    <3> QED BY <2>1, <2>2, <3>1
  <2>3. CASE d # c
    <3>1. inq'[d] = inq[d]
      BY <1>5, <2>3
    <3> QED BY <2>1, <3>1
  <2> QED BY <2>2, <2>3
<1>8. ASSUME c \notin astray
      PROVE  Mine(pend[c], inq'[c], e.id, FALSE) /\ a.id = e.id
  <2>1. Mine(pend[c], inq[c], th[t].id, TRUE)
    BY <1>1, <1>8, Sole DEF c
  <2>2. \A k \in DOMAIN inq[c] : k = 1 /\ inq[c][k].id = th[t].id
    BY <2>1 DEF Mine
  <2>3. \A k \in DOMAIN pend[c] : ~req[pend[c][k]].blocking
    BY <1>1, <2>1 DEF Mine
  <2>4. \A k \in DOMAIN inq'[c] : FALSE
    BY <1>3, <1>5, <2>2
  <2> QED BY <1>3, <1>4, <2>2, <2>3, <2>4 DEF Mine
<1>9. /\ \A d \in Chan \ {Ch(t)} : pend'[d] = pend[d] /\ inq'[d] = inq[d]
      /\ Ch(t) \notin astray' => Mine(pend'[Ch(t)], inq'[Ch(t)], e.id, e.pc = "recv")
      /\ e.pc \in {"close", "unlock"} /\ e.ans.id # 0 /\ Ch(t) \notin astray' => e.ans.id = e.id
  BY <1>1, <1>4, <1>5, <1>8 DEF c
<1> QED BY <1>1, <1>4, <1>6, <1>7, <1>9, ThreadStep

LEMMA TransferGivesUp ==
    ASSUME TransferInv, NEW t \in Threads, RecvTimeout(t) \/ RecvClosed(t)
    PROVE  TransferInv'
<1>1. /\ th[t].pc = "recv" /\ th[t].pc \in Places \ {"lock"} /\ Ch(t) \in Chan /\ Typed
      /\ UNCHANGED <<req, lock, sockFd, open, peer, pend, inq, res>>
      /\ astray' = astray \cup {Ch(t)}
  BY ThreadForm DEF RecvTimeout, RecvClosed, Places, TransferInv
<1>2. PICK e \in Moving :
        /\ th' = [th EXCEPT ![t] = e] /\ e.id = th[t].id /\ e.pc \in {"send", "close"}
  <2>1. ASSUME NEW x \in {"ERR_COMMS_TIMEOUT", "ERR_FAIL", "ERR_SOCK_FAIL"}, Ends(t, x, NoAnswer)
        PROVE  \E e \in Moving : /\ th' = [th EXCEPT ![t] = e] /\ e.id = th[t].id
                                 /\ e.pc = "close"
    <3>1. x \in Rc
      BY DEF Rc
    <3> QED BY <1>1, <2>1, <3>1, EndForm
  <2>2. CASE RetryLeft(t) /\ Resend(t)
    <3> DEFINE e == [th[t] EXCEPT !.pc = "send", !.retry = @ + 1]
    <3>1. th[t] \in Moving /\ th \in [Threads -> {Idle} \cup Moving]
      BY <1>1, ThreadForm DEF Typed
    <3>2. th[t].retry + 1 \in 1..KrRetries
      BY <2>2, <3>1, TransferConstants DEF RetryLeft, Moving
    <3>3. e \in Moving /\ e.pc = "send" /\ e.id = th[t].id
      BY <3>1, <3>2 DEF Moving, Places
    <3>4. th' = [th EXCEPT ![t] = e]
      BY <2>2, <3>1 DEF Resend
    <3> QED BY <3>3, <3>4
  <2>3. \/ \E x \in {"ERR_COMMS_TIMEOUT", "ERR_FAIL", "ERR_SOCK_FAIL"} : Ends(t, x, NoAnswer)
        \/ RetryLeft(t) /\ Resend(t)
    BY DEF RecvTimeout, RecvClosed
  <2> QED BY <2>1, <2>2, <2>3
<1>3. Sorts /\ Sorts'
  BY <1>1, Parts DEF Sorts
<1>4. OnChannel'
  BY <1>1, ChannelsKept DEF TransferInv
<1>5. /\ e.pc # "lock" /\ astray \subseteq astray' /\ Ch(t) \in astray'
      /\ \A c \in Chan \ {Ch(t)} : pend'[c] = pend[c] /\ inq'[c] = inq[c]
  BY <1>1, <1>2
<1> QED BY <1>1, <1>2, <1>3, <1>4, <1>5, ThreadStep

LEMMA TransferCloses ==
    ASSUME TransferInv, NEW t \in Threads, RecvError(t) \/ Close(t)
    PROVE  TransferInv'
<1>1. /\ th[t].pc \in {"recv", "close"} /\ th[t].pc \in Places \ {"lock"} /\ Ch(t) \in Chan
      /\ Typed /\ UNCHANGED <<req, lock, sockFd, pend, inq, res, astray>>
  BY ThreadForm DEF RecvError, Close, Places, TransferInv
<1>2. PICK e \in Moving :
        /\ th' = [th EXCEPT ![t] = e] /\ e.id = th[t].id
        /\ \/ e.pc = "close" /\ e.ans = NoAnswer
           \/ th[t].pc = "close" /\ e.pc = "unlock" /\ e.ans = th[t].ans
  <2>1. ASSUME NEW x \in {"ERR_SOCK_DISC", "ERR_SOCK_FAIL"}, Ends(t, x, NoAnswer)
        PROVE  \E e \in Moving : /\ th' = [th EXCEPT ![t] = e] /\ e.id = th[t].id
                                 /\ e.pc = "close" /\ e.ans = NoAnswer
    <3>1. x \in Rc
      BY DEF Rc
    <3> QED BY <1>1, <2>1, <3>1, EndForm
  <2>2. CASE Close(t)
    <3>1. Goto(t, "unlock") /\ th[t].pc = "close"
      BY <2>2 DEF Close
    <3> QED BY <1>1, <3>1, GotoForm DEF Places
  <2>3. Close(t) \/ \E x \in {"ERR_SOCK_DISC", "ERR_SOCK_FAIL"} : Ends(t, x, NoAnswer)
    BY DEF RecvError
  <2> QED BY <2>1, <2>2, <2>3
<1>3. Sorts
  BY Parts
<1>4. /\ \A c \in Chan : peer'[c] # "up" => peer[c] # "up"
      /\ peer' \in [Chan -> {"up", "closed", "reset", "broken"}]
  <2>1. UNCHANGED peer \/ (peer[Ch(t)] = "reset" /\ peer' = [peer EXCEPT ![Ch(t)] = "broken"])
    BY DEF RecvError, Close
  <2> QED BY <1>1, <1>3, <2>1 DEF Sorts
<1>5. open' \in [Chan -> BOOLEAN]
  <2>1. open' = open \/ \E d \in Chan : open' = [open EXCEPT ![d] = FALSE]
    BY <1>1 DEF RecvError, Close, Victim, Chan
  <2> QED BY <1>3, <2>1 DEF Sorts
<1>6. Sorts'
  BY <1>1, <1>3, <1>4, <1>5 DEF Sorts
<1>7. OnChannel'
  BY <1>1, <1>4, ChannelsKept DEF TransferInv
<1>8. ASSUME Ch(t) \notin astray
      PROVE  Mine(pend[Ch(t)], inq[Ch(t)], e.id, FALSE)
  <2>1. Mine(pend[Ch(t)], inq[Ch(t)], th[t].id, th[t].pc = "recv")
    BY <1>1, <1>8, Sole
  <2>2. CASE th[t].pc = "close"
    BY <1>2, <2>1, <2>2
  <2>3. CASE th[t].pc = "recv"
    <3>1. pend[Ch(t)] = <<>> /\ inq[Ch(t)] = <<>>
      BY <1>1, <2>3 DEF RecvError, Close, TransferInv, OnChannel
    <3>2. DOMAIN <<>> = {}
      OBVIOUS
    <3> QED BY <3>1, <3>2 DEF Mine
  <2> QED BY <1>1, <2>2, <2>3
<1>9. NoAnswer.id = 0
  BY DEF NoAnswer
<1>10. e.pc \in {"close", "unlock"} /\ e.ans.id # 0 /\ Ch(t) \notin astray => e.ans.id = e.id
  BY <1>2, <1>9 DEF TransferInv, Taken
<1>11. /\ e.pc # "lock" /\ astray \subseteq astray' /\ astray' = astray
       /\ \A c \in Chan \ {Ch(t)} : pend'[c] = pend[c] /\ inq'[c] = inq[c]
       /\ Ch(t) \notin astray' => Mine(pend'[Ch(t)], inq'[Ch(t)], e.id, e.pc = "recv")
  BY <1>1, <1>2, <1>8
<1> QED BY <1>1, <1>2, <1>6, <1>7, <1>10, <1>11, ThreadStep

(* A step that changes no request, answer or transfer under way on a       *)
(* channel keeps who is awaited there.                                     *)
LEMMA AwaitedKept ==
    ASSUME OneAwaited, OnChannel, UNCHANGED <<pend, inq, astray>>,
           \A i \in DOMAIN req : i \in DOMAIN req' /\ req'[i] = req[i],
           \A u \in Threads : th[u].pc = "recv" => th'[u] = th[u]
    PROVE  OneAwaited'
<1>1. \A i : Awaited(i) => \E u \in Threads : th'[u].pc = "recv" /\ th'[u].id = i
  BY DEF Awaited
<1> SUFFICES ASSUME NEW c \in Chan \ astray
             PROVE  /\ \A k \in DOMAIN pend[c] : req'[pend[c][k]].blocking =>
                         /\ \E u \in Threads : th'[u].pc = "recv" /\ th'[u].id = pend[c][k]
                         /\ inq[c] = <<>>
                         /\ \A j \in DOMAIN pend[c] : req'[pend[c][j]].blocking => j = k
                    /\ \A k \in DOMAIN inq[c] :
                         /\ k = 1
                         /\ \E u \in Threads : th'[u].pc = "recv" /\ th'[u].id = inq[c][k].id
  BY DEF OneAwaited, Awaited
<1>2. \A k \in DOMAIN pend[c] : req'[pend[c][k]] = req[pend[c][k]]
  BY DEF OnChannel
<1>3. /\ \A k \in DOMAIN pend[c] : req[pend[c][k]].blocking =>
            /\ Awaited(pend[c][k])
            /\ inq[c] = <<>>
            /\ \A j \in DOMAIN pend[c] : req[pend[c][j]].blocking => j = k
      /\ \A k \in DOMAIN inq[c] : k = 1 /\ Awaited(inq[c][k].id)
  BY DEF OneAwaited
<1> QED BY <1>1, <1>2, <1>3

LEMMA TransferUnlocks ==
    ASSUME TransferInv, NEW t \in Threads, Unlock(t)
    PROVE  TransferInv'
<1> DEFINE x == [id |-> th[t].id, rc |-> th[t].rc, ans |-> th[t].ans]
<1>1. /\ th[t].pc = "unlock" /\ Ch(t) \in Chan /\ Typed
      /\ th[t] \in Moving /\ th[t].id \in DOMAIN req
      /\ lock' = [lock EXCEPT ![Ch(t)] = None] /\ res' = res \cup {x}
      /\ th' = [th EXCEPT ![t] = Idle]
      /\ UNCHANGED <<req, open, peer, pend, inq, astray>>
  BY ThreadForm DEF Unlock, Places, TransferInv
<1>2. /\ th \in [Threads -> {Idle} \cup Moving] /\ lock \in [Chan -> Threads \cup {None}] /\ Sorts
  BY <1>1, Parts DEF Typed, TypeOK
<1>3. th'[t] = Idle /\ \A u \in Threads : u # t => th'[u] = th[u]
  BY <1>1, <1>2
<1>4. Idle.pc = "idle"
  BY DEF Idle
<1>5. \A u \in Threads : u # t => Ch(u)' = Ch(u)
  BY <1>1, <1>3 DEF Ch
<1>6. Typed'
  <2>1. th' \in [Threads -> {Idle} \cup Moving]
    BY <1>1, <1>2
  <2>2. ASSUME NEW u \in Threads, th'[u] # Idle PROVE th'[u] \in Moving /\ th'[u].id \in DOMAIN req'
    BY <1>1, <1>3, <2>1, <2>2 DEF Typed, TypeOK
  <2>3. sockFd' \in [Chan -> BOOLEAN]
    <3>1. sockFd' = sockFd \/ \E d \in Chan : sockFd' = [sockFd EXCEPT ![d] = FALSE]
      BY <1>1 DEF Unlock, Victim, Chan
    <3> QED BY <1>2, <3>1 DEF Sorts
  <2>4. lock' \in [Chan -> Threads \cup {None}]
    BY <1>1, <1>2
  <2>5. res' \subseteq [id : 1..MaxReq, rc : Rc, ans : Answer \cup {NoAnswer}]
    BY <1>1 DEF Typed, TypeOK, Moving
  <2>6. \A y \in res' : y.id \in DOMAIN req'
    BY <1>1 DEF Typed
  <2>7. \A u \in Threads : \/ th'[u] = Idle
                           \/ th'[u] \in Moving /\ th'[u].id \in DOMAIN req'
    BY <2>2
  <2>8. TypeOK'
    BY <1>1, <1>2, <2>3, <2>4, <2>5, <2>7 DEF Typed, TypeOK, Moving, Places, Sorts
  <2> QED BY <2>1, <2>6, <2>8 DEF Typed
<1>7. Held'
  <2> SUFFICES ASSUME NEW u \in Threads, th'[u].pc \in Places \ {"lock"} PROVE lock'[Ch(u)'] = u
    BY DEF Held
  <2>1. u # t
    BY <1>3, <1>4 DEF Places
  <2>2. th[u].pc \in Places \ {"lock"} /\ Ch(u)' = Ch(u)
    BY <1>3, <1>5, <2>1
  <2>3. lock[Ch(u)] = u /\ lock[Ch(t)] = t /\ Ch(u) \in Chan
    BY <1>1, <2>2, ThreadForm DEF TransferInv, Held, Places
  <2>4. Ch(u) # Ch(t)
    BY <2>1, <2>3
  <2> QED BY <1>1, <1>2, <2>2, <2>3, <2>4
<1>8. OnChannel'
  BY <1>1, ChannelsKept DEF TransferInv
<1>9. OneAwaited'
  BY <1>1, <1>3, AwaitedKept DEF TransferInv
<1>10. Taken'
  <2> SUFFICES ASSUME NEW u \in Threads, th'[u].pc \in {"close", "unlock"}, th'[u].ans.id # 0,
                      Ch(u)' \notin astray'
               PROVE  th'[u].ans.id = th'[u].id
    BY DEF Taken
  <2>1. u # t
    BY <1>3, <1>4
  <2> QED BY <1>1, <1>3, <1>5, <2>1 DEF TransferInv, Taken
<1>11. OwnAnswer'
  <2> SUFFICES ASSUME NEW y \in res', y.ans.id # 0, req[y.id].chan \notin astray
               PROVE  y.ans.id = y.id
    BY <1>1 DEF OwnAnswer
  <2>1. CASE y \in res
    BY <2>1 DEF TransferInv, OwnAnswer
  <2>2. CASE y = x
    <3>1. th[t].ans.id # 0 /\ Ch(t) \notin astray
      BY <2>2 DEF Ch
    <3> QED BY <1>1, <2>2, <3>1 DEF TransferInv, Taken
  <2> QED BY <1>1, <2>1, <2>2
<1> QED BY <1>6, <1>7, <1>8, <1>9, <1>10, <1>11 DEF TransferInv

LEMMA TransferLocks ==
    ASSUME TransferInv, NEW t \in Threads, Lock(t)
    PROVE  TransferInv'
<1>1. /\ th[t].pc = "lock" /\ Ch(t) \in Chan /\ Typed /\ lock[Ch(t)] = None
      /\ th[t] \in Moving /\ th[t].id \in DOMAIN req
      /\ lock' = [lock EXCEPT ![Ch(t)] = t]
      /\ UNCHANGED <<req, sockFd, open, peer, pend, inq, res, astray>>
  BY ThreadForm DEF Lock, Places, TransferInv
<1>2. /\ th \in [Threads -> {Idle} \cup Moving] /\ lock \in [Chan -> Threads \cup {None}] /\ Sorts
  BY <1>1, Parts DEF Typed, TypeOK
<1>3. PICK e \in Moving : th' = [th EXCEPT ![t] = e] /\ e.id = th[t].id /\ e.pc = "flush"
  <2>1. Goto(t, "flush")
    BY DEF Lock
  <2> QED BY <1>1, <2>1, GotoForm DEF Places
<1>4. th'[t] = e /\ \A u \in Threads : u # t => th'[u] = th[u]
  BY <1>2, <1>3
<1>5. \A u \in Threads : Ch(u)' = Ch(u)
  BY <1>1, <1>3, <1>4 DEF Ch
<1>6. Typed'
  <2>1. th' \in [Threads -> {Idle} \cup Moving]
    BY <1>2, <1>3
  <2>2. \A u \in Threads : \/ th[u] = Idle
                           \/ th[u] \in Moving /\ th[u].id \in DOMAIN req
    <3> SUFFICES ASSUME NEW u \in Threads, th[u] # Idle
                 PROVE  th[u] \in Moving /\ th[u].id \in DOMAIN req
      OBVIOUS
    <3> QED BY <1>1, <1>2 DEF Typed, TypeOK
  <2>3. \A u \in Threads : \/ th'[u] = Idle
                           \/ th'[u] \in Moving /\ th'[u].id \in DOMAIN req'
    BY <1>1, <1>3, <1>4, <2>2
  <2>4. lock' \in [Chan -> Threads \cup {None}]
    BY <1>1, <1>2
  <2>5. TypeOK'
    BY <1>1, <1>2, <2>3, <2>4 DEF Typed, TypeOK, Moving, Places, Sorts
  <2> QED BY <1>1, <2>1, <2>5 DEF Typed
<1>7. Held'
  <2> SUFFICES ASSUME NEW u \in Threads, th'[u].pc \in Places \ {"lock"} PROVE lock'[Ch(u)'] = u
    BY DEF Held
  <2>1. CASE u = t
    BY <1>1, <1>2, <1>5, <2>1
  <2>2. CASE u # t
    <3>1. th[u].pc \in Places \ {"lock"}
      BY <1>4, <2>2
    <3>2. lock[Ch(u)] = u /\ Ch(u) \in Chan
      BY <1>1, <3>1, ThreadForm DEF TransferInv, Held
    <3>3. Ch(u) # Ch(t)
      BY <1>1, <3>2, TransferConstants
    <3> QED BY <1>1, <1>2, <1>5, <3>2, <3>3
  <2> QED BY <2>1, <2>2
<1>8. OnChannel'
  BY <1>1, ChannelsKept DEF TransferInv
<1>9. OneAwaited'
  BY <1>1, <1>4, AwaitedKept DEF TransferInv
<1>10. Taken'
  <2> SUFFICES ASSUME NEW u \in Threads, th'[u].pc \in {"close", "unlock"}, th'[u].ans.id # 0,
                      Ch(u)' \notin astray'
               PROVE  th'[u].ans.id = th'[u].id
    BY DEF Taken
  <2>1. u # t
    BY <1>3, <1>4
  <2> QED BY <1>1, <1>4, <1>5, <2>1 DEF TransferInv, Taken
<1>11. OwnAnswer'
  BY <1>1 DEF TransferInv, OwnAnswer
<1> QED BY <1>6, <1>7, <1>8, <1>9, <1>10, <1>11 DEF TransferInv

LEMMA TransferCalled ==
    ASSUME TransferInv, NEW t \in Threads, NEW r \in Requests, Call(t, r)
    PROVE  TransferInv'
<1> DEFINE e == [pc |-> "lock", id |-> Len(req) + 1, retry |-> 1, rc |-> "ERR_PASS",
                 ans |-> NoAnswer]
<1>1. /\ th[t] = Idle /\ Len(req) < MaxReq /\ req' = Append(req, r)
      /\ th' = [th EXCEPT ![t] = e] /\ Typed
      /\ UNCHANGED <<lock, sockFd, open, peer, pend, inq, res, astray>>
  BY DEF Call, TransferInv
<1>2. /\ th \in [Threads -> {Idle} \cup Moving] /\ lock \in [Chan -> Threads \cup {None}] /\ Sorts
      /\ req \in Seq(Requests)
  BY <1>1, Parts DEF Typed, TypeOK
<1>3. /\ req' \in Seq(Requests) /\ Len(req') = Len(req) + 1 /\ Len(req) \in Nat
      /\ DOMAIN req = 1..Len(req) /\ DOMAIN req' = 1..Len(req) + 1
      /\ \A i \in DOMAIN req : i \in DOMAIN req' /\ req'[i] = req[i]
  <2>1. /\ req' \in Seq(Requests) /\ Len(req') = Len(req) + 1
        /\ \A i \in 1..Len(req) : req'[i] = req[i]
    BY <1>1, <1>2, AppendProperties
  <2>2. DOMAIN req = 1..Len(req) /\ Len(req) \in Nat /\ DOMAIN req' = 1..Len(req')
    BY <1>2, <2>1, LenProperties
  <2> QED BY <2>1, <2>2
<1>4. e \in Moving /\ e.id \in DOMAIN req' /\ e.pc = "lock"
  <2>1. Len(req) + 1 \in 1..MaxReq /\ 1 \in 1..KrRetries
    BY <1>1, <1>3, TransferConstants
  <2> QED BY <1>3, <2>1 DEF Moving, Places, Rc
<1> HIDE DEF e
<1>5. th'[t] = e /\ \A u \in Threads : u # t => th'[u] = th[u]
  BY <1>1, <1>2
<1>6. \A u \in Threads : th[u] # Idle => th[u] \in Moving /\ th[u].id \in DOMAIN req
  <2> SUFFICES ASSUME NEW u \in Threads, th[u] # Idle
               PROVE  th[u] \in Moving /\ th[u].id \in DOMAIN req
    OBVIOUS
  <2> QED BY <1>1, <1>2 DEF Typed, TypeOK
<1>7. \A u \in Threads : th'[u].pc \in Places \ {"lock"} =>
         u # t /\ th[u] = th'[u] /\ Ch(u)' = Ch(u)
  <2> SUFFICES ASSUME NEW u \in Threads, th'[u].pc \in Places \ {"lock"}
               PROVE  u # t /\ th[u] = th'[u] /\ Ch(u)' = Ch(u)
    OBVIOUS
  <2>1. u # t /\ th[u] = th'[u]
    BY <1>4, <1>5
  <2>2. th[u].id \in DOMAIN req
    BY <1>1, <2>1, ThreadForm
  <2> QED BY <1>3, <2>1, <2>2 DEF Ch
<1>8. Typed'
  <2>1. th' \in [Threads -> {Idle} \cup Moving]
    BY <1>1, <1>2, <1>4
  <2>2. \A u \in Threads : \/ th'[u] = Idle
                           \/ th'[u] \in Moving /\ th'[u].id \in DOMAIN req'
    BY <1>3, <1>4, <1>5, <1>6
  <2>3. Len(req') <= MaxReq
    BY <1>1, <1>3, TransferConstants
  <2>4. TypeOK'
    BY <1>1, <1>2, <1>3, <2>2, <2>3 DEF Typed, TypeOK, Moving, Places, Sorts
  <2>5. \A x \in res' : x.id \in DOMAIN req'
    BY <1>1, <1>3 DEF Typed
  <2> QED BY <2>1, <2>4, <2>5 DEF Typed
<1>9. Held'
  BY <1>1, <1>7 DEF TransferInv, Held
<1>10. OnChannel'
  <2> SUFFICES ASSUME NEW c \in Chan
      PROVE  /\ \A k \in DOMAIN pend[c] : pend[c][k] \in DOMAIN req' /\ req'[pend[c][k]].chan = c
             /\ \A k \in DOMAIN inq[c] : inq[c][k].id \in DOMAIN req' /\ req'[inq[c][k].id].chan = c
             /\ peer[c] # "up" => pend[c] = <<>>
    BY <1>1 DEF OnChannel
  <2> QED BY <1>3 DEF TransferInv, OnChannel
<1>11. OneAwaited'
  <2>1. \A u \in Threads : th[u].pc = "recv" => th'[u] = th[u]
    <3>1. Idle.pc # "recv"
      BY DEF Idle
    <3> QED BY <1>1, <1>5, <3>1
  <2> QED BY <1>1, <1>3, <2>1, AwaitedKept DEF TransferInv
<1>12. Taken'
  <2> SUFFICES ASSUME NEW u \in Threads, th'[u].pc \in {"close", "unlock"}, th'[u].ans.id # 0,
                      Ch(u)' \notin astray'
               PROVE  th'[u].ans.id = th'[u].id
    BY DEF Taken
  <2>1. th[u] = th'[u] /\ Ch(u)' = Ch(u)
    BY <1>7 DEF Places
  <2> QED BY <1>1, <2>1 DEF TransferInv, Taken
<1>13. OwnAnswer'
  <2> SUFFICES ASSUME NEW x \in res, x.ans.id # 0, req'[x.id].chan \notin astray
               PROVE  x.ans.id = x.id
    BY <1>1 DEF OwnAnswer
  <2>1. req'[x.id] = req[x.id]
    BY <1>1, <1>3 DEF Typed
  <2> QED BY <2>1 DEF TransferInv, OwnAnswer
<1> QED BY <1>8, <1>9, <1>10, <1>11, <1>12, <1>13 DEF TransferInv

(* What svsd does keeps the threads as they are.                           *)
LEMMA ServerStep ==
    ASSUME TransferInv, UNCHANGED <<req, lock, sockFd, open, th, res, astray>>, Sorts',
           OnChannel', OneAwaited'
    PROVE  TransferInv'
<1>1. \A u \in Threads : Ch(u)' = Ch(u)
  BY DEF Ch
<1>2. Typed'
  <2>1. \A u \in Threads : \/ th[u] = Idle
                           \/ th[u] \in Moving /\ th[u].id \in DOMAIN req
    <3> SUFFICES ASSUME NEW u \in Threads, th[u] # Idle
                 PROVE  th[u] \in Moving /\ th[u].id \in DOMAIN req
      OBVIOUS
    <3> QED BY DEF TransferInv, Typed, TypeOK
  <2>2. TypeOK'
    BY <2>1 DEF TransferInv, Typed, TypeOK, Moving, Places, Sorts
  <2> QED BY <2>2 DEF TransferInv, Typed
<1>3. Held' /\ Taken'
  BY <1>1 DEF TransferInv, Held, Taken
<1>4. OwnAnswer'
  BY DEF TransferInv, OwnAnswer
<1> QED BY <1>2, <1>3, <1>4 DEF TransferInv

(* A request that is answered on the socket is one that is waited for.     *)
LEMMA AnswerableWaits ==
    ASSUME NEW r \in Requests, Answerable(r)
    PROVE  r.blocking
<1>1. r \in Request /\ (r.chan # "BDP" => r.blocking)
  BY TransferConstants
<1> QED BY <1>1 DEF Answerable, NoAck, Request

LEMMA ServerTakes ==
    ASSUME TransferInv, NEW c \in Chan, ServerAnswer(c) \/ ServerDrop(c)
    PROVE  TransferInv'
<1>1. UNCHANGED <<req, lock, sockFd, open, peer, th, res, astray>>
  BY DEF ServerAnswer, ServerDrop
<1>2. PICK k \in DOMAIN pend[c] :
        /\ pend' = [pend EXCEPT ![c] = RemoveAt(@, k)]
        /\ \/ UNCHANGED inq
           \/ /\ Answerable(req[pend[c][k]])
              /\ \E ack \in BOOLEAN :
                    inq' = [inq EXCEPT ![c] = Append(@, [id |-> pend[c][k], ack |-> ack])]
  BY DEF ServerAnswer, ServerDrop
<1>3. /\ Sorts /\ OnChannel /\ OneAwaited /\ pend[c] \in Seq(1..MaxReq) /\ inq[c] \in Seq(Answer)
      /\ req \in Seq(Requests)
  BY Parts DEF TransferInv, Sorts, Typed, TypeOK
<1>4. pend[c][k] \in 1..MaxReq /\ pend[c][k] \in DOMAIN req /\ req[pend[c][k]] \in Requests
  <2>1. k \in DOMAIN pend[c] /\ pend[c][k] \in DOMAIN req
    BY <1>2, <1>3 DEF OnChannel
  <2>2. DOMAIN pend[c] = 1..Len(pend[c]) /\ DOMAIN req = 1..Len(req)
    BY <1>3, LenProperties
  <2>3. k \in 1..Len(pend[c]) /\ pend[c][k] \in 1..Len(req)
    BY <2>1, <2>2
  <2>4. pend[c][k] \in 1..MaxReq
    BY <1>3, <2>3, ElementOfSeq
  <2>5. req[pend[c][k]] \in Requests
    BY <1>3, <2>3, ElementOfSeq
  <2> QED BY <2>1, <2>4, <2>5
<1> DEFINE p == RemoveAt(pend[c], k)
           i == pend[c][k]
<1>5. /\ p \in Seq(1..MaxReq)
      /\ \A j \in DOMAIN p : \E m \in DOMAIN pend[c] : m # k /\ p[j] = pend[c][m]
      /\ \A j, l \in DOMAIN p : j # l =>
            \E m, n \in DOMAIN pend[c] : m # n /\ p[j] = pend[c][m] /\ p[l] = pend[c][n]
  <2>1. pend[c] \in Seq(1..MaxReq) /\ k \in DOMAIN pend[c]
    BY <1>2, <1>3
  <2> DEFINE S == 1..MaxReq
             s == pend[c]
  <2>2. s \in Seq(S) /\ k \in DOMAIN s
    BY <2>1
  <2> HIDE DEF S, s, p
  <2>3. /\ RemoveAt(s, k) \in Seq(S)
        /\ \A j \in DOMAIN RemoveAt(s, k) :
             \E m \in DOMAIN s : m # k /\ RemoveAt(s, k)[j] = s[m]
        /\ \A j, l \in DOMAIN RemoveAt(s, k) : j # l =>
             \E m, n \in DOMAIN s :
                m # n /\ RemoveAt(s, k)[j] = s[m] /\ RemoveAt(s, k)[l] = s[n]
    BY ONLY <2>2, OneLess
  <2> QED BY <2>3 DEF p, s, S
<1>6. pend'[c] = p /\ pend' \in [Chan -> Seq(1..MaxReq)] /\ \A d \in Chan \ {c} : pend'[d] = pend[d]
  BY <1>2, <1>3, <1>5 DEF Sorts
<1> HIDE DEF p
<1>7. /\ pend[c] # <<>> /\ peer[c] = "up"
  <2>1. DOMAIN <<>> = {}
    OBVIOUS
  <2> QED BY <1>3, <2>1 DEF OnChannel
<1>8. ASSUME c \notin astray, NEW j \in DOMAIN pend[c], req[pend[c][j]].blocking
      PROVE  /\ Awaited(pend[c][j]) /\ inq[c] = <<>>
             /\ \A m \in DOMAIN pend[c] : req[pend[c][m]].blocking => m = j
  BY <1>3, <1>8 DEF OneAwaited
<1>9. \A u : Awaited(u)' <=> Awaited(u)
  BY <1>1 DEF Awaited
\* what becomes of the requests
<1>10. /\ \A j \in DOMAIN p : p[j] \in DOMAIN req /\ req[p[j]].chan = c
       /\ c \notin astray => \A j \in DOMAIN p : req[p[j]].blocking =>
             /\ Awaited(p[j]) /\ inq[c] = <<>>
             /\ \A l \in DOMAIN p : req[p[l]].blocking => l = j
  <2>1. \A j \in DOMAIN p : p[j] \in DOMAIN req /\ req[p[j]].chan = c
    BY <1>3, <1>5 DEF OnChannel
  <2>2. ASSUME c \notin astray, NEW j \in DOMAIN p, req[p[j]].blocking
        PROVE  /\ Awaited(p[j]) /\ inq[c] = <<>>
               /\ \A l \in DOMAIN p : req[p[l]].blocking => l = j
    <3>1. PICK m \in DOMAIN pend[c] : m # k /\ p[j] = pend[c][m]
      BY <1>5
    <3>2. Awaited(p[j]) /\ inq[c] = <<>>
      BY <1>8, <2>2, <3>1
    <3>3. ASSUME NEW l \in DOMAIN p, req[p[l]].blocking, l # j PROVE FALSE
      <4>1. PICK x, y \in DOMAIN pend[c] : x # y /\ p[j] = pend[c][x] /\ p[l] = pend[c][y]
        BY <1>5, <3>3
      <4> QED BY <1>8, <2>2, <3>3, <4>1
    <3> QED BY <3>2, <3>3
  <2> QED BY <2>1, <2>2
<1>11. CASE UNCHANGED inq
  <2>1. Sorts'
    BY <1>1, <1>3, <1>6, <1>11 DEF Sorts
  <2>2. OnChannel'
    <3> SUFFICES ASSUME NEW d \in Chan
        PROVE  /\ \A j \in DOMAIN pend'[d] : pend'[d][j] \in DOMAIN req /\ req[pend'[d][j]].chan = d
               /\ \A j \in DOMAIN inq[d] : inq[d][j].id \in DOMAIN req /\ req[inq[d][j].id].chan = d
               /\ peer[d] # "up" => pend'[d] = <<>>
      BY <1>1, <1>11 DEF OnChannel
    <3>1. CASE d = c
      BY <1>3, <1>6, <1>7, <1>10, <3>1 DEF OnChannel
    <3>2. CASE d # c
      <4>1. pend'[d] = pend[d]
        BY <1>6, <3>2
      <4> QED BY <1>3, <4>1 DEF OnChannel
    <3> QED BY <3>1, <3>2
  <2>3. OneAwaited'
    <3> SUFFICES ASSUME NEW d \in Chan \ astray
        PROVE  /\ \A j \in DOMAIN pend'[d] : req[pend'[d][j]].blocking =>
                    /\ Awaited(pend'[d][j])
                    /\ inq[d] = <<>>
                    /\ \A l \in DOMAIN pend'[d] : req[pend'[d][l]].blocking => l = j
               /\ \A j \in DOMAIN inq[d] : j = 1 /\ Awaited(inq[d][j].id)
      BY <1>1, <1>11 DEF OneAwaited, Awaited
    <3>1. \A j \in DOMAIN inq[d] : j = 1 /\ Awaited(inq[d][j].id)
      BY <1>3 DEF OneAwaited
    <3>2. CASE d = c
      BY <1>6, <1>10, <3>1, <3>2
    <3>3. CASE d # c
      <4>1. pend'[d] = pend[d]
        BY <1>6, <3>3
      <4> QED BY <1>3, <4>1 DEF OneAwaited
    <3> QED BY <3>2, <3>3
  <2> QED BY <1>1, <2>1, <2>2, <2>3, ServerStep
<1>12. CASE /\ Answerable(req[pend[c][k]])
            /\ \E ack \in BOOLEAN :
                  inq' = [inq EXCEPT ![c] = Append(@, [id |-> pend[c][k], ack |-> ack])]
  <2>1. PICK ack \in BOOLEAN : inq' = [inq EXCEPT ![c] = Append(@, [id |-> pend[c][k], ack |-> ack])]
    BY <1>12
  <2> DEFINE a == [id |-> pend[c][k], ack |-> ack]
  <2>2. a \in Answer /\ a.id = i
    BY <1>4 DEF Answer
  <2>3. inq' = [inq EXCEPT ![c] = Append(@, a)]
    BY <2>1
  <2> HIDE DEF a
  <2>4. /\ Append(inq[c], a) \in Seq(Answer) /\ Len(Append(inq[c], a)) = Len(inq[c]) + 1
        /\ \A j \in 1..Len(inq[c]) : Append(inq[c], a)[j] = inq[c][j]
        /\ Append(inq[c], a)[Len(inq[c]) + 1] = a
    BY <1>3, <2>2, AppendProperties
  <2>5. inq'[c] = Append(inq[c], a) /\ inq' \in [Chan -> Seq(Answer)] /\ \A d \in Chan \ {c} : inq'[d] = inq[d]
    BY <1>3, <2>3, <2>4 DEF Sorts
  <2>6. /\ DOMAIN inq[c] = 1..Len(inq[c]) /\ Len(inq[c]) \in Nat
        /\ DOMAIN inq'[c] = 1..Len(inq'[c])
    BY <1>3, <2>4, <2>5, LenProperties
  <2>7. \A j \in DOMAIN inq'[c] : \/ j \in DOMAIN inq[c] /\ inq'[c][j] = inq[c][j]
                                  \/ j = Len(inq[c]) + 1 /\ inq'[c][j] = a
    BY <2>4, <2>5, <2>6
  <2>8. i \in DOMAIN req /\ req[i].chan = c
    BY <1>3 DEF OnChannel
  <2>9. Sorts'
    BY <1>1, <1>3, <1>6, <2>5 DEF Sorts
  <2>10. OnChannel'
    <3> SUFFICES ASSUME NEW d \in Chan
        PROVE  /\ \A j \in DOMAIN pend'[d] : pend'[d][j] \in DOMAIN req /\ req[pend'[d][j]].chan = d
               /\ \A j \in DOMAIN inq'[d] : inq'[d][j].id \in DOMAIN req /\ req[inq'[d][j].id].chan = d
               /\ peer[d] # "up" => pend'[d] = <<>>
      BY <1>1 DEF OnChannel
    <3>1. CASE d = c
      <4>1. \A j \in DOMAIN inq[c] : inq[c][j].id \in DOMAIN req /\ req[inq[c][j].id].chan = c
        BY <1>3 DEF OnChannel
      <4>2. \A j \in DOMAIN inq'[c] : inq'[c][j].id \in DOMAIN req /\ req[inq'[c][j].id].chan = c
        BY <2>2, <2>7, <2>8, <4>1
      <4> QED BY <1>6, <1>7, <1>10, <3>1, <4>2
    <3>2. CASE d # c
      <4>1. pend'[d] = pend[d] /\ inq'[d] = inq[d]
        BY <1>6, <2>5, <3>2
      <4> QED BY <1>3, <4>1 DEF OnChannel
    <3> QED BY <3>1, <3>2
  <2>11. OneAwaited'
    <3> SUFFICES ASSUME NEW d \in Chan \ astray
        PROVE  /\ \A j \in DOMAIN pend'[d] : req[pend'[d][j]].blocking =>
                    /\ Awaited(pend'[d][j])
                    /\ inq'[d] = <<>>
                    /\ \A l \in DOMAIN pend'[d] : req[pend'[d][l]].blocking => l = j
               /\ \A j \in DOMAIN inq'[d] : j = 1 /\ Awaited(inq'[d][j].id)
      BY <1>1 DEF OneAwaited, Awaited
    <3>1. CASE d = c
      <4>1. req[i].blocking
        BY <1>4, <1>12, AnswerableWaits
      <4>2. Awaited(i) /\ inq[c] = <<>> /\ \A m \in DOMAIN pend[c] : req[pend[c][m]].blocking => m = k
        BY <1>8, <3>1, <4>1
      <4>3. \A j \in DOMAIN p : ~req[p[j]].blocking
        BY <1>5, <4>2
      <4>4. Len(inq[c]) = 0
        BY <4>2
      <4>5. \A j \in DOMAIN inq'[c] : j = 1 /\ inq'[c][j] = a
        BY <2>6, <2>7, <4>4
      <4> QED BY <1>6, <2>2, <3>1, <4>2, <4>3, <4>5
    <3>2. CASE d # c
      <4>1. pend'[d] = pend[d] /\ inq'[d] = inq[d]
        BY <1>6, <2>5, <3>2
      <4> QED BY <1>3, <4>1 DEF OneAwaited
    <3> QED BY <3>1, <3>2
  <2> QED BY <1>1, <2>9, <2>10, <2>11, ServerStep
<1> QED BY <1>2, <1>11, <1>12

LEMMA ServerExits ==
    ASSUME TransferInv, ServerExit
    PROVE  TransferInv'
<1>1. /\ UNCHANGED <<req, lock, sockFd, open, th, res, astray>>
      /\ peer' \in [Chan -> {"closed", "reset"}] /\ pend' = [c \in Chan |-> <<>>]
      /\ inq' = [c \in Chan |-> IF peer'[c] = "reset" THEN <<>> ELSE inq[c]]
  BY DEF ServerExit
<1>2. Sorts /\ OnChannel /\ OneAwaited
  BY Parts DEF TransferInv
<1>3. /\ DOMAIN <<>> = {} /\ <<>> \in Seq(Answer) /\ <<>> \in Seq(1..MaxReq)
  BY EmptySeq
<1>4. \A c \in Chan : pend'[c] = <<>> /\ (inq'[c] = inq[c] \/ inq'[c] = <<>>)
  BY <1>1
<1>5. Sorts'
  BY <1>1, <1>2, <1>3 DEF Sorts
<1>6. OnChannel'
  <2> SUFFICES ASSUME NEW c \in Chan
      PROVE  /\ \A k \in DOMAIN pend'[c] : pend'[c][k] \in DOMAIN req /\ req[pend'[c][k]].chan = c
             /\ \A k \in DOMAIN inq'[c] : inq'[c][k].id \in DOMAIN req /\ req[inq'[c][k].id].chan = c
             /\ peer'[c] # "up" => pend'[c] = <<>>
    BY <1>1 DEF OnChannel
  <2> QED BY <1>2, <1>3, <1>4 DEF OnChannel
<1>7. OneAwaited'
  <2> SUFFICES ASSUME NEW c \in Chan \ astray
      PROVE  /\ \A j \in DOMAIN pend'[c] : req[pend'[c][j]].blocking =>
                  /\ Awaited(pend'[c][j])
                  /\ inq'[c] = <<>>
                  /\ \A l \in DOMAIN pend'[c] : req[pend'[c][l]].blocking => l = j
             /\ \A j \in DOMAIN inq'[c] : j = 1 /\ Awaited(inq'[c][j].id)
    BY <1>1 DEF OneAwaited, Awaited
  <2> QED BY <1>2, <1>3, <1>4 DEF OneAwaited
<1> QED BY <1>1, <1>5, <1>6, <1>7, ServerStep

LEMMA TransferInit == Init => TransferInv
<1> SUFFICES ASSUME Init PROVE TransferInv
  OBVIOUS
<1> USE DEF Init
<1>1. Idle.pc = "idle"
  BY DEF Idle
<1>2. /\ DOMAIN <<>> = {} /\ <<>> \in Seq(Requests) /\ <<>> \in Seq(1..MaxReq)
      /\ <<>> \in Seq(Answer) /\ Len(<<>>) = 0
  BY EmptySeq
<1>3. Typed
  <2>1. TypeOK
    BY <1>2, TransferConstants DEF TypeOK
  <2> QED BY <2>1 DEF Typed
<1>4. Held /\ Taken /\ OwnAnswer
  BY <1>1 DEF Held, Taken, OwnAnswer, Places
<1>5. OnChannel /\ OneAwaited
  BY <1>2 DEF OnChannel, OneAwaited
<1> QED BY <1>3, <1>4, <1>5 DEF TransferInv

LEMMA TransferStep ==
    ASSUME TransferInv, [Next]_vars
    PROVE  TransferInv'
<1>1. ASSUME NEW t \in Threads, Transfer(t) PROVE TransferInv'
  BY <1>1, TransferFlush, TransferSend, TransferTakes, TransferGivesUp, TransferCloses,
     TransferUnlocks DEF Transfer
<1>2. ASSUME NEW t \in Threads, Lock(t) \/ \E r \in Requests : Call(t, r) PROVE TransferInv'
  BY <1>2, TransferLocks, TransferCalled
<1>3. CASE Server
  BY <1>3, ServerTakes, ServerExits DEF Server
<1>4. CASE UNCHANGED vars
  <2>1. Sorts' /\ OnChannel' /\ OneAwaited'
    BY <1>4, Parts DEF vars, TransferInv, Sorts, OnChannel, OneAwaited, Awaited
  <2> QED BY <1>4, <2>1, ServerStep DEF vars
<1> QED BY <1>1, <1>2, <1>3, <1>4 DEF Next

LEMMA TransferCorrect == SumSpec => []TransferInv
<1>1. SumInit => TransferInv
  BY TransferInit DEF SumInit
<1>2. TransferInv /\ [SumNext]_allVars => TransferInv'
  BY TransferMoves, TransferStep
<1> QED BY <1>1, <1>2, PTL DEF SumSpec

(* For any number of threads, requests and transmissions: an answer that a *)
(* transfer takes is the one to its own request, as long as no transfer on *)
(* its channel gave up on an answer (src/src/svsSocket.c, 214-616).        *)
THEOREM OwnAnswerCorrect == SumSpec => []OwnAnswer
<1>1. TransferInv => OwnAnswer
  BY DEF TransferInv
<1> QED BY <1>1, TransferCorrect, PTL

-----------------------------------------------------------------------------
(* The client library keeps its state in its types, for every value of the *)
(* bounds; a KR request is sent at most KrRetries times.                   *)
THEOREM TypesCorrect == SumSpec => []TypesOK
<1>1. TransferInv => TypeOK
  BY DEF TransferInv, Typed
<1>2. CallInv => Api!TypeOK
  BY DEF CallInv
<1>3. UploadInv => Image!TypeOK
  BY DEF UploadInv
<1> QED BY <1>1, <1>2, <1>3, TransferCorrect, CallCorrect, UploadCorrect, PTL DEF TypesOK

=============================================================================
