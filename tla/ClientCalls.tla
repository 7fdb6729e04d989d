---------------------------- MODULE ClientCalls ----------------------------
(***************************************************************************)
(* The simple calls of the application programming interface               *)
(* (src/src/svsApi.c): check the arguments, ask svsd how many devices there*)
(* are, check the number, make one transfer, report its status and copy    *)
(* the answer.  The transfer itself is ClientTransfer; here it returns any *)
(* of its results.  Other applications scan and flush the address table    *)
(* between the steps, so that a number that was checked may be stale.      *)
(***************************************************************************)
EXTENDS Integers

CONSTANTS
    BDP_MAX,  \* size of the device table
    KR_MAX,   \* size of the key readers' table
    NUM_ALL,  \* BDP_NUM_ALL, KR_NUM_ALL: every device
    MaxCalls  \* bound: calls in a behaviour

CallConstants ==
    /\ BDP_MAX \in Nat \ {0}
    /\ KR_MAX \in Nat \ {0}
    /\ NUM_ALL \in Nat
    /\ NUM_ALL > BDP_MAX
    /\ NUM_ALL > KR_MAX
    /\ MaxCalls \in Nat

(* What a function does, besides its null pointer check:                   *)
(*   count   asks for the number of devices and checks the number by it    *)
(*   max     checks the number by the size of the table                    *)
(*   all     lets NUM_ALL through                                          *)
(*   value   checks the other arguments                                    *)
(*   async   the caller may choose not to wait for the answer              *)
(*   status  the result is the status in the answer                        *)
(*   copy    copies the answer to the caller, whatever its status          *)
(*   data    copies the answer to the caller if its status is ERR_PASS     *)
(*   module  is called with a module, and serves BDPs only                 *)
(*   lost    the answer is copied to a local variable                      *)
Fn(server, has) == [server |-> server, has |-> has]

svsBdpLedSet == Fn("BDP", {"count", "value", "async", "status"})
svsBdpPowerSet == Fn("BDP", {"count", "value", "async", "status"})
svsBdpPowerGet == Fn("SVS", {"count", "value", "status", "copy"})
svsBdpBikeLockGet == Fn("BDP", {"count", "async", "status", "copy"})
svsBdpBikeLockSet == Fn("BDP", {"count", "value", "async", "status"})
svsBdpBuzzerSet == Fn("BDP", {"count", "value", "async", "status"})
svsBdpLockKeyGet == Fn("BDP", {"count", "async", "status", "copy"})
svsBdpRfidGet == Fn("BDP", {"count", "async", "status", "copy"})
svsBdpChangeMode == Fn("BDP", {"count", "all", "status"})
svsBdpGetMode == Fn("BDP", {"count", "status", "data"})
svsBdpGetApplicationRev == Fn("BDP", {"count", "status", "data"})
svsBdpGetBootblockRev == Fn("BDP", {"count", "status", "data"})
svsBdpBootblockInstall == Fn("BDP", {"count", "all", "status"})
svsBdpMemoryCrc == Fn("BDP", {"count", "all", "status", "copy"})
svsBdpMsnForceGet == Fn("BDP", {"max", "all", "async", "status", "data"})
svsBdpMsnGet == Fn("SVS", {"max", "all", "status", "data"})
svsBdpMsnFlush == Fn("SVS", {"status"})
svsBdpSwitchGet == Fn("BDP", {"count", "async", "copy"})
svsBdpJtagDebugSet == Fn("BDP", {"count", "value", "status"})
svsBdpConsole == Fn("BDP", {"count", "all", "status", "data"})
svsBdpStatsGet == Fn("BDP", {"count", "all", "status", "data"})
svsBdpEcho == Fn("BDP", {"count", "all", "status", "data"})
svsBdpMotorGet == Fn("BDP", {"count", "async", "status", "copy"})
svsBdpMotorSet == Fn("BDP", {"count", "async", "status"})
svsBdpCompatibilityGet == Fn("BDP", {"count", "async", "status", "copy"})
svsBdpCompatibilitySet == Fn("BDP", {"count", "async", "status"})
svsBdpCommsGet == Fn("BDP", {"count", "status", "copy"})
svsBdpCommsSet == Fn("BDP", {"count", "status"})

svsKrAddressGet == Fn("KR", {"max", "all", "status", "data"})
svsKrPowerSet == Fn("KR", {"value", "status"})
svsKrRfidGet == Fn("KR", {"status", "copy"})
svsKrChangeMode == Fn("KR", {"status"})
svsKrGetMode == Fn("KR", {"status", "data"})
svsKrGetApplicationRev == Fn("KR", {"status", "data"})
svsKrGetBootblockRev == Fn("KR", {"status", "data"})
svsKrEcho == Fn("KR", {"count", "all", "status", "data"})
svsKrBootblockInstall == Fn("KR", {"count", "all", "status"})
svsKrMemoryCrc == Fn("KR", {"count", "all", "status", "copy"})
(* The SVS server does not know SVS_MSG_ID_KR_POWER_GET.                   *)
svsKrPowerGet == Fn("none", {"value", "status", "copy"})

svsModulePowerSet == Fn("BDP", svsBdpPowerSet.has \cup {"module"})
(* bdp_power.bdp_power_state is checked although it was never set.         *)
svsModulePowerGet == Fn("SVS", (svsBdpPowerGet.has \ {"copy"}) \cup {"module", "lost"})
svsModuleMsnGet == Fn("SVS", svsBdpMsnGet.has \cup {"module"})

Functions ==
    {svsBdpLedSet, svsBdpPowerSet, svsBdpPowerGet, svsBdpBikeLockGet,
     svsBdpBikeLockSet, svsBdpBuzzerSet, svsBdpLockKeyGet, svsBdpRfidGet,
     svsBdpChangeMode, svsBdpGetMode, svsBdpGetApplicationRev,
     svsBdpGetBootblockRev, svsBdpBootblockInstall, svsBdpMemoryCrc,
     svsBdpMsnForceGet, svsBdpMsnGet, svsBdpMsnFlush, svsBdpSwitchGet,
     svsBdpJtagDebugSet, svsBdpConsole, svsBdpStatsGet, svsBdpEcho,
     svsBdpMotorGet, svsBdpMotorSet, svsBdpCompatibilityGet,
     svsBdpCompatibilitySet, svsBdpCommsGet, svsBdpCommsSet,
     svsKrAddressGet, svsKrPowerSet, svsKrRfidGet, svsKrChangeMode,
     svsKrGetMode, svsKrGetApplicationRev, svsKrGetBootblockRev, svsKrEcho,
     svsKrBootblockInstall, svsKrMemoryCrc, svsKrPowerGet,
     svsModulePowerSet, svsModulePowerGet, svsModuleMsnGet}

VARIABLES
    pc,     \* where the call is
    fn,     \* the function called
    arg,    \* its arguments
    count,  \* devices in the tables of svsd
    seen,   \* the number svsBdpAvailableGet or svsKrAvailableGet gave
    done,   \* what the device did with the request: the status it
                    \* answered, or "none"
    rc,     \* the result of the call
    out,    \* the caller's data: "kept", "answer" or "zero"
    calls   \* counter of the bound

vars == <<pc, fn, arg, count, seen, done, rc, out, calls>>

Max(f) == IF f.server = "KR" THEN KR_MAX ELSE BDP_MAX

(* The functions without a number use device 0 or none.                    *)
Numbers(f) == IF f.has \cap {"count", "max"} = {} THEN {0}
                                                 ELSE {NUM_ALL} \cup 0..Max(f)

Table(f) == IF f.server = "KR" THEN "KR" ELSE "BDP"

Status == {"ERR_PASS", "ERR_DEVICE"}

Result == Status \cup {"ERR_FAIL", "ERR_COMMS_TIMEOUT", "ERR_INV_MSG_ID",
                       "ERR_NOT_IMPLEMENTED"}

TypeOK ==
    /\ pc \in {"idle", "ask", "range", "transfer", "done"}
    /\ fn \in Functions
    /\ arg \in [num : Nat, value : BOOLEAN, block : BOOLEAN]
    /\ count \in [BDP : 0..BDP_MAX, KR : 0..KR_MAX]
    /\ seen \in Nat
    /\ done \in Status \cup {"none"}
    /\ rc \in Result
    /\ out \in {"kept", "answer", "zero"}
    /\ calls \in 0..MaxCalls

Init ==
    /\ pc = "idle"
    /\ fn = svsBdpMsnFlush
    /\ arg = [num |-> 0, value |-> TRUE, block |-> TRUE]
    /\ count = [BDP |-> 0, KR |-> 0]
    /\ seen = 0
    /\ done = "none"
    /\ rc = "ERR_FAIL"
    /\ out = "kept"
    /\ calls = 0

Return(result) ==
    /\ rc' = result
    /\ pc' = "done"

(* The checks that need no answer.  svsModulePowerSet looks at the state   *)
(* before it looks at the module.                                          *)
Call(f) ==
    /\ pc = "idle"
    /\ calls < MaxCalls
    /\ calls' = calls + 1
    /\ fn' = f
    /\ \E n \in Numbers(f), v \in BOOLEAN, b \in BOOLEAN :
          /\ "async" \notin f.has => b
          /\ "value" \notin f.has => v
          /\ arg' = [num |-> n, value |-> v, block |-> b]
    /\ \/ Return("ERR_FAIL")                    \* a null pointer
       \/ /\ "module" \in f.has
          /\ Return("ERR_NOT_IMPLEMENTED")      \* a module that is no BDP
       \/ /\ pc' = IF "count" \in f.has THEN "ask" ELSE "range"
          /\ UNCHANGED rc
    /\ seen' = 0
    /\ done' = "none"
    /\ out' = "kept"
    /\ UNCHANGED count

(* svsBdpAvailableGet, svsKrAvailableGet.                                  *)
AvailableGet ==
    /\ pc = "ask"
    /\ \/ /\ seen' = count[Table(fn)]
          /\ pc' = "range"
          /\ UNCHANGED rc
       \/ /\ Return("ERR_FAIL")
          /\ UNCHANGED seen
    /\ UNCHANGED <<fn, arg, count, done, out, calls>>

InRange ==
    \/ "all" \in fn.has /\ arg.num = NUM_ALL
    \/ /\ "count" \in fn.has => arg.num < seen
       /\ "max" \in fn.has => arg.num < Max(fn)

Validate ==
    /\ pc = "range"
    /\ IF InRange /\ arg.value THEN pc' = "transfer" /\ UNCHANGED rc
                               ELSE Return("ERR_FAIL")
    /\ UNCHANGED <<fn, arg, count, seen, done, out, calls>>

(* A request reaches its device if its number is in the table when svsd    *)
(* looks, and the answer comes back; the answers of BDPs to a broadcast are*)
(* dropped, the SVS server answers one itself.                             *)
Answerable ==
    \/ fn = svsBdpMsnFlush
    \/ arg.num = NUM_ALL /\ fn.server \in {"KR", "SVS"}
    \/ arg.num < count[Table(fn)] /\ fn.server # "none"
    \/ arg.num < BDP_MAX /\ fn = svsBdpPowerGet    \* kept by svsd
    \/ arg.num < BDP_MAX /\ fn = svsModulePowerGet

(* Mutant: the status is not looked at.                                    *)
AnsweredAnyStatus(s) ==
    /\ done' = s
    /\ Return("ERR_PASS")
    /\ out' = IF fn.has \cap {"copy", "data"} # {} THEN "answer" ELSE "kept"

Answered(s) ==
    /\ done' = s
    /\ Return(IF "status" \in fn.has THEN s ELSE "ERR_PASS")
    /\ out' = IF \/ "copy" \in fn.has
                 \/ "data" \in fn.has /\ s = "ERR_PASS"
              THEN "answer" ELSE "kept"

(* svsSocketServerBdpTransferSafe and its like, and the code behind them:  *)
(* a call that does not wait finds zeroes in its answer.                   *)
Transfer ==
    /\ pc = "transfer"
    /\ \/ arg.block /\ Answerable /\ \E s \in Status : Answered(s)
       \/ /\ ~arg.block
          /\ Return("ERR_PASS")
          /\ out' = IF fn.has \cap {"copy", "data"} # {} THEN "zero" ELSE "kept"
          /\ UNCHANGED done
       \/ /\ \/ arg.block /\ Return("ERR_COMMS_TIMEOUT")
             \/ Return("ERR_FAIL")
             \/ fn.server = "none" /\ Return("ERR_INV_MSG_ID")
          /\ done' \in IF Answerable THEN Status \cup {"none"} ELSE {"none"}
          /\ UNCHANGED out
    /\ UNCHANGED <<fn, arg, count, seen, calls>>

Idle ==
    /\ pc = "done"
    /\ pc' = "idle"
    /\ UNCHANGED <<fn, arg, count, seen, done, rc, out, calls>>

(* Another application scans or flushes, and devices answer the scan.      *)
TablesChange ==
    /\ count' \in [BDP : {0, count.BDP + 1}, KR : {count.KR, count.KR + 1}]
    /\ count'.BDP <= BDP_MAX
    /\ count'.KR <= KR_MAX
    /\ UNCHANGED <<pc, fn, arg, seen, done, rc, out, calls>>

Next == \/ \E f \in Functions : Call(f)
        \/ AvailableGet \/ Validate \/ Transfer \/ Idle
        \/ TablesChange

Spec == Init /\ [][Next]_vars

-----------------------------------------------------------------------------
(* A call that waited and returned ERR_PASS was carried out: its device    *)
(* answered with that status, whatever happened to the tables meanwhile.   *)
(* svsBdpSwitchGet never looks at the status (svsApi.c:1422-1437).         *)
PassMeansDone ==
    pc = "done" /\ rc = "ERR_PASS" /\ arg.block =>
        \/ done = "ERR_PASS"
        \/ "status" \notin fn.has /\ done # "none"

(* The caller's data are replaced by an answer only if there was one, and  *)
(* a function that returns data and waited has filled them in when it      *)
(* returns ERR_PASS; svsModulePowerGet forgets them (svsApi.c:149).        *)
Filled ==
    pc = "done" =>
        /\ out = "answer" => done # "none" /\ arg.block
        /\ rc = "ERR_PASS" /\ arg.block /\ fn.has \cap {"copy", "data", "lost"} # {}
               => out = "answer" \/ "lost" \in fn.has

=============================================================================
