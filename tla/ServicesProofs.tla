---------------------------- MODULE ServicesProofs ----------------------------
(***************************************************************************)
(* The safety properties of Services for every value of the constants: one *)
(* section per component.  Each proves what the steps of the sum are to the*)
(* component (Moves), an inductive invariant (Inv, Init, Step, Correct) and*)
(* from it the property.                                                   *)
(***************************************************************************)
EXTENDS Services, SequenceLemmas, FiniteSetTheorems, TLAPS

-----------------------------------------------------------------------------
(* Sequences of one element and of two.                                    *)
LEMMA ShortSequences ==
  ASSUME NEW S, NEW a \in S, NEW b \in S
  PROVE  <<a>> \in Seq(S) /\ <<a, b>> \in Seq(S)
OBVIOUS

(* Each component begins as its module says.                               *)
LEMMA Begins ==
  Init => /\ Link!Init /\ Manager!Init /\ Update!Init /\ Transmit!Init /\ Command!Init
          /\ Power!Init /\ Upgrade!Init /\ Install!Init /\ Usb!Init
BY DEF Init

-----------------------------------------------------------------------------
(* CardUpdate: what is in the reader when an update ends.                  *)


LEMMA UpdateMoves == [Next]_vars => [Update!Next]_(Update!vars)
BY DEF Next, Of, vars, updateVars, Update!vars, Update!file, Update!bounds, Update!reader

LEMMA UpdateBounds == Update!UpdateConstants
BY ServiceBounds

UpdateFlags == check \in BOOLEAN /\ dat \in BOOLEAN /\ same \in BOOLEAN /\ connected \in BOOLEAN

UpdateNumbers ==
  /\ updatePc \in Update!PCs /\ back \in {"idle", "probe", "svinit", "final"}
  /\ count \in 0..Lines /\ written \in 0..Lines /\ tries \in 0..(ConnectRetry + 1)
  /\ mode \in {"user", "sv"} /\ faults \in 0..MaxFaults /\ updates \in 0..MaxUpdates
  /\ updateRet \in {"none", "NO_ERROR", "CONNECT_FAILED", "UNKNOWN_FILE_TYPE", "CANNOT_READ_FILE",
                    "NO_MEMORY", "UNEXPECTED_FILE", "COMMAND_EXECUTION_FAILED",
                    "IDENTICAL_REVISION", "UNEXPECTED", "NEGATIVE_REPLY"}

LEMMA UpdateTypeInit == ASSUME Update!UpdateConstants, Update!Init PROVE Update!TypeOK
<1>1. UpdateFlags
  BY DEF Update!Init, UpdateFlags
<1>2. UpdateNumbers
  BY DEF Update!UpdateConstants, Update!Init, UpdateNumbers, Update!PCs
<1> QED BY <1>1, <1>2 DEF Update!TypeOK, UpdateFlags, UpdateNumbers

LEMMA UpdateTypeStep == ASSUME Update!UpdateConstants, Update!TypeOK, [Update!Next]_(Update!vars) PROVE Update!TypeOK'
<1> USE DEF Update!UpdateConstants, Update!file, Update!bounds, Update!reader, Update!PCs, Update!Leave, Update!Fault, Update!Failures, Update!CommandFault,
            Update!NegativeAllowed
<1>1. ASSUME NEW c \in BOOLEAN, NEW d \in BOOLEAN, NEW s \in BOOLEAN, Update!UpdateFirmware(c, d, s)
      PROVE  Update!TypeOK'
  BY <1>1 DEF Update!UpdateFirmware, Update!TypeOK
<1>2. CASE Update!UpdateConnect
  <2>1. UpdateFlags'
    BY <1>2 DEF Update!UpdateConnect, UpdateFlags, Update!TypeOK
  <2>2. UpdateNumbers'
    BY <1>2 DEF Update!UpdateConnect, UpdateNumbers, Update!TypeOK
  <2> QED BY <2>1, <2>2 DEF Update!TypeOK, UpdateFlags, UpdateNumbers
<1>3. CASE Update!DownloadGetFile
  BY <1>3 DEF Update!DownloadGetFile, Update!DownloadGetFileInfo, Update!TypeOK
<1>4. CASE Update!CheckTargetMode
  BY <1>4 DEF Update!CheckTargetMode, Update!TypeOK
<1>5. CASE Update!CheckRevision
  BY <1>5 DEF Update!CheckRevision, Update!TypeOK
<1>6. CASE Update!AreaChange
  BY <1>6 DEF Update!AreaChange, Update!TypeOK
<1>7. CASE Update!AreaDisconnect
  BY <1>7 DEF Update!AreaDisconnect, Update!TypeOK
<1>8. CASE Update!AreaConnect
  <2>1. UpdateFlags'
    BY <1>8 DEF Update!AreaConnect, UpdateFlags, Update!TypeOK
  <2>2. UpdateNumbers'
    BY <1>8 DEF Update!AreaConnect, Update!TriesOver, UpdateNumbers, Update!TypeOK
  <2> QED BY <2>1, <2>2 DEF Update!TypeOK, UpdateFlags, UpdateNumbers
<1>9. CASE Update!SupervisorInitialize
  BY <1>9 DEF Update!SupervisorInitialize, Update!TypeOK
<1>10. CASE Update!DownloadBegin
  BY <1>10 DEF Update!DownloadBegin, Update!TypeOK
<1>11. CASE Update!DownloadLine
  BY <1>11 DEF Update!DownloadLine, Update!LinesLeft, Update!TypeOK
<1>12. CASE Update!DownloadEnd
  BY <1>12 DEF Update!DownloadEnd, Update!TypeOK
<1>13. CASE Update!DownloadFinal
  BY <1>13 DEF Update!DownloadFinal, Update!TypeOK
<1>14. CASE Update!UpdateExit
  BY <1>14 DEF Update!UpdateExit, Update!TypeOK
<1>15. CASE UNCHANGED Update!vars
  BY <1>15 DEF Update!vars, Update!TypeOK
<1> QED BY <1>1, <1>2, <1>3, <1>4, <1>5, <1>6, <1>7, <1>8, <1>9, <1>10, <1>11, <1>12, <1>13,
           <1>14, <1>15 DEF Update!Next, Update!Working

-----------------------------------------------------------------------------
(* What is in the reader.                                                  *)

(* The port is closed outside an update.                                   *)
UpdateClosed == updatePc \in {"idle", "connect"} => ~connected

UpdateWhole == mode = "user" /\ Update!UserArea

(* Lines are sent to the supervisor only, and from the first one on the    *)
(* reader has as many as were sent; the way back to the user firmware is   *)
(* taken with a whole one.                                                 *)
LoadSound ==
  /\ updatePc \in {"connect", "file", "probe", "revision", "svinit", "begin"} => count = 0
  /\ updatePc \in {"area", "areaclose", "areaopen"} =>
       \/ back \in {"probe", "svinit"} /\ count = 0
       \/ back = "final"
  /\ updatePc \in {"begin", "line"} => mode = "sv"
  /\ updatePc = "line" /\ count > 0 => written = count
  /\ updatePc = "area" /\ back = "final" => mode = "sv" /\ Update!UserArea
  /\ updatePc \in {"areaclose", "areaopen"} /\ back = "final" => UpdateWhole
  /\ updatePc = "final" => UpdateWhole
  /\ updatePc \in {"exit", "idle"} /\ updateRet = "NO_ERROR" => UpdateWhole

LoadInv == UpdateNumbers /\ UpdateClosed /\ LoadSound

LEMMA UpdateLoadInit == ASSUME Update!UpdateConstants, Update!Init PROVE UpdateClosed /\ LoadSound
BY DEF Update!Init, UpdateClosed, LoadSound

LEMMA UpdateLoadStep ==
  ASSUME Update!UpdateConstants, LoadInv, [Update!Next]_(Update!vars)
  PROVE  UpdateClosed' /\ LoadSound'
<1> USE DEF Update!UpdateConstants, Update!file, Update!bounds, Update!reader, Update!UserArea, Update!Leave, Update!Fault, Update!Failures,
            Update!CommandFault, Update!NegativeAllowed
<1>1. ASSUME NEW c \in BOOLEAN, NEW d \in BOOLEAN, NEW s \in BOOLEAN, Update!UpdateFirmware(c, d, s)
      PROVE  UpdateClosed' /\ LoadSound'
  <2>1. UpdateClosed'
    BY <1>1 DEF Update!UpdateFirmware, UpdateClosed, LoadInv
  <2>2. LoadSound'
    BY <1>1 DEF Update!UpdateFirmware, LoadSound
  <2> QED BY <2>1, <2>2
<1>2. CASE Update!UpdateConnect
  <2>1. UpdateClosed'
    BY <1>2 DEF Update!UpdateConnect, UpdateClosed, LoadInv
  <2>2. LoadSound'
    BY <1>2 DEF Update!UpdateConnect, LoadSound, UpdateWhole, LoadInv, UpdateNumbers
  <2> QED BY <2>1, <2>2
<1>3. CASE Update!DownloadGetFile
  <2>1. UpdateClosed'
    BY <1>3 DEF Update!DownloadGetFile, Update!DownloadGetFileInfo, UpdateClosed, LoadInv
  <2>2. LoadSound'
    BY <1>3 DEF Update!DownloadGetFile, Update!DownloadGetFileInfo, LoadSound, UpdateWhole, LoadInv, UpdateNumbers
  <2> QED BY <2>1, <2>2
<1>4. CASE Update!CheckTargetMode
  <2>1. UpdateClosed'
    BY <1>4 DEF Update!CheckTargetMode, UpdateClosed, LoadInv
  <2>2. LoadSound'
    BY <1>4 DEF Update!CheckTargetMode, LoadSound, UpdateWhole, LoadInv, UpdateNumbers
  <2> QED BY <2>1, <2>2
<1>5. CASE Update!CheckRevision
  <2>1. UpdateClosed'
    BY <1>5 DEF Update!CheckRevision, UpdateClosed, LoadInv
  <2>2. LoadSound'
    BY <1>5 DEF Update!CheckRevision, LoadSound, UpdateWhole, LoadInv, UpdateNumbers
  <2> QED BY <2>1, <2>2
<1>6. CASE Update!AreaChange
  <2>1. UpdateClosed'
    BY <1>6 DEF Update!AreaChange, UpdateClosed, LoadInv
  <2>2. LoadSound'
    BY <1>6 DEF Update!AreaChange, LoadSound, UpdateWhole, LoadInv, UpdateNumbers
  <2> QED BY <2>1, <2>2
<1>7. CASE Update!AreaDisconnect
  <2>1. UpdateClosed'
    BY <1>7 DEF Update!AreaDisconnect, UpdateClosed, LoadInv
  <2>2. LoadSound'
    BY <1>7 DEF Update!AreaDisconnect, LoadSound, UpdateWhole, LoadInv, UpdateNumbers
  <2> QED BY <2>1, <2>2
<1>8. CASE Update!AreaConnect
  <2>1. UpdateClosed'
    <3>1. updatePc = "areaopen"
      BY <1>8 DEF Update!AreaConnect
    <3>2. back \in {"probe", "svinit", "final"}
      BY <3>1 DEF LoadSound, LoadInv
    <3>3. updatePc' \in {back, "areaopen", "exit"}
      BY <1>8, <3>1 DEF Update!AreaConnect
    <3> QED BY <3>2, <3>3 DEF UpdateClosed
  <2>2. LoadSound'
    <3>1. updatePc = "areaopen" /\ UNCHANGED <<count, back, mode, written>>
      BY <1>8 DEF Update!AreaConnect
    <3>2. CASE updatePc' = back
      BY <3>1, <3>2 DEF LoadSound, UpdateWhole, LoadInv
    <3>3. CASE updatePc' = "areaopen"
      BY <3>1, <3>3 DEF LoadSound, UpdateWhole, LoadInv
    <3>4. CASE updatePc' = "exit" /\ updateRet' = "CONNECT_FAILED"
      BY <3>1, <3>4 DEF LoadSound
    <3>5. \/ updatePc' = back
          \/ updatePc' = "areaopen"
          \/ updatePc' = "exit" /\ updateRet' = "CONNECT_FAILED"
      BY <1>8, <3>1 DEF Update!AreaConnect
    <3> QED BY <3>2, <3>3, <3>4, <3>5
  <2> QED BY <2>1, <2>2
<1>9. CASE Update!SupervisorInitialize
  <2>1. UpdateClosed'
    BY <1>9 DEF Update!SupervisorInitialize, UpdateClosed, LoadInv
  <2>2. LoadSound'
    BY <1>9 DEF Update!SupervisorInitialize, LoadSound, UpdateWhole, LoadInv, UpdateNumbers
  <2> QED BY <2>1, <2>2
<1>10. CASE Update!DownloadBegin
  <2>1. UpdateClosed'
    BY <1>10 DEF Update!DownloadBegin, UpdateClosed, LoadInv
  <2>2. LoadSound'
    BY <1>10 DEF Update!DownloadBegin, LoadSound, UpdateWhole, LoadInv, UpdateNumbers
  <2> QED BY <2>1, <2>2
<1>11. CASE Update!DownloadLine
  <2>1. UpdateClosed'
    BY <1>11 DEF Update!DownloadLine, Update!LinesLeft, UpdateClosed, LoadInv
  <2>2. LoadSound'
    BY <1>11 DEF Update!DownloadLine, Update!LinesLeft, LoadSound, UpdateWhole, LoadInv, UpdateNumbers
  <2> QED BY <2>1, <2>2
<1>12. CASE Update!DownloadEnd
  <2>1. UpdateClosed'
    BY <1>12 DEF Update!DownloadEnd, Update!LinesLeft, UpdateClosed, LoadInv
  <2>2. LoadSound'
    BY <1>12 DEF Update!DownloadEnd, Update!LinesLeft, LoadSound, UpdateWhole, LoadInv, UpdateNumbers
  <2> QED BY <2>1, <2>2
<1>13. CASE Update!DownloadFinal
  <2>1. UpdateClosed'
    BY <1>13 DEF Update!DownloadFinal, UpdateClosed, LoadInv
  <2>2. LoadSound'
    BY <1>13 DEF Update!DownloadFinal, LoadSound, UpdateWhole, LoadInv, UpdateNumbers
  <2> QED BY <2>1, <2>2
<1>14. CASE Update!UpdateExit
  <2>1. UpdateClosed'
    BY <1>14 DEF Update!UpdateExit, UpdateClosed, LoadInv
  <2>2. LoadSound'
    BY <1>14 DEF Update!UpdateExit, LoadSound, UpdateWhole, LoadInv, UpdateNumbers
  <2> QED BY <2>1, <2>2
<1>15. CASE UNCHANGED Update!vars
  BY <1>15 DEF Update!vars, LoadInv, UpdateClosed, LoadSound, UpdateWhole
<1> QED BY <1>1, <1>2, <1>3, <1>4, <1>5, <1>6, <1>7, <1>8, <1>9, <1>10, <1>11, <1>12, <1>13,
           <1>14, <1>15 DEF Update!Next, Update!Working

LEMMA UpdateCorrect == Spec => [](Update!TypeOK /\ UpdateClosed /\ LoadSound)
<1>1. Init => Update!TypeOK /\ UpdateClosed /\ LoadSound
  BY Begins, UpdateBounds, UpdateTypeInit, UpdateLoadInit
<1>2. Update!TypeOK /\ UpdateClosed /\ LoadSound /\ [Next]_vars
        => Update!TypeOK' /\ UpdateClosed' /\ LoadSound'
  <2>1. Update!TypeOK => UpdateNumbers
    BY DEF Update!TypeOK, UpdateNumbers
  <2> QED BY <2>1, UpdateBounds, UpdateMoves, UpdateTypeStep, UpdateLoadStep DEF LoadInv
<1> QED BY <1>1, <1>2, PTL DEF Spec

(* An update that reports success leaves a reader that runs a whole        *)
(* firmware, for files of any length, any number of attempts, and any      *)
(* updates that broke off before; and the port is closed (DownloadExe,     *)
(* ccr.origin/Prtcl_RS232C_8_FuncDef.c).                                   *)
THEOREM UpdateLoadedCorrect == Spec => []UpdateLoaded
<1>1. UpdateClosed /\ LoadSound => UpdateLoaded
  BY DEF UpdateClosed, LoadSound, UpdateWhole, UpdateLoaded, Update!UpdateLoaded
<1> QED BY <1>1, UpdateCorrect, PTL

-----------------------------------------------------------------------------
(* CardPower: the time stamps say no more than the truth.                  *)

LEMMA PowerMoves == [Next]_vars => [Power!Next]_(Power!vars)
BY DEF Next, Of, vars, powerVars, Power!vars, Power!stamps, Power!time

LEMMA PowerBounds == Power!PowerConstants
BY ServiceBounds

(* What the stamps say of the last switch, while they are to be believed:  *)
(* no more than the truth.  PowerUp believes timestamp_off from then on,   *)
(* also when ccr_power_on has only just set it.                            *)
StampsSound ==
  /\ timestamp_off_s \/ holder = "on" => clock - timestamp_off =< now - offAt
  /\ timestamp_on_s /\ powered => clock - timestamp_on =< now - onAt

(* Whoever sleeps will sleep long enough.                                  *)
SleepSound ==
  /\ holder = "on" /\ ~powered => until >= offAt + POWERON_DELAY
  /\ holder = "off" => powered /\ until >= onAt + POWERDOWN_DELAY

PowerInv ==
  /\ Power!TypeOK
  /\ offAt =< now /\ onAt =< now
  /\ StampsSound
  /\ SleepSound

-----------------------------------------------------------------------------
(* What ccr_cal_tvdiff leaves of a delay, and then the delay is over: since*)
(* the stamp says no more than the truth.                                  *)
LEMMA LeftEnough ==
  ASSUME NEW delay \in Nat, NEW stamp \in Nat, NEW t \in Nat, Power!TypeOK,
         t =< now, clock - stamp =< now - t
  PROVE  Power!Left(delay, stamp) \in Nat /\ now + Power!Left(delay, stamp) >= t + delay
BY DEF Power!Left, Power!TypeOK

LEMMA PowerInit == Power!PowerConstants /\ Power!Init => PowerInv
<1> SUFFICES ASSUME Power!PowerConstants, Power!Init PROVE PowerInv
  OBVIOUS
<1>1. Power!TypeOK
  BY DEF Power!PowerConstants, Power!Init, Power!TypeOK
<1>2. offAt =< now /\ onAt =< now /\ StampsSound /\ SleepSound
  BY DEF Power!PowerConstants, Power!Init, StampsSound, SleepSound
<1> QED BY <1>1, <1>2 DEF PowerInv

LEMMA PowerStep == Power!PowerConstants /\ PowerInv /\ [Power!Next]_(Power!vars) => PowerInv'
<1> SUFFICES ASSUME Power!PowerConstants, PowerInv, [Power!Next]_(Power!vars) PROVE PowerInv'
  OBVIOUS
<1>1. CASE Power!ccr_power_on
  <2>1. ASSUME timestamp_off_s
        PROVE  /\ Power!Left(POWERON_DELAY, timestamp_off) \in Nat
               /\ now + Power!Left(POWERON_DELAY, timestamp_off) >= offAt + POWERON_DELAY
    BY <1>1, <2>1, LeftEnough DEF StampsSound, Power!PowerConstants, PowerInv, Power!TypeOK
  <2>2. Power!TypeOK'
    BY <1>1, <2>1 DEF Power!ccr_power_on, Power!stamps, Power!time, Power!PowerConstants, PowerInv, Power!TypeOK
  <2>3. offAt' =< now' /\ onAt' =< now' /\ StampsSound'
    BY <1>1 DEF Power!ccr_power_on, Power!stamps, Power!time, Power!PowerConstants, PowerInv, Power!TypeOK, StampsSound
  <2>4. SleepSound'
    BY <1>1, <2>1 DEF Power!ccr_power_on, Power!stamps, Power!time, Power!PowerConstants, PowerInv, Power!TypeOK, SleepSound
  <2> QED BY <2>2, <2>3, <2>4 DEF PowerInv
<1>2. CASE Power!PowerUp
  <2>1. Power!TypeOK'
    BY <1>2 DEF Power!PowerUp, Power!time, PowerInv, Power!TypeOK
  <2>2. offAt' =< now' /\ onAt' =< now' /\ StampsSound'
    BY <1>2 DEF Power!PowerUp, Power!time, PowerInv, Power!TypeOK, StampsSound, SleepSound
  <2>3. SleepSound'
    BY <1>2 DEF Power!PowerUp, Power!time, PowerInv, Power!TypeOK, SleepSound
  <2> QED BY <2>1, <2>2, <2>3 DEF PowerInv
<1>3. CASE Power!ccr_power_off
  <2>1. ASSUME timestamp_on_s
        PROVE  /\ Power!Left(POWERDOWN_DELAY, timestamp_on) \in Nat
               /\ now + Power!Left(POWERDOWN_DELAY, timestamp_on) >= onAt + POWERDOWN_DELAY
    BY <1>3, <2>1, LeftEnough DEF Power!ccr_power_off, StampsSound, Power!PowerConstants, PowerInv, Power!TypeOK
  <2>2. Power!TypeOK'
    <3>1. until' \in Nat /\ timestamp_on' \in Nat
      BY <1>3, <2>1 DEF Power!ccr_power_off, Power!stamps, Power!PowerConstants, PowerInv, Power!TypeOK
    <3>2. timestamp_on_s' \in BOOLEAN
      BY <1>3 DEF Power!ccr_power_off, Power!stamps, PowerInv, Power!TypeOK
    <3> QED BY <1>3, <3>1, <3>2 DEF Power!ccr_power_off, Power!stamps, Power!time, PowerInv, Power!TypeOK
  <2>3. offAt' =< now' /\ onAt' =< now' /\ StampsSound'
    BY <1>3 DEF Power!ccr_power_off, Power!stamps, Power!time, Power!PowerConstants, PowerInv, Power!TypeOK, StampsSound
  <2>4. SleepSound'
    BY <1>3, <2>1 DEF Power!ccr_power_off, Power!stamps, Power!time, Power!PowerConstants, PowerInv, Power!TypeOK, SleepSound
  <2> QED BY <2>2, <2>3, <2>4 DEF PowerInv
<1>4. CASE Power!PowerDown
  <2>1. Power!TypeOK'
    BY <1>4 DEF Power!PowerDown, Power!time, PowerInv, Power!TypeOK
  <2>2. offAt' =< now' /\ onAt' =< now' /\ StampsSound'
    BY <1>4 DEF Power!PowerDown, Power!time, PowerInv, Power!TypeOK, StampsSound, SleepSound
  <2>3. SleepSound'
    BY <1>4 DEF Power!PowerDown, Power!time, PowerInv, Power!TypeOK, SleepSound
  <2> QED BY <2>1, <2>2, <2>3 DEF PowerInv
<1>5. CASE Power!PowerOffAlready
  <2>1. Power!TypeOK'
    BY <1>5 DEF Power!PowerOffAlready, Power!time, PowerInv, Power!TypeOK
  <2>2. offAt' =< now' /\ onAt' =< now' /\ StampsSound'
    BY <1>5 DEF Power!PowerOffAlready, Power!time, PowerInv, Power!TypeOK, StampsSound, SleepSound
  <2>3. SleepSound'
    BY <1>5 DEF Power!PowerOffAlready, Power!time, PowerInv, Power!TypeOK, SleepSound
  <2> QED BY <2>1, <2>2, <2>3 DEF PowerInv
<1>6. CASE Power!Tick
  <2>1. Power!TypeOK'
    BY <1>6 DEF Power!Tick, Power!stamps, PowerInv, Power!TypeOK
  <2>2. offAt' =< now' /\ onAt' =< now' /\ StampsSound'
    BY <1>6 DEF Power!Tick, Power!stamps, PowerInv, Power!TypeOK, StampsSound, SleepSound
  <2>3. SleepSound'
    BY <1>6 DEF Power!Tick, Power!stamps, PowerInv, Power!TypeOK, SleepSound
  <2> QED BY <2>1, <2>2, <2>3 DEF PowerInv
<1>7. CASE Power!ClockSet
  <2>1. Power!TypeOK'
    BY <1>7 DEF Power!ClockSet, Power!stamps, PowerInv, Power!TypeOK
  <2>2. offAt' =< now' /\ onAt' =< now' /\ StampsSound'
    BY <1>7 DEF Power!ClockSet, Power!stamps, PowerInv, Power!TypeOK, StampsSound, SleepSound
  <2>3. SleepSound'
    BY <1>7 DEF Power!ClockSet, Power!stamps, PowerInv, Power!TypeOK, SleepSound
  <2> QED BY <2>1, <2>2, <2>3 DEF PowerInv
<1>8. CASE UNCHANGED Power!vars
  <2>1. Power!TypeOK'
    BY <1>8 DEF Power!vars, Power!stamps, Power!time, PowerInv, Power!TypeOK
  <2>2. offAt' =< now' /\ onAt' =< now' /\ StampsSound'
    BY <1>8 DEF Power!vars, Power!stamps, Power!time, PowerInv, Power!TypeOK, StampsSound, SleepSound
  <2>3. SleepSound'
    BY <1>8 DEF Power!vars, Power!stamps, Power!time, PowerInv, Power!TypeOK, SleepSound
  <2> QED BY <2>1, <2>2, <2>3 DEF PowerInv
<1> QED BY <1>1, <1>2, <1>3, <1>4, <1>5, <1>6, <1>7, <1>8 DEF Power!Next

(* The stamps never promise more time than has passed since the last       *)
(* switch, however the clock is set back, and nobody sleeps too short.     *)
LEMMA PowerCorrect == Spec => []PowerInv
<1>1. Init => PowerInv
  BY Begins, PowerBounds, PowerInit
<1>2. PowerInv /\ [Next]_vars => PowerInv'
  BY PowerBounds, PowerMoves, PowerStep
<1> QED BY <1>1, <1>2, PTL DEF Spec

(* The reader is switched on and off no sooner than its delays allow, for  *)
(* every length of them (ccr_power_on, ccr_power_off).                     *)
THEOREM PowerRulesCorrect == Spec => PowerRules
<1> DEFINE Rule ==
       /\ ~powered /\ powered' => now - offAt >= POWERON_DELAY
       /\ powered /\ ~powered' => now - onAt >= POWERDOWN_DELAY
<1>1. PowerInv /\ [Power!Next]_(Power!vars) => [Rule]_(Power!vars)
  <2> SUFFICES ASSUME PowerInv, Power!Next PROVE Rule
    OBVIOUS
  <2>0. Power!PowerConstants
    BY PowerBounds
  <2>1. CASE Power!PowerUp
    BY <2>0, <2>1 DEF Power!PowerUp, PowerInv, Power!PowerConstants, Power!TypeOK, SleepSound
  <2>2. CASE Power!PowerDown
    BY <2>0, <2>2 DEF Power!PowerDown, PowerInv, Power!PowerConstants, Power!TypeOK, SleepSound
  <2>3. CASE ~Power!PowerUp /\ ~Power!PowerDown
    <3>1. powered' = powered
      BY <2>3 DEF Power!Next, Power!ccr_power_on, Power!ccr_power_off, Power!PowerOffAlready, Power!Tick, Power!ClockSet
    <3> QED BY <3>1 DEF PowerInv, Power!TypeOK
  <2> QED BY <2>1, <2>2, <2>3
<1> QED BY <1>1, PowerMoves, PowerCorrect, PTL DEF Spec, PowerRules, Power!PowerRules

-----------------------------------------------------------------------------
(* UsbDisk: what is attached was reported and not taken back.              *)

LEMMA UsbMoves == [Next]_vars => [Usb!Next]_(Usb!vars)
BY DEF Next, Of, vars, usbVars, Usb!vars, Usb!manager

LEMMA UsbBounds == Usb!DiskConstants
BY ServiceBounds

Reports == Seq([action : {"add", "remove"}, device : Usb!Devices])

(* The report that is read, and those that are left.                       *)
LEMMA ReportRead ==
  ASSUME Usb!TypeOK, NEW a \in {"add", "remove"}, NEW p \in BOOLEAN, Usb!Read(a, p)
  PROVE  Usb!This \in Usb!Devices /\ reports' \in Reports
<1>1. reports \in Reports /\ reports # <<>>
  BY DEF Usb!TypeOK, Usb!Read, Reports
<1>2. Head(reports) \in [action : {"add", "remove"}, device : Usb!Devices]
  BY <1>1, HeadTailProperties DEF Reports
<1>3. Tail(reports) \in Reports
  BY <1>1, HeadTailProperties DEF Reports
<1> QED BY <1>2, <1>3 DEF Usb!This, Usb!Read

LEMMA UsbTypeStep == ASSUME Usb!TypeOK, [Usb!Next]_(Usb!vars) PROVE Usb!TypeOK'
<1> USE DEF Usb!manager, Usb!Without
<1>1. CASE Usb!addDisk
  <2>1. Usb!This \in Usb!Devices /\ reports' \in Reports
    BY <1>1, ReportRead DEF Usb!addDisk
  <2> QED BY <1>1, <2>1 DEF Usb!addDisk, Usb!TypeOK, Reports
<1>2. CASE Usb!addPartition
  <2>1. Usb!This \in Usb!Devices /\ reports' \in Reports
    BY <1>2, ReportRead DEF Usb!addPartition
  <2>2. PICK m \in Usb!MountOutcomes(Usb!This) :
          LET mounted == Usb!This \in m
              looked == mounted /\ ~bDiskDeviceAttached IN
          /\ bDiskDeviceMounted' = (mounted /\ ~looked)
          /\ mounts' \in (IF looked THEN {m, Usb!Without(Usb!This)} ELSE {m})
          /\ performed' = performed \cup (IF looked THEN {Usb!This.disk} \cap packages ELSE {})
    BY <1>2 DEF Usb!addPartition
  <2>3. m \subseteq Usb!Devices
    BY <2>1 DEF Usb!MountOutcomes, Usb!TypeOK
  <2>4. mounts' \subseteq Usb!Devices
    BY <2>2, <2>3 DEF Usb!TypeOK
  <2>5. performed' \subseteq Disks
    BY <2>2 DEF Usb!TypeOK
  <2>6. bDiskDeviceMounted' \in BOOLEAN
    BY <2>2
  <2> QED BY <1>2, <2>1, <2>4, <2>5, <2>6 DEF Usb!addPartition, Usb!TypeOK, Reports
<1>3. CASE Usb!removeDevice
  <2>1. Usb!This \in Usb!Devices /\ reports' \in Reports
    BY <1>3, ReportRead DEF Usb!removeDevice
  <2>2. mounts' \subseteq Usb!Devices
    BY <1>3 DEF Usb!removeDevice, Usb!TypeOK
  <2> QED BY <1>3, <2>1, <2>2 DEF Usb!removeDevice, Usb!TypeOK, Reports
<1>4. ASSUME NEW d \in Disks, Usb!Plug(d)
      PROVE  Usb!TypeOK'
  <2>1. reports' \in Reports
    BY <1>4, AppendProperties
       DEF Usb!Plug, Usb!Report, Usb!Device, Usb!Devices, Usb!TypeOK, Reports
  <2>2. plugs' \in 0..MaxPlugs
    BY <1>4, UsbBounds DEF Usb!Plug, Usb!DiskConstants, Usb!TypeOK
  <2>3. disk' \in [Disks -> {"out", "in", "ready"}]
    BY <1>4 DEF Usb!Plug, Usb!TypeOK
  <2>4. packages' \subseteq Disks /\ performed' \subseteq Disks
    BY <1>4 DEF Usb!Plug, Usb!TypeOK
  <2> QED BY <1>4, <2>1, <2>2, <2>3, <2>4 DEF Usb!Plug, Usb!TypeOK, Reports
<1>5. ASSUME NEW d \in Disks, Usb!PlugPartition(d)
      PROVE  Usb!TypeOK'
  <2>1. reports' \in Reports
    BY <1>5, AppendProperties
       DEF Usb!PlugPartition, Usb!Report, Usb!Device, Usb!Devices, Usb!TypeOK, Reports
  <2> QED BY <1>5, <2>1 DEF Usb!PlugPartition, Usb!TypeOK, Reports
<1>6. ASSUME NEW d \in Disks, Usb!Unplug(d)
      PROVE  Usb!TypeOK'
  <2> DEFINE whole == Usb!Report("remove", Usb!Device(d, FALSE))
             gone == IF disk[d] = "ready"
                     THEN <<Usb!Report("remove", Usb!Device(d, TRUE)), whole>> ELSE <<whole>>
  <2>1. gone \in Reports
    <3>1. \A p \in BOOLEAN : Usb!Report("remove", Usb!Device(d, p))
                               \in [action : {"add", "remove"}, device : Usb!Devices]
      BY DEF Usb!Report, Usb!Device, Usb!Devices
    <3> QED BY <3>1, ShortSequences DEF Reports
  <2>2. reports \in Reports /\ reports' = reports \o gone
    BY <1>6 DEF Usb!Unplug, Usb!TypeOK, Reports
  <2> HIDE DEF gone
  <2>3. reports' \in Reports
    BY <2>1, <2>2, ConcatProperties DEF Reports
  <2> QED BY <1>6, <2>3 DEF Usb!Unplug, Usb!TypeOK, Reports
<1>7. CASE UNCHANGED Usb!vars
  BY <1>7 DEF Usb!vars, Usb!TypeOK
<1> QED BY <1>1, <1>2, <1>3, <1>4, <1>5, <1>6, <1>7 DEF Usb!Next

LEMMA UsbTypeCorrect == Spec => []Usb!TypeOK
<1>1. Init => Usb!TypeOK
  <2> SUFFICES ASSUME Usb!Init PROVE Usb!TypeOK
    BY Begins
  <2>1. reports \in Reports
    BY EmptySeq DEF Usb!Init, Reports
  <2>2. disk \in [Disks -> {"out", "in", "ready"}]
    BY DEF Usb!Init
  <2>3. plugs \in 0..MaxPlugs
    BY UsbBounds DEF Usb!Init, Usb!DiskConstants
  <2> QED BY <2>1, <2>2, <2>3 DEF Usb!Init, Usb!TypeOK, Reports
<1>2. Usb!TypeOK /\ [Next]_vars => Usb!TypeOK'
  BY UsbMoves, UsbTypeStep
<1> QED BY <1>1, <1>2, PTL DEF Spec

(* While the manager takes a disk for attached, the device it waits to be  *)
(* removed has not been removed, for any number of disks and any order of  *)
(* reports (process_netlink_uevent_message, upgrade/netlink.c).            *)
THEOREM AttachedCorrect == Spec => []AttachedSound
<1>1. Init => AttachedSound
  BY Begins DEF Usb!Init, AttachedSound, Usb!AttachedSound
<1>2. AttachedSound /\ [Usb!Next]_(Usb!vars) => AttachedSound'
  <2> SUFFICES ASSUME AttachedSound, [Usb!Next]_(Usb!vars)
               PROVE  AttachedSound'
    OBVIOUS
  <2> USE DEF AttachedSound, Usb!AttachedSound, Usb!manager, Usb!Without
  <2>1. CASE Usb!addDisk
    BY <2>1 DEF Usb!addDisk
  <2>2. CASE Usb!addPartition
    BY <2>2 DEF Usb!addPartition
  <2>3. CASE Usb!removeDevice
    BY <2>3 DEF Usb!removeDevice
  <2>4. ASSUME NEW d \in Disks, Usb!Plug(d) \/ Usb!PlugPartition(d) \/ Usb!Unplug(d)
        PROVE  AttachedSound'
    <3>1. UNCHANGED <<Usb!manager, mounts>>
      BY <2>4 DEF Usb!Plug, Usb!PlugPartition, Usb!Unplug
    <3> QED BY <3>1
  <2>5. CASE UNCHANGED Usb!vars
    BY <2>5 DEF Usb!vars
  <2> QED BY <2>1, <2>2, <2>3, <2>4, <2>5 DEF Usb!Next
<1> QED BY <1>1, <1>2, UsbMoves, PTL DEF Spec

-----------------------------------------------------------------------------
(* CardTransmit: what the reader has taken and what is left to send.       *)

LEMMA TransmitMoves == [Next]_vars => [Transmit!Next]_(Transmit!vars)
BY DEF Next, Of, vars, transmitVars, Transmit!vars

LEMMA TransmitBounds == Transmit!TransmitConstants
BY ServiceBounds

(* While a transmission goes on, nothing before the pointer is left and    *)
(* nothing behind it was taken; the part on its way starts at the pointer, *)
(* and only a part with more to come (5) leaves anything to send.          *)
SendSound ==
  /\ sendPc # "idle" => /\ sendRet = "none" /\ ~cut /\ storage
                        /\ taken = size - left /\ (left > 0 => index = taken)
  /\ sendPc = "reply" => /\ part.n =< left
                         /\ part.n > 0 => part.from = taken
                         /\ part.n < left => part.par = 5
  /\ sendPc = "idle" /\ sendRet = "none" => taken = 0 /\ received = 0 /\ ~cut
  /\ sendPc = "idle" => (storage <=> cut)
  /\ received =< room
  /\ sendRet = "NO_ERROR" /\ ~cut => taken = size

TransmitInv == Transmit!TypeOK /\ SendSound

LEMMA TransmitInit == Transmit!Init => TransmitInv
<1> SUFFICES ASSUME Transmit!Init PROVE TransmitInv
  OBVIOUS
<1>1. part \in [par : 0..7, from : Nat, n : Nat]
  BY DEF Transmit!Init, Transmit!NoCommand
<1>2. Transmit!TypeOK
  <2>1. last \in 0..7 /\ {size, room, left, index, taken, received, piece, replies} \subseteq Nat
    BY DEF Transmit!Init
  <2>2. {complete, storage, first, cut} \subseteq BOOLEAN
    BY DEF Transmit!Init
  <2> QED BY <1>1, <2>1, <2>2 DEF Transmit!Init, Transmit!TypeOK
<1>3. SendSound
  BY DEF Transmit!Init, SendSound
<1> QED BY <1>2, <1>3 DEF TransmitInv

(* What TransmitControl sends is part of what is left.                     *)
LEMMA PartSound ==
  ASSUME Transmit!TypeOK
  PROVE  /\ Transmit!Part \in [par : 0..7, from : Nat, n : Nat]
         /\ Transmit!Part.n =< left
         /\ Transmit!Part.from = index
         /\ Transmit!Part.n < left => Transmit!Part.par = 5
BY TransmitBounds DEF Transmit!Part, Transmit!TypeOK, Transmit!TransmitConstants

LEMMA TransmitStep ==
  ASSUME TransmitInv, [Transmit!Next]_(Transmit!vars)
  PROVE  TransmitInv'
<1> USE DEF Transmit!GiveUp
<1>1. ASSUME NEW n \in 0..MaxSend, NEW m \in 0..MaxRoom, Transmit!Transmit(n, m)
      PROVE  TransmitInv'
  <2>1. Transmit!TypeOK'
    <3>1. size' \in Nat /\ room' \in Nat /\ left' \in Nat /\ index' \in Nat
      BY <1>1, TransmitBounds DEF Transmit!Transmit, Transmit!TransmitConstants
    <3> QED BY <1>1, <3>1 DEF Transmit!Transmit, TransmitInv, Transmit!TypeOK
  <2>2. SendSound'
    BY <1>1, TransmitBounds
       DEF Transmit!Transmit, Transmit!TransmitConstants, TransmitInv, Transmit!TypeOK, SendSound
  <2> QED BY <2>1, <2>2 DEF TransmitInv
<1>2. CASE Transmit!SendPart
  <2>1. CASE first /\ left = 0
    <3>1. part' = [par |-> 4, from |-> 0, n |-> 0]
      BY <1>2, <2>1 DEF Transmit!SendPart
    <3>2. Transmit!TypeOK'
      BY <1>2, <3>1 DEF Transmit!SendPart, TransmitInv, Transmit!TypeOK
    <3>3. SendSound'
      BY <1>2, <2>1, <3>1 DEF Transmit!SendPart, TransmitInv, Transmit!TypeOK, SendSound
    <3> QED BY <3>2, <3>3 DEF TransmitInv
  <2>2. CASE ~(first /\ left = 0)
    <3>1. part' = Transmit!Part
      BY <1>2, <2>2 DEF Transmit!SendPart
    <3>2. /\ part' \in [par : 0..7, from : Nat, n : Nat]
          /\ part'.n =< left /\ part'.from = index /\ (part'.n < left => part'.par = 5)
      BY <3>1, PartSound DEF TransmitInv
    <3>3. Transmit!TypeOK'
      BY <1>2, <3>2 DEF Transmit!SendPart, TransmitInv, Transmit!TypeOK
    <3>4. SendSound'
      BY <1>2, <3>2 DEF Transmit!SendPart, TransmitInv, Transmit!TypeOK, SendSound
    <3> QED BY <3>3, <3>4 DEF TransmitInv
  <2> QED BY <2>1, <2>2
<1>3. CASE Transmit!SetEnd
  <2>1. Transmit!TypeOK'
    BY <1>3 DEF Transmit!SetEnd, TransmitInv, Transmit!TypeOK
  <2>2. SendSound'
    BY <1>3 DEF Transmit!SetEnd, Transmit!Finished, TransmitInv, Transmit!TypeOK, SendSound
  <2> QED BY <2>1, <2>2 DEF TransmitInv
<1>4. CASE Transmit!Unexpected
  BY <1>4 DEF Transmit!Unexpected, TransmitInv, Transmit!TypeOK, SendSound
<1>5. CASE Transmit!ReplyBad
  <2>1. taken' \in Nat
    BY <1>5 DEF Transmit!ReplyBad, Transmit!Takes, TransmitInv, Transmit!TypeOK
  <2>2. Transmit!TypeOK'
    BY <1>5, <2>1 DEF Transmit!ReplyBad, TransmitInv, Transmit!TypeOK
  <2>3. SendSound'
    BY <1>5 DEF Transmit!ReplyBad, TransmitInv, SendSound
  <2> QED BY <2>2, <2>3 DEF TransmitInv
<1>6. ASSUME NEW par \in {4, 5, 6, 7}, NEW n \in 0..MaxReply, Transmit!ReplyGood(par, n)
      PROVE  TransmitInv'
  <2>1. part.n \in Nat /\ part.from \in Nat /\ part.n =< left
    BY <1>6 DEF Transmit!ReplyGood, TransmitInv, Transmit!TypeOK, SendSound
  <2>2. taken' = taken + part.n /\ left' = left - part.n
    BY <1>6, <2>1 DEF Transmit!ReplyGood, Transmit!Takes, TransmitInv, Transmit!TypeOK, SendSound
  <2>3. index' \in Nat /\ (left' > 0 => index' = taken')
    BY <1>6, <2>1, <2>2 DEF Transmit!ReplyGood, TransmitInv, Transmit!TypeOK, SendSound
  <2>4. Transmit!TypeOK'
    <3>1. taken' \in Nat /\ left' \in Nat
      BY <2>1, <2>2 DEF TransmitInv, Transmit!TypeOK
    <3>2. replies' \in Nat /\ piece' \in Nat /\ last' \in 0..7
      BY <1>6, TransmitBounds
         DEF Transmit!ReplyGood, Transmit!TransmitConstants, TransmitInv, Transmit!TypeOK
    <3> QED BY <1>6, <2>3, <3>1, <3>2 DEF Transmit!ReplyGood, TransmitInv, Transmit!TypeOK
  <2>5. SendSound'
    BY <1>6, <2>1, <2>2, <2>3 DEF Transmit!ReplyGood, TransmitInv, Transmit!TypeOK, SendSound
  <2> QED BY <2>4, <2>5 DEF TransmitInv
<1>7. CASE Transmit!CopyReply
  BY <1>7 DEF Transmit!CopyReply, TransmitInv, Transmit!TypeOK, SendSound
<1>8. CASE Transmit!CopyCut
  BY <1>8 DEF Transmit!CopyCut, TransmitInv, Transmit!TypeOK, SendSound
<1>9. CASE UNCHANGED Transmit!vars
  BY <1>9 DEF Transmit!vars, TransmitInv, Transmit!TypeOK, SendSound
<1> QED BY <1>1, <1>2, <1>3, <1>4, <1>5, <1>6, <1>7, <1>8, <1>9 DEF Transmit!Next

LEMMA TransmitCorrect == Spec => []TransmitInv
<1>1. Init => TransmitInv
  BY Begins, TransmitInit
<1>2. TransmitInv /\ [Next]_vars => TransmitInv'
  BY TransmitMoves, TransmitStep
<1> QED BY <1>1, <1>2, PTL DEF Spec

(* For data, buffers and replies of any lengths: a transmission that       *)
(* succeeds gave the reader every byte once and in order, the caller's     *)
(* buffer is not overrun and the copy of the data is freed                 *)
(* (TransmitControl, ccr.origin/Prtcl_RS232C_8_FuncDef.c).                 *)
THEOREM SentWholeCorrect == Spec => []SentWhole
<1>1. TransmitInv => SentWhole
  BY DEF TransmitInv, SendSound, SentWhole, Transmit!SentWhole, Transmit!Memory, Transmit!TypeOK
<1> QED BY <1>1, TransmitCorrect, PTL

-----------------------------------------------------------------------------
(* SwUpdate: one package on its way from the file to the script.           *)

LEMMA InstallMoves == [Next]_vars => [Install!Next]_(Install!vars)
BY DEF Next, Of, vars, installVars, Install!vars

LEMMA InstallBounds == MaxInstalls \in Nat
BY ServiceBounds DEF Install!UpdateConstants

Numbers == 0..MaxInstalls
AnyVersion == Versions \cup {Install!NoVersion}

(* The records of a package, of what was extracted and of the machine.     *)
PackageForm ==
  /\ {pkg, archive} \subseteq
       [id : Numbers, version : AnyVersion, crc : BOOLEAN, parts : SUBSET Install!Parts]
  /\ temp \in [versions : Numbers, version : AnyVersion, upgrade : Numbers]
  /\ installed \in [xml : {"none", "bad", "good"}, version : AnyVersion, from : Numbers]
  /\ scripts \subseteq Numbers /\ enc \in Numbers /\ installs \in Numbers
  /\ overlap \in BOOLEAN
  /\ installPc \in {"idle", "write", "decrypt", "versions", "compare", "dobackup", "upgrade",
                    "fork"}

(* The archive is unpacked: it is the package that was checked, and no     *)
(* .enc file is left.                                                      *)
Unpacked == archive = pkg /\ enc = 0
Compared == temp.versions = archive.id /\ temp.version = archive.version
            /\ "versions" \in archive.parts
Newer == installed.xml = "none" \/ archive.version # installed.version

(* What holds behind each step of an update, and while its script runs.    *)
StepSound ==
  /\ installPc # "idle" => pkg.crc /\ (scripts # {} => overlap)
  /\ installPc \in {"versions", "compare", "dobackup", "upgrade", "fork"} => Unpacked
  /\ installPc \in {"compare", "dobackup", "upgrade", "fork"} => Compared
  /\ installPc \in {"dobackup", "upgrade", "fork"} => Newer
  /\ installPc \in {"upgrade", "fork"} => "dobackup" \in archive.parts
  /\ installPc = "fork" => "upgrade" \in archive.parts /\ temp.upgrade = archive.id
  /\ Install!Installs

InstallInv == PackageForm /\ StepSound

LEMMA InstallInit == Install!Init => InstallInv
<1> SUFFICES ASSUME Install!Init PROVE InstallInv
  OBVIOUS
<1>1. 0 \in Numbers /\ Install!NoVersion \in AnyVersion /\ Versions \subseteq AnyVersion
  BY InstallBounds DEF Numbers, AnyVersion
<1>2. {pkg, archive} \subseteq
        [id : Numbers, version : AnyVersion, crc : BOOLEAN, parts : SUBSET Install!Parts]
  BY <1>1 DEF Install!Init, Install!NoPackage
<1>3. temp \in [versions : Numbers, version : AnyVersion, upgrade : Numbers]
  BY <1>1 DEF Install!Init
<1>4. installed \in [xml : {"none", "bad", "good"}, version : AnyVersion, from : Numbers]
  BY <1>1 DEF Install!Init, AnyVersion
<1>5. PackageForm
  BY <1>1, <1>2, <1>3, <1>4 DEF Install!Init, PackageForm
<1>6. StepSound
  BY DEF Install!Init, StepSound, Install!Installs
<1> QED BY <1>5, <1>6 DEF InstallInv

LEMMA InstallStep ==
  ASSUME InstallInv, [Install!Next]_(Install!vars)
  PROVE  InstallInv'
<1> USE DEF Install!Leave, InstallInv
<1>1. ASSUME NEW p \in Install!Package(installs + 1), Install!performUpdate(p)
      PROVE  InstallInv'
  <2>1. installs + 1 \in Numbers
    BY <1>1, InstallBounds DEF Install!performUpdate, PackageForm, Numbers
  <2>2. p \in [id : Numbers, version : AnyVersion, crc : BOOLEAN, parts : SUBSET Install!Parts]
    BY <2>1 DEF Install!Package, Install!Parts, AnyVersion
  <2>3. PackageForm'
    BY <1>1, <2>1, <2>2 DEF Install!performUpdate, PackageForm
  <2>4. StepSound'
    BY <1>1 DEF Install!performUpdate, StepSound, PackageForm, Install!Installs
  <2> QED BY <2>3, <2>4
<1>2. CASE Install!writeEnc
  <2>1. pkg.id \in Numbers /\ 0 \in Numbers
    BY InstallBounds DEF PackageForm, Numbers
  <2>2. PackageForm'
    BY <1>2, <2>1 DEF Install!writeEnc, PackageForm
  <2>3. StepSound'
    BY <1>2 DEF Install!writeEnc, StepSound, Install!Installs
  <2> QED BY <2>2, <2>3
<1>3. CASE Install!decryptPackage
  <2>1. archive' \in [id : Numbers, version : AnyVersion, crc : BOOLEAN,
                      parts : SUBSET Install!Parts]
    <3>1. Install!NoPackage \in [id : Numbers, version : AnyVersion, crc : BOOLEAN,
                                 parts : SUBSET Install!Parts]
      BY InstallBounds DEF Install!NoPackage, Numbers, AnyVersion
    <3>2. archive' \in {archive, pkg, Install!NoPackage}
      BY <1>3 DEF Install!decryptPackage
    <3> QED BY <3>1, <3>2 DEF PackageForm
  <2>2. enc' \in Numbers
    BY <1>3, InstallBounds DEF Install!decryptPackage, Numbers
  <2>3. PackageForm'
    BY <1>3, <2>1, <2>2 DEF Install!decryptPackage, PackageForm
  <2>4. StepSound'
    BY <1>3 DEF Install!decryptPackage, StepSound, Unpacked, Install!Installs
  <2> QED BY <2>3, <2>4
<1>4. CASE Install!extractVersions
  <2> USE <1>4 DEF Install!extractVersions, Install!Extract, Install!ExtractStep
  <2>1. temp' \in [versions : Numbers, version : AnyVersion, upgrade : Numbers]
    BY DEF PackageForm
  <2>2. PackageForm'
    BY <2>1 DEF PackageForm
  <2>3. StepSound'
    BY DEF PackageForm, StepSound, Unpacked, Compared, Install!Installs
  <2> QED BY <2>2, <2>3
<1>5. CASE Install!compareVersions
  <2>1. PackageForm'
    BY <1>5 DEF Install!compareVersions, PackageForm
  <2>2. Install!shouldUpdate /\ Compared => Newer
    BY DEF Install!shouldUpdate, Install!versionCompare, Compared, Newer
  <2>3. StepSound'
    BY <1>5, <2>2 DEF Install!compareVersions, StepSound, Unpacked, Compared, Newer,
                      Install!Installs
  <2> QED BY <2>1, <2>3
<1>6. CASE Install!extractBackup
  <2> USE <1>6 DEF Install!extractBackup, Install!Extract, Install!ExtractStep
  <2>1. UNCHANGED temp
    OBVIOUS
  <2>2. PackageForm'
    BY <2>1 DEF PackageForm
  <2>3. StepSound'
    BY <2>1 DEF StepSound, Unpacked, Compared, Newer, Install!Installs
  <2> QED BY <2>2, <2>3
<1>7. CASE Install!extractUpgrade
  <2> USE <1>7 DEF Install!extractUpgrade, Install!Extract, Install!ExtractStep
  <2>1. temp' \in [versions : Numbers, version : AnyVersion, upgrade : Numbers]
    BY DEF PackageForm
  <2>2. PackageForm'
    BY <2>1 DEF PackageForm
  <2>3. StepSound'
    BY DEF PackageForm, StepSound, Unpacked, Compared, Newer, Install!Installs
  <2> QED BY <2>2, <2>3
<1>8. CASE Install!forkUpgrade
  <2>1. PackageForm'
    BY <1>8 DEF Install!forkUpgrade, PackageForm
  <2>2. archive.parts = Install!Parts
    BY <1>8 DEF Install!forkUpgrade, StepSound, Compared, PackageForm, Install!Parts
  <2>3. StepSound'
    BY <1>8, <2>2 DEF Install!forkUpgrade, StepSound, Unpacked, Compared, Newer, Install!Installs
  <2> QED BY <2>1, <2>3
<1>9. CASE Install!upgradeScript
  <2>1. installed' \in [xml : {"none", "bad", "good"}, version : AnyVersion, from : Numbers]
    BY <1>9 DEF Install!upgradeScript, PackageForm
  <2>2. PackageForm'
    BY <1>9, <2>1 DEF Install!upgradeScript, PackageForm
  <2>3. StepSound'
    BY <1>9 DEF Install!upgradeScript, StepSound, Install!Installs
  <2> QED BY <2>2, <2>3
<1>10. CASE UNCHANGED Install!vars
  BY <1>10 DEF Install!vars, PackageForm, StepSound, Unpacked, Compared, Newer, Install!Installs
<1> QED
  BY <1>1, <1>2, <1>3, <1>4, <1>5, <1>6, <1>7, <1>8, <1>9, <1>10
     DEF Install!Next, Install!Update

LEMMA InstallCorrect == Spec => []InstallInv
<1>1. Init => InstallInv
  BY Begins, InstallInit
<1>2. InstallInv /\ [Next]_vars => InstallInv'
  BY InstallMoves, InstallStep
<1> QED BY <1>1, <1>2, PTL DEF Spec

(* For any versions and any number of updates, built well or badly and     *)
(* failing anywhere: what an upgrade script installs is one whole package  *)
(* whose CRC was right and whose version is not the one installed, unless  *)
(* an update was begun while a script ran (performUpdate,                  *)
(* upgrade/swupdate.c).                                                    *)
THEOREM InstallsCorrect == Spec => []Installs
<1>1. InstallInv => Installs
  BY DEF InstallInv, StepSound, Installs
<1> QED BY <1>1, InstallCorrect, PTL

-----------------------------------------------------------------------------
(* CardCommand: what the reader holds when the host takes it for authentic *)
(* and when it reports a track.                                            *)

LEMMA CommandMoves == [Next]_vars => [Command!Next]_(Command!vars)
BY DEF Next, Of, vars, commandVars, Command!vars

LEMMA CommandBounds == MaxLost \in Nat /\ MaxCards \in Nat
BY ServiceBounds DEF Command!CommandConstants

ReaderForm ==
  [km : BOOLEAN, ke : BOOLEAN, kwa : BOOLEAN, accepted : BOOLEAN, magke : BOOLEAN,
   kwm : BOOLEAN, inside : BOOLEAN, card : 0..MaxCards]
TrackForm == [status : {"none", "ok", "error"}, card : 0..MaxCards, clear : BOOLEAN]

Authenticating == {"ke", "kwa", "challenge", "devauth"}
ReadingCard == {"magke", "magkey", "track"}

(* The list of queries is not empty while one is asked, there is room for  *)
(* the card that is taken in, and a track is read only where there is one. *)
CommandBound ==
  /\ pc = "query" => queries # <<>>
  /\ pc = "intake" => cards < MaxCards
  /\ pc \in ReadingCard => track \in 1..3

(* The reader has kwa only behind ke, and ke only behind km once an        *)
(* authentication began; nobody works with a card unauthorised.            *)
KeysSound ==
  /\ reader.kwa => reader.ke
  /\ authorized => initialized /\ reader.kwa /\ reader.accepted /\ reader.km
  /\ pc = "led" => ~initialized
  /\ pc \in Authenticating => initialized /\ ~authorized /\ (reader.ke => reader.km)
  /\ pc = "ke" => ~reader.kwa
  /\ pc \in ReadingCard \cup {"intake", "withdraw", "report"} => authorized

GoodTracks == \A i \in 1..3 : tracks[i].status = "ok" => tracks[i].card = cards /\ tracks[i].clear

(* Unless a command was lost, the card in the buffer is the one inserted   *)
(* last and the reader has the keys its tracks are encrypted with.         *)
CardSound ==
  /\ pc \in {"intake", "withdraw"} => \A i \in 1..3 : tracks[i].status # "ok"
  /\ pc \in ReadingCard /\ ~missed => reader.card = cards
  /\ pc = "magkey" /\ ~missed => reader.magke
  /\ pc = "track" /\ ~missed => reader.kwm
  /\ pc \in ReadingCard \cup {"report"} /\ ~missed => GoodTracks

CommandInv == Command!TypeOK /\ CommandBound /\ KeysSound /\ CardSound

(* A positive reply is one of a command that was executed, and only a      *)
(* command that was lost goes without a reply.                             *)
LEMMA OutcomeOf ==
  ASSUME Command!TypeOK, NEW cmd, NEW o \in Command!CommandAuto(cmd)
  PROVE  /\ o.reader = IF o.done THEN Command!Executed(cmd) ELSE reader
         /\ o.reply \in {"negative", "positive", "no_reply", "no_ack"}
         /\ o.done \in BOOLEAN /\ o.lost \in 0..MaxLost
         /\ o.done => ~Command!Refuses(cmd)
         /\ o.reply = "positive" => o.done /\ o.lost = lost
         /\ o.lost = lost => o.reply \in {"negative", "positive"}
<1>1. CASE o \in Command!Answers(cmd)
  <2>1. lost \in 0..MaxLost
    BY DEF Command!TypeOK
  <2>2. CASE o = Command!Outcome(cmd, FALSE, "negative", lost)
    BY <2>1, <2>2 DEF Command!Outcome
  <2>3. CASE o = Command!Outcome(cmd, TRUE, "positive", lost) /\ ~Command!Refuses(cmd)
    BY <2>1, <2>3 DEF Command!Outcome
  <2> QED BY <1>1, <2>2, <2>3 DEF Command!Answers
<1>2. CASE o \in Command!Losses(cmd)
  <2>1. PICK d \in BOOLEAN, r \in {"no_reply", "no_ack"} :
          lost < MaxLost /\ o = Command!Outcome(cmd, d /\ ~Command!Refuses(cmd), r, lost + 1)
    BY <1>2 DEF Command!Losses
  <2>2. lost + 1 \in 0..MaxLost /\ lost + 1 # lost
    BY <2>1, CommandBounds DEF Command!TypeOK
  <2> QED BY <2>1, <2>2 DEF Command!Outcome
<1> QED BY <1>1, <1>2 DEF Command!CommandAuto

(* What a command that is executed does to the reader.                     *)
LEMMA ExecutedForm ==
  ASSUME Command!TypeOK, NEW cmd
  PROVE  Command!Executed(cmd) \in ReaderForm
<1> USE DEF ReaderForm, Command!TypeOK
<1>1. 0 \in 0..MaxCards
  BY CommandBounds
<1>2. CASE cmd = "CMD_DEV_AUTH"
  BY <1>2 DEF Command!Executed
<1>3. CASE cmd \in {"CMD_RESET", "CMD_INTAKE", "CMD_WITHDRAW"}
  BY <1>1, <1>3 DEF Command!Executed
<1>4. CASE cmd \notin {"CMD_DEV_AUTH", "CMD_RESET", "CMD_INTAKE", "CMD_WITHDRAW"}
  BY <1>4 DEF Command!Executed
<1> QED BY <1>2, <1>3, <1>4

Undisturbed == {"CMD_INIT", "CMD_LED", "CMD_GET_CHALLENGE", "CMD_MAG_TRACK_READ"} \cup Command!Queries
Locking == {"CMD_ZAP_READER_LOCK", "CMD_IMPORT_CUSTOMER_MASTER_KEY"}
Handling == {"CMD_INTAKE", "CMD_WITHDRAW", "CMD_MAG_DATA_KE", "CMD_MAG_DATA_KEY"}

(* What a command leaves alone in the reader.                              *)
LEMMA ExecutedKeeps ==
  ASSUME Command!TypeOK, NEW cmd
  PROVE  /\ cmd \in Undisturbed => Command!Executed(cmd) = reader
         /\ cmd \in Locking => \A f \in {"ke", "kwa", "accepted", "magke", "kwm", "inside", "card"} :
                                  Command!Executed(cmd)[f] = reader[f]
         /\ cmd \in Handling => \A f \in {"km", "ke", "kwa", "accepted"} :
                                  Command!Executed(cmd)[f] = reader[f]
         /\ cmd \in {"CMD_MAG_DATA_KE", "CMD_MAG_DATA_KEY"} =>
              Command!Executed(cmd).card = reader.card
<1> USE DEF Command!TypeOK
<1>1. ASSUME cmd \in Undisturbed PROVE Command!Executed(cmd) = reader
  <2>1. cmd \notin {"CMD_SEND_KeyKe", "CMD_SEND_KeyKwa", "CMD_DEV_AUTH", "CMD_MAG_DATA_KE",
                    "CMD_MAG_DATA_KEY", "CMD_RESET", "CMD_ZAP_READER_LOCK",
                    "CMD_IMPORT_CUSTOMER_MASTER_KEY", "CMD_INTAKE", "CMD_WITHDRAW"}
    BY <1>1 DEF Undisturbed, Command!Queries, Command!ModelSerialNumber, Command!FirmwareVersions
  <2> QED BY <2>1 DEF Command!Executed
<1>2. ASSUME cmd \in Locking
      PROVE  \A f \in {"ke", "kwa", "accepted", "magke", "kwm", "inside", "card"} :
               Command!Executed(cmd)[f] = reader[f]
  BY <1>2 DEF Command!Executed, Locking
<1>3. ASSUME cmd \in Handling
      PROVE  \A f \in {"km", "ke", "kwa", "accepted"} : Command!Executed(cmd)[f] = reader[f]
  BY <1>3 DEF Command!Executed, Handling
<1>4. ASSUME cmd \in {"CMD_MAG_DATA_KE", "CMD_MAG_DATA_KEY"}
      PROVE  Command!Executed(cmd).card = reader.card
  BY <1>4 DEF Command!Executed
<1> QED BY <1>1, <1>2, <1>3, <1>4

(* The lists of queries are not empty.                                     *)
LEMMA QueryLists ==
  /\ Command!ModelSerialNumber \in Seq(Command!Queries)
  /\ Command!FirmwareVersions \in Seq(Command!Queries)
  /\ Command!ModelSerialNumber # <<>> /\ Command!FirmwareVersions # <<>>
<1> USE DEF Command!ModelSerialNumber, Command!FirmwareVersions
<1>1. Command!ModelSerialNumber[1] \in Command!Queries
      /\ Command!ModelSerialNumber[2] \in Command!Queries
  BY DEF Command!Queries
<1>2. \A i \in 1..5 : Command!FirmwareVersions[i] \in Command!Queries
  BY DEF Command!Queries
<1>3. \A a, b, c, d, e \in Command!Queries : <<a, b, c, d, e>> \in Seq(Command!Queries)
  OBVIOUS
<1>4. Command!ModelSerialNumber \in Seq(Command!Queries)
  BY <1>1, ShortSequences
<1>5. /\ "CMD_GET_USER_FW_VERS" \in Command!Queries
      /\ "CMD_GET_SUPER_FW_VERS" \in Command!Queries
      /\ "CMD_GET_EMV2000_FW_VERS" \in Command!Queries
      /\ "CMD_GET_SECCPU_SUPER_FW_VERS" \in Command!Queries
      /\ "CMD_GET_SECCPU_USER_FW_VERS" \in Command!Queries
  BY <1>2
<1>6. Command!FirmwareVersions \in Seq(Command!Queries)
  BY <1>3, <1>5
<1>7. Command!ModelSerialNumber # <<>> /\ Command!FirmwareVersions # <<>>
  OBVIOUS
<1> QED BY <1>4, <1>6, <1>7

LEMMA CommandInit == Command!Init => CommandInv
<1> SUFFICES ASSUME Command!Init PROVE CommandInv
  OBVIOUS
<1> USE DEF Command!Init
<1>1. 0 \in 0..MaxCards /\ 0 \in 0..MaxLost /\ 0 \in 0..3
  BY CommandBounds
<1>2. queries \in Seq(Command!Queries)
  BY EmptySeq
<1>3. tracks \in [1..3 -> TrackForm]
  BY <1>1 DEF Command!NoTrack, TrackForm
<1>4. PICK k \in BOOLEAN : reader = [Command!Blank EXCEPT !.km = k]
  OBVIOUS
<1>5. reader \in ReaderForm /\ ~reader.kwa
  BY <1>1, <1>4 DEF Command!Blank, ReaderForm
<1>6. Command!TypeOK
  BY <1>1, <1>2, <1>3, <1>5 DEF Command!TypeOK, ReaderForm, TrackForm
<1>7. CommandBound /\ KeysSound /\ CardSound
  BY <1>5 DEF CommandBound, KeysSound, CardSound, Authenticating, ReadingCard
<1> QED BY <1>6, <1>7 DEF CommandInv

(* A command whose outcome leaves the host's variables alone.              *)
LEMMA CommandedType ==
  ASSUME CommandInv, NEW cmd, NEW o \in Command!CommandAuto(cmd)
  PROVE  /\ o.reader \in ReaderForm /\ o.lost \in 0..MaxLost
         /\ (missed \/ o.lost # lost) \in BOOLEAN
<1>1. o.reader = IF o.done THEN Command!Executed(cmd) ELSE reader
  BY OutcomeOf DEF CommandInv
<1>2. o.reader \in ReaderForm
  BY <1>1, ExecutedForm DEF CommandInv, Command!TypeOK, ReaderForm
<1> QED BY <1>2, OutcomeOf DEF CommandInv

(* The track that was read has its place, and the next one its number.     *)
LEMMA TrackDoneType ==
  ASSUME CommandInv, pc \in ReadingCard, NEW status \in {"ok", "error"}, NEW d \in BOOLEAN,
         Command!TrackDone(status, d)
  PROVE  /\ tracks' \in [1..3 -> TrackForm] /\ track' \in 0..3
         /\ pc' \in {"report", "magke"} /\ (pc' = "magke" => track' \in 1..3)
<1>1. track \in 1..3
  BY DEF CommandInv, CommandBound
<1>2. [status |-> status, card |-> IF d THEN reader.card ELSE 0, clear |-> d /\ reader.kwm]
        \in TrackForm
  BY CommandBounds DEF TrackForm, CommandInv, Command!TypeOK
<1>3. tracks' \in [1..3 -> TrackForm]
  BY <1>1, <1>2 DEF Command!TrackDone, CommandInv, Command!TypeOK, TrackForm
<1> QED BY <1>1, <1>3 DEF Command!TrackDone

LEMMA CommandTypeStep ==
  ASSUME CommandInv, [Command!Next]_(Command!vars)
  PROVE  Command!TypeOK' /\ CommandBound'
<1> USE DEF Command!host, CommandBound, ReadingCard
<1>1. Command!TypeOK
  BY DEF CommandInv
<1> USE <1>1 DEF Command!TypeOK, ReaderForm, TrackForm
<1>2. ASSUME NEW cmd, NEW o \in Command!CommandAuto(cmd), Command!Commanded(o)
      PROVE  reader' \in ReaderForm /\ lost' \in 0..MaxLost /\ missed' \in BOOLEAN
  BY <1>2, CommandedType DEF Command!Commanded
<1>3. CASE Command!initCardReader
  BY <1>2, <1>3 DEF Command!initCardReader
<1>4. CASE Command!initLED
  BY <1>2, <1>4, QueryLists DEF Command!initLED
<1>5. CASE Command!getFirmwareVersions
  BY <1>5, QueryLists DEF Command!getFirmwareVersions
<1>6. CASE Command!Query
  <2>1. queries \in Seq(Command!Queries) /\ queries # <<>>
    BY <1>6 DEF Command!Query, CommandInv
  <2>2. Head(queries) \in Command!Queries /\ Tail(queries) \in Seq(Command!Queries)
    BY <2>1, HeadTailProperties
  <2>3. queries' \in Seq(Command!Queries) /\ known' \subseteq Command!Queries
    BY <1>6, <2>2, EmptySeq DEF Command!Query
  <2> QED BY <1>2, <1>6, <2>3 DEF Command!Query
<1>7. CASE Command!authenticateReader
  BY <1>7 DEF Command!authenticateReader
<1>8. CASE Command!SendKeyKe
  BY <1>2, <1>8 DEF Command!SendKeyKe, Command!SendKey
<1>9. CASE Command!SendKeyKwa
  BY <1>2, <1>9 DEF Command!SendKeyKwa, Command!SendKey
<1>10. CASE Command!GetChallenge
  BY <1>2, <1>10 DEF Command!GetChallenge, Command!Data
<1>11. CASE Command!DevAuth
  BY <1>2, <1>11 DEF Command!DevAuth, Command!Data
<1>12. CASE Command!resetReader
  BY <1>2, <1>12 DEF Command!resetReader
<1>13. CASE Command!ZapReaderLock
  BY <1>2, <1>13 DEF Command!ZapReaderLock, CommandInv
<1>14. CASE Command!SetNewMasterKey
  BY <1>2, <1>14 DEF Command!SetNewMasterKey, CommandInv
<1>15. CASE Command!intakeCommand
  <2>1. PICK o \in Command!CommandAuto("CMD_INIT") :
          reader' = o.reader /\ lost' = o.lost /\ missed' = (o.lost # lost)
    BY <1>15 DEF Command!intakeCommand
  <2>2. reader' \in ReaderForm /\ lost' \in 0..MaxLost /\ missed' \in BOOLEAN
    BY <2>1, CommandedType
  <2>3. tracks' \in [1..3 -> TrackForm]
    BY <1>15, CommandBounds DEF Command!intakeCommand, Command!NoTrack
  <2> QED BY <1>15, <2>2, <2>3 DEF Command!intakeCommand
<1>16. CASE Command!Intake
  <2>1. cards' \in 0..MaxCards
    BY <1>16, CommandBounds DEF Command!Intake, CommandInv
  <2>2. reader' \in ReaderForm /\ lost' \in 0..MaxLost /\ missed' \in BOOLEAN
    BY <1>2, <1>16 DEF Command!Intake
  <2>3. 0..MaxCards = 0..MaxCards' /\ UNCHANGED <<queries, known, challenge, initialized,
          authorized, track, tracks>> /\ pc' \in {"idle", "withdraw"}
    BY <1>16 DEF Command!Intake
  <2> QED BY <2>1, <2>2, <2>3
<1>17. CASE Command!withdrawCommand
  BY <1>2, <1>17 DEF Command!withdrawCommand
<1>18. CASE Command!SendMagKe
  <2>1. PICK o \in Command!CommandAuto("CMD_MAG_DATA_KE") :
          /\ reader' = [o.reader EXCEPT !.magke = @ /\ o.done, !.kwm = FALSE]
          /\ lost' = o.lost /\ missed' = (missed \/ o.lost # lost)
          /\ IF Command!Error(o)
             THEN Command!TrackDone("error", FALSE) ELSE pc' = "magkey" /\ UNCHANGED <<track, tracks>>
    BY <1>18 DEF Command!SendMagKe
  <2>2. o.reader \in ReaderForm /\ lost' \in 0..MaxLost /\ missed' \in BOOLEAN
    BY <2>1, CommandedType
  <2>3. reader' \in ReaderForm
    BY <2>1, <2>2, OutcomeOf
  <2>4. /\ tracks' \in [1..3 -> TrackForm] /\ track' \in 0..3
        /\ pc' \in {"report", "magke", "magkey"} /\ (pc' # "report" => track' \in 1..3)
    BY <1>18, <2>1, TrackDoneType DEF Command!SendMagKe, CommandInv
  <2> QED BY <1>18, <2>2, <2>3, <2>4 DEF Command!SendMagKe
<1>19. CASE Command!SendMagKey
  <2>1. PICK o \in Command!CommandAuto("CMD_MAG_DATA_KEY") :
          /\ Command!Commanded(o)
          /\ IF Command!Error(o)
             THEN Command!TrackDone("error", FALSE) ELSE pc' = "track" /\ UNCHANGED <<track, tracks>>
    BY <1>19 DEF Command!SendMagKey
  <2>2. reader' \in ReaderForm /\ lost' \in 0..MaxLost /\ missed' \in BOOLEAN
    BY <1>2, <2>1
  <2>3. /\ tracks' \in [1..3 -> TrackForm] /\ track' \in 0..3
        /\ pc' \in {"report", "magke", "track"} /\ (pc' # "report" => track' \in 1..3)
    BY <1>19, <2>1, TrackDoneType DEF Command!SendMagKey, CommandInv
  <2> QED BY <1>19, <2>2, <2>3 DEF Command!SendMagKey
<1>20. CASE Command!ReadTrack
  <2>1. PICK o \in Command!CommandAuto("CMD_MAG_TRACK_READ") :
          /\ Command!Commanded(o)
          /\ Command!TrackDone(IF Command!Error(o) THEN "error" ELSE "ok", Command!Data(o))
    BY <1>20 DEF Command!ReadTrack
  <2>2. reader' \in ReaderForm /\ lost' \in 0..MaxLost /\ missed' \in BOOLEAN
    BY <1>2, <2>1
  <2>3. Command!Data(o) \in BOOLEAN
    BY DEF Command!Data
  <2>4. /\ tracks' \in [1..3 -> TrackForm] /\ track' \in 0..3
        /\ pc' \in {"report", "magke"} /\ (pc' # "report" => track' \in 1..3)
    BY <1>20, <2>1, <2>3, TrackDoneType DEF Command!ReadTrack
  <2> QED BY <1>20, <2>2, <2>4 DEF Command!ReadTrack
<1>21. CASE Command!Read3Tracks
  BY <1>21 DEF Command!Read3Tracks
<1>22. CASE Command!Standby
  BY <1>22 DEF Command!Standby
<1>23. CASE UNCHANGED Command!vars
  BY <1>23 DEF Command!vars, CommandInv
<1> QED
  BY <1>3, <1>4, <1>5, <1>6, <1>7, <1>8, <1>9, <1>10, <1>11, <1>12, <1>13, <1>14, <1>15,
     <1>16, <1>17, <1>18, <1>19, <1>20, <1>21, <1>22, <1>23
     DEF Command!Next, Command!Prepare, Command!Card

LEMMA KeysStep ==
  ASSUME CommandInv, [Command!Next]_(Command!vars)
  PROVE  KeysSound'
<1> USE DEF Command!host, Command!Commanded, KeysSound, Authenticating, ReadingCard
<1>1. Command!TypeOK /\ KeysSound
  BY DEF CommandInv
<1>2. reader \in ReaderForm /\ {initialized, authorized, challenge} \subseteq BOOLEAN
  BY <1>1 DEF Command!TypeOK, ReaderForm
<1>3. ASSUME NEW cmd \in Undisturbed, NEW o \in Command!CommandAuto(cmd)
      PROVE  o.reader = reader
  BY <1>1, <1>3, OutcomeOf, ExecutedKeeps
<1>4. ASSUME NEW cmd \in Handling, NEW o \in Command!CommandAuto(cmd)
      PROVE  /\ o.reader.km = reader.km /\ o.reader.ke = reader.ke
             /\ o.reader.kwa = reader.kwa /\ o.reader.accepted = reader.accepted
  BY <1>1, <1>4, OutcomeOf, ExecutedKeeps
<1>5. ASSUME NEW cmd \in Locking, NEW o \in Command!CommandAuto(cmd)
      PROVE  /\ o.reader.ke = reader.ke /\ o.reader.kwa = reader.kwa
             /\ o.reader.accepted = reader.accepted
  BY <1>1, <1>5, OutcomeOf, ExecutedKeeps
<1> USE <1>1, <1>2
<1>6. CASE Command!initCardReader
  BY <1>3, <1>6 DEF Command!initCardReader, Undisturbed
<1>7. CASE Command!initLED
  BY <1>3, <1>7 DEF Command!initLED, Undisturbed
<1>8. CASE Command!getFirmwareVersions \/ Command!Read3Tracks
  BY <1>8 DEF Command!getFirmwareVersions, Command!Read3Tracks
<1>9. CASE Command!Query
  <2>1. Head(queries) \in Command!Queries
    BY <1>9, HeadTailProperties DEF Command!Query, Command!TypeOK, CommandInv, CommandBound
  <2>2. UNCHANGED <<reader, initialized, authorized>> /\ pc = "query" /\ pc' \in {"idle", "query"}
    BY <1>3, <1>9, <2>1 DEF Command!Query, Undisturbed
  <2> QED BY <2>2
<1>10. CASE Command!authenticateReader
  BY <1>10 DEF Command!authenticateReader, ReaderForm
<1>11. CASE Command!SendKeyKe
  <2>1. PICK o \in Command!CommandAuto("CMD_SEND_KeyKe") :
          Command!Commanded(o) /\ pc' \in {"reset", "kwa"}
    BY <1>11 DEF Command!SendKeyKe, Command!SendKey
  <2>2. reader' \in {reader, [reader EXCEPT !.ke = reader.km]}
    BY <2>1, OutcomeOf DEF Command!Executed
  <2> QED BY <1>11, <2>1, <2>2 DEF Command!SendKeyKe, Command!SendKey, ReaderForm
<1>12. CASE Command!SendKeyKwa
  <2>1. PICK o \in Command!CommandAuto("CMD_SEND_KeyKwa") :
          Command!Commanded(o) /\ pc' \in {"reset", "challenge"}
    BY <1>12 DEF Command!SendKeyKwa, Command!SendKey
  <2>2. reader' \in {reader, [reader EXCEPT !.kwa = reader.ke]}
    BY <2>1, OutcomeOf DEF Command!Executed
  <2> QED BY <1>12, <2>1, <2>2 DEF Command!SendKeyKwa, Command!SendKey, ReaderForm
<1>13. CASE Command!GetChallenge
  BY <1>3, <1>13 DEF Command!GetChallenge, Undisturbed
<1>14. CASE Command!DevAuth
  <2>1. PICK o \in Command!CommandAuto("CMD_DEV_AUTH") :
          /\ Command!Commanded(o) /\ authorized' = Command!Data(o)
          /\ pc' = IF Command!Data(o) THEN "idle" ELSE "reset"
    BY <1>14 DEF Command!DevAuth
  <2>2. CASE Command!Data(o)
    <3>1. reader.kwa /\ challenge
      BY <2>2, OutcomeOf DEF Command!Data, Command!Refuses
    <3>2. reader' = [reader EXCEPT !.accepted = reader.accepted \/ (reader.kwa /\ challenge)]
      BY <2>1, <2>2, OutcomeOf DEF Command!Data, Command!Executed
    <3>3. /\ reader'.accepted /\ reader'.kwa = reader.kwa /\ reader'.ke = reader.ke
          /\ reader'.km = reader.km
      BY <3>1, <3>2 DEF ReaderForm
    <3> QED BY <1>14, <2>1, <2>2, <3>1, <3>3 DEF Command!DevAuth
  <2>3. CASE ~Command!Data(o)
    <3>1. reader' \in {reader, Command!Executed("CMD_DEV_AUTH")}
      BY <2>1, OutcomeOf
    <3>2. reader'.kwa = reader.kwa /\ reader'.ke = reader.ke /\ reader'.km = reader.km
      BY <3>1 DEF Command!Executed, ReaderForm
    <3> QED BY <1>14, <2>1, <2>3, <3>2 DEF Command!DevAuth
  <2> QED BY <2>2, <2>3
<1>15. CASE Command!resetReader
  <2>1. PICK o \in Command!CommandAuto("CMD_RESET") : Command!Commanded(o)
    BY <1>15 DEF Command!resetReader
  <2>2. reader' \in {reader, Command!Executed("CMD_RESET")}
    BY <2>1, OutcomeOf
  <2>3. reader'.kwa = reader.kwa /\ reader'.ke = reader.ke
    BY <2>2 DEF Command!Executed, ReaderForm
  <2> QED BY <1>15, <2>3 DEF Command!resetReader
<1>16. CASE Command!ZapReaderLock
  BY <1>5, <1>16 DEF Command!ZapReaderLock, Locking
<1>17. CASE Command!SetNewMasterKey
  BY <1>5, <1>17 DEF Command!SetNewMasterKey, Locking
<1>18. CASE Command!intakeCommand
  BY <1>3, <1>18 DEF Command!intakeCommand, Undisturbed
<1>19. CASE Command!Intake
  BY <1>4, <1>19 DEF Command!Intake, Handling
<1>20. CASE Command!withdrawCommand
  BY <1>4, <1>20 DEF Command!withdrawCommand, Handling
<1>21. CASE Command!SendMagKe
  <2>1. PICK o \in Command!CommandAuto("CMD_MAG_DATA_KE") :
          /\ reader' = [o.reader EXCEPT !.magke = @ /\ o.done, !.kwm = FALSE]
          /\ pc' \in {"magkey", "magke", "report"}
    BY <1>21 DEF Command!SendMagKe, Command!TrackDone
  <2>2. o.reader \in ReaderForm
    BY <2>1, CommandedType
  <2>3. /\ reader'.km = reader.km /\ reader'.ke = reader.ke
        /\ reader'.kwa = reader.kwa /\ reader'.accepted = reader.accepted
    BY <1>4, <2>1, <2>2 DEF ReaderForm, Handling
  <2> QED BY <1>21, <2>1, <2>3 DEF Command!SendMagKe
<1>22. CASE Command!SendMagKey
  BY <1>4, <1>22 DEF Command!SendMagKey, Command!TrackDone, Handling
<1>23. CASE Command!ReadTrack
  BY <1>3, <1>23 DEF Command!ReadTrack, Command!TrackDone, Undisturbed
<1>24. CASE Command!Standby
  BY <1>24 DEF Command!Standby, ReaderForm
<1>25. CASE UNCHANGED Command!vars
  BY <1>25 DEF Command!vars
<1> QED
  BY <1>6, <1>7, <1>8, <1>9, <1>10, <1>11, <1>12, <1>13, <1>14, <1>15,
     <1>16, <1>17, <1>18, <1>19, <1>20, <1>21, <1>22, <1>23, <1>24, <1>25
     DEF Command!Next, Command!Prepare, Command!Card

(* A track is reported as read only with a reply, hence with its data.     *)
LEMMA CardStep ==
  ASSUME CommandInv, [Command!Next]_(Command!vars)
  PROVE  CardSound'
<1> USE DEF Command!host, Command!Commanded, ReadingCard
<1>1. Command!TypeOK /\ CardSound
  BY DEF CommandInv
<1>2. reader \in ReaderForm /\ tracks \in [1..3 -> TrackForm] /\ missed \in BOOLEAN
  BY <1>1 DEF Command!TypeOK, ReaderForm, TrackForm
<1> USE <1>1, <1>2
<1>3. CASE pc' \in {"idle", "led", "query", "ke", "kwa", "challenge", "devauth", "reset"}
  BY <1>3 DEF CardSound
<1>4. CASE Command!intakeCommand
  BY <1>4 DEF Command!intakeCommand, Command!NoTrack, CardSound
<1>5. CASE Command!Intake
  BY <1>5, <1>3 DEF Command!Intake, CardSound
<1>6. CASE Command!withdrawCommand
  <2>1. PICK o \in Command!CommandAuto("CMD_WITHDRAW") :
          Command!Commanded(o) /\ pc' = IF Command!Error(o) THEN "idle" ELSE "magke"
    BY <1>6 DEF Command!withdrawCommand
  <2>2. \A i \in 1..3 : tracks'[i].status # "ok"
    BY <1>6 DEF Command!withdrawCommand, CardSound
  <2>3. ASSUME pc' = "magke", ~missed'
        PROVE  reader'.card = cards'
    <3>1. o.done /\ reader.inside
      BY <2>1, <2>3, OutcomeOf DEF Command!Error, Command!Refuses
    <3>2. reader' = [reader EXCEPT !.inside = FALSE, !.card = cards]
      BY <2>1, <3>1, OutcomeOf DEF Command!Executed
    <3> QED BY <1>6, <3>2 DEF ReaderForm, Command!withdrawCommand
  <2> QED BY <1>6, <2>1, <2>2, <2>3 DEF Command!withdrawCommand, CardSound, GoodTracks
<1>7. ASSUME pc \in ReadingCard, ~missed', Command!TrackDone("error", FALSE),
             UNCHANGED cards, missed => missed'
      PROVE  GoodTracks'
  <2>1. ~missed /\ GoodTracks
    BY <1>7 DEF CardSound
  <2>2. \A i \in 1..3 : tracks'[i].status = "error" \/ tracks'[i] = tracks[i]
    BY <1>7 DEF Command!TrackDone
  <2> QED BY <1>7, <2>1, <2>2 DEF GoodTracks
<1>8. CASE Command!SendMagKe
  <2>1. PICK o \in Command!CommandAuto("CMD_MAG_DATA_KE") :
          /\ reader' = [o.reader EXCEPT !.magke = @ /\ o.done, !.kwm = FALSE]
          /\ missed' = (missed \/ o.lost # lost)
          /\ IF Command!Error(o)
             THEN Command!TrackDone("error", FALSE) ELSE pc' = "magkey" /\ UNCHANGED <<track, tracks>>
    BY <1>8 DEF Command!SendMagKe
  <2>2. o.reader \in ReaderForm /\ o.reader.card = reader.card
    BY CommandedType, OutcomeOf, ExecutedKeeps
  <2>3. reader'.card = reader.card
    BY <2>1, <2>2 DEF ReaderForm
  <2>4. ASSUME pc' = "magkey", ~missed' PROVE reader'.magke
    <3>1. o.done /\ reader.km
      BY <1>8, <2>1, <2>4, OutcomeOf
         DEF Command!Error, Command!TrackDone, Command!SendMagKe, CommandInv, KeysSound
    <3>2. o.reader = [reader EXCEPT !.magke = reader.km]
      BY <3>1, OutcomeOf DEF Command!Executed
    <3> QED BY <2>1, <3>1, <3>2 DEF ReaderForm
  <2>5. pc' \in {"magkey", "magke", "report"} /\ UNCHANGED cards /\ pc = "magke"
    BY <1>8, <2>1 DEF Command!SendMagKe, Command!TrackDone
  <2>6. ~missed' => GoodTracks'
    BY <1>7, <2>1, <2>5 DEF CardSound, GoodTracks
  <2> QED BY <2>1, <2>3, <2>4, <2>5, <2>6 DEF CardSound
<1>9. CASE Command!SendMagKey
  <2>1. PICK o \in Command!CommandAuto("CMD_MAG_DATA_KEY") :
          /\ Command!Commanded(o)
          /\ IF Command!Error(o)
             THEN Command!TrackDone("error", FALSE) ELSE pc' = "track" /\ UNCHANGED <<track, tracks>>
    BY <1>9 DEF Command!SendMagKey
  <2>2. reader'.card = reader.card
    BY <2>1, OutcomeOf, ExecutedKeeps
  <2>3. ASSUME pc' = "track", ~missed' PROVE reader'.kwm
    <3>1. o.done /\ reader.magke
      BY <1>9, <2>1, <2>3, OutcomeOf
         DEF Command!Error, Command!TrackDone, Command!SendMagKey, CardSound
    <3> QED BY <2>1, <3>1, OutcomeOf DEF ReaderForm, Command!Executed
  <2>4. pc' \in {"track", "magke", "report"} /\ UNCHANGED cards /\ pc = "magkey"
    BY <1>9, <2>1 DEF Command!SendMagKey, Command!TrackDone
  <2>5. ~missed' => GoodTracks'
    BY <1>7, <2>1, <2>4 DEF CardSound, GoodTracks
  <2> QED BY <2>1, <2>2, <2>3, <2>4, <2>5 DEF CardSound
<1>10. CASE Command!ReadTrack
  <2>1. PICK o \in Command!CommandAuto("CMD_MAG_TRACK_READ") :
          /\ Command!Commanded(o)
          /\ Command!TrackDone(IF Command!Error(o) THEN "error" ELSE "ok", Command!Data(o))
    BY <1>10 DEF Command!ReadTrack
  <2>2. UNCHANGED <<reader, cards>> /\ pc = "track" /\ pc' \in {"magke", "report"}
    BY <1>10, <2>1, OutcomeOf, ExecutedKeeps DEF Command!ReadTrack, Command!TrackDone, Undisturbed
  <2>3. ASSUME ~missed' PROVE GoodTracks'
    <3>1. ~missed /\ (~Command!Error(o) => Command!Data(o))
      BY <2>1, <2>3, OutcomeOf DEF Command!Error, Command!Data
    <3>2. reader.card = cards /\ reader.kwm /\ GoodTracks
      BY <2>2, <3>1 DEF CardSound
    <3> QED BY <2>1, <2>2, <3>1, <3>2 DEF Command!TrackDone, GoodTracks, TrackForm
  <2> QED BY <2>1, <2>2, <2>3 DEF CardSound
<1>11. CASE Command!Read3Tracks \/ Command!Standby \/ Command!ZapReaderLock
            \/ Command!SetNewMasterKey \/ Command!initCardReader \/ Command!getFirmwareVersions
  BY <1>3, <1>11 DEF Command!Read3Tracks, Command!Standby, Command!ZapReaderLock,
       Command!SetNewMasterKey, Command!initCardReader, Command!getFirmwareVersions
<1>12. CASE Command!initLED \/ Command!Query \/ Command!authenticateReader
            \/ Command!GetChallenge \/ Command!DevAuth \/ Command!resetReader
  BY <1>3, <1>12 DEF Command!initLED, Command!Query, Command!authenticateReader,
       Command!GetChallenge, Command!DevAuth, Command!resetReader
<1>13. CASE Command!SendKeyKe \/ Command!SendKeyKwa
  BY <1>3, <1>13 DEF Command!SendKeyKe, Command!SendKeyKwa, Command!SendKey
<1>14. CASE UNCHANGED Command!vars
  BY <1>14 DEF Command!vars, CardSound, GoodTracks
<1> QED
  BY <1>4, <1>5, <1>6, <1>8, <1>9, <1>10, <1>11, <1>12, <1>13, <1>14
     DEF Command!Next, Command!Prepare, Command!Card

LEMMA CommandCorrect == Spec => []CommandInv
<1>1. Init => CommandInv
  BY Begins, CommandInit
<1>2. CommandInv /\ [Next]_vars => CommandInv'
  BY CommandMoves, CommandTypeStep, KeysStep, CardStep DEF CommandInv
<1> QED BY <1>1, <1>2, PTL DEF Spec

(* Whatever commands are lost and however many cards are inserted: the     *)
(* library holds only a reader for authorised that has both new keys and   *)
(* accepted the host's signature, and a track it reports as read is one of *)
(* the card inserted last, in clear text (authenticateReader, Read3Tracks  *)
(* of ccr.origin/Command.c).                                               *)
THEOREM ReaderSoundCorrect == Spec => []ReaderSound
<1>1. CommandInv => ReaderSound
  BY DEF CommandInv, KeysSound, CardSound, GoodTracks, ReaderSound, Command!AuthSound,
         Command!TrackSound
<1> QED BY <1>1, CommandCorrect, PTL

-----------------------------------------------------------------------------
(* CardManager: the flags that say a reader may acquire cards.             *)

LEMMA ManagerMoves == [Next]_vars => [Manager!Next]_(Manager!vars)
BY DEF Next, Of, vars, managerVars, Manager!vars, Manager!flags, Manager!state

(* The manager has a command to carry out, comes to authenticate and to    *)
(* start only with what the steps before gave it, also by way of a report, *)
(* and closes the port only when no more cards are acquired.               *)
ManagerSound ==
  /\ manager = "command" => command # "NO"
  /\ manager \in {"initialize", "authenticate", "start"} => bConnected
  /\ manager \in {"authenticate", "start"} => bInitialized
  /\ manager = "start" => bAuthorized
  /\ manager = "report" /\ after = "authenticate" => bConnected /\ bInitialized
  /\ manager = "closing" => ~bAcquireCardState
  /\ Manager!AcquireReady

ManagerInv == Manager!TypeOK /\ ManagerSound

LEMMA ManagerStep ==
  ASSUME ManagerInv, [Manager!Next]_(Manager!vars)
  PROVE  ManagerInv'
<1> USE DEF Manager!flags, Manager!state, Manager!report, Manager!Wake, ManagerInv
<1> USE DEF Manager!TypeOK, Manager!Commands
<1>0. /\ {bConnected, bInitialized, bAuthorized, bAcquireCardState, bShutdown, retried}
            \subseteq BOOLEAN
      /\ after \in {"done", "authenticate"} /\ command \in Manager!Commands \cup {"NO"}
  OBVIOUS
<1>1. CASE Manager!App
  <2> USE DEF Manager!Post, Manager!cmd_mutex_free
  <2>1. CASE Manager!start_ccr
    BY <2>1 DEF Manager!start_ccr, ManagerSound, Manager!AcquireReady
  <2>2. CASE Manager!stop_ccr
    <3>1. Manager!TypeOK'
      BY <2>2 DEF Manager!stop_ccr, Manager!TypeOK, Manager!Commands
    <3>2. ManagerSound'
      BY <2>2 DEF Manager!stop_ccr, ManagerSound, Manager!AcquireReady
    <3> QED BY <3>1, <3>2 DEF ManagerInv
  <2>3. CASE Manager!exit_ccr
    BY <2>3 DEF Manager!exit_ccr, ManagerSound, Manager!AcquireReady
  <2>4. CASE Manager!ccr_callback_register
    BY <2>4 DEF Manager!ccr_callback_register, ManagerSound, Manager!AcquireReady
  <2> QED BY <1>1, <2>1, <2>2, <2>3, <2>4 DEF Manager!App
<1>2. CASE Manager!Delivery
  <2> USE DEF Manager!DeliveryStep, Manager!Deliver, ManagerSound, Manager!AcquireReady
  <2>1. CASE Manager!DeliveryTop
    BY <2>1 DEF Manager!DeliveryTop
  <2>2. CASE Manager!DeliveryWoken
    BY <2>2 DEF Manager!DeliveryWoken
  <2>3. CASE Manager!DeliveryDone
    <3>1. Manager!TypeOK'
      BY <2>3 DEF Manager!DeliveryDone, Manager!TypeOK, Manager!Commands
    <3>2. ManagerSound'
      BY <2>3 DEF Manager!DeliveryDone, ManagerSound, Manager!AcquireReady
    <3> QED BY <3>1, <3>2 DEF ManagerInv
  <2> QED BY <1>2, <2>1, <2>2, <2>3 DEF Manager!Delivery
<1>3. CASE Manager!Manager
  <2> USE DEF Manager!Manages, ManagerSound, Manager!AcquireReady
  <2>1. CASE Manager!ManagerTop
    BY <2>1 DEF Manager!ManagerTop
  <2>2. CASE Manager!ManagerCommand
    <3>1. Manager!TypeOK'
      BY <2>2 DEF Manager!ManagerCommand, Manager!TypeOK, Manager!Commands
    <3>2. ManagerSound'
      BY <2>2 DEF Manager!ManagerCommand, ManagerSound, Manager!AcquireReady
    <3> QED BY <3>1, <3>2 DEF ManagerInv
  <2>3. CASE Manager!CheckConnect
    <3>1. Manager!TypeOK'
      BY <2>3 DEF Manager!CheckConnect, Manager!TypeOK, Manager!Commands
    <3>2. ManagerSound'
      BY <2>3 DEF Manager!CheckConnect, ManagerSound, Manager!AcquireReady
    <3> QED BY <3>1, <3>2 DEF ManagerInv
  <2>4. CASE Manager!CheckInitialize
    <3>1. Manager!TypeOK'
      BY <2>4 DEF Manager!CheckInitialize, Manager!TypeOK, Manager!Commands
    <3>2. ManagerSound'
      <4>1. CASE bInitialized
        BY <1>0, <2>4, <4>1 DEF Manager!CheckInitialize, ManagerSound, Manager!AcquireReady
      <4>2. CASE ~bInitialized
        <5>1. /\ ~bAcquireCardState /\ bConnected /\ manager = "initialize"
              /\ UNCHANGED <<bConnected, port, bThreadExiting>> /\ bAcquireCardState' = FALSE
          BY <1>0, <2>4, <4>2 DEF Manager!CheckInitialize, ManagerSound, Manager!AcquireReady
        <5>2. \/ bInitialized' = TRUE /\ manager' \in {"authenticate", "report"}
              \/ after' = "done" /\ manager' = "report"
          BY <2>4, <4>2 DEF Manager!CheckInitialize
        <5> QED BY <5>1, <5>2 DEF ManagerSound, Manager!AcquireReady
      <4> QED BY <4>1, <4>2
    <3> QED BY <3>1, <3>2 DEF ManagerInv
  <2>5. CASE Manager!CheckAuthenticate
    <3>1. Manager!TypeOK'
      BY <2>5 DEF Manager!CheckAuthenticate, Manager!TypeOK, Manager!Commands
    <3>2. ManagerSound'
      <4>1. CASE bAuthorized
        BY <1>0, <2>5, <4>1 DEF Manager!CheckAuthenticate, ManagerSound, Manager!AcquireReady
      <4>2. CASE ~bAuthorized
        <5>1. /\ ~bAcquireCardState /\ bConnected /\ bInitialized
              /\ UNCHANGED <<bConnected, port, bThreadExiting, bAcquireCardState>>
          BY <1>0, <2>5, <4>2 DEF Manager!CheckAuthenticate, ManagerSound, Manager!AcquireReady
        <5>2. \/ bAuthorized' /\ bInitialized' /\ manager' = "start"
              \/ after' = "done" /\ manager' \in {"report", "initialize"}
          <6>1. PICK ok \in BOOLEAN :
                  /\ bAuthorized' = ok /\ bInitialized' = (ok /\ bInitialized) /\ after' = "done"
                  /\ manager' = (IF ok THEN "start" ELSE IF retried THEN "report" ELSE "initialize")
            BY <2>5, <4>2 DEF Manager!CheckAuthenticate
          <6>2. CASE ok
            BY <5>1, <6>1, <6>2
          <6>3. CASE ~ok
            BY <6>1, <6>3
          <6> QED BY <6>2, <6>3
        <5> QED BY <5>1, <5>2 DEF ManagerSound, Manager!AcquireReady
      <4> QED BY <4>1, <4>2
    <3> QED BY <3>1, <3>2 DEF ManagerInv
  <2>6. CASE Manager!CheckReport
    BY <2>6 DEF Manager!CheckReport, Manager!ccr_callback_send_signal
  <2>7. CASE Manager!CardStart
    BY <2>7 DEF Manager!CardStart
  <2>8. CASE Manager!Standby
    BY <2>8 DEF Manager!Standby
  <2>9. CASE Manager!StandbyClose
    BY <2>9 DEF Manager!StandbyClose
  <2>10. CASE Manager!Exit
    BY <2>10 DEF Manager!Exit
  <2>11. CASE Manager!ExitShutdown
    BY <2>11 DEF Manager!ExitShutdown
  <2>12. CASE Manager!CommandDone
    BY <2>12 DEF Manager!CommandDone
  <2> QED
    BY <1>3, <2>1, <2>2, <2>3, <2>4, <2>5, <2>6, <2>7, <2>8, <2>9, <2>10, <2>11, <2>12
       DEF Manager!Manager
<1>4. CASE Manager!Acquire
  <2> USE DEF Manager!AcquireStep, Manager!Acquires, Manager!Quiet, Manager!Stay,
              Manager!Stopped, ManagerSound, Manager!AcquireReady
  <2>1. CASE Manager!AcquireTop
    BY <2>1 DEF Manager!AcquireTop
  <2>2. CASE Manager!AcquireCheck
    BY <2>2 DEF Manager!AcquireCheck
  <2>3. CASE Manager!AcquireReadyCheck
    BY <2>3 DEF Manager!AcquireReadyCheck
  <2>4. CASE Manager!Intake
    BY <2>4 DEF Manager!Intake
  <2>5. CASE Manager!WipeData
    BY <2>5 DEF Manager!WipeData
  <2>6. CASE Manager!Withdraw
    BY <2>6 DEF Manager!Withdraw
  <2>7. CASE Manager!ReadStart
    BY <2>7 DEF Manager!ReadStart
  <2>8. CASE Manager!ReadDone
    BY <2>8 DEF Manager!ReadDone
  <2>9. CASE Manager!AcquireReport
    BY <2>9 DEF Manager!AcquireReport, Manager!ccr_callback_send_signal
  <2>10. CASE Manager!AcquireExit
    <3>1. Manager!TypeOK'
      BY <2>10 DEF Manager!AcquireExit, Manager!TypeOK, Manager!Commands
    <3>2. ManagerSound'
      BY <2>10 DEF Manager!AcquireExit, ManagerSound, Manager!AcquireReady
    <3> QED BY <3>1, <3>2 DEF ManagerInv
  <2> QED
    BY <1>4, <2>1, <2>2, <2>3, <2>4, <2>5, <2>6, <2>7, <2>8, <2>9, <2>10
       DEF Manager!Acquire
<1>5. CASE UNCHANGED Manager!vars
  BY <1>5 DEF Manager!vars, ManagerSound, Manager!AcquireReady
<1> QED BY <1>1, <1>2, <1>3, <1>4, <1>5 DEF Manager!Next

LEMMA ManagerCorrect == Spec => []ManagerInv
<1>1. Init => ManagerInv
  <2>1. Init => Manager!TypeOK
    <3>1. Init => {retried, bConnected, bInitialized, bAuthorized, bAcquireCardState, bShutdown,
                   bThreadExiting, callback_signal_data, registered, port} \subseteq BOOLEAN
      BY Begins DEF Manager!Init
    <3>2. Init => nCommandStep \in 0..2 /\ data \in {"wiped", "error", "card"}
      BY Begins DEF Manager!Init
    <3> QED BY <3>1, <3>2, Begins DEF Manager!Init, Manager!Commands, Manager!TypeOK
  <2>2. Init => ManagerSound
    BY Begins DEF Manager!Init, ManagerSound, Manager!AcquireReady
  <2> QED BY <2>1, <2>2 DEF ManagerInv
<1>2. ManagerInv /\ [Next]_vars => ManagerInv'
  BY ManagerMoves, ManagerStep
<1> QED BY <1>1, <1>2, PTL DEF Spec

(* The track data are cleared by WipeData only, which looks at the mutex   *)
(* the callback holds.                                                     *)
LEMMA WipeStep ==
  ASSUME [Manager!Next]_(Manager!vars), data # data', data' = "wiped"
  PROVE  delivery # "deliver"
<1> USE DEF Manager!report, Manager!Quiet
<1>1. CASE Manager!App
  BY <1>1 DEF Manager!App, Manager!start_ccr, Manager!stop_ccr, Manager!exit_ccr,
              Manager!ccr_callback_register, Manager!Post
<1>2. CASE Manager!Delivery
  BY <1>2 DEF Manager!Delivery, Manager!DeliveryTop, Manager!DeliveryWoken,
              Manager!DeliveryDone, Manager!DeliveryStep
<1>3. CASE Manager!Manager
  BY <1>3 DEF Manager!Manager, Manager!ManagerTop, Manager!ManagerCommand,
       Manager!CheckConnect, Manager!CheckInitialize, Manager!CheckAuthenticate,
       Manager!CheckReport, Manager!ccr_callback_send_signal, Manager!CardStart,
       Manager!Standby, Manager!StandbyClose, Manager!Exit, Manager!ExitShutdown,
       Manager!CommandDone, Manager!Manages
<1>4. CASE Manager!Acquire
  BY <1>4 DEF Manager!Acquire, Manager!AcquireTop, Manager!AcquireCheck,
       Manager!AcquireReadyCheck, Manager!Intake, Manager!WipeData,
       Manager!callback_p_mutex_free, Manager!Withdraw, Manager!ReadStart,
       Manager!ReadDone, Manager!AcquireReport, Manager!ccr_callback_send_signal,
       Manager!AcquireExit
<1>5. CASE UNCHANGED Manager!vars
  BY <1>5 DEF Manager!vars
<1> QED BY <1>1, <1>2, <1>3, <1>4, <1>5 DEF Manager!Next

(* Wherever a command interrupts the threads: cards are acquired only from *)
(* a reader that is connected, initialised and authorised, its port open   *)
(* until the thread that closes it is done, and the track data are not     *)
(* cleared while the callback looks at them (acquireCardThread and         *)
(* msgrCardThread, ccr.origin/cmgrapi.c).                                  *)
THEOREM AcquiringCorrect == Spec => Acquiring
<1>1. ManagerInv => Manager!AcquireReady
  BY DEF ManagerInv, ManagerSound
<1>2. [Next]_vars => [data # data' /\ data' = "wiped" => delivery # "deliver"]_(Manager!vars)
  BY ManagerMoves, WipeStep
<1> QED BY <1>1, <1>2, ManagerCorrect, PTL DEF Spec, Acquiring, Manager!NotWiped

-----------------------------------------------------------------------------
(* UpgradeManager: descriptors, entries and results.                       *)

LEMMA UpgradeMoves == [Next]_vars => [Upgrade!Next]_(Upgrade!vars)
BY DEF Next, Of, vars, upgradeVars, Upgrade!vars, Upgrade!client, Upgrade!wire, Upgrade!manager

(* What FiniteSets says of a set does not depend on who asks.              *)
LEMMA FiniteSame == ASSUME NEW S PROVE Upgrade!IsFiniteSet(S) <=> IsFiniteSet(S)
BY DEF Upgrade!IsFiniteSet, IsFiniteSet

LEMMA CountSame == ASSUME NEW S PROVE Upgrade!Cardinality(S) = Cardinality(S)
BY DEF Upgrade!Cardinality, Cardinality

LEMMA UpgradeBounds ==
  IsFiniteSet(Sessions) /\ Exiting \subseteq Sessions /\ MaxCalls \in Nat /\ MaxUevents \in Nat
<1>1. Upgrade!UpgradeConstants
  BY ServiceBounds
<1> QED BY <1>1, FiniteSame DEF Upgrade!UpgradeConstants

EntryForm == [socketHandle : Int, session : Sessions]
MessageForm == [command : Upgrade!Commands, id : 0..MaxCalls]

(* What the manager looked at before is still there when it comes to it.   *)
UpgradeBound ==
  /\ managerPc = "uevent" => uevents > 0
  /\ managerPc \in {"uevent", "accept"} =>
       /\ read_fds \subseteq Upgrade!Handles \cup {Upgrade!uevent_fd, Upgrade!ServerSocket}
       /\ Upgrade!ServerSocket \in read_fds => backlog # <<>>
  /\ managerPc = "type" =>
       /\ socketConnectionList # <<>>
       /\ socketConnectionList[Len(socketConnectionList)].socketHandle \notin read_fds
  /\ managerPc = "update" => entry \in DOMAIN socketConnectionList
  /\ entry >= 1

(* A session that has connected is in one place only, the backlog or the   *)
(* list; the server socket's descriptor is no connection's.                *)
OncePlaced ==
  /\ \A i, j \in DOMAIN backlog : i # j => backlog[i] # backlog[j]
  /\ \A i \in DOMAIN backlog, j \in DOMAIN socketConnectionList :
       backlog[i] # socketConnectionList[j].session
  /\ \A i \in DOMAIN backlog : at[backlog[i]] # "out"
  /\ \A j \in DOMAIN socketConnectionList : at[socketConnectionList[j].session] # "out"
  /\ \A j \in DOMAIN socketConnectionList :
       \/ socketConnectionList[j].socketHandle = Upgrade!Closed
       \/ socketConnectionList[j].socketHandle > Upgrade!ServerSocket

(* An entry that select found readable and that is still to be looked at   *)
(* has something to read, or its client is gone.                           *)
ScanReady ==
  \A i \in DOMAIN socketConnectionList :
    /\ socketConnectionList[i].socketHandle \in read_fds
    /\ managerPc = "scan" => i >= entry
    /\ managerPc = "update" => i > entry
    => \/ at[socketConnectionList[i].session] = "closed"
       \/ toManager[socketConnectionList[i].session] # <<>>

Serving(s) == managerPc = "update" /\ socketConnectionList[entry].session = s
Asked(s) ==
  {i \in DOMAIN toManager[s] : toManager[s][i].command = "UPGRADE_MANAGER_OTA_UPGRADE_CMD"}

(* Of a session that never gave a request up at most the last request is   *)
(* under way, in one of three places, and only while the session waits.    *)
Own(s) ==
  /\ at[s] \in {"out", "connected"} => result[s] = 0
  /\ ~late[s] /\ at[s] \in {"out", "connected", "open"} =>
       Asked(s) = {} /\ toClient[s] = <<>> /\ ~Serving(s)
  /\ ~late[s] /\ at[s] = "waiting" =>
       /\ \A i \in Asked(s) : toManager[s][i].id = request[s]
       /\ Asked(s) # {} => ~Serving(s) /\ toClient[s] = <<>>
       /\ Serving(s) => doing = request[s] /\ toClient[s] = <<>>
       /\ toClient[s] \in {<<>>, <<request[s]>>}
  /\ result[s] # 0 /\ ~late[s] => result[s] = request[s] \/ at[s] # "open"

UpgradeInv ==
  /\ Upgrade!TypeOK /\ UpgradeBound /\ OncePlaced /\ Upgrade!HandlesExact /\ ScanReady
  /\ \A s \in Sessions : Own(s)

LEMMA UpgradeInit == Upgrade!Init => UpgradeInv
<1> SUFFICES ASSUME Upgrade!Init PROVE UpgradeInv
  OBVIOUS
<1> USE DEF Upgrade!Init
<1>1. /\ backlog \in Seq(Sessions) /\ socketConnectionList \in Seq(EntryForm)
      /\ \A s \in Sessions : toManager[s] = <<>> /\ toClient[s] = <<>>
      /\ <<>> \in Seq(MessageForm) /\ <<>> \in Seq(0..MaxCalls)
      /\ DOMAIN backlog = {} /\ DOMAIN socketConnectionList = {}
  BY EmptySeq
<1>2. toManager \in [Sessions -> Seq(MessageForm)] /\ toClient \in [Sessions -> Seq(0..MaxCalls)]
  BY <1>1
<1>3. /\ at \in [Sessions -> {"out", "connected", "open", "waiting", "leaving", "closed"}]
      /\ request \in [Sessions -> 0..MaxCalls] /\ result \in [Sessions -> 0..MaxCalls]
      /\ late \in [Sessions -> BOOLEAN]
  BY UpgradeBounds
<1>4. requests \in 0..MaxCalls /\ doing \in 0..MaxCalls /\ uevents \in 0..MaxUevents /\ entry \in Nat
  BY UpgradeBounds
<1>5. Upgrade!TypeOK
  BY <1>1, <1>2, <1>3, <1>4 DEF Upgrade!TypeOK, EntryForm, MessageForm
<1>6. UpgradeBound
  BY DEF UpgradeBound
<1>7. OncePlaced /\ ScanReady
  BY <1>1 DEF OncePlaced, ScanReady
<1>8. Upgrade!HandlesExact
  BY <1>1 DEF Upgrade!HandlesExact
<1>9. ASSUME NEW s \in Sessions PROVE Own(s)
  <2>1. Asked(s) = {} /\ ~Serving(s)
    BY <1>1 DEF Asked, Serving
  <2> QED BY <1>1, <2>1 DEF Own
<1> QED BY <1>5, <1>6, <1>7, <1>8, <1>9 DEF UpgradeInv

(* accept finds a descriptor that no connection has.                       *)
LEMMA LowestFreeProperties ==
  ASSUME Upgrade!TypeOK
  PROVE  Upgrade!LowestFree \in Nat /\ Upgrade!LowestFree >= 3
         /\ Upgrade!LowestFree \notin Upgrade!Handles
<1> DEFINE f == [i \in DOMAIN socketConnectionList |-> socketConnectionList[i].socketHandle]
           T == {socketConnectionList[i].socketHandle : i \in DOMAIN socketConnectionList}
           C == Cardinality(Upgrade!Handles)
<1>1. IsFiniteSet(DOMAIN socketConnectionList)
  <2>1. /\ Len(socketConnectionList) \in Nat
        /\ DOMAIN socketConnectionList = 1..Len(socketConnectionList)
    BY LenProperties DEF Upgrade!TypeOK
  <2> QED BY <2>1, FS_Interval
<1>2. f \in Surjection(DOMAIN socketConnectionList, T)
  BY DEF Surjection
<1>3. IsFiniteSet(T)
  BY <1>1, <1>2, FS_Surjection
<1>4. IsFiniteSet(Upgrade!Handles)
  BY <1>3, FS_Subset DEF Upgrade!Handles
<1>5. C \in Nat
  BY <1>4, FS_CardinalityType
<1> DEFINE F == (3..(3 + C)) \ Upgrade!Handles
<1> HIDE DEF C
<1>6. F # {}
  <2> SUFFICES ASSUME 3..(3 + C) \subseteq Upgrade!Handles PROVE FALSE
    OBVIOUS
  <2>1. Cardinality(3..(3 + C)) = C + 1
    BY <1>5, FS_Interval
  <2>2. Cardinality(3..(3 + C)) =< Cardinality(Upgrade!Handles)
    BY <1>4, FS_Subset
  <2> QED BY <1>5, <2>1, <2>2 DEF C
<1>7. PICK m \in F : \A k \in F : m =< k
  <2>1. F \subseteq Nat
    BY <1>5
  <2> QED BY <1>6, <2>1, LeastNumber
<1>8. m \in 3..(3 + C) /\ m \notin Upgrade!Handles /\ \A g \in 3..(m - 1) : g \in Upgrade!Handles
  BY <1>5, <1>7
<1> DEFINE Free(fd) == fd \notin Upgrade!Handles /\ \A g \in 3..(fd - 1) : g \in Upgrade!Handles
<1>9. /\ Upgrade!LowestFree \in 3..(3 + C)
      /\ Upgrade!LowestFree \notin Upgrade!Handles
  <2>1. m \in 3..(3 + C) /\ Free(m)
    BY <1>8
  <2>2. Upgrade!LowestFree = CHOOSE fd \in 3..(3 + C) : Free(fd)
    BY CountSame DEF Upgrade!LowestFree, C
  <2> HIDE DEF Free
  <2>3. Upgrade!LowestFree \in 3..(3 + C) /\ Free(Upgrade!LowestFree)
    BY <2>1, <2>2
  <2> QED BY <2>3 DEF Free
<1> QED BY <1>5, <1>9

(* The entry that is looked at is one that select found readable.          *)
LEMMA ThisProperties ==
  ASSUME UpgradeInv, Upgrade!Selected
  PROVE  /\ Upgrade!This \in DOMAIN socketConnectionList /\ Upgrade!This >= entry
         /\ Upgrade!This \in Nat
         /\ socketConnectionList[Upgrade!This].socketHandle \in read_fds
         /\ Upgrade!Client = socketConnectionList[Upgrade!This].session
         /\ Upgrade!Client \in Sessions
<1>1. /\ Upgrade!Left \subseteq Nat /\ Upgrade!Left # {}
      /\ Upgrade!Left \subseteq 1..Len(socketConnectionList)
      /\ DOMAIN socketConnectionList = 1..Len(socketConnectionList)
  <2>1. /\ Len(socketConnectionList) \in Nat
        /\ DOMAIN socketConnectionList = 1..Len(socketConnectionList)
    BY LenProperties DEF UpgradeInv, Upgrade!TypeOK
  <2>2. entry \in Nat /\ entry >= 1
    BY DEF UpgradeInv, Upgrade!TypeOK, UpgradeBound
  <2>3. Upgrade!Left \subseteq entry..Len(socketConnectionList)
    BY DEF Upgrade!Left
  <2> QED BY <2>1, <2>2, <2>3 DEF Upgrade!Selected
<1>2. \E i \in Upgrade!Left : \A j \in Upgrade!Left : i =< j
  BY <1>1, LeastNumber
<1>3. Upgrade!This \in Upgrade!Left
  BY <1>2 DEF Upgrade!This
<1>4. Upgrade!Client = socketConnectionList[Upgrade!This].session
  BY DEF Upgrade!Client, Upgrade!Selected
<1>5. socketConnectionList[Upgrade!This] \in EntryForm
  BY <1>1, <1>3, ElementOfSeq DEF UpgradeInv, Upgrade!TypeOK, EntryForm
<1> QED BY <1>1, <1>3, <1>4, <1>5 DEF Upgrade!Left, EntryForm

(* Closing an entry leaves the others and the sessions as they are.        *)
LEMMA CloseEntryProperties ==
  ASSUME Upgrade!TypeOK, NEW i \in DOMAIN socketConnectionList
  PROVE  /\ Upgrade!closeEntry(i) \in Seq(EntryForm)
         /\ DOMAIN Upgrade!closeEntry(i) = DOMAIN socketConnectionList
         /\ Len(Upgrade!closeEntry(i)) = Len(socketConnectionList)
         /\ \A j \in DOMAIN socketConnectionList :
              /\ Upgrade!closeEntry(i)[j].session = socketConnectionList[j].session
              /\ Upgrade!closeEntry(i)[j].socketHandle =
                   IF j = i THEN Upgrade!Closed ELSE socketConnectionList[j].socketHandle
<1>1. /\ socketConnectionList \in Seq(EntryForm)
      /\ DOMAIN socketConnectionList = 1..Len(socketConnectionList)
  BY LenProperties DEF Upgrade!TypeOK, EntryForm
<1>2. \A j \in DOMAIN socketConnectionList : socketConnectionList[j] \in EntryForm
  BY <1>1, ElementOfSeq
<1> DEFINE e == [socketConnectionList[i] EXCEPT !.socketHandle = Upgrade!Closed]
<1>3. /\ e \in EntryForm /\ e.session = socketConnectionList[i].session
      /\ e.socketHandle = Upgrade!Closed
  BY <1>2 DEF EntryForm, Upgrade!Closed
<1>4. Upgrade!closeEntry(i) = [socketConnectionList EXCEPT ![i] = e]
  BY DEF Upgrade!closeEntry
<1> HIDE DEF e
<1>5. /\ Upgrade!closeEntry(i) \in Seq(EntryForm)
      /\ Len(Upgrade!closeEntry(i)) = Len(socketConnectionList)
      /\ \A j \in 1..Len(socketConnectionList) :
           Upgrade!closeEntry(i)[j] = IF j = i THEN e ELSE socketConnectionList[j]
  BY <1>1, <1>3, <1>4, ExceptSeq
<1>6. DOMAIN Upgrade!closeEntry(i) = DOMAIN socketConnectionList
  BY <1>1, <1>5, LenProperties
<1> QED BY <1>1, <1>3, <1>5, <1>6

(* The sequences of the manager and what they hold.                        *)
LEMMA UpgradeForms ==
  ASSUME Upgrade!TypeOK
  PROVE  /\ socketConnectionList \in Seq(EntryForm) /\ Len(socketConnectionList) \in Nat
         /\ DOMAIN socketConnectionList = 1..Len(socketConnectionList)
         /\ \A i \in DOMAIN socketConnectionList :
              /\ socketConnectionList[i] \in EntryForm
              /\ socketConnectionList[i].session \in Sessions
              /\ socketConnectionList[i].socketHandle \in Int
         /\ backlog \in Seq(Sessions) /\ Len(backlog) \in Nat
         /\ DOMAIN backlog = 1..Len(backlog)
         /\ \A i \in DOMAIN backlog : backlog[i] \in Sessions
<1>1. /\ socketConnectionList \in Seq(EntryForm) /\ Len(socketConnectionList) \in Nat
      /\ DOMAIN socketConnectionList = 1..Len(socketConnectionList)
  BY LenProperties DEF Upgrade!TypeOK, EntryForm
<1>2. \A i \in DOMAIN socketConnectionList : socketConnectionList[i] \in EntryForm
  BY <1>1, ElementOfSeq
<1>3. /\ backlog \in Seq(Sessions) /\ Len(backlog) \in Nat
      /\ DOMAIN backlog = 1..Len(backlog)
  BY LenProperties DEF Upgrade!TypeOK
<1>4. \A i \in DOMAIN backlog : backlog[i] \in Sessions
  BY <1>3, ElementOfSeq
<1>5. \A e \in EntryForm : e.session \in Sessions /\ e.socketHandle \in Int
  BY DEF EntryForm
<1> QED BY <1>1, <1>2, <1>3, <1>4, <1>5

(* What the application's actions have in common.                          *)
LEMMA ApplicationMoves ==
  ASSUME UpgradeInv, NEW s \in Sessions, Upgrade!Application(s)
  PROVE  /\ UNCHANGED <<Upgrade!manager, uevents>>
         /\ \/ UNCHANGED backlog /\ \A x \in Sessions : at'[x] # "out" => at[x] # "out"
            \/ /\ backlog' = Append(backlog, s) /\ at[s] = "out" /\ at'[s] = "connected"
               /\ \A x \in Sessions \ {s} : at'[x] = at[x]
         /\ \A x \in Sessions : /\ at[x] = "closed" => at'[x] = "closed"
                                /\ at[x] # "out" => at'[x] # "out"
                                /\ toManager[x] # <<>> => toManager'[x] # <<>>
<1> USE DEF Upgrade!manager, Upgrade!wire
<1>1. /\ at \in [Sessions -> {"out", "connected", "open", "waiting", "leaving", "closed"}]
      /\ toManager \in [Sessions -> Seq(MessageForm)]
  BY DEF UpgradeInv, Upgrade!TypeOK, MessageForm
<1>2. ASSUME NEW x, NEW m \in MessageForm, Upgrade!Say(x, m)
      PROVE  \A y \in Sessions : toManager[y] # <<>> => toManager'[y] # <<>>
  BY <1>1, <1>2, AppendProperties DEF Upgrade!Say
<1>3. requests + 1 \in 0..MaxCalls \/ ~Upgrade!CallsLeft
  <2>1. Cardinality({x \in Sessions : at[x] # "out"}) \in Nat
    BY UpgradeBounds, FS_Subset, FS_CardinalityType
  <2>2. Upgrade!Cardinality({x \in Sessions : at[x] # "out"}) \in Nat
    BY <2>1, CountSame
  <2> QED BY <2>2, UpgradeBounds DEF Upgrade!CallsLeft, UpgradeInv, Upgrade!TypeOK
<1>4. /\ [command |-> "UPGRADE_MANAGER_CONN_TYPE", id |-> 0] \in MessageForm
      /\ [command |-> "UPGRADE_MANAGER_EXIT", id |-> 0] \in MessageForm
      /\ requests + 1 \in 0..MaxCalls =>
           [command |-> "UPGRADE_MANAGER_OTA_UPGRADE_CMD", id |-> requests + 1] \in MessageForm
  BY UpgradeBounds DEF MessageForm, Upgrade!Commands
<1>5. CASE Upgrade!openTCPConnectionToUpgradeManager(s)
  BY <1>1, <1>5 DEF Upgrade!openTCPConnectionToUpgradeManager
<1>6. CASE Upgrade!sendConnType(s)
  BY <1>1, <1>2, <1>4, <1>6 DEF Upgrade!sendConnType
<1>7. CASE Upgrade!svsDoOTAUpgrade(s)
  BY <1>1, <1>2, <1>3, <1>4, <1>7 DEF Upgrade!svsDoOTAUpgrade
<1>8. CASE Upgrade!recvUpgradeManagerResult(s)
  BY <1>1, <1>8 DEF Upgrade!recvUpgradeManagerResult
<1>9. CASE Upgrade!recvTimeout(s)
  BY <1>1, <1>9 DEF Upgrade!recvTimeout
<1>10. CASE Upgrade!recvClosed(s)
  BY <1>1, <1>10 DEF Upgrade!recvClosed
<1>11. CASE Upgrade!svsUpgradeUninit(s)
  BY <1>1, <1>11 DEF Upgrade!svsUpgradeUninit
<1>12. CASE Upgrade!svsSWUServerUninit(s)
  BY <1>1, <1>2, <1>4, <1>12 DEF Upgrade!svsSWUServerUninit
<1> QED
  BY <1>5, <1>6, <1>7, <1>8, <1>9, <1>10, <1>11, <1>12 DEF Upgrade!Application

(* So the manager finds what it found before.                              *)
LEMMA ApplicationPlaces ==
  ASSUME UpgradeInv, NEW s \in Sessions, Upgrade!Application(s)
  PROVE  UpgradeBound' /\ OncePlaced' /\ Upgrade!HandlesExact' /\ ScanReady'
<1>1. /\ UNCHANGED <<managerPc, socketConnectionList, watched, read_fds, entry, doing, serverOpen>>
      /\ UNCHANGED uevents
  BY ApplicationMoves DEF Upgrade!manager
<1>2. /\ \A i \in DOMAIN socketConnectionList : socketConnectionList[i].session \in Sessions
      /\ backlog \in Seq(Sessions) /\ Len(backlog) \in Nat /\ DOMAIN backlog = 1..Len(backlog)
      /\ \A i \in DOMAIN backlog : backlog[i] \in Sessions
  BY UpgradeForms DEF UpgradeInv
<1>3. \A x \in Sessions : /\ at[x] = "closed" => at'[x] = "closed"
                          /\ at[x] # "out" => at'[x] # "out"
                          /\ toManager[x] # <<>> => toManager'[x] # <<>>
  BY ApplicationMoves
<1>4. UNCHANGED Upgrade!Handles
  BY <1>1 DEF Upgrade!Handles
<1>5. ScanReady'
  BY <1>1, <1>2, <1>3 DEF UpgradeInv, ScanReady
<1>6. CASE UNCHANGED backlog /\ \A x \in Sessions : at'[x] # "out" => at[x] # "out"
  <2>1. UpgradeBound'
    BY <1>1, <1>4, <1>6 DEF UpgradeInv, UpgradeBound
  <2>2. OncePlaced'
    BY <1>1, <1>2, <1>3, <1>6 DEF UpgradeInv, OncePlaced
  <2>3. \A x \in Sessions : Upgrade!HungUp(x)' => Upgrade!HungUp(x)
    BY <1>1, <1>6 DEF Upgrade!HungUp
  <2>4. Upgrade!HandlesExact'
    BY <1>1, <1>3, <1>6, <2>3 DEF UpgradeInv, Upgrade!HandlesExact
  <2> QED BY <1>5, <2>1, <2>2, <2>4
<1>7. CASE /\ backlog' = Append(backlog, s) /\ at[s] = "out" /\ at'[s] = "connected"
           /\ \A x \in Sessions \ {s} : at'[x] = at[x]
  <2>1. /\ backlog' # <<>> /\ DOMAIN backlog' = 1..(Len(backlog) + 1)
        /\ \A i \in DOMAIN backlog : backlog'[i] = backlog[i]
        /\ backlog'[Len(backlog) + 1] = s
    <3>1. /\ backlog' \in Seq(Sessions) /\ backlog' # <<>> /\ Len(backlog') = Len(backlog) + 1
          /\ \A i \in 1..Len(backlog) : backlog'[i] = backlog[i]
          /\ backlog'[Len(backlog) + 1] = s
      BY <1>2, <1>7, AppendProperties
    <3>2. DOMAIN backlog' = 1..Len(backlog')
      BY <3>1, LenProperties
    <3> QED BY <1>2, <3>1, <3>2
  <2>2. \A i \in DOMAIN backlog' : i \in DOMAIN backlog \/ i = Len(backlog) + 1
    BY <1>2, <2>1
  <2>3. UpgradeBound'
    BY <1>1, <1>4, <2>1 DEF UpgradeInv, UpgradeBound
  <2>4. OncePlaced'
    BY <1>1, <1>2, <1>3, <1>7, <2>1, <2>2 DEF UpgradeInv, OncePlaced
  <2>5. \A x \in Sessions : Upgrade!HungUp(x)' => Upgrade!HungUp(x) /\ x # s
    <3>1. \A i \in DOMAIN backlog : i \in DOMAIN backlog'
      BY <1>2, <2>1
    <3>2. Len(backlog) + 1 \in DOMAIN backlog'
      BY <1>2, <2>1
    <3> QED BY <1>1, <2>1, <3>1, <3>2 DEF Upgrade!HungUp
  <2>6. Upgrade!HandlesExact'
    BY <1>1, <1>3, <1>7, <2>5 DEF UpgradeInv, Upgrade!HandlesExact
  <2> QED BY <1>5, <2>3, <2>4, <2>6
<1> QED BY <1>6, <1>7, ApplicationMoves

(* What an application that waits for a result finds, and what it sends.   *)
LEMMA ApplicationOwn ==
  ASSUME UpgradeInv, NEW s \in Sessions, Upgrade!Application(s)
  PROVE  Upgrade!TypeOK' /\ \A x \in Sessions : Own(x)'
<1>1. UNCHANGED <<managerPc, socketConnectionList, watched, read_fds, entry, doing, serverOpen,
                  uevents>>
  BY ApplicationMoves DEF Upgrade!manager
<1>2. /\ at \in [Sessions -> {"out", "connected", "open", "waiting", "leaving", "closed"}]
      /\ request \in [Sessions -> 0..MaxCalls] /\ requests \in 0..MaxCalls
      /\ result \in [Sessions -> 0..MaxCalls] /\ late \in [Sessions -> BOOLEAN]
      /\ toManager \in [Sessions -> Seq(MessageForm)]
      /\ toClient \in [Sessions -> Seq(0..MaxCalls)] /\ backlog \in Seq(Sessions)
  BY DEF UpgradeInv, Upgrade!TypeOK, MessageForm
<1>3. ASSUME /\ at' \in [Sessions -> {"out", "connected", "open", "waiting", "leaving", "closed"}]
             /\ request' \in [Sessions -> 0..MaxCalls] /\ requests' \in 0..MaxCalls
             /\ result' \in [Sessions -> 0..MaxCalls] /\ late' \in [Sessions -> BOOLEAN]
             /\ toManager' \in [Sessions -> Seq(MessageForm)]
             /\ toClient' \in [Sessions -> Seq(0..MaxCalls)] /\ backlog' \in Seq(Sessions)
      PROVE  Upgrade!TypeOK'
  BY <1>1, <1>3 DEF UpgradeInv, Upgrade!TypeOK, MessageForm
<1>4. \A x \in Sessions : Serving(x)' <=> Serving(x)
  BY <1>1 DEF Serving
<1>5. ASSUME NEW x \in Sessions, at'[x] = at[x], result'[x] = result[x], late'[x] = late[x],
             request'[x] = request[x], toManager'[x] = toManager[x], toClient'[x] = toClient[x]
      PROVE  Own(x)'
  <2>1. Asked(x)' = Asked(x)
    BY <1>5 DEF Asked
  <2>2. Own(x)
    BY DEF UpgradeInv
  <2> QED BY <1>1, <1>4, <1>5, <2>1, <2>2 DEF Own
<1>6. ASSUME NEW m \in MessageForm, Upgrade!Say(s, m)
      PROVE  /\ toManager' \in [Sessions -> Seq(MessageForm)]
             /\ \A x \in Sessions \ {s} : toManager'[x] = toManager[x]
             /\ m.command # "UPGRADE_MANAGER_OTA_UPGRADE_CMD" /\ Asked(s) = {} => Asked(s)' = {}
             /\ Asked(s) = {} => \A i \in Asked(s)' : toManager'[s][i].id = m.id
  <2>1. toManager' = [toManager EXCEPT ![s] = Append(toManager[s], m)]
    BY <1>6 DEF Upgrade!Say
  <2>2. toManager[s] \in Seq(MessageForm)
    BY <1>2
  <2> DEFINE q == Append(toManager[s], m)
  <2>3. /\ q \in Seq(MessageForm) /\ Len(q) = Len(toManager[s]) + 1
        /\ \A i \in 1..Len(toManager[s]) : q[i] = toManager[s][i]
        /\ q[Len(toManager[s]) + 1] = m
    BY <2>2, AppendProperties
  <2>4. /\ Len(toManager[s]) \in Nat /\ DOMAIN toManager[s] = 1..Len(toManager[s])
        /\ DOMAIN q = 1..Len(q)
    BY <2>2, <2>3, LenProperties
  <2> HIDE DEF q
  <2>5. /\ toManager'[s] = q /\ toManager' \in [Sessions -> Seq(MessageForm)]
        /\ \A x \in Sessions \ {s} : toManager'[x] = toManager[x]
    BY <1>2, <2>1, <2>3 DEF q
  <2>6. \A i \in DOMAIN q : i \in DOMAIN toManager[s] \/ i = Len(toManager[s]) + 1
    BY <2>3, <2>4
  <2>7. Asked(s)' = {i \in DOMAIN q : q[i].command = "UPGRADE_MANAGER_OTA_UPGRADE_CMD"}
    BY <2>5 DEF Asked
  <2>8. \A i \in Asked(s)' : Asked(s) = {} => q[i] = m
    BY <2>3, <2>4, <2>6, <2>7 DEF Asked
  <2> QED BY <2>5, <2>7, <2>8
<1>7. CASE Upgrade!openTCPConnectionToUpgradeManager(s)
  <2> USE DEF Upgrade!openTCPConnectionToUpgradeManager
  <2>1. Upgrade!TypeOK'
    BY <1>2, <1>3, <1>7, AppendProperties
  <2>2. ASSUME NEW x \in Sessions PROVE Own(x)'
    <3>1. Asked(x)' = Asked(x) /\ Own(x)
      BY <1>7 DEF Asked, UpgradeInv
    <3> QED BY <1>1, <1>2, <1>4, <1>7, <3>1 DEF Own
  <2> QED BY <2>1, <2>2
<1>8. CASE Upgrade!sendConnType(s)
  <2> DEFINE m == [command |-> "UPGRADE_MANAGER_CONN_TYPE", id |-> 0]
  <2>1. m \in MessageForm /\ m.command # "UPGRADE_MANAGER_OTA_UPGRADE_CMD" /\ Upgrade!Say(s, m)
    BY <1>8, UpgradeBounds DEF MessageForm, Upgrade!Commands, Upgrade!sendConnType
  <2> HIDE DEF m
  <2>2. Upgrade!TypeOK'
    BY <1>2, <1>3, <1>6, <1>8, <2>1 DEF Upgrade!sendConnType
  <2>3. Own(s)'
    <3>1. Own(s)
      BY DEF UpgradeInv
    <3> QED BY <1>1, <1>2, <1>4, <1>6, <1>8, <2>1, <3>1 DEF Own, Upgrade!sendConnType
  <2>4. ASSUME NEW x \in Sessions \ {s} PROVE Own(x)'
    BY <1>2, <1>5, <1>6, <1>8, <2>1 DEF Upgrade!sendConnType
  <2> QED BY <2>2, <2>3, <2>4
<1>9. CASE Upgrade!svsDoOTAUpgrade(s)
  <2> DEFINE m == [command |-> "UPGRADE_MANAGER_OTA_UPGRADE_CMD", id |-> requests + 1]
  <2>1. requests + 1 \in 0..MaxCalls
    <3>1. Cardinality({x \in Sessions : at[x] # "out"}) \in Nat
      BY UpgradeBounds, FS_Subset, FS_CardinalityType
    <3>2. Upgrade!Cardinality({x \in Sessions : at[x] # "out"}) \in Nat
      BY <3>1, CountSame
    <3> QED BY <1>2, <1>9, <3>2, UpgradeBounds DEF Upgrade!CallsLeft, Upgrade!svsDoOTAUpgrade
  <2>2. m \in MessageForm /\ m.id = requests + 1 /\ Upgrade!Say(s, m)
    BY <1>9, <2>1 DEF MessageForm, Upgrade!Commands, Upgrade!svsDoOTAUpgrade
  <2> HIDE DEF m
  <2>3. /\ request' = [request EXCEPT ![s] = requests + 1] /\ at[s] = "open"
        /\ at' = [at EXCEPT ![s] = "waiting"] /\ requests' = requests + 1
        /\ UNCHANGED <<result, late, toClient, backlog>>
    BY <1>9 DEF Upgrade!svsDoOTAUpgrade
  <2>4. Upgrade!TypeOK'
    BY <1>2, <1>3, <1>6, <2>1, <2>2, <2>3
  <2>5. Own(s)'
    <3>1. Own(s)
      BY DEF UpgradeInv
    <3> QED BY <1>1, <1>2, <1>4, <1>6, <2>2, <2>3, <3>1 DEF Own
  <2>6. ASSUME NEW x \in Sessions \ {s} PROVE Own(x)'
    BY <1>2, <1>5, <1>6, <2>2, <2>3
  <2> QED BY <2>4, <2>5, <2>6
<1>10. CASE Upgrade!recvUpgradeManagerResult(s)
  <2> USE DEF Upgrade!recvUpgradeManagerResult
  <2>1. toClient[s] \in Seq(0..MaxCalls) /\ toClient[s] # <<>>
    BY <1>2, <1>10
  <2>2. Head(toClient[s]) \in 0..MaxCalls /\ Tail(toClient[s]) \in Seq(0..MaxCalls)
    BY <2>1, HeadTailProperties
  <2>3. Upgrade!TypeOK'
    BY <1>2, <1>3, <1>10, <2>2
  <2>4. Own(s)'
    <3>1. Own(s) /\ Asked(s)' = Asked(s)
      BY <1>10 DEF UpgradeInv, Asked
    <3>2. ~late[s] => /\ toClient[s] = <<request[s]>> /\ Asked(s) = {} /\ ~Serving(s)
      BY <1>2, <1>10, <2>1, <3>1 DEF Own
    <3>3. ~late[s] => toClient'[s] = <<>> /\ result'[s] = request[s]
      <4>1. Head(<<request[s]>>) = request[s] /\ Tail(<<request[s]>>) = <<>>
        OBVIOUS
      <4>2. toClient'[s] = Tail(toClient[s]) /\ result'[s] = Head(toClient[s])
        BY <1>2, <1>10
      <4> QED BY <3>2, <4>1, <4>2
    <3> QED BY <1>1, <1>2, <1>4, <1>10, <3>1, <3>2, <3>3 DEF Own
  <2>5. ASSUME NEW x \in Sessions \ {s} PROVE Own(x)'
    BY <1>2, <1>5, <1>10
  <2> QED BY <2>3, <2>4, <2>5
<1>11. CASE Upgrade!recvTimeout(s)
  <2> USE DEF Upgrade!recvTimeout, Upgrade!wire
  <2>1. Upgrade!TypeOK'
    BY <1>2, <1>3, <1>11, UpgradeBounds
  <2>2. Own(s)'
    BY <1>2, <1>11 DEF Own
  <2>3. ASSUME NEW x \in Sessions \ {s} PROVE Own(x)'
    BY <1>2, <1>5, <1>11
  <2> QED BY <2>1, <2>2, <2>3
<1>12. CASE Upgrade!recvClosed(s) \/ Upgrade!svsUpgradeUninit(s)
  <2>1. /\ at' = [at EXCEPT ![s] = "closed"]
        /\ UNCHANGED <<request, requests, result, late, toManager, toClient, backlog>>
    BY <1>12 DEF Upgrade!recvClosed, Upgrade!svsUpgradeUninit, Upgrade!wire
  <2>2. Upgrade!TypeOK'
    BY <1>2, <1>3, <2>1
  <2>3. Own(s)'
    BY <1>2, <2>1 DEF Own
  <2>4. ASSUME NEW x \in Sessions \ {s} PROVE Own(x)'
    BY <1>2, <1>5, <2>1
  <2> QED BY <2>2, <2>3, <2>4
<1>13. CASE Upgrade!svsSWUServerUninit(s)
  <2> DEFINE m == [command |-> "UPGRADE_MANAGER_EXIT", id |-> 0]
  <2>1. m \in MessageForm /\ Upgrade!Say(s, m)
    BY <1>13, UpgradeBounds DEF MessageForm, Upgrade!Commands, Upgrade!svsSWUServerUninit
  <2> HIDE DEF m
  <2>2. Upgrade!TypeOK'
    BY <1>2, <1>3, <1>6, <1>13, <2>1 DEF Upgrade!svsSWUServerUninit
  <2>3. Own(s)'
    BY <1>2, <1>13 DEF Own, Upgrade!svsSWUServerUninit
  <2>4. ASSUME NEW x \in Sessions \ {s} PROVE Own(x)'
    BY <1>2, <1>5, <1>6, <1>13, <2>1 DEF Upgrade!svsSWUServerUninit
  <2> QED BY <2>2, <2>3, <2>4
<1> QED
  BY <1>7, <1>8, <1>9, <1>10, <1>11, <1>12, <1>13 DEF Upgrade!Application

(* What a step of the manager keeps that moves no session to another place,*)
(* and one that closes the entry of a session that is gone.                *)
LEMMA PlacesKept ==
  ASSUME UpgradeInv, UNCHANGED <<Upgrade!client, socketConnectionList, backlog, serverOpen>>
  PROVE  OncePlaced' /\ Upgrade!HandlesExact'
<1>1. UNCHANGED at
  BY DEF Upgrade!client
<1>2. OncePlaced'
  BY <1>1 DEF UpgradeInv, OncePlaced
<1>3. \A s \in Sessions : Upgrade!HungUp(s)' => Upgrade!HungUp(s)
  BY DEF Upgrade!HungUp
<1>4. Upgrade!HandlesExact'
  BY <1>1, <1>3 DEF UpgradeInv, Upgrade!HandlesExact
<1> QED BY <1>2, <1>4

(* Closing the connection of a client that left.                           *)
LEMMA CloseKept ==
  ASSUME UpgradeInv, UNCHANGED <<Upgrade!client, backlog, serverOpen>>,
         NEW i \in DOMAIN socketConnectionList,
         at[socketConnectionList[i].session] = "closed",
         socketConnectionList' = Upgrade!closeEntry(i)
  PROVE  /\ OncePlaced' /\ Upgrade!HandlesExact'
         /\ socketConnectionList' \in Seq(EntryForm)
         /\ DOMAIN socketConnectionList' = DOMAIN socketConnectionList
         /\ Len(socketConnectionList') = Len(socketConnectionList)
         /\ \A j \in DOMAIN socketConnectionList :
              /\ socketConnectionList'[j].session = socketConnectionList[j].session
              /\ socketConnectionList'[j].socketHandle =
                   IF j = i THEN Upgrade!Closed ELSE socketConnectionList[j].socketHandle
<1>1. UNCHANGED at
  BY DEF Upgrade!client
<1>2. /\ socketConnectionList' \in Seq(EntryForm)
      /\ DOMAIN socketConnectionList' = DOMAIN socketConnectionList
      /\ Len(socketConnectionList') = Len(socketConnectionList)
      /\ \A j \in DOMAIN socketConnectionList :
           /\ socketConnectionList'[j].session = socketConnectionList[j].session
           /\ socketConnectionList'[j].socketHandle =
                IF j = i THEN Upgrade!Closed ELSE socketConnectionList[j].socketHandle
  BY CloseEntryProperties DEF UpgradeInv
<1>3. OncePlaced'
  BY <1>1, <1>2 DEF UpgradeInv, OncePlaced
<1>4. \A s \in Sessions :
        Upgrade!HungUp(s)' => Upgrade!HungUp(s) \/ s = socketConnectionList[i].session
  BY <1>2 DEF Upgrade!HungUp
<1>5. \A j, k \in DOMAIN socketConnectionList' : j # k =>
        /\ socketConnectionList'[j].session # socketConnectionList'[k].session
        /\ \/ socketConnectionList'[j].socketHandle # socketConnectionList'[k].socketHandle
           \/ socketConnectionList'[j].socketHandle = Upgrade!Closed
  BY <1>2 DEF UpgradeInv, Upgrade!HandlesExact
<1>6. Upgrade!HandlesExact'
  <2>1. \A s \in Sessions : at'[s] # "out" /\ serverOpen' /\ Upgrade!HungUp(s)' => at'[s] = "closed"
    BY <1>1, <1>4 DEF UpgradeInv, Upgrade!HandlesExact
  <2> QED BY <1>5, <2>1 DEF Upgrade!HandlesExact
<1> QED BY <1>2, <1>3, <1>6

(* What the manager does for others is nothing to a session.               *)
LEMMA OwnKept ==
  ASSUME UpgradeInv, UNCHANGED <<Upgrade!client, doing>>, NEW s \in Sessions,
         Serving(s)' => Serving(s), UNCHANGED <<toManager[s], toClient[s]>>
  PROVE  Own(s)'
<1>1. UNCHANGED <<at, request, requests, result, late>>
  BY DEF Upgrade!client
<1>2. Asked(s)' = Asked(s)
  BY DEF Asked
<1>3. Own(s)
  BY DEF UpgradeInv
<1> QED BY <1>1, <1>2, <1>3 DEF Own

LEMMA UpgradeSelect ==
  ASSUME UpgradeInv, Upgrade!select
  PROVE  UpgradeInv'
<1>1. /\ managerPc = "select" /\ watched' = Upgrade!Watched
      /\ read_fds' = {fd \in Upgrade!Watched : Upgrade!Readable(fd)}
      /\ managerPc' = IF Upgrade!uevent_fd \in read_fds' THEN "uevent" ELSE "accept"
      /\ UNCHANGED <<Upgrade!client, socketConnectionList, entry, doing, serverOpen, uevents>>
      /\ UNCHANGED <<toManager, toClient, backlog>>
  BY DEF Upgrade!select, Upgrade!wire
<1>2. UNCHANGED <<at, request, requests, result, late>>
  BY <1>1 DEF Upgrade!client
<1>3. \A i \in DOMAIN socketConnectionList :
        /\ socketConnectionList[i].socketHandle \in Int
        /\ socketConnectionList[i].session \in Sessions
  BY UpgradeForms DEF UpgradeInv
<1>4. \A fd \in Upgrade!Watched :
        \/ fd \in {Upgrade!uevent_fd, Upgrade!ServerSocket}
        \/ /\ fd \in Nat /\ fd > Upgrade!ServerSocket
           /\ \E i \in DOMAIN socketConnectionList : socketConnectionList[i].socketHandle = fd
  BY <1>3 DEF Upgrade!Watched, Upgrade!ServerSocket
<1>5. Upgrade!Watched \subseteq Nat
  BY <1>4 DEF Upgrade!uevent_fd, Upgrade!ServerSocket
<1>6. Upgrade!TypeOK'
  BY <1>1, <1>2, <1>5 DEF UpgradeInv, Upgrade!TypeOK
<1>7. read_fds' \subseteq Upgrade!Handles \cup {Upgrade!uevent_fd, Upgrade!ServerSocket}
  BY <1>1, <1>4 DEF Upgrade!Handles, Upgrade!Closed, Upgrade!ServerSocket
<1>8. UNCHANGED Upgrade!Handles
  BY <1>1 DEF Upgrade!Handles
<1>9. Upgrade!ServerSocket \in read_fds' => backlog # <<>>
  BY <1>1 DEF Upgrade!Readable, Upgrade!ServerSocket, Upgrade!uevent_fd
<1>10. Upgrade!uevent_fd \in read_fds' => uevents > 0
  BY <1>1 DEF Upgrade!Readable, Upgrade!ServerSocket, Upgrade!uevent_fd
<1>11. UpgradeBound'
  BY <1>1, <1>7, <1>8, <1>9, <1>10 DEF UpgradeInv, UpgradeBound
<1>12. OncePlaced' /\ Upgrade!HandlesExact'
  BY <1>1, PlacesKept
<1>13. ScanReady'
  <2> SUFFICES ASSUME NEW i \in DOMAIN socketConnectionList,
                      socketConnectionList[i].socketHandle \in read_fds'
               PROVE  \/ at[socketConnectionList[i].session] = "closed"
                      \/ toManager[socketConnectionList[i].session] # <<>>
    BY <1>1, <1>2 DEF ScanReady
  <2> DEFINE fd == socketConnectionList[i].socketHandle
  <2>1. fd \in Upgrade!Watched /\ Upgrade!Readable(fd)
    BY <1>1
  <2>2. fd # Upgrade!Closed /\ fd > Upgrade!ServerSocket
    BY <1>5, <2>1 DEF UpgradeInv, OncePlaced, Upgrade!Closed
  <2>3. \A j \in DOMAIN socketConnectionList : socketConnectionList[j].socketHandle = fd => j = i
    BY <2>2 DEF UpgradeInv, Upgrade!HandlesExact
  <2>4. Upgrade!SessionOf(fd) = socketConnectionList[i].session
    BY <2>3 DEF Upgrade!SessionOf
  <2>5. fd \in Int /\ fd # 1 /\ fd # 2
    BY <1>3, <2>2 DEF Upgrade!ServerSocket
  <2>6. toManager[Upgrade!SessionOf(fd)] # <<>> \/ at[Upgrade!SessionOf(fd)] = "closed"
    BY <2>1, <2>5 DEF Upgrade!Readable, Upgrade!uevent_fd, Upgrade!ServerSocket
  <2> QED BY <2>4, <2>6
<1>14. \A s \in Sessions : Own(s)'
  BY <1>1, OwnKept DEF Serving
<1> QED BY <1>6, <1>11, <1>12, <1>13, <1>14 DEF UpgradeInv

LEMMA UpgradeUevent ==
  ASSUME UpgradeInv, Upgrade!process_netlink_uevent_message
  PROVE  UpgradeInv'
<1>1. /\ managerPc = "uevent" /\ managerPc' = "accept" /\ uevents' = uevents - 1
      /\ UNCHANGED <<Upgrade!client, socketConnectionList, watched, read_fds, entry, doing, serverOpen>>
      /\ UNCHANGED <<toManager, toClient, backlog>>
  BY DEF Upgrade!process_netlink_uevent_message, Upgrade!wire
<1>2. UNCHANGED <<at, request, requests, result, late>> /\ UNCHANGED Upgrade!Handles
  BY <1>1 DEF Upgrade!client, Upgrade!Handles
<1>3. uevents' \in 0..MaxUevents
  BY <1>1, UpgradeBounds DEF UpgradeInv, UpgradeBound, Upgrade!TypeOK
<1>4. Upgrade!TypeOK'
  BY <1>1, <1>2, <1>3 DEF UpgradeInv, Upgrade!TypeOK
<1>5. UpgradeBound'
  BY <1>1, <1>2 DEF UpgradeInv, UpgradeBound
<1>6. ScanReady'
  BY <1>1, <1>2 DEF UpgradeInv, ScanReady
<1>7. \A s \in Sessions : Own(s)'
  BY <1>1, OwnKept DEF Serving
<1> QED BY <1>1, <1>4, <1>5, <1>6, <1>7, PlacesKept DEF UpgradeInv

(* The new connection goes last, with a descriptor of its own that select  *)
(* did not see.                                                            *)
LEMMA UpgradeAccept ==
  ASSUME UpgradeInv, Upgrade!acceptConnection
  PROVE  UpgradeInv'
<1>1. /\ managerPc = "accept" /\ entry' = 1
      /\ UNCHANGED <<Upgrade!client, watched, read_fds, doing, serverOpen, uevents>>
      /\ UNCHANGED <<toManager, toClient>>
  BY DEF Upgrade!acceptConnection
<1>2. UNCHANGED <<at, request, requests, result, late>>
  BY <1>1 DEF Upgrade!client
<1>3. CASE Upgrade!ServerSocket \notin read_fds
  <2>1. managerPc' = "scan" /\ UNCHANGED <<socketConnectionList, backlog>>
    BY <1>3 DEF Upgrade!acceptConnection
  <2>2. Upgrade!TypeOK'
    BY <1>1, <1>2, <2>1 DEF UpgradeInv, Upgrade!TypeOK
  <2>3. UpgradeBound'
    BY <1>1, <2>1 DEF UpgradeInv, UpgradeBound
  <2>4. ScanReady'
    BY <1>1, <1>2, <2>1 DEF UpgradeInv, ScanReady
  <2>5. \A s \in Sessions : Own(s)'
    BY <1>1, <2>1, OwnKept DEF Serving
  <2> QED BY <1>1, <2>1, <2>2, <2>3, <2>4, <2>5, PlacesKept DEF UpgradeInv
<1>4. CASE Upgrade!ServerSocket \in read_fds
  <2> DEFINE n == Len(socketConnectionList) + 1
             new == [socketHandle |-> Upgrade!LowestFree, session |-> Head(backlog)]
  <2>1. managerPc' = "type" /\ socketConnectionList' = Append(socketConnectionList, new)
        /\ backlog' = Tail(backlog)
    BY <1>4 DEF Upgrade!acceptConnection, Upgrade!add_socketlist_entry
  <2>2. /\ Upgrade!LowestFree \in Nat /\ Upgrade!LowestFree >= 3
        /\ Upgrade!LowestFree \notin Upgrade!Handles
    BY LowestFreeProperties DEF UpgradeInv
  <2>3. backlog # <<>>
    BY <1>1, <1>4 DEF UpgradeInv, UpgradeBound
  <2>4. /\ socketConnectionList \in Seq(EntryForm) /\ Len(socketConnectionList) \in Nat
        /\ DOMAIN socketConnectionList = 1..Len(socketConnectionList)
        /\ backlog \in Seq(Sessions) /\ Len(backlog) \in Nat /\ DOMAIN backlog = 1..Len(backlog)
    BY UpgradeForms DEF UpgradeInv
  <2>5. /\ Head(backlog) \in Sessions /\ backlog' \in Seq(Sessions)
        /\ DOMAIN backlog' = 1..(Len(backlog) - 1)
        /\ \A i \in DOMAIN backlog' : backlog'[i] = backlog[i + 1]
        /\ Head(backlog) = backlog[1] /\ 1 \in DOMAIN backlog
    <3>1. /\ Head(backlog) \in Sessions /\ backlog' \in Seq(Sessions)
          /\ Len(backlog') = Len(backlog) - 1
          /\ \A i \in 1..Len(backlog') : backlog'[i] = backlog[i + 1]
      BY <2>1, <2>3, <2>4, HeadTailProperties
    <3>2. DOMAIN backlog' = 1..Len(backlog')
      BY <3>1, LenProperties
    <3>3. Len(backlog) # 0 /\ Head(backlog) = backlog[1]
      BY <2>3, <2>4, EmptySeq
    <3> QED BY <2>4, <3>1, <3>2, <3>3
  <2>6. new \in EntryForm /\ new.session = Head(backlog) /\ new.socketHandle = Upgrade!LowestFree
    BY <2>2, <2>5 DEF EntryForm
  <2> HIDE DEF new
  <2>7. /\ socketConnectionList' \in Seq(EntryForm) /\ Len(socketConnectionList') = n
        /\ DOMAIN socketConnectionList' = 1..n
        /\ \A i \in DOMAIN socketConnectionList : socketConnectionList'[i] = socketConnectionList[i]
        /\ socketConnectionList'[n] = new /\ socketConnectionList' # <<>>
    <3>1. /\ socketConnectionList' \in Seq(EntryForm) /\ Len(socketConnectionList') = n
          /\ \A i \in 1..Len(socketConnectionList) :
               socketConnectionList'[i] = socketConnectionList[i]
          /\ socketConnectionList'[n] = new /\ socketConnectionList' # <<>>
      BY <2>1, <2>4, <2>6, AppendProperties
    <3> QED BY <2>4, <3>1, LenProperties
  <2>8. \A i \in DOMAIN socketConnectionList' : i \in DOMAIN socketConnectionList \/ i = n
    BY <2>4, <2>7
  <2>9. Upgrade!LowestFree \notin read_fds
    BY <1>1, <2>2 DEF UpgradeInv, UpgradeBound, Upgrade!uevent_fd, Upgrade!ServerSocket
  <2>10. Upgrade!TypeOK'
    BY <1>1, <1>2, <2>1, <2>5, <2>7 DEF UpgradeInv, Upgrade!TypeOK, EntryForm
  <2>11. UpgradeBound'
    BY <1>1, <2>1, <2>6, <2>7, <2>9 DEF UpgradeBound
  <2>12. \A i \in DOMAIN backlog' : i + 1 \in DOMAIN backlog /\ i + 1 # 1
    BY <2>4, <2>5
  <2>13. OncePlaced'
    <3>1. \A i, j \in DOMAIN backlog' : i # j => backlog'[i] # backlog'[j]
      BY <2>4, <2>5, <2>12 DEF UpgradeInv, OncePlaced
    <3>2. \A i \in DOMAIN backlog', j \in DOMAIN socketConnectionList' :
            backlog'[i] # socketConnectionList'[j].session
      BY <2>5, <2>6, <2>7, <2>8, <2>12 DEF UpgradeInv, OncePlaced
    <3>3. \A i \in DOMAIN backlog' : at'[backlog'[i]] # "out"
      BY <1>2, <2>5, <2>12 DEF UpgradeInv, OncePlaced
    <3>4. \A j \in DOMAIN socketConnectionList' :
            /\ at'[socketConnectionList'[j].session] # "out"
            /\ \/ socketConnectionList'[j].socketHandle = Upgrade!Closed
               \/ socketConnectionList'[j].socketHandle > Upgrade!ServerSocket
      BY <1>2, <2>2, <2>5, <2>6, <2>7, <2>8 DEF UpgradeInv, OncePlaced, Upgrade!ServerSocket
    <3> QED BY <3>1, <3>2, <3>3, <3>4 DEF OncePlaced
  <2>14. Upgrade!HandlesExact'
    <3>1. \A j \in DOMAIN socketConnectionList :
            /\ socketConnectionList[j].session # Head(backlog)
            /\ \/ socketConnectionList[j].socketHandle # Upgrade!LowestFree
               \/ socketConnectionList[j].socketHandle = Upgrade!Closed
      BY <2>2, <2>5 DEF UpgradeInv, OncePlaced, Upgrade!Handles
    <3>2. Upgrade!LowestFree # Upgrade!Closed
      BY <2>2 DEF Upgrade!Closed
    <3>3. \A i, j \in DOMAIN socketConnectionList' : i # j =>
            /\ socketConnectionList'[i].session # socketConnectionList'[j].session
            /\ \/ socketConnectionList'[i].socketHandle # socketConnectionList'[j].socketHandle
               \/ socketConnectionList'[i].socketHandle = Upgrade!Closed
      BY <2>6, <2>7, <2>8, <3>1, <3>2 DEF UpgradeInv, Upgrade!HandlesExact
    <3>4. \A s \in Sessions : Upgrade!HungUp(s)' => Upgrade!HungUp(s)
      <4> SUFFICES ASSUME NEW s \in Sessions, Upgrade!HungUp(s)' PROVE Upgrade!HungUp(s)
        OBVIOUS
      <4>1. n \in DOMAIN socketConnectionList'
        BY <2>4, <2>7
      <4>2. s # Head(backlog)
        BY <2>6, <2>7, <3>2, <4>1 DEF Upgrade!HungUp
      <4>3. \A i \in DOMAIN backlog : i = 1 \/ (i - 1 \in DOMAIN backlog' /\ i - 1 + 1 = i)
        BY <2>4, <2>5
      <4>4. \A i \in DOMAIN backlog : backlog[i] # s
        BY <2>5, <4>2, <4>3 DEF Upgrade!HungUp
      <4>5. \A i \in DOMAIN socketConnectionList : i \in DOMAIN socketConnectionList'
        BY <2>4, <2>7
      <4> QED BY <2>7, <4>4, <4>5 DEF Upgrade!HungUp
    <3>5. \A s \in Sessions :
            at'[s] # "out" /\ serverOpen' /\ Upgrade!HungUp(s)' => at'[s] = "closed"
      BY <1>1, <1>2, <3>4 DEF UpgradeInv, Upgrade!HandlesExact
    <3> QED BY <3>3, <3>5 DEF Upgrade!HandlesExact
  <2>15. ScanReady'
    BY <1>1, <1>2, <2>1, <2>6, <2>7, <2>8, <2>9 DEF UpgradeInv, ScanReady
  <2>16. \A s \in Sessions : Own(s)'
    BY <1>1, <2>1, OwnKept DEF Serving
  <2> QED BY <2>10, <2>11, <2>13, <2>14, <2>15, <2>16 DEF UpgradeInv
<1> QED BY <1>3, <1>4

(* The manager reads the new client's connection type, or finds it gone.   *)
LEMMA UpgradeType ==
  ASSUME UpgradeInv, Upgrade!recvConnType
  PROVE  UpgradeInv'
<1>1. /\ managerPc = "type" /\ managerPc' = "scan"
      /\ UNCHANGED <<Upgrade!client, toClient, backlog, watched, read_fds, entry, doing,
                     serverOpen, uevents>>
  BY DEF Upgrade!recvConnType
<1>2. UNCHANGED <<at, request, requests, result, late>>
  BY <1>1 DEF Upgrade!client
<1> DEFINE last0 == Len(socketConnectionList)
<1>11. /\ socketConnectionList \in Seq(EntryForm) /\ last0 \in DOMAIN socketConnectionList
      /\ \A i \in DOMAIN socketConnectionList : socketConnectionList[i].session \in Sessions
      /\ socketConnectionList[last0].socketHandle \notin read_fds
  <2>1. socketConnectionList # <<>> /\ socketConnectionList[last0].socketHandle \notin read_fds
    BY <1>1 DEF UpgradeInv, UpgradeBound
  <2>2. last0 # 0
    BY <2>1, UpgradeForms, EmptySeq DEF UpgradeInv
  <2> QED BY <2>1, <2>2, UpgradeForms DEF UpgradeInv
<1>3. PICK n \in DOMAIN socketConnectionList, s \in Sessions :
        /\ n = last0 /\ s = socketConnectionList[n].session
        /\ socketConnectionList[n].socketHandle \notin read_fds
  BY <1>11
<1>4. toManager \in [Sessions -> Seq(MessageForm)]
  BY DEF UpgradeInv, Upgrade!TypeOK, MessageForm
<1> HIDE DEF last0
<1>5. UpgradeBound'
  BY <1>1 DEF UpgradeInv, UpgradeBound
<1>6. \A i \in DOMAIN socketConnectionList : i # n => socketConnectionList[i].session # s
  BY <1>3 DEF UpgradeInv, Upgrade!HandlesExact
<1>7. CASE /\ toManager[s] # <<>> /\ toManager' = [toManager EXCEPT ![s] = Tail(@)]
           /\ UNCHANGED socketConnectionList
  <2>1. /\ Tail(toManager[s]) \in Seq(MessageForm)
        /\ \A i \in DOMAIN Tail(toManager[s]) :
             i + 1 \in DOMAIN toManager[s] /\ Tail(toManager[s])[i] = toManager[s][i + 1]
    <3>1. toManager[s] \in Seq(MessageForm) /\ toManager[s] # <<>>
      BY <1>3, <1>4, <1>7
    <3>2. /\ Tail(toManager[s]) \in Seq(MessageForm)
          /\ Len(Tail(toManager[s])) = Len(toManager[s]) - 1
          /\ \A i \in 1..Len(Tail(toManager[s])) : Tail(toManager[s])[i] = toManager[s][i + 1]
      BY <3>1, HeadTailProperties
    <3>3. /\ DOMAIN Tail(toManager[s]) = 1..Len(Tail(toManager[s]))
          /\ DOMAIN toManager[s] = 1..Len(toManager[s]) /\ Len(toManager[s]) \in Nat
      BY <3>1, <3>2, LenProperties
    <3> QED BY <3>2, <3>3
  <2>2. /\ toManager' \in [Sessions -> Seq(MessageForm)] /\ toManager'[s] = Tail(toManager[s])
        /\ \A x \in Sessions \ {s} : toManager'[x] = toManager[x]
    BY <1>3, <1>4, <1>7, <2>1
  <2>3. Upgrade!TypeOK'
    BY <1>1, <1>2, <1>7, <2>2 DEF UpgradeInv, Upgrade!TypeOK, MessageForm
  <2>4. ScanReady'
    BY <1>1, <1>2, <1>3, <1>11, <1>6, <1>7, <2>2 DEF UpgradeInv, ScanReady
  <2>5. Own(s)'
    <3>1. Own(s) /\ ~Serving(s) /\ ~Serving(s)'
      BY <1>1, <1>3 DEF UpgradeInv, Serving
    <3>2. \A i \in Asked(s)' : i + 1 \in Asked(s) /\ toManager'[s][i] = toManager[s][i + 1]
      BY <2>1, <2>2 DEF Asked
    <3> QED BY <1>1, <1>2, <3>1, <3>2 DEF Own
  <2>6. ASSUME NEW x \in Sessions \ {s} PROVE Own(x)'
    BY <1>1, <2>2, OwnKept DEF Serving
  <2>7. OncePlaced' /\ Upgrade!HandlesExact'
    BY <1>1, <1>7, PlacesKept
  <2> QED BY <1>5, <2>3, <2>4, <2>5, <2>6, <2>7 DEF UpgradeInv
<1>8. CASE /\ at[s] = "closed" /\ socketConnectionList' = Upgrade!closeEntry(n)
           /\ UNCHANGED toManager
  <2>1. /\ OncePlaced' /\ Upgrade!HandlesExact' /\ socketConnectionList' \in Seq(EntryForm)
        /\ DOMAIN socketConnectionList' = DOMAIN socketConnectionList
        /\ \A j \in DOMAIN socketConnectionList :
             /\ socketConnectionList'[j].session = socketConnectionList[j].session
             /\ j # n => socketConnectionList'[j].socketHandle = socketConnectionList[j].socketHandle
    BY <1>1, <1>3, <1>8, CloseKept
  <2>2. Upgrade!TypeOK'
    BY <1>1, <1>2, <1>8, <2>1 DEF UpgradeInv, Upgrade!TypeOK, EntryForm
  <2>3. ScanReady'
    BY <1>1, <1>2, <1>3, <1>8, <2>1 DEF UpgradeInv, ScanReady
  <2>4. \A x \in Sessions : Own(x)'
    BY <1>1, <1>8, OwnKept DEF Serving
  <2> QED BY <1>5, <2>1, <2>2, <2>3, <2>4 DEF UpgradeInv
<1> QED BY <1>3, <1>7, <1>8 DEF Upgrade!recvConnType, last0

LEMMA UpgradeScan ==
  ASSUME UpgradeInv, Upgrade!scanEnd \/ Upgrade!CleanupOpenHandles
  PROVE  UpgradeInv'
<1>1. /\ UNCHANGED <<Upgrade!client, toManager, toClient, doing, uevents>>
      /\ watched' = {} /\ read_fds' = {} /\ entry' = 1 /\ managerPc' \in {"select", "crashed"}
      /\ \/ UNCHANGED <<socketConnectionList, backlog, serverOpen>>
         \/ socketConnectionList' = <<>> /\ backlog' = <<>> /\ serverOpen' = FALSE
  BY DEF Upgrade!scanEnd, Upgrade!CleanupOpenHandles, Upgrade!wire
<1>2. UNCHANGED <<at, request, requests, result, late>>
  BY <1>1 DEF Upgrade!client
<1>3. Upgrade!TypeOK'
  <2>1. backlog' \in Seq(Sessions) /\ socketConnectionList' \in Seq(EntryForm)
    BY <1>1, UpgradeForms, EmptySeq DEF UpgradeInv
  <2> QED BY <1>1, <1>2, <2>1 DEF UpgradeInv, Upgrade!TypeOK, EntryForm
<1>4. UpgradeBound' /\ ScanReady'
  BY <1>1 DEF UpgradeBound, ScanReady
<1>5. OncePlaced' /\ Upgrade!HandlesExact'
  <2>1. CASE UNCHANGED <<socketConnectionList, backlog, serverOpen>>
    BY <1>1, <2>1, PlacesKept
  <2>2. CASE socketConnectionList' = <<>> /\ backlog' = <<>> /\ serverOpen' = FALSE
    <3>1. DOMAIN socketConnectionList' = {} /\ DOMAIN backlog' = {}
      BY <2>2
    <3> QED BY <2>2, <3>1 DEF OncePlaced, Upgrade!HandlesExact
  <2> QED BY <1>1, <2>1, <2>2
<1>6. \A s \in Sessions : Own(s)'
  BY <1>1, OwnKept DEF Serving
<1> QED BY <1>3, <1>4, <1>5, <1>6 DEF UpgradeInv

(* Only the connection of a client that is gone is closed.                 *)
LEMMA UpgradeGone ==
  ASSUME UpgradeInv, Upgrade!recvClientGone
  PROVE  UpgradeInv'
<1> DEFINE i == Upgrade!This
<1>1. /\ Upgrade!Selected /\ managerPc = "scan" /\ toManager[Upgrade!Client] = <<>>
      /\ socketConnectionList' = Upgrade!closeEntry(i) /\ entry' = i + 1
      /\ UNCHANGED <<Upgrade!client, managerPc, watched, read_fds, doing, serverOpen, uevents>>
      /\ UNCHANGED <<toManager, toClient, backlog>>
  BY DEF Upgrade!recvClientGone, Upgrade!Received, Upgrade!wire, Upgrade!Selected
<1>2. UNCHANGED <<at, request, requests, result, late>>
  BY <1>1 DEF Upgrade!client
<1>3. /\ i \in DOMAIN socketConnectionList /\ i >= entry /\ i \in Nat
      /\ socketConnectionList[i].socketHandle \in read_fds
      /\ Upgrade!Client = socketConnectionList[i].session
  BY <1>1, ThisProperties
<1> HIDE DEF i
<1>4. at[socketConnectionList[i].session] = "closed"
  BY <1>1, <1>3 DEF UpgradeInv, ScanReady
<1>5. /\ OncePlaced' /\ Upgrade!HandlesExact' /\ socketConnectionList' \in Seq(EntryForm)
      /\ DOMAIN socketConnectionList' = DOMAIN socketConnectionList
      /\ \A j \in DOMAIN socketConnectionList :
           /\ socketConnectionList'[j].session = socketConnectionList[j].session
           /\ j # i => socketConnectionList'[j].socketHandle = socketConnectionList[j].socketHandle
  BY <1>1, <1>3, <1>4, CloseKept
<1>6. Upgrade!TypeOK'
  <2>1. entry' \in Nat
    BY <1>1, <1>3
  <2>2. socketConnectionList' \in Seq([socketHandle : Int, session : Sessions])
    BY <1>5 DEF EntryForm
  <2> QED BY <1>1, <1>2, <2>1, <2>2 DEF UpgradeInv, Upgrade!TypeOK
<1>7. UpgradeBound'
  BY <1>1, <1>3 DEF UpgradeInv, UpgradeBound
<1>8. DOMAIN socketConnectionList \subseteq Nat /\ entry \in Nat
  <2>1. DOMAIN socketConnectionList \subseteq Nat
    BY UpgradeForms DEF UpgradeInv
  <2>2. entry \in Nat
    BY DEF UpgradeInv, Upgrade!TypeOK
  <2> QED BY <2>1, <2>2
<1>9. \A j \in DOMAIN socketConnectionList : j >= i + 1 => j >= entry /\ j # i
  BY <1>3, <1>8
<1>10. ScanReady'
  BY <1>1, <1>2, <1>5, <1>9 DEF UpgradeInv, ScanReady
<1>11. \A s \in Sessions : Own(s)'
  BY <1>1, OwnKept DEF Serving
<1> QED BY <1>5, <1>6, <1>7, <1>10, <1>11 DEF UpgradeInv

LEMMA UpgradePerform ==
  ASSUME UpgradeInv, Upgrade!performUpdate
  PROVE  UpgradeInv'
<1>13. Upgrade!Selected
  BY DEF Upgrade!performUpdate
<1>3. PICK i \in DOMAIN socketConnectionList, c \in Sessions :
        /\ i = Upgrade!This /\ c = Upgrade!Client
        /\ i >= entry /\ i \in Nat /\ i >= 1 /\ c = socketConnectionList[i].session
  BY <1>13, ThisProperties, UpgradeForms DEF UpgradeInv
<1>1. /\ managerPc = "scan" /\ managerPc' = "update" /\ entry' = i
      /\ toManager[c] # <<>>
      /\ Head(toManager[c]).command = "UPGRADE_MANAGER_OTA_UPGRADE_CMD"
      /\ toManager' = [toManager EXCEPT ![c] = <<>>] /\ doing' = Head(toManager[c]).id
      /\ UNCHANGED <<Upgrade!client, toClient, backlog, socketConnectionList, watched, read_fds,
                     serverOpen, uevents>>
  BY <1>3 DEF Upgrade!performUpdate, Upgrade!Received, Upgrade!Selected
<1>2. UNCHANGED <<at, request, requests, result, late>>
  BY <1>1 DEF Upgrade!client
<1>4. /\ toManager \in [Sessions -> Seq(MessageForm)] /\ entry \in Nat
      /\ DOMAIN socketConnectionList \subseteq Nat
      /\ \A j \in DOMAIN socketConnectionList : socketConnectionList[j].session \in Sessions
  <2>1. toManager \in [Sessions -> Seq(MessageForm)] /\ entry \in Nat
    BY DEF UpgradeInv, Upgrade!TypeOK, MessageForm
  <2>2. /\ DOMAIN socketConnectionList \subseteq Nat
        /\ \A j \in DOMAIN socketConnectionList : socketConnectionList[j].session \in Sessions
    BY UpgradeForms DEF UpgradeInv
  <2> QED BY <2>1, <2>2
<1>5. /\ Head(toManager[c]) \in MessageForm /\ Head(toManager[c]) = toManager[c][1]
      /\ 1 \in DOMAIN toManager[c]
  <2>1. toManager[c] \in Seq(MessageForm) /\ toManager[c] # <<>>
    BY <1>1, <1>3, <1>4
  <2>2. Len(toManager[c]) # 0 /\ Len(toManager[c]) \in Nat /\ DOMAIN toManager[c] = 1..Len(toManager[c])
    BY <2>1, EmptySeq, LenProperties
  <2> QED BY <2>1, <2>2, HeadTailProperties
<1>6. /\ toManager' \in [Sessions -> Seq(MessageForm)] /\ toManager'[c] = <<>>
      /\ \A x \in Sessions \ {c} : toManager'[x] = toManager[x]
  <2>1. <<>> \in Seq(MessageForm)
    BY EmptySeq
  <2> QED BY <1>1, <1>3, <1>4, <2>1
<1>7. doing' \in 0..MaxCalls
  BY <1>1, <1>5 DEF MessageForm
<1>8. Upgrade!TypeOK'
  BY <1>1, <1>2, <1>3, <1>6, <1>7 DEF UpgradeInv, Upgrade!TypeOK, MessageForm
<1>9. UpgradeBound'
  BY <1>1, <1>3 DEF UpgradeBound
<1>10. ScanReady'
  <2>1. \A j \in DOMAIN socketConnectionList :
          j > i => j >= entry /\ socketConnectionList[j].session # c
    BY <1>3, <1>4 DEF UpgradeInv, Upgrade!HandlesExact
  <2> QED BY <1>1, <1>2, <1>4, <1>6, <2>1 DEF UpgradeInv, ScanReady
<1>11. Own(c)'
  <2>1. Own(c) /\ ~Serving(c)
    BY <1>1, <1>3 DEF UpgradeInv, Serving
  <2>2. 1 \in Asked(c) /\ Asked(c)' = {}
    <3>1. 1 \in Asked(c)
      BY <1>1, <1>5 DEF Asked
    <3>2. DOMAIN toManager'[c] = {}
      BY <1>6
    <3> QED BY <3>1, <3>2 DEF Asked
  <2>3. ~late[c] /\ at[c] = "waiting" => doing' = request[c] /\ toClient[c] = <<>>
    BY <1>1, <1>5, <2>1, <2>2 DEF Own
  <2> QED BY <1>1, <1>2, <2>1, <2>2, <2>3 DEF Own
<1>12. ASSUME NEW x \in Sessions \ {c} PROVE Own(x)'
  <2>1. ~Serving(x) /\ ~Serving(x)'
    BY <1>1, <1>3 DEF Serving
  <2>2. Asked(x)' = Asked(x) /\ Own(x)
    BY <1>6 DEF Asked, UpgradeInv
  <2> QED BY <1>1, <1>2, <1>6, <2>1, <2>2 DEF Own
<1>14. OncePlaced' /\ Upgrade!HandlesExact'
  BY <1>1, PlacesKept
<1> QED BY <1>8, <1>9, <1>10, <1>11, <1>12, <1>14 DEF UpgradeInv

LEMMA UpgradeResult ==
  ASSUME UpgradeInv, Upgrade!sendResult
  PROVE  UpgradeInv'
<1>1. /\ managerPc = "update" /\ managerPc' = "scan" /\ doing' = 0 /\ entry' = entry + 1
      /\ UNCHANGED <<Upgrade!client, toManager, backlog, watched, read_fds, serverOpen, uevents>>
  BY DEF Upgrade!sendResult
<1>2. UNCHANGED <<at, request, requests, result, late>>
  BY <1>1 DEF Upgrade!client
<1>3. PICK c \in Sessions :
        /\ entry \in DOMAIN socketConnectionList /\ c = socketConnectionList[entry].session
        /\ c = Upgrade!Client /\ entry \in Nat /\ DOMAIN socketConnectionList \subseteq Nat
  <2>1. entry \in DOMAIN socketConnectionList
    BY <1>1 DEF UpgradeInv, UpgradeBound
  <2>2. Upgrade!Client = socketConnectionList[entry].session
    BY <1>1 DEF Upgrade!Client
  <2>3. /\ socketConnectionList[entry].session \in Sessions
        /\ entry \in Nat /\ DOMAIN socketConnectionList \subseteq Nat
    BY <2>1, UpgradeForms DEF UpgradeInv
  <2> QED BY <2>1, <2>2, <2>3
<1>4. doing \in 0..MaxCalls /\ toClient \in [Sessions -> Seq(0..MaxCalls)] /\ 0 \in 0..MaxCalls
  BY UpgradeBounds DEF UpgradeInv, Upgrade!TypeOK
<1>5. Serving(c) /\ \A x \in Sessions : (x # c => ~Serving(x)) /\ ~Serving(x)'
  BY <1>1, <1>3 DEF Serving
<1>6. UpgradeBound'
  BY <1>1, <1>3 DEF UpgradeInv, UpgradeBound
<1>7. \A j \in DOMAIN socketConnectionList : j >= entry + 1 => j > entry /\ j # entry
  BY <1>3
<1>8. \A x \in Sessions : Asked(x)' = Asked(x) /\ Own(x)
  BY <1>1 DEF Asked, UpgradeInv
<1>9. CASE /\ toClient' = [toClient EXCEPT ![c] = Append(@, doing)]
           /\ UNCHANGED socketConnectionList
  <2>1. toClient' \in [Sessions -> Seq(0..MaxCalls)]
    BY <1>3, <1>4, <1>9, AppendProperties
  <2>2. Upgrade!TypeOK'
    <3>1. entry' \in Nat /\ doing' \in 0..MaxCalls
      BY <1>1, <1>3, <1>4
    <3> QED BY <1>1, <1>2, <1>9, <2>1, <3>1 DEF UpgradeInv, Upgrade!TypeOK
  <2>3. ScanReady'
    BY <1>1, <1>2, <1>7, <1>9 DEF UpgradeInv, ScanReady
  <2>4. Own(c)'
    <3>1. toClient[c] = <<>> => toClient'[c] = <<doing>>
      BY <1>3, <1>4, <1>9
    <3> QED BY <1>1, <1>2, <1>3, <1>5, <1>8, <3>1 DEF Own
  <2>5. ASSUME NEW x \in Sessions \ {c} PROVE Own(x)'
    <3>1. toClient'[x] = toClient[x]
      BY <1>3, <1>4, <1>9
    <3> QED BY <1>1, <1>2, <1>5, <1>8, <3>1 DEF Own
  <2>6. OncePlaced' /\ Upgrade!HandlesExact'
    BY <1>1, <1>9, PlacesKept
  <2> QED BY <1>6, <2>2, <2>3, <2>4, <2>5, <2>6 DEF UpgradeInv
<1>10. CASE /\ at[c] = "closed" /\ socketConnectionList' = Upgrade!closeEntry(entry)
            /\ UNCHANGED toClient
  <2>1. /\ OncePlaced' /\ Upgrade!HandlesExact' /\ socketConnectionList' \in Seq(EntryForm)
        /\ DOMAIN socketConnectionList' = DOMAIN socketConnectionList
        /\ \A j \in DOMAIN socketConnectionList :
             /\ socketConnectionList'[j].session = socketConnectionList[j].session
             /\ j # entry =>
                  socketConnectionList'[j].socketHandle = socketConnectionList[j].socketHandle
    BY <1>1, <1>3, <1>10, CloseKept
  <2>2. Upgrade!TypeOK'
    <3>1. entry' \in Nat /\ doing' \in 0..MaxCalls
      BY <1>1, <1>3, <1>4
    <3> QED BY <1>1, <1>2, <1>10, <2>1, <3>1 DEF UpgradeInv, Upgrade!TypeOK, EntryForm
  <2>3. ScanReady'
    BY <1>1, <1>2, <1>7, <1>10, <2>1 DEF UpgradeInv, ScanReady
  <2>4. \A x \in Sessions : Own(x)'
    BY <1>1, <1>2, <1>5, <1>8, <1>10 DEF Own
  <2> QED BY <1>6, <2>1, <2>2, <2>3, <2>4 DEF UpgradeInv
<1> QED BY <1>3, <1>9, <1>10 DEF Upgrade!sendResult

LEMMA UpgradeStep ==
  ASSUME UpgradeInv, [Upgrade!Next]_(Upgrade!vars)
  PROVE  UpgradeInv'
<1>1. CASE Upgrade!Manager
  BY <1>1, UpgradeSelect, UpgradeUevent, UpgradeAccept, UpgradeType, UpgradeScan, UpgradeGone,
     UpgradePerform, UpgradeResult DEF Upgrade!Manager
<1>2. ASSUME NEW s \in Sessions, Upgrade!Application(s)
      PROVE  UpgradeInv'
  BY <1>2, ApplicationPlaces, ApplicationOwn DEF UpgradeInv
<1>3. CASE UNCHANGED Upgrade!vars
  <2>1. UNCHANGED <<at, request, requests, result, late, toManager, toClient, backlog, managerPc,
                    socketConnectionList, watched, read_fds, entry, doing, serverOpen, uevents>>
    BY <1>3 DEF Upgrade!vars, Upgrade!client, Upgrade!wire, Upgrade!manager
  <2>2. UNCHANGED Upgrade!client
    BY <2>1 DEF Upgrade!client
  <2>3. Upgrade!TypeOK'
    BY <2>1 DEF UpgradeInv, Upgrade!TypeOK
  <2>4. UpgradeBound' /\ ScanReady'
    BY <2>1 DEF UpgradeInv, UpgradeBound, ScanReady, Upgrade!Handles
  <2>5. \A s \in Sessions : Own(s)'
    BY <2>1, <2>2, OwnKept DEF Serving
  <2> QED BY <2>1, <2>2, <2>3, <2>4, <2>5, PlacesKept DEF UpgradeInv
<1> QED BY <1>1, <1>2, <1>3 DEF Upgrade!Next

LEMMA UpgradeCorrect == Spec => []UpgradeInv
<1>1. Init => UpgradeInv
  BY Begins, UpgradeInit
<1>2. UpgradeInv /\ [Next]_vars => UpgradeInv'
  BY UpgradeMoves, UpgradeStep
<1> QED BY <1>1, <1>2, PTL DEF Spec

(* For any number of sessions that come and go in any order: no two        *)
(* entries share a descriptor, a session that is not gone has exactly one  *)
(* connection, and the result an application takes is that of its own last *)
(* request unless it gave one up (main loop of upgrade/upgrademanager.c).  *)
THEOREM ConnectionsCorrect == Spec => []Connections
<1>1. UpgradeInv => Connections
  BY DEF UpgradeInv, Own, Connections, Upgrade!OwnResult
<1> QED BY <1>1, UpgradeCorrect, PTL

-----------------------------------------------------------------------------
(* CardLink: one command on the line, and the reply is its own.            *)

LEMMA LinkMoves == [Next]_vars => [Link!Next]_(Link!vars)
BY DEF Next, Of, vars, linkVars, Link!vars

LEMMA LinkFinite == ASSUME NEW S PROVE Link!IsFiniteSet(S) <=> IsFiniteSet(S)
BY DEF Link!IsFiniteSet, IsFiniteSet

LEMMA LinkCount == ASSUME NEW S PROVE Link!Cardinality(S) = Cardinality(S)
BY DEF Link!Cardinality, Cardinality

LEMMA LinkBounds ==
  /\ IsFiniteSet(Threads) /\ Connected \in BOOLEAN /\ MaxCommands \in Nat /\ MaxEvents \in Nat
  /\ CommandRetry \in Nat /\ ReceiveRetry \in Nat /\ NakRetry \in Nat
<1>1. Link!LinkConstants
  BY ServiceBounds
<1> QED BY <1>1, LinkFinite DEF Link!LinkConstants

ToReader == [kind : {"COMMAND", "NAK", "CANCEL"}, id : 0..MaxCommands]
FromReader ==
  [kind : {"ACK", "NAK", "STX", "LEN", "BODY", "DLE", "EOT"}, id : 0..MaxCommands, good : BOOLEAN]
CallForm ==
  [id : 0..MaxCommands, retry : Nat, crc : Nat, nak : BOOLEAN, ret : Link!Results,
   reply : 0..MaxCommands]

LinkTyped == Link!TypeOK /\ tx \in Seq(ToReader) /\ rx \in Seq(FromReader)

(* Every command has a number of its own; the reader knows none that was   *)
(* not sent.                                                               *)
LinkIds ==
  /\ \A t \in Threads : call[t].id =< issued
  /\ \A t, u \in Threads : t # u => call[t].id # call[u].id \/ call[t].id = 0
  /\ \A t \in Threads : linkPc[t] \in Link!Executing \cup {"enter"} => call[t].id > 0
  /\ unit.last =< issued /\ unit.busy \in {0, unit.last}
  /\ \A k \in DOMAIN tx : tx[k].id =< issued /\ (tx[k].kind # "COMMAND" => tx[k].id = 0)

AtAck(i) == \E t \in Threads : linkPc[t] = "ack" /\ call[t].id = i

(* At most one command is on its way: that of the thread that waits for    *)
(* its acknowledgement, which the reader has not sent.                     *)
OneCommand ==
  /\ \A k, l \in DOMAIN tx : tx[k].kind = "COMMAND" /\ tx[l].kind = "COMMAND" => k = l
  /\ \A k \in DOMAIN tx : tx[k].kind = "COMMAND" =>
       /\ AtAck(tx[k].id) /\ unit.last # tx[k].id
       /\ \A l \in DOMAIN rx : rx[l].kind # "ACK"
  /\ \A t \in Threads : linkPc[t] \in {"enter", "send"} => unit.last # call[t].id

AfterAck == {"first", "second", "length", "body", "garbled"}

(* At most one acknowledgement is, for the command the reader took last,   *)
(* and every reply behind it is that command's.                            *)
OneAck ==
  /\ \A k, l \in DOMAIN rx : rx[k].kind = "ACK" /\ rx[l].kind = "ACK" => k = l
  /\ \A k \in DOMAIN rx : rx[k].kind = "ACK" => AtAck(unit.last)
  /\ \A k, l \in DOMAIN rx :
       rx[k].kind = "ACK" /\ rx[l].kind = "BODY" /\ l > k => rx[l].id = unit.last
  /\ \A t \in Threads : linkPc[t] \in AfterAck =>
       /\ unit.last = call[t].id
       /\ \A l \in DOMAIN rx : rx[l].kind = "BODY" => rx[l].id = unit.last

LinkOrder == ~astray /\ ~reinit => OneCommand /\ OneAck

LinkInv == LinkTyped /\ Link!OneAtATime /\ LinkIds /\ LinkOrder /\ Link!OwnReply

(* How many threads are in the places P, when one of them moves.           *)
At(P) == {u \in Threads : linkPc[u] \in P}
In(l, P) == IF l \in P THEN 1 ELSE 0

(* One thread moves: a count changes by whether it leaves or enters.       *)
LEMMA CountMoved ==
  ASSUME NEW P, NEW t \in Threads, NEW l, linkPc \in [Threads -> Link!PCs],
         linkPc' = [linkPc EXCEPT ![t] = l]
  PROVE  /\ Cardinality(At(P)) \in Nat /\ Cardinality(At(P)') \in Nat
         /\ Cardinality(At(P)') + In(linkPc[t], P) = Cardinality(At(P)) + In(l, P)
<1>1. IsFiniteSet(At(P)) /\ IsFiniteSet(At(P)')
  BY LinkBounds, FS_Subset DEF At
<1>2. Cardinality(At(P)) \in Nat /\ Cardinality(At(P)') \in Nat
  BY <1>1, FS_CardinalityType
<1>3. linkPc'[t] = l /\ \A u \in Threads \ {t} : linkPc'[u] = linkPc[u]
  OBVIOUS
<1>4. CASE l \in P /\ linkPc[t] \in P
  <2>1. At(P)' = At(P)
    BY <1>3, <1>4 DEF At
  <2> QED BY <1>2, <1>4, <2>1 DEF In
<1>5. CASE l \notin P /\ linkPc[t] \notin P
  <2>1. At(P)' = At(P)
    BY <1>3, <1>5 DEF At
  <2> QED BY <1>2, <1>5, <2>1 DEF In
<1>6. CASE l \in P /\ linkPc[t] \notin P
  <2>1. At(P)' = At(P) \cup {t} /\ t \notin At(P)
    BY <1>3, <1>6 DEF At
  <2>2. Cardinality(At(P)') = Cardinality(At(P)) + 1
    BY <1>1, <2>1, FS_AddElement
  <2> QED BY <1>2, <1>6, <2>2 DEF In
<1>7. CASE l \notin P /\ linkPc[t] \in P
  <2>1. At(P)' = At(P) \ {t} /\ t \in At(P)
    BY <1>3, <1>7 DEF At
  <2>2. Cardinality(At(P)') = Cardinality(At(P)) - 1
    BY <1>1, <2>1, FS_RemoveElement
  <2> QED BY <1>2, <1>7, <2>2 DEF In
<1> QED BY <1>4, <1>5, <1>6, <1>7

OpeningPCs == {"connect2", "disconnect2"}

(* OneAtATime in terms of At.                                              *)
LEMMA OneAtATimeCounts ==
  Link!OneAtATime <=>
    (~reinit => /\ sem.execute + Cardinality(At(Link!Executing)) = 1
                /\ sem.cancel + Cardinality(At(Link!Cancelling)) = 1
                /\ sem.connect + Cardinality(At(OpeningPCs)) = 1)
BY LinkCount DEF Link!OneAtATime, Link!Inside, Link!Opening, At, OpeningPCs

(* A step that takes or gives back what it enters or leaves.               *)
Balanced(t, l) ==
  /\ linkPc' = [linkPc EXCEPT ![t] = l] /\ l \in Link!PCs
  /\ sem'.execute + In(l, Link!Executing) = sem.execute + In(linkPc[t], Link!Executing)
  /\ sem'.cancel + In(l, Link!Cancelling) = sem.cancel + In(linkPc[t], Link!Cancelling)
  /\ sem'.connect + In(l, OpeningPCs) = sem.connect + In(linkPc[t], OpeningPCs)

LEMMA BalancedKeeps ==
  ASSUME Link!TypeOK, Link!OneAtATime, UNCHANGED reinit, NEW t \in Threads, NEW l, Balanced(t, l),
         sem' \in [{"connect", "execute", "cancel"} -> Nat]
  PROVE  Link!OneAtATime'
<1>1. linkPc \in [Threads -> Link!PCs] /\ linkPc' = [linkPc EXCEPT ![t] = l]
  BY DEF Link!TypeOK, Balanced
<1>2. /\ sem.execute \in Nat /\ sem.cancel \in Nat /\ sem.connect \in Nat
      /\ sem'.execute \in Nat /\ sem'.cancel \in Nat /\ sem'.connect \in Nat
  BY DEF Link!TypeOK
<1> DEFINE Moved(P) == Cardinality(At(P)') + In(linkPc[t], P) = Cardinality(At(P)) + In(l, P)
           Counts(P) == Cardinality(At(P)) \in Nat /\ Cardinality(At(P)') \in Nat
<1>7. /\ Counts(Link!Executing) /\ Counts(Link!Cancelling) /\ Counts(OpeningPCs)
      /\ Moved(Link!Executing) /\ Moved(Link!Cancelling) /\ Moved(OpeningPCs)
  BY <1>1, CountMoved
<1>8. \A x, P : In(x, P) \in {0, 1}
  BY DEF In
<1>3. ASSUME ~reinit PROVE sem'.execute + Cardinality(At(Link!Executing)') = 1
  <2>1. sem.execute + Cardinality(At(Link!Executing)) = 1
    BY <1>3, OneAtATimeCounts
  <2>2. sem'.execute + In(l, Link!Executing) = sem.execute + In(linkPc[t], Link!Executing)
    BY DEF Balanced
  <2> QED BY <1>2, <1>7, <1>8, <2>1, <2>2
<1>4. ASSUME ~reinit PROVE sem'.cancel + Cardinality(At(Link!Cancelling)') = 1
  <2>1. sem.cancel + Cardinality(At(Link!Cancelling)) = 1
    BY <1>4, OneAtATimeCounts
  <2>2. sem'.cancel + In(l, Link!Cancelling) = sem.cancel + In(linkPc[t], Link!Cancelling)
    BY DEF Balanced
  <2> QED BY <1>2, <1>7, <1>8, <2>1, <2>2
<1>5. ASSUME ~reinit PROVE sem'.connect + Cardinality(At(OpeningPCs)') = 1
  <2>1. sem.connect + Cardinality(At(OpeningPCs)) = 1
    BY <1>5, OneAtATimeCounts
  <2>2. sem'.connect + In(l, OpeningPCs) = sem.connect + In(linkPc[t], OpeningPCs)
    BY DEF Balanced
  <2> QED BY <1>2, <1>7, <1>8, <2>1, <2>2
<1>6. (~reinit' => /\ sem'.execute + Cardinality(At(Link!Executing)') = 1
                   /\ sem'.cancel + Cardinality(At(Link!Cancelling)') = 1
                   /\ sem'.connect + Cardinality(At(OpeningPCs)') = 1)
  BY <1>3, <1>4, <1>5
<1> QED BY <1>6, LinkCount DEF Link!OneAtATime, Link!Inside, Link!Opening, At, OpeningPCs

(* Two threads are never on the line together.                             *)
LEMMA Exclusive ==
  ASSUME Link!TypeOK, Link!OneAtATime, ~reinit,
         NEW t \in Threads, NEW u \in Threads,
         linkPc[t] \in Link!Executing, linkPc[u] \in Link!Executing
  PROVE  t = u
<1> DEFINE A == At(Link!Executing)
<1>1. IsFiniteSet(A) /\ {t, u} \subseteq A
  BY LinkBounds, FS_Subset DEF At
<1>2. Cardinality(A) \in Nat /\ sem.execute \in Nat /\ sem.execute + Cardinality(A) = 1
  BY <1>1, FS_CardinalityType, OneAtATimeCounts DEF Link!TypeOK
<1>3. Cardinality({t, u}) =< Cardinality(A)
  BY <1>1, FS_Subset
<1>4. ASSUME t # u PROVE FALSE
  <2>1. IsFiniteSet({t}) /\ Cardinality({t}) = 1 /\ u \notin {t} /\ {t, u} = {t} \cup {u}
    BY <1>4, FS_Singleton
  <2>2. Cardinality({t, u}) = 2
    BY <2>1, FS_AddElement
  <2> QED BY <1>2, <1>3, <2>2
<1> QED BY <1>4

(* What a thread reads leaves a later part of what was there.              *)
Later(q, s) == \E n \in Nat : \A k \in DOMAIN q : k + n \in DOMAIN s /\ q[k] = s[k + n]

(* What is left of a stream after reading is a later part of it.           *)
LEMMA LaterParts ==
  ASSUME NEW S, NEW s \in Seq(S)
  PROVE  /\ DOMAIN s = 1..Len(s) /\ Len(s) \in Nat
         /\ Later(s, s) /\ Later(<<>>, s)
         /\ s # <<>> => /\ Tail(s) \in Seq(S) /\ Later(Tail(s), s)
                        /\ Head(s) \in S /\ 1 \in DOMAIN s /\ Head(s) = s[1]
                        /\ \A k \in DOMAIN Tail(s) : k + 1 \in DOMAIN s /\ Tail(s)[k] = s[k + 1]
         /\ \A n \in 0..Len(s) : /\ SubSeq(s, n + 1, Len(s)) \in Seq(S)
                                 /\ Later(SubSeq(s, n + 1, Len(s)), s)
<1>1. DOMAIN s = 1..Len(s) /\ Len(s) \in Nat
  BY LenProperties
<1>2. Later(s, s)
  <2>1. \A k \in DOMAIN s : k + 0 \in DOMAIN s /\ s[k] = s[k + 0]
    BY <1>1
  <2> QED BY <2>1 DEF Later
<1>3. Later(<<>>, s)
  <2>1. DOMAIN <<>> = {}
    OBVIOUS
  <2> QED BY <2>1 DEF Later
<1>4. ASSUME s # <<>>
      PROVE  /\ Tail(s) \in Seq(S) /\ Later(Tail(s), s)
             /\ Head(s) \in S /\ 1 \in DOMAIN s /\ Head(s) = s[1]
             /\ \A k \in DOMAIN Tail(s) : k + 1 \in DOMAIN s /\ Tail(s)[k] = s[k + 1]
  <2>1. /\ Tail(s) \in Seq(S) /\ Len(Tail(s)) = Len(s) - 1 /\ Head(s) \in S
        /\ \A k \in 1..Len(Tail(s)) : Tail(s)[k] = s[k + 1]
    BY <1>4, HeadTailProperties
  <2>2. DOMAIN Tail(s) = 1..Len(Tail(s)) /\ Len(Tail(s)) \in Nat
    BY <2>1, LenProperties
  <2>3. Len(s) # 0
    BY <1>4, EmptySeq
  <2>4. \A k \in DOMAIN Tail(s) : k + 1 \in DOMAIN s /\ Tail(s)[k] = s[k + 1]
    BY <1>1, <2>1, <2>2
  <2>5. Later(Tail(s), s)
    BY <2>4 DEF Later
  <2>6. Head(s) = s[1] /\ 1 \in DOMAIN s
    BY <1>1, <2>3
  <2> QED BY <2>1, <2>4, <2>5, <2>6
<1>5. ASSUME NEW n \in 0..Len(s)
      PROVE  /\ SubSeq(s, n + 1, Len(s)) \in Seq(S)
             /\ Later(SubSeq(s, n + 1, Len(s)), s)
  <2> DEFINE q == SubSeq(s, n + 1, Len(s))
  <2>1. /\ q \in Seq(S) /\ Len(q) = Len(s) - n
        /\ \A k \in 1..(Len(s) - n) : q[k] = s[k + n]
    <3>1. \A i \in (n + 1)..Len(s) : s[i] \in S
      BY <1>1, ElementOfSeq
    <3>0. n + 1 \in Int /\ Len(s) \in Int
      BY <1>1
    <3>2. /\ q \in Seq(S)
          /\ Len(q) = IF n + 1 =< Len(s) THEN Len(s) - (n + 1) + 1 ELSE 0
          /\ \A i \in 1..(Len(s) - (n + 1) + 1) : q[i] = s[n + 1 + i - 1]
      BY ONLY <3>0, <3>1, SubSeqProperties
    <3> HIDE DEF q
    <3>3. Len(q) = Len(s) - n
      BY <1>1, <3>2
    <3>4. ASSUME NEW k \in 1..(Len(s) - n) PROVE q[k] = s[k + n]
      <4>1. k \in 1..(Len(s) - (n + 1) + 1) /\ n + 1 + k - 1 = k + n
        BY <1>1
      <4> QED BY <3>2, <4>1
    <3> QED BY <3>2, <3>3, <3>4
  <2> HIDE DEF q
  <2>2. DOMAIN q = 1..Len(q)
    BY <2>1, LenProperties
  <2>3. \A k \in DOMAIN q : k + n \in DOMAIN s /\ q[k] = s[k + n]
    BY <1>1, <2>1, <2>2
  <2>4. Later(q, s)
    BY <1>1, <2>3 DEF Later
  <2> QED BY <2>1, <2>4 DEF q
<1> QED BY <1>1, <1>2, <1>3, <1>4, <1>5

LEMMA Appended ==
  ASSUME NEW S, NEW s \in Seq(S), NEW e \in S
  PROVE  /\ Append(s, e) \in Seq(S) /\ Len(s) \in Nat
         /\ DOMAIN s = 1..Len(s) /\ DOMAIN Append(s, e) = 1..(Len(s) + 1)
         /\ \A k \in DOMAIN Append(s, e) :
              \/ k \in DOMAIN s /\ Append(s, e)[k] = s[k]
              \/ k = Len(s) + 1 /\ Append(s, e)[k] = e
         /\ Append(s, e)[Len(s) + 1] = e
<1> DEFINE q == Append(s, e)
<1>1. /\ q \in Seq(S) /\ Len(q) = Len(s) + 1
      /\ \A k \in 1..Len(s) : q[k] = s[k]
      /\ q[Len(s) + 1] = e
  BY AppendProperties
<1>2. DOMAIN s = 1..Len(s) /\ Len(s) \in Nat
  BY LenProperties
<1> HIDE DEF q
<1>3. DOMAIN q = 1..Len(q)
  BY <1>1, LenProperties
<1> QED BY <1>1, <1>2, <1>3 DEF q

LEMMA LinkForms ==
  ASSUME LinkTyped, NEW t \in Threads
  PROVE  /\ linkPc \in [Threads -> Link!PCs] /\ call \in [Threads -> CallForm]
         /\ call[t] \in CallForm /\ call[t].id \in 0..MaxCommands
         /\ call[t].retry \in Nat /\ call[t].crc \in Nat /\ call[t].nak \in BOOLEAN
         /\ call[t].ret \in Link!Results /\ call[t].reply \in 0..MaxCommands
         /\ sem.execute \in Nat /\ sem.cancel \in Nat /\ sem.connect \in Nat
         /\ DOMAIN sem = {"connect", "execute", "cancel"}
         /\ sem \in [{"connect", "execute", "cancel"} -> Nat]
<1>1. linkPc \in [Threads -> Link!PCs] /\ call \in [Threads -> CallForm]
  BY DEF LinkTyped, Link!TypeOK, CallForm
<1>2. sem \in [{"connect", "execute", "cancel"} -> Nat]
  BY DEF LinkTyped, Link!TypeOK
<1>3. call[t] \in CallForm
  BY <1>1
<1>4. /\ call[t].id \in 0..MaxCommands
      /\ call[t].retry \in Nat /\ call[t].crc \in Nat /\ call[t].nak \in BOOLEAN
      /\ call[t].ret \in Link!Results /\ call[t].reply \in 0..MaxCommands
  BY <1>3 DEF CallForm
<1> QED BY <1>1, <1>2, <1>3, <1>4

(* The reply a call returns is the one it had, or one of those it reads.   *)
Answers ==
  \A u \in Threads : call'[u].ret = "NO_ERROR" =>
    \/ /\ call[u].ret = "NO_ERROR" /\ call'[u].reply = call[u].reply
       /\ call'[u].id = call[u].id
    \/ /\ linkPc[u] \in AfterAck /\ call'[u].id = call[u].id
       /\ \E k \in DOMAIN rx : rx[k].kind = "BODY" /\ call'[u].reply = rx[k].id

(* A step that only takes from the stream and gives no command, no         *)
(* acknowledgement and no place before or after one.                       *)
PlainStep ==
  /\ UNCHANGED <<unit, issued, astray>> /\ Later(rx', rx)
  /\ \/ UNCHANGED tx
     \/ \E m \in ToReader : m.kind # "COMMAND" /\ m.id = 0 /\ tx' = Append(tx, m)
  /\ \A u \in Threads :
       /\ call'[u].id = call[u].id
       /\ linkPc'[u] \in AfterAck => linkPc[u] \in AfterAck
       /\ linkPc'[u] \in {"enter", "send"} => linkPc[u] \in {"enter", "send"}
       /\ linkPc[u] = "ack" => linkPc'[u] = "ack"
       /\ linkPc'[u] \in Link!Executing \cup {"enter"} =>
            linkPc[u] \in Link!Executing \cup {"enter"}

(* A step that sends no command and reads no acknowledgement keeps the     *)
(* order on the line.                                                      *)
LEMMA PlainKeeps ==
  ASSUME LinkTyped, LinkIds, LinkOrder, PlainStep, reinit => reinit', rx' \in Seq(FromReader)
  PROVE  LinkIds' /\ LinkOrder'
<1>1. PICK n \in Nat : \A k \in DOMAIN rx' : k + n \in DOMAIN rx /\ rx'[k] = rx[k + n]
  BY DEF PlainStep, Later
<1>2. \A k \in DOMAIN tx' :
        \/ k \in DOMAIN tx /\ tx'[k] = tx[k]
        \/ tx'[k].kind # "COMMAND" /\ tx'[k].id = 0
  <2>1. CASE UNCHANGED tx
    BY <2>1
  <2>2. ASSUME NEW m \in ToReader, m.kind # "COMMAND", m.id = 0, tx' = Append(tx, m)
        PROVE  \A k \in DOMAIN tx' :
                 \/ k \in DOMAIN tx /\ tx'[k] = tx[k]
                 \/ tx'[k].kind # "COMMAND" /\ tx'[k].id = 0
    BY <2>2, Appended DEF LinkTyped
  <2> QED BY <2>1, <2>2 DEF PlainStep
<1>3. UNCHANGED <<unit, issued, astray>>
  BY DEF PlainStep
<1>4. \A u \in Threads :
        /\ call'[u].id = call[u].id
        /\ linkPc'[u] \in AfterAck => linkPc[u] \in AfterAck
        /\ linkPc'[u] \in {"enter", "send"} => linkPc[u] \in {"enter", "send"}
        /\ linkPc[u] = "ack" => linkPc'[u] = "ack"
        /\ linkPc'[u] \in Link!Executing \cup {"enter"} =>
             linkPc[u] \in Link!Executing \cup {"enter"}
  BY DEF PlainStep
<1>5. issued \in 0..MaxCommands
  BY DEF LinkTyped, Link!TypeOK
<1>6. LinkIds'
  BY <1>2, <1>3, <1>4, <1>5, LinkBounds DEF LinkIds
<1>7. \A i : AtAck(i) => AtAck(i)'
  BY <1>4 DEF AtAck
<1>8. ASSUME ~astray', ~reinit' PROVE OneCommand' /\ OneAck'
  <2>1. OneCommand /\ OneAck
    BY <1>3, <1>8 DEF LinkOrder
  <2>2. OneCommand'
    BY <1>1, <1>2, <1>3, <1>4, <1>7, <2>1 DEF OneCommand
  <2>3. \A k, l \in DOMAIN rx' : rx'[k].kind = "ACK" /\ rx'[l].kind = "ACK" => k = l
    <3>1. \A k \in DOMAIN rx' : k \in Int
      BY LenProperties
    <3> QED BY <1>1, <2>1, <3>1 DEF OneAck
  <2>4. \A k, l \in DOMAIN rx' :
       rx'[k].kind = "ACK" /\ rx'[l].kind = "BODY" /\ l > k => rx'[l].id = unit.last
    <3>1. \A k \in DOMAIN rx' : k \in Int
      BY LenProperties
    <3> QED BY <1>1, <2>1, <3>1 DEF OneAck
  <2>5. OneAck'
    BY <1>1, <1>3, <1>4, <1>7, <2>1, <2>3, <2>4 DEF OneAck
  <2> QED BY <2>2, <2>5
<1> QED BY <1>6, <1>8 DEF LinkOrder

(* A step of a thread in four parts: where it goes with the semaphores it  *)
(* takes and gives back, its call, the streams, and what is left alone.    *)
Going(t, l) ==
  /\ Balanced(t, l) /\ sem' \in [{"connect", "execute", "cancel"} -> Nat]
  /\ l \in AfterAck => linkPc[t] \in AfterAck
  /\ l \in {"enter", "send"} => linkPc[t] \in {"enter", "send"}
  /\ linkPc[t] = "ack" => l = "ack"
  /\ l \in Link!Executing => linkPc[t] \in Link!Executing \cup {"enter"}
  /\ l # "enter"

Calling(t, c) ==
  /\ call' = [call EXCEPT ![t] = c] /\ c \in CallForm /\ c.id = call[t].id
  /\ c.ret = "NO_ERROR" =>
       \/ call[t].ret = "NO_ERROR" /\ c.reply = call[t].reply
       \/ /\ linkPc[t] \in AfterAck
          /\ \E k \in DOMAIN rx : rx[k].kind = "BODY" /\ c.reply = rx[k].id

Reading ==
  /\ rx' \in Seq(FromReader) /\ Later(rx', rx)
  /\ \/ UNCHANGED tx
     \/ \E m \in ToReader : m.kind # "COMMAND" /\ m.id = 0 /\ tx' = Append(tx, m)

InfoForm == [connected : BOOLEAN, cancelFlag : BOOLEAN, cancelReceive : BOOLEAN]
Rest ==
  /\ UNCHANGED <<unit, issued, astray>>
  /\ info' \in InfoForm /\ events' \in 0..MaxEvents

LEMMA LinkRetyped ==
  ASSUME LinkTyped, linkPc' \in [Threads -> Link!PCs], call' \in [Threads -> CallForm],
         sem' \in [{"connect", "execute", "cancel"} -> Nat], info' \in InfoForm,
         unit' \in [busy : 0..MaxCommands, last : 0..MaxCommands],
         issued' \in 0..MaxCommands, events' \in 0..MaxEvents,
         reinit' \in BOOLEAN, astray' \in BOOLEAN,
         tx' \in Seq(ToReader), rx' \in Seq(FromReader)
  PROVE  LinkTyped'
BY DEF LinkTyped, Link!TypeOK, CallForm, InfoForm

(* A reply that is returned is the one of the command that was             *)
(* acknowledged.                                                           *)
LEMMA AnswersOwn ==
  ASSUME LinkInv, Answers, reinit => reinit', astray => astray'
  PROVE  Link!OwnReply'
<1> SUFFICES ASSUME ~astray', ~reinit', NEW u \in Threads, call'[u].ret = "NO_ERROR", call'[u].id # 0
             PROVE  call'[u].reply = call'[u].id
  BY DEF Link!OwnReply
<1>1. ~astray /\ ~reinit
  OBVIOUS
<1>2. CASE /\ call[u].ret = "NO_ERROR" /\ call'[u].reply = call[u].reply
           /\ call'[u].id = call[u].id
  BY <1>1, <1>2 DEF LinkInv, Link!OwnReply
<1>3. CASE /\ linkPc[u] \in AfterAck /\ call'[u].id = call[u].id
           /\ \E k \in DOMAIN rx : rx[k].kind = "BODY" /\ call'[u].reply = rx[k].id
  <2>1. OneAck
    BY <1>1 DEF LinkInv, LinkOrder
  <2> QED BY <1>3, <2>1 DEF OneAck
<1> QED BY <1>2, <1>3 DEF Answers

(* A step of a thread that moves it, changes its call and reads the        *)
(* streams at most.                                                        *)
LEMMA ThreadKeeps ==
  ASSUME LinkInv, NEW t \in Threads, NEW l, NEW c,
         Going(t, l), Calling(t, c), Reading, Rest,
         reinit' = reinit
  PROVE  LinkInv'
<1>1. linkPc' = [linkPc EXCEPT ![t] = l] /\ l \in Link!PCs
  BY DEF Going, Balanced
<1>2. call' = [call EXCEPT ![t] = c] /\ c \in CallForm
  BY DEF Calling
<1>3. linkPc \in [Threads -> Link!PCs] /\ call \in [Threads -> CallForm]
  BY LinkForms DEF LinkInv
<1>4. /\ linkPc' \in [Threads -> Link!PCs] /\ linkPc'[t] = l
      /\ \A u \in Threads \ {t} : linkPc'[u] = linkPc[u]
  BY <1>1, <1>3
<1>5. /\ call' \in [Threads -> CallForm] /\ call'[t] = c
      /\ \A u \in Threads \ {t} : call'[u] = call[u]
  BY <1>2, <1>3
<1>6. LinkTyped'
  <2>1. tx' \in Seq(ToReader)
    BY AppendProperties DEF Reading, LinkInv, LinkTyped
  <2>2. /\ unit' \in [busy : 0..MaxCommands, last : 0..MaxCommands]
        /\ issued' \in 0..MaxCommands /\ reinit' \in BOOLEAN /\ astray' \in BOOLEAN
    BY DEF Rest, LinkInv, LinkTyped, Link!TypeOK
  <2>3. /\ sem' \in [{"connect", "execute", "cancel"} -> Nat] /\ info' \in InfoForm
        /\ events' \in 0..MaxEvents /\ rx' \in Seq(FromReader)
    BY DEF Going, Rest, Reading
  <2> QED BY <1>4, <1>5, <2>1, <2>2, <2>3, LinkRetyped DEF LinkInv
<1>7. Link!OneAtATime'
  BY BalancedKeeps DEF LinkInv, LinkTyped, Going
<1>8. PlainStep
  <2>1. UNCHANGED <<unit, issued, astray>> /\ Later(rx', rx)
    BY DEF Rest, Reading
  <2>2. \/ UNCHANGED tx
        \/ \E m \in ToReader : m.kind # "COMMAND" /\ m.id = 0 /\ tx' = Append(tx, m)
    BY DEF Reading
  <2>3. \A u \in Threads :
       /\ call'[u].id = call[u].id
       /\ linkPc'[u] \in AfterAck => linkPc[u] \in AfterAck
       /\ linkPc'[u] \in {"enter", "send"} => linkPc[u] \in {"enter", "send"}
       /\ linkPc[u] = "ack" => linkPc'[u] = "ack"
       /\ linkPc'[u] \in Link!Executing \cup {"enter"} =>
            linkPc[u] \in Link!Executing \cup {"enter"}
    BY <1>4, <1>5 DEF Going, Calling
  <2> QED BY <2>1, <2>2, <2>3 DEF PlainStep
<1>9. LinkIds' /\ LinkOrder'
  BY <1>6, <1>8, PlainKeeps DEF LinkInv, LinkTyped
<1>10. Answers
  BY <1>5 DEF Calling, Answers
<1>11. Link!OwnReply'
  BY <1>10, AnswersOwn DEF Rest
<1> QED BY <1>6, <1>7, <1>9, <1>11 DEF LinkInv

(* The parts of the steps, where they are the same.                        *)
LEMMA CallSame ==
  ASSUME LinkInv, NEW t \in Threads, UNCHANGED call
  PROVE  Calling(t, call[t])
<1>1. call \in [Threads -> CallForm] /\ call[t] \in CallForm
  BY LinkForms DEF LinkInv
<1> QED BY <1>1 DEF Calling

(* The parts of such a step: what the call becomes, ...                    *)
LEMMA CallReturns ==
  ASSUME LinkInv, NEW t \in Threads, NEW r \in Link!Results, r # "NO_ERROR",
         call' = [call EXCEPT ![t].ret = r]
  PROVE  Calling(t, [call[t] EXCEPT !.ret = r])
<1>1. call \in [Threads -> CallForm] /\ call[t] \in CallForm
  BY LinkForms DEF LinkInv
<1>2. /\ [call[t] EXCEPT !.ret = r] \in CallForm
      /\ [call[t] EXCEPT !.ret = r].id = call[t].id
      /\ [call[t] EXCEPT !.ret = r].ret = r
  BY <1>1 DEF CallForm
<1> QED BY <1>1, <1>2 DEF Calling

(* ... what becomes of the streams, ...                                    *)
LEMMA StreamsSame ==
  ASSUME LinkInv, UNCHANGED <<tx, rx>>
  PROVE  Reading
BY LaterParts DEF Reading, LinkInv, LinkTyped

LEMMA StreamsRead ==
  ASSUME LinkInv, rx # <<>>, rx' = Tail(rx), UNCHANGED tx
  PROVE  Reading
BY LaterParts DEF Reading, LinkInv, LinkTyped

LEMMA StreamsTold ==
  ASSUME LinkInv, NEW q \in {"NAK", "CANCEL"}, tx' = Append(tx, [kind |-> q, id |-> 0]),
         rx' \in Seq(FromReader), Later(rx', rx)
  PROVE  Reading
<1>1. [kind |-> q, id |-> 0] \in ToReader
  BY LinkBounds DEF ToReader
<1> QED BY <1>1 DEF Reading

(* ... and what of the rest.                                               *)
LEMMA RestSame ==
  ASSUME LinkInv, UNCHANGED <<unit, issued, astray, info, events>>
  PROVE  Rest
BY DEF Rest, LinkInv, LinkTyped, Link!TypeOK, InfoForm

LEMMA RestEvent ==
  ASSUME LinkInv, UNCHANGED <<unit, issued, astray>>, info' \in InfoForm,
         Link!Event \/ UNCHANGED events
  PROVE  Rest
BY LinkBounds DEF Rest, LinkInv, LinkTyped, Link!TypeOK, Link!Event

(* Where the thread is.                                                    *)
LEMMA PlaceSame ==
  ASSUME LinkInv, NEW t \in Threads, UNCHANGED <<linkPc, sem>>
  PROVE  \/ linkPc[t] = "enter"
         \/ Going(t, linkPc[t])
<1>1. /\ linkPc \in [Threads -> Link!PCs]
      /\ sem \in [{"connect", "execute", "cancel"} -> Nat]
  BY LinkForms DEF LinkInv
<1>2. linkPc' = [linkPc EXCEPT ![t] = linkPc[t]] /\ linkPc[t] \in Link!PCs
  BY <1>1
<1>3. /\ sem'.execute + In(linkPc[t], Link!Executing) = sem.execute + In(linkPc[t], Link!Executing)
      /\ sem'.cancel + In(linkPc[t], Link!Cancelling) = sem.cancel + In(linkPc[t], Link!Cancelling)
      /\ sem'.connect + In(linkPc[t], OpeningPCs) = sem.connect + In(linkPc[t], OpeningPCs)
  OBVIOUS
<1> QED BY <1>1, <1>2, <1>3 DEF Going, Balanced

(* A thread goes on with what it holds.                                    *)
LEMMA PlaceMoves ==
  ASSUME LinkInv, NEW t \in Threads, NEW l \in Link!PCs, linkPc' = [linkPc EXCEPT ![t] = l],
         UNCHANGED sem,
         In(l, Link!Executing) = In(linkPc[t], Link!Executing),
         In(l, Link!Cancelling) = In(linkPc[t], Link!Cancelling),
         In(l, OpeningPCs) = In(linkPc[t], OpeningPCs),
         l \in AfterAck => linkPc[t] \in AfterAck,
         linkPc[t] # "ack", l \notin {"enter", "send"}
  PROVE  Going(t, l)
<1>1. l \in Link!Executing => linkPc[t] \in Link!Executing
  BY DEF In
<1>2. sem \in [{"connect", "execute", "cancel"} -> Nat]
  BY LinkForms DEF LinkInv
<1>3. Balanced(t, l)
  BY DEF Balanced
<1> QED BY <1>1, <1>2, <1>3 DEF Going

(* ConnectDevice and DisconnectDevice.                                     *)
LEMMA LinkOpens ==
  ASSUME LinkInv, NEW t \in Threads,
         \/ Link!ConnectEnter(t) \/ Link!ConnectOpen(t) \/ Link!DisconnectDevice(t)
         \/ Link!DisconnectEnter(t) \/ Link!DisconnectClose(t)
  PROVE  LinkInv'
<1>1. /\ linkPc \in [Threads -> Link!PCs] /\ call[t] \in CallForm
      /\ sem \in [{"connect", "execute", "cancel"} -> Nat] /\ info \in InfoForm
      /\ sem.execute \in Nat /\ sem.cancel \in Nat /\ sem.connect \in Nat
  BY LinkForms DEF LinkInv, LinkTyped, Link!TypeOK, InfoForm
<1> USE DEF Link!Goto, Link!LineSame, Link!ReaderSame, Link!BoundsSame, Link!Return, Link!Fail
<1>2. CASE Link!ConnectEnter(t)
  <2>5. /\ linkPc' = [linkPc EXCEPT ![t] = "connect2"]
        /\ sem' = [sem EXCEPT !.connect = @ - 1] /\ sem.connect > 0
    BY <1>1, <1>2 DEF Link!ConnectEnter
  <2>6. /\ sem' \in [{"connect", "execute", "cancel"} -> Nat]
        /\ sem'.execute = sem.execute /\ sem'.cancel = sem.cancel
        /\ sem'.connect = sem.connect - 1
    BY <1>1, <2>5
  <2>1. Going(t, "connect2")
    BY <1>1, <1>2, <2>5, <2>6 DEF Link!PCs, Link!Executing, Link!Cancelling, OpeningPCs, AfterAck, In, Going, Balanced, Link!ConnectEnter
  <2>2. Calling(t, call[t])
    BY <1>1, <1>2, CallSame DEF Link!ConnectEnter
  <2>3. Reading
    BY <1>1, <1>2, StreamsSame DEF Link!ConnectEnter
  <2>4. Rest /\ UNCHANGED reinit
    BY <1>1, <1>2, RestSame DEF Link!ConnectEnter
  <2> QED BY <2>1, <2>2, <2>3, <2>4, ThreadKeeps
<1>3. CASE Link!ConnectOpen(t)
  <2>5. /\ linkPc' = [linkPc EXCEPT ![t] = "idle"]
        /\ sem' = [sem EXCEPT !.connect = @ + 1]
    BY <1>1, <1>3 DEF Link!ConnectOpen
  <2>6. /\ sem' \in [{"connect", "execute", "cancel"} -> Nat]
        /\ sem'.execute = sem.execute /\ sem'.cancel = sem.cancel
        /\ sem'.connect = sem.connect + 1
    BY <1>1, <2>5
  <2>1. Going(t, "idle")
    BY <1>1, <1>3, <2>5, <2>6 DEF Link!PCs, Link!Executing, Link!Cancelling, OpeningPCs, AfterAck, In, Going, Balanced, Link!ConnectOpen
  <2>2. Calling(t, call[t])
    BY <1>1, <1>3, CallSame DEF Link!ConnectOpen
  <2>3. Reading
    <3>1. CASE UNCHANGED rx
      BY <1>3, <3>1, StreamsSame DEF Link!ConnectOpen
    <3>2. CASE rx' = <<>>
      <4>1. UNCHANGED tx
        BY <1>3 DEF Link!ConnectOpen
      <4>2. Later(rx', rx) /\ rx' \in Seq(FromReader)
        BY <3>2, LaterParts, EmptySeq DEF LinkInv, LinkTyped
      <4> QED BY <4>1, <4>2 DEF Reading
    <3> QED BY <1>3, <3>1, <3>2 DEF Link!ConnectOpen
  <2>4. Rest /\ UNCHANGED reinit
    <3>1. info' \in InfoForm
      <4>1. [connected |-> TRUE, cancelFlag |-> FALSE, cancelReceive |-> TRUE] \in InfoForm
        BY DEF InfoForm
      <4>2. \/ UNCHANGED info
            \/ info' = [connected |-> TRUE, cancelFlag |-> FALSE, cancelReceive |-> TRUE]
        BY <1>3 DEF Link!ConnectOpen
      <4> QED BY <1>1, <4>1, <4>2
    <3> QED BY <1>1, <1>3, <3>1, RestEvent DEF Link!ConnectOpen
  <2> QED BY <2>1, <2>2, <2>3, <2>4, ThreadKeeps
<1>4. CASE Link!DisconnectDevice(t)
  <2>1. Going(t, "disconnect1") \/ Going(t, "idle")
    <3>1. CASE info.connected
      BY <1>1, <1>4, <3>1, PlaceMoves DEF Link!PCs, Link!Executing, Link!Cancelling, OpeningPCs, AfterAck, In, Link!DisconnectDevice
    <3>2. CASE ~info.connected
      BY <1>1, <1>4, <3>2, PlaceSame DEF Link!DisconnectDevice
    <3> QED BY <3>1, <3>2
  <2>2. Calling(t, call[t])
    BY <1>4, CallSame DEF Link!DisconnectDevice
  <2>3. Reading
    BY <1>4, StreamsSame DEF Link!DisconnectDevice
  <2>4. Rest /\ UNCHANGED reinit
    BY <1>1, <1>4, RestEvent DEF Link!DisconnectDevice
  <2> QED BY <2>1, <2>2, <2>3, <2>4, ThreadKeeps
<1>5. CASE Link!DisconnectEnter(t)
  <2>5. /\ linkPc' = [linkPc EXCEPT ![t] = "disconnect2"]
        /\ sem' = [sem EXCEPT !.connect = @ - 1] /\ sem.connect > 0
    BY <1>1, <1>5 DEF Link!DisconnectEnter
  <2>6. /\ sem' \in [{"connect", "execute", "cancel"} -> Nat]
        /\ sem'.execute = sem.execute /\ sem'.cancel = sem.cancel
        /\ sem'.connect = sem.connect - 1
    BY <1>1, <2>5
  <2>1. Going(t, "disconnect2")
    BY <1>1, <1>5, <2>5, <2>6 DEF Link!PCs, Link!Executing, Link!Cancelling, OpeningPCs, AfterAck, In, Going, Balanced, Link!DisconnectEnter
  <2>2. Calling(t, call[t])
    BY <1>1, <1>5, CallSame DEF Link!DisconnectEnter
  <2>3. Reading
    BY <1>1, <1>5, StreamsSame DEF Link!DisconnectEnter
  <2>4. Rest /\ UNCHANGED reinit
    BY <1>1, <1>5, RestSame DEF Link!DisconnectEnter
  <2> QED BY <2>1, <2>2, <2>3, <2>4, ThreadKeeps
<1>6. CASE Link!DisconnectClose(t)
  <2>5. /\ linkPc' = [linkPc EXCEPT ![t] = "idle"]
        /\ sem' = [sem EXCEPT !.connect = @ + 1]
    BY <1>1, <1>6 DEF Link!DisconnectClose
  <2>6. /\ sem' \in [{"connect", "execute", "cancel"} -> Nat]
        /\ sem'.execute = sem.execute /\ sem'.cancel = sem.cancel
        /\ sem'.connect = sem.connect + 1
    BY <1>1, <2>5
  <2>1. Going(t, "idle")
    BY <1>1, <1>6, <2>5, <2>6 DEF Link!PCs, Link!Executing, Link!Cancelling, OpeningPCs, AfterAck, In, Going, Balanced, Link!DisconnectClose
  <2>2. Calling(t, call[t])
    BY <1>6, CallSame DEF Link!DisconnectClose
  <2>3. Reading
    BY <1>6, StreamsSame DEF Link!DisconnectClose
  <2>4. Rest /\ UNCHANGED reinit
    <3>1. info' \in InfoForm
      BY <1>1, <1>6 DEF Link!DisconnectClose, InfoForm
    <3> QED BY <1>6, <3>1, RestEvent DEF Link!DisconnectClose
  <2> QED BY <2>1, <2>2, <2>3, <2>4, ThreadKeeps
<1> QED BY <1>2, <1>3, <1>4, <1>5, <1>6

(* CancelCommand.                                                          *)
LEMMA LinkCancels ==
  ASSUME LinkInv, NEW t \in Threads,
         Link!CancelCommand(t) \/ Link!Cancel(t)
  PROVE  LinkInv'
<1>1. /\ linkPc \in [Threads -> Link!PCs] /\ call[t] \in CallForm
      /\ sem \in [{"connect", "execute", "cancel"} -> Nat] /\ info \in InfoForm
      /\ sem.execute \in Nat /\ sem.cancel \in Nat /\ sem.connect \in Nat
  BY LinkForms DEF LinkInv, LinkTyped, Link!TypeOK, InfoForm
<1> USE DEF Link!Goto, Link!LineSame, Link!ReaderSame, Link!BoundsSame, Link!Return, Link!Fail
<1>2. CASE Link!CancelCommand(t)
  <2>1. Going(t, "cancelenter") \/ Going(t, "idle")
    <3>1. CASE info.connected
      BY <1>1, <1>2, <3>1, PlaceMoves DEF Link!PCs, Link!Executing, Link!Cancelling, OpeningPCs, AfterAck, In, Link!CancelCommand
    <3>2. CASE ~info.connected
      BY <1>1, <1>2, <3>2, PlaceSame DEF Link!CancelCommand
    <3> QED BY <3>1, <3>2
  <2>2. Calling(t, call[t])
    BY <1>2, CallSame DEF Link!CancelCommand
  <2>3. Reading
    BY <1>2, StreamsSame DEF Link!CancelCommand
  <2>4. Rest /\ UNCHANGED reinit
    BY <1>1, <1>2, RestEvent DEF Link!CancelCommand
  <2> QED BY <2>1, <2>2, <2>3, <2>4, ThreadKeeps
<1>3. CASE Link!CancelEnter(t)
  <2>5. /\ linkPc' = [linkPc EXCEPT ![t] = "mark"]
        /\ sem' = [sem EXCEPT !.cancel = @ - 1] /\ sem.cancel > 0
    BY <1>1, <1>3 DEF Link!CancelEnter
  <2>6. /\ sem' \in [{"connect", "execute", "cancel"} -> Nat]
        /\ sem'.execute = sem.execute /\ sem'.cancel = sem.cancel - 1
        /\ sem'.connect = sem.connect
    BY <1>1, <2>5
  <2>1. Going(t, "mark")
    BY <1>1, <1>3, <2>5, <2>6 DEF Link!PCs, Link!Executing, Link!Cancelling, OpeningPCs, AfterAck, In, Going, Balanced, Link!CancelEnter
  <2>2. Calling(t, call[t])
    BY <1>1, <1>3, CallSame DEF Link!CancelEnter
  <2>3. Reading
    BY <1>1, <1>3, StreamsSame DEF Link!CancelEnter
  <2>4. Rest /\ UNCHANGED reinit
    BY <1>1, <1>3, RestSame DEF Link!CancelEnter
  <2> QED BY <2>1, <2>2, <2>3, <2>4, ThreadKeeps
<1>4. CASE Link!CancelMark(t)
  <2>1. Going(t, "cancel")
    BY <1>1, <1>4, PlaceMoves DEF Link!PCs, Link!Executing, Link!Cancelling, OpeningPCs, AfterAck, In, Link!CancelMark
  <2>2. Calling(t, call[t])
    BY <1>4, CallSame DEF Link!CancelMark
  <2>3. Reading
    BY <1>4, StreamsSame DEF Link!CancelMark
  <2>4. Rest /\ UNCHANGED reinit
    <3>1. info' \in InfoForm
      BY <1>1, <1>4 DEF Link!CancelMark, InfoForm
    <3> QED BY <1>4, <3>1, RestEvent DEF Link!CancelMark
  <2> QED BY <2>1, <2>2, <2>3, <2>4, ThreadKeeps
<1>5. CASE Link!CancelSend(t)
  <2>1. Going(t, "check") \/ Going(t, "unmark")
    <3>1. CASE info.connected
      <4>1. linkPc' = [linkPc EXCEPT ![t] = "check"]
        BY <1>5, <3>1 DEF Link!CancelSend
      <4> QED BY <1>1, <1>5, <4>1, PlaceMoves DEF Link!PCs, Link!Executing, Link!Cancelling, OpeningPCs, AfterAck, In, Link!CancelSend
    <3>2. CASE ~info.connected
      <4>1. linkPc' = [linkPc EXCEPT ![t] = "unmark"]
        BY <1>5, <3>2 DEF Link!CancelSend
      <4> QED BY <1>1, <1>5, <4>1, PlaceMoves DEF Link!PCs, Link!Executing, Link!Cancelling, OpeningPCs, AfterAck, In, Link!CancelSend
    <3> QED BY <3>1, <3>2
  <2>2. Calling(t, call[t])
    BY <1>5, CallSame DEF Link!CancelSend
  <2>3. Reading
    <3>1. UNCHANGED tx => Reading
      BY <1>5, StreamsSame DEF Link!CancelSend
    <3>2. tx' = Append(tx, [kind |-> "CANCEL", id |-> 0]) => Reading
      BY <1>5, LaterParts, StreamsTold DEF Link!CancelSend, LinkInv, LinkTyped
    <3> QED BY <1>5, <3>1, <3>2 DEF Link!CancelSend, Link!Send
  <2>4. Rest /\ UNCHANGED reinit
    BY <1>5, RestSame DEF Link!CancelSend
  <2> QED BY <2>1, <2>2, <2>3, <2>4, ThreadKeeps
<1>6. CASE Link!CancelCheck(t)
  <2>1. Going(t, "answer1") \/ Going(t, "unmark")
    <3>1. CASE info.cancelReceive
      <4>1. linkPc' = [linkPc EXCEPT ![t] = "answer1"]
        BY <1>6, <3>1 DEF Link!CancelCheck
      <4> QED BY <1>1, <1>6, <4>1, PlaceMoves DEF Link!PCs, Link!Executing, Link!Cancelling, OpeningPCs, AfterAck, In, Link!CancelCheck
    <3>2. CASE ~info.cancelReceive
      <4>1. linkPc' = [linkPc EXCEPT ![t] = "unmark"]
        BY <1>6, <3>2 DEF Link!CancelCheck
      <4> QED BY <1>1, <1>6, <4>1, PlaceMoves DEF Link!PCs, Link!Executing, Link!Cancelling, OpeningPCs, AfterAck, In, Link!CancelCheck
    <3> QED BY <3>1, <3>2
  <2>2. Calling(t, call[t])
    BY <1>1, <1>6, CallSame DEF Link!CancelCheck
  <2>3. Reading
    BY <1>1, <1>6, StreamsSame DEF Link!CancelCheck
  <2>4. Rest /\ UNCHANGED reinit
    BY <1>1, <1>6, RestSame DEF Link!CancelCheck
  <2> QED BY <2>1, <2>2, <2>3, <2>4, ThreadKeeps
<1>7. CASE Link!CancelReceive(t)
  <2>1. Going(t, "answer2") \/ Going(t, "unmark")
    BY <1>1, <1>7, PlaceMoves DEF Link!PCs, Link!Executing, Link!Cancelling, OpeningPCs, AfterAck, In, Link!CancelReceive
  <2>2. Calling(t, call[t])
    BY <1>1, <1>7, CallSame DEF Link!CancelReceive
  <2>3. Reading
    BY <1>1, <1>7, StreamsRead DEF Link!CancelReceive, Link!Read
  <2>4. Rest /\ UNCHANGED reinit
    BY <1>1, <1>7, RestSame DEF Link!CancelReceive
  <2> QED BY <2>1, <2>2, <2>3, <2>4, ThreadKeeps
<1>8. CASE Link!CancelTimeout(t)
  <2>1. Going(t, "unmark")
    BY <1>1, <1>8, PlaceMoves DEF Link!PCs, Link!Executing, Link!Cancelling, OpeningPCs, AfterAck, In, Link!CancelTimeout
  <2>2. Calling(t, call[t])
    BY <1>8, CallSame DEF Link!CancelTimeout
  <2>3. Reading
    BY <1>8, StreamsSame DEF Link!CancelTimeout
  <2>4. Rest /\ UNCHANGED reinit
    BY <1>1, <1>8, RestEvent DEF Link!CancelTimeout, Link!Silence
  <2> QED BY <2>1, <2>2, <2>3, <2>4, ThreadKeeps
<1>9. CASE Link!CancelEnd(t)
  <2>5. /\ linkPc' = [linkPc EXCEPT ![t] = "idle"]
        /\ sem' = [sem EXCEPT !.cancel = @ + 1]
    BY <1>1, <1>9 DEF Link!CancelEnd
  <2>6. /\ sem' \in [{"connect", "execute", "cancel"} -> Nat]
        /\ sem'.execute = sem.execute /\ sem'.cancel = sem.cancel + 1
        /\ sem'.connect = sem.connect
    BY <1>1, <2>5
  <2>1. Going(t, "idle")
    BY <1>1, <1>9, <2>5, <2>6 DEF Link!PCs, Link!Executing, Link!Cancelling, OpeningPCs, AfterAck, In, Going, Balanced, Link!CancelEnd
  <2>2. Calling(t, call[t])
    BY <1>9, CallSame DEF Link!CancelEnd
  <2>3. Reading
    BY <1>9, StreamsSame DEF Link!CancelEnd
  <2>4. Rest /\ UNCHANGED reinit
    <3>1. info' \in InfoForm
      BY <1>1, <1>9 DEF Link!CancelEnd, InfoForm
    <3> QED BY <1>9, <3>1, RestEvent DEF Link!CancelEnd
  <2> QED BY <2>1, <2>2, <2>3, <2>4, ThreadKeeps
<1> QED BY <1>2, <1>3, <1>4, <1>5, <1>6, <1>7, <1>8, <1>9 DEF Link!Cancel

(* What a call counts and what it keeps.                                   *)
LEMMA CallCounts ==
  ASSUME LinkInv, NEW t \in Threads,
         \/ call' = [call EXCEPT ![t].retry = @ + 1]
         \/ call' = [call EXCEPT ![t].crc = @ + 1]
         \/ call' = [call EXCEPT ![t].retry = 0, ![t].crc = 0, ![t].nak = FALSE]
         \/ call' = [call EXCEPT ![t].retry = 1, ![t].crc = 1]
         \/ call' = [call EXCEPT ![t].retry = @ + 1, ![t].nak = TRUE]
         \/ call' = [call EXCEPT ![t].retry = @ + 1, ![t].nak = FALSE]
  PROVE  \E c : Calling(t, c)
<1>1. call \in [Threads -> CallForm] /\ call[t] \in CallForm
  BY LinkForms DEF LinkInv
<1> DEFINE c == call'[t]
<1>2. call' = [call EXCEPT ![t] = c]
  BY <1>1
<1>3. c \in CallForm /\ c.id = call[t].id /\ c.ret = call[t].ret /\ c.reply = call[t].reply
  BY <1>1 DEF CallForm
<1> QED BY <1>2, <1>3 DEF Calling

LEMMA CallFails ==
  ASSUME LinkInv, NEW t \in Threads, NEW r \in Link!Results, r # "NO_ERROR", Link!Fail(t, r)
  PROVE  /\ \E c : Calling(t, c)
         /\ linkPc' = [linkPc EXCEPT ![t] = "done"]
BY CallReturns DEF Link!Fail, Link!Goto, Link!Return

LEMMA PlaceFails ==
  ASSUME LinkInv, NEW t \in Threads, linkPc[t] = "body", UNCHANGED sem,
         linkPc' = [linkPc EXCEPT ![t] = "done"]
  PROVE  Going(t, "done")
<1>1. "done" \in Link!PCs /\ "done" \notin AfterAck
  BY DEF Link!PCs, Link!Executing, AfterAck
<1>2. /\ In("done", Link!Executing) = In("body", Link!Executing)
      /\ In("done", Link!Cancelling) = In("body", Link!Cancelling)
      /\ In("done", OpeningPCs) = In("body", OpeningPCs)
  BY DEF Link!Executing, Link!Cancelling, OpeningPCs, In
<1> QED BY <1>1, <1>2, PlaceMoves

(* A reply that is not whole is asked for again, or given up.              *)
LEMMA Retries ==
  ASSUME LinkInv, NEW t \in Threads, linkPc[t] \in {"body", "garbled"},
         Link!RetryReply(t) \/ Link!BadCrc(t), UNCHANGED sem
  PROVE  /\ \E l, c : Going(t, l) /\ Calling(t, c)
         /\ UNCHANGED tx \/ tx' = Append(tx, [kind |-> "NAK", id |-> 0])
<1>3. ASSUME NEW l \in {"first", "done"}
      PROVE  /\ In(l, Link!Executing) = In(linkPc[t], Link!Executing)
             /\ In(l, Link!Cancelling) = In(linkPc[t], Link!Cancelling)
             /\ In(l, OpeningPCs) = In(linkPc[t], OpeningPCs)
             /\ l \in Link!PCs /\ (l \in AfterAck => linkPc[t] \in AfterAck)
             /\ linkPc[t] # "ack" /\ l \notin {"enter", "send"}
  BY DEF Link!PCs, Link!Executing, Link!Cancelling, OpeningPCs, AfterAck, In
<1>1. CASE /\ linkPc' = [linkPc EXCEPT ![t] = "first"]
           /\ \/ call' = [call EXCEPT ![t].retry = @ + 1]
              \/ call' = [call EXCEPT ![t].crc = @ + 1]
           /\ Link!Send([kind |-> "NAK", id |-> 0])
  <2>1. Going(t, "first")
    <3>1. linkPc' = [linkPc EXCEPT ![t] = "first"]
      BY <1>1
    <3> QED BY <1>3, <3>1, PlaceMoves
  <2>2. \E c : Calling(t, c)
    BY <1>1, CallCounts
  <2> QED BY <1>1, <2>1, <2>2 DEF Link!Send
<1>2. CASE Link!Fail(t, "FAILED_TO_RECEIVE") /\ UNCHANGED tx
  <2>1. (\E c : Calling(t, c)) /\ linkPc' = [linkPc EXCEPT ![t] = "done"]
    BY <1>2, CallFails DEF Link!Results
  <2>2. Going(t, "done")
    BY <1>3, <2>1, PlaceMoves
  <2> QED BY <1>2, <2>1, <2>2
<1> QED BY <1>1, <1>2 DEF Link!RetryReply, Link!BadCrc, Link!Goto

(* ExecuteCommand, from the acknowledgement on and where it fails.         *)
LEMMA LinkReads ==
  ASSUME LinkInv, NEW t \in Threads,
         \/ Link!ExecuteEnter(t) \/ Link!ReceiveFirst(t) \/ Link!RepliesOver(t)
         \/ Link!ReplyTimeout(t) \/ Link!ReceiveSecond(t) \/ Link!ReceiveLength(t)
         \/ Link!ReceiveBody(t) \/ Link!BodyTimeout(t) \/ Link!ReceiveGarbled(t)
         \/ Link!ExecuteEnd(t)
  PROVE  LinkInv'
<1>1. /\ linkPc \in [Threads -> Link!PCs] /\ call[t] \in CallForm
      /\ sem \in [{"connect", "execute", "cancel"} -> Nat] /\ info \in InfoForm
      /\ sem.execute \in Nat /\ sem.cancel \in Nat /\ sem.connect \in Nat
  BY LinkForms DEF LinkInv, LinkTyped, Link!TypeOK, InfoForm
<1> USE DEF Link!Goto, Link!LineSame, Link!ReaderSame, Link!BoundsSame, Link!Return, Link!Fail
<1>2. CASE Link!ExecuteEnter(t)
  <2>5. linkPc' = [linkPc EXCEPT ![t] = "send"] \/ linkPc' = [linkPc EXCEPT ![t] = "done"]
    BY <1>2 DEF Link!ExecuteEnter
  <2>6. /\ sem' \in [{"connect", "execute", "cancel"} -> Nat]
        /\ sem'.execute = sem.execute - 1 /\ sem'.cancel = sem.cancel
        /\ sem'.connect = sem.connect /\ linkPc[t] = "enter"
    BY <1>1, <1>2 DEF Link!ExecuteEnter
  <2>1. Going(t, "send") \/ Going(t, "done")
    BY <1>1, <2>5, <2>6 DEF Going, Balanced, Link!PCs, Link!Executing, Link!Cancelling, OpeningPCs,
       AfterAck, In
  <2>2. \E c : Calling(t, c)
    <3>1. Link!Fail(t, "CANCEL_SESSION") => \E c : Calling(t, c)
      BY CallFails DEF Link!Results
    <3>2. UNCHANGED call => \E c : Calling(t, c)
      BY CallSame
    <3> QED BY <1>2, <3>1, <3>2 DEF Link!ExecuteEnter
  <2>3. Reading
    BY <1>1, <1>2, StreamsSame DEF Link!ExecuteEnter
  <2>4. Rest /\ UNCHANGED reinit
    BY <1>1, <1>2, RestSame DEF Link!ExecuteEnter
  <2> QED BY <2>1, <2>2, <2>3, <2>4, ThreadKeeps
<1>3. CASE Link!ReceiveFirst(t)
  <2>5. PICK l \in {"first", "second", "length"} : linkPc' = [linkPc EXCEPT ![t] = l]
    BY <1>3 DEF Link!ReceiveFirst
  <2>1. Going(t, l)
    BY <1>1, <1>3, <2>5, PlaceMoves DEF Link!PCs, Link!Executing, Link!Cancelling, OpeningPCs, AfterAck, In, Link!ReceiveFirst
  <2>2. \E c : Calling(t, c)
    BY <1>1, <1>3, CallSame DEF Link!ReceiveFirst
  <2>3. Reading
    BY <1>1, <1>3, StreamsRead DEF Link!ReceiveFirst, Link!Read
  <2>4. Rest /\ UNCHANGED reinit
    BY <1>1, <1>3, RestSame DEF Link!ReceiveFirst
  <2> QED BY <2>1, <2>2, <2>3, <2>4, ThreadKeeps
<1>4. CASE Link!RepliesOver(t)
  <2>5. (\E c : Calling(t, c)) /\ linkPc' = [linkPc EXCEPT ![t] = "done"]
    <3>1. PICK r \in {"CHARACTER_TIMEOUT"} : Link!Fail(t, r)
      BY <1>4 DEF Link!RepliesOver
    <3>2. r \in Link!Results /\ r # "NO_ERROR"
      BY DEF Link!Results
    <3> QED BY <3>1, <3>2, CallFails
  <2>1. Going(t, "done")
    BY <1>1, <1>4, <2>5, PlaceMoves DEF Link!PCs, Link!Executing, Link!Cancelling, OpeningPCs, AfterAck, In, Link!RepliesOver
  <2>2. \E c : Calling(t, c)
    BY <2>5
  <2>3. Reading
    BY <1>1, <1>4, StreamsSame DEF Link!RepliesOver
  <2>4. Rest /\ UNCHANGED reinit
    BY <1>1, <1>4, RestSame DEF Link!RepliesOver
  <2> QED BY <2>1, <2>2, <2>3, <2>4, ThreadKeeps
<1>5. CASE Link!ReplyTimeout(t)
  <2>5. (\E c : Calling(t, c)) /\ linkPc' = [linkPc EXCEPT ![t] = "done"]
    <3>1. PICK r \in {"REPLY_TIMEOUT", "FAILED_TO_RECEIVE"} : Link!Fail(t, r)
      BY <1>5 DEF Link!ReplyTimeout
    <3>2. r \in Link!Results /\ r # "NO_ERROR"
      BY DEF Link!Results
    <3> QED BY <3>1, <3>2, CallFails
  <2>1. Going(t, "done")
    BY <1>1, <1>5, <2>5, PlaceMoves DEF Link!PCs, Link!Executing, Link!Cancelling, OpeningPCs, AfterAck, In, Link!ReplyTimeout
  <2>2. \E c : Calling(t, c)
    BY <2>5
  <2>3. Reading
    BY <1>1, <1>5, StreamsSame DEF Link!ReplyTimeout
  <2>4. Rest /\ UNCHANGED reinit
    BY <1>1, <1>5, RestEvent DEF Link!ReplyTimeout, Link!Silence
  <2> QED BY <2>1, <2>2, <2>3, <2>4, ThreadKeeps
<1>6. CASE Link!ReceiveSecond(t)
  <2>5. (\E c : Calling(t, c)) /\ linkPc' = [linkPc EXCEPT ![t] = "done"]
    <3>1. PICK r \in {"CANCELED", "FAILED_TO_RECEIVE"} : Link!Fail(t, r)
      BY <1>6 DEF Link!ReceiveSecond
    <3>2. r \in Link!Results /\ r # "NO_ERROR"
      BY DEF Link!Results
    <3> QED BY <3>1, <3>2, CallFails
  <2>1. Going(t, "done")
    BY <1>1, <1>6, <2>5, PlaceMoves DEF Link!PCs, Link!Executing, Link!Cancelling, OpeningPCs, AfterAck, In, Link!ReceiveSecond
  <2>2. \E c : Calling(t, c)
    BY <2>5
  <2>3. Reading
    BY <1>1, <1>6, StreamsRead DEF Link!ReceiveSecond, Link!Read
  <2>4. Rest /\ UNCHANGED reinit
    BY <1>1, <1>6, RestSame DEF Link!ReceiveSecond
  <2> QED BY <2>1, <2>2, <2>3, <2>4, ThreadKeeps
<1>7. CASE Link!ReceiveLength(t)
  <2>5. PICK l \in {"body", "garbled"} : linkPc' = [linkPc EXCEPT ![t] = l]
    BY <1>7 DEF Link!ReceiveLength
  <2>1. Going(t, l)
    BY <1>1, <1>7, <2>5, PlaceMoves DEF Link!PCs, Link!Executing, Link!Cancelling, OpeningPCs, AfterAck, In, Link!ReceiveLength
  <2>2. \E c : Calling(t, c)
    BY <1>1, <1>7, CallSame DEF Link!ReceiveLength
  <2>3. Reading
    BY <1>1, <1>7, StreamsRead DEF Link!ReceiveLength, Link!Read
  <2>4. Rest /\ UNCHANGED reinit
    BY <1>1, <1>7, RestSame DEF Link!ReceiveLength
  <2> QED BY <2>1, <2>2, <2>3, <2>4, ThreadKeeps
<1>8. CASE Link!ReceiveBody(t)
  <2>5. rx # <<>> /\ rx' = Tail(rx) /\ linkPc[t] = "body" /\ UNCHANGED sem
    BY <1>8 DEF Link!ReceiveBody, Link!Read
  <2>6. /\ rx' \in Seq(FromReader) /\ Later(rx', rx)
        /\ Head(rx) \in FromReader /\ 1 \in DOMAIN rx /\ Head(rx) = rx[1]
    BY <2>5, LaterParts DEF LinkInv, LinkTyped
  <2>4. Rest /\ UNCHANGED reinit
    BY <1>1, <1>8, RestSame DEF Link!ReceiveBody
  <2>7. CASE /\ Head(rx).kind = "BODY" /\ Link!Goto(t, "done") /\ UNCHANGED tx
             /\ call' = [call EXCEPT ![t].ret = "NO_ERROR", ![t].reply = Head(rx).id]
    <3>1. Going(t, "done")
      BY <1>1, <2>5, <2>7, PlaceMoves DEF Link!PCs, Link!Executing, Link!Cancelling, OpeningPCs, AfterAck, In
    <3>2. \E c : Calling(t, c)
      <4>1. call \in [Threads -> CallForm] /\ Head(rx).id \in 0..MaxCommands
        BY <2>6, LinkForms DEF LinkInv, FromReader
      <4> DEFINE c == call'[t]
      <4>2. call' = [call EXCEPT ![t] = c]
        BY <2>7, <4>1
      <4>3. c \in CallForm /\ c.id = call[t].id /\ c.reply = rx[1].id
        BY <1>1, <2>6, <2>7, <4>1 DEF CallForm, Link!Results
      <4>4. linkPc[t] \in AfterAck /\ rx[1].kind = "BODY" /\ 1 \in DOMAIN rx
        BY <2>5, <2>6, <2>7 DEF AfterAck
      <4> QED BY <4>2, <4>3, <4>4 DEF Calling
    <3>3. Reading
      BY <2>5, <2>7, StreamsRead
    <3> QED BY <2>4, <3>1, <3>2, <3>3, ThreadKeeps
  <2>8. CASE Link!BadCrc(t)
    <3>1. PICK l, c : Going(t, l) /\ Calling(t, c)
      BY <2>5, <2>8, Retries
    <3>2. UNCHANGED tx \/ tx' = Append(tx, [kind |-> "NAK", id |-> 0])
      BY <2>5, <2>8, Retries
    <3>3. Reading
      BY <2>5, <2>6, <3>2, StreamsRead, StreamsTold
    <3> QED BY <2>4, <3>1, <3>3, ThreadKeeps
  <2> QED BY <1>8, <2>7, <2>8 DEF Link!ReceiveBody
<1>9. CASE Link!BodyTimeout(t)
  <2>5. linkPc[t] = "body" /\ UNCHANGED <<rx, sem>>
    BY <1>9 DEF Link!BodyTimeout
  <2>4. Rest /\ UNCHANGED reinit
    BY <1>1, <1>9, RestEvent DEF Link!BodyTimeout, Link!Silence
  <2>6. rx' \in Seq(FromReader) /\ Later(rx', rx)
    BY <2>5, LaterParts DEF LinkInv, LinkTyped
  <2>7. CASE Link!RetryReply(t)
    <3>1. PICK l, c : Going(t, l) /\ Calling(t, c)
      BY <2>5, <2>7, Retries
    <3>2. UNCHANGED tx \/ tx' = Append(tx, [kind |-> "NAK", id |-> 0])
      BY <2>5, <2>7, Retries
    <3>3. Reading
      BY <2>5, <2>6, <3>2, StreamsSame, StreamsTold
    <3> QED BY <2>4, <3>1, <3>3, ThreadKeeps
  <2>8. CASE Link!Fail(t, "FAILED_TO_RECEIVE") /\ UNCHANGED tx
    <3>1. (\E c : Calling(t, c)) /\ linkPc' = [linkPc EXCEPT ![t] = "done"]
      BY <2>8, CallFails DEF Link!Results
    <3>4. linkPc' = [linkPc EXCEPT ![t] = "done"] /\ linkPc[t] = "body" /\ UNCHANGED sem
      BY <2>5, <3>1
    <3>2. Going(t, "done")
      BY <3>4, PlaceFails
    <3>3. Reading
      BY <2>5, <2>8, StreamsSame
    <3> QED BY <2>4, <3>1, <3>2, <3>3, ThreadKeeps
  <2> QED BY <1>9, <2>7, <2>8 DEF Link!BodyTimeout
<1>10. CASE Link!ReceiveGarbled(t)
  <2>5. linkPc[t] = "garbled" /\ UNCHANGED sem /\ (Link!RetryReply(t) \/ Link!BadCrc(t))
    BY <1>10 DEF Link!ReceiveGarbled
  <2>4. Rest /\ UNCHANGED reinit
    BY <1>1, <1>10, RestSame DEF Link!ReceiveGarbled
  <2>6. rx' \in Seq(FromReader) /\ Later(rx', rx)
    <3>1. PICK n \in 0..Len(rx) : rx' = SubSeq(rx, n + 1, Len(rx))
      BY <1>10 DEF Link!ReceiveGarbled
    <3> QED BY <3>1, LaterParts DEF LinkInv, LinkTyped
  <2>1. PICK l, c : Going(t, l) /\ Calling(t, c)
    BY <2>5, Retries
  <2>2. UNCHANGED tx \/ tx' = Append(tx, [kind |-> "NAK", id |-> 0])
    BY <2>5, Retries
  <2>3. Reading
    BY <2>2, <2>6, StreamsTold DEF Reading
  <2> QED BY <2>1, <2>3, <2>4, ThreadKeeps
<1>11. CASE Link!ExecuteEnd(t)
  <2>5. /\ linkPc' = [linkPc EXCEPT ![t] = "idle"] /\ linkPc[t] = "done"
        /\ sem' = [sem EXCEPT !.execute = @ + 1]
    BY <1>11 DEF Link!ExecuteEnd
  <2>6. /\ sem' \in [{"connect", "execute", "cancel"} -> Nat]
        /\ sem'.execute = sem.execute + 1 /\ sem'.cancel = sem.cancel
        /\ sem'.connect = sem.connect
    BY <1>1, <2>5
  <2>1. Going(t, "idle")
    BY <1>1, <2>5, <2>6 DEF Link!PCs, Link!Executing, Link!Cancelling, OpeningPCs, AfterAck, In, Going, Balanced
  <2>2. \E c : Calling(t, c)
    BY <1>1, <1>11, CallCounts DEF Link!ExecuteEnd
  <2>3. Reading
    BY <1>11, StreamsSame DEF Link!ExecuteEnd
  <2>4. Rest /\ UNCHANGED reinit
    <3>1. info' \in InfoForm
      BY <1>1, <1>11 DEF Link!ExecuteEnd, InfoForm
    <3> QED BY <1>11, <3>1, RestEvent DEF Link!ExecuteEnd
  <2> QED BY <2>1, <2>2, <2>3, <2>4, ThreadKeeps
<1> QED BY <1>2, <1>3, <1>4, <1>5, <1>6, <1>7, <1>8, <1>9, <1>10, <1>11

(* ConnectDevice: the semaphores start again.                              *)
LEMMA LinkConnects ==
  ASSUME LinkInv, NEW t \in Threads, Link!ConnectDevice(t)
  PROVE  LinkInv'
<1>1. /\ linkPc \in [Threads -> Link!PCs] /\ call \in [Threads -> CallForm]
      /\ sem \in [{"connect", "execute", "cancel"} -> Nat]
      /\ DOMAIN sem = {"connect", "execute", "cancel"}
  BY LinkForms DEF LinkInv
<1>2. /\ linkPc[t] = "idle" /\ linkPc' = [linkPc EXCEPT ![t] = "connect1"]
      /\ sem' = [s \in DOMAIN sem |-> 1]
      /\ reinit' = (reinit \/ \E s \in DOMAIN sem : sem[s] # 1)
      /\ UNCHANGED <<tx, rx, unit, astray, call, info, issued>>
  BY DEF Link!ConnectDevice, Link!RS232C_Init, Link!LineSame, Link!ReaderSame, Link!Goto
<1>3. Rest
  <2>1. info' \in InfoForm
    BY <1>2 DEF LinkInv, LinkTyped, Link!TypeOK, InfoForm
  <2>2. Link!Event
    BY DEF Link!ConnectDevice
  <2> QED BY <1>2, <2>1, <2>2, RestEvent
<1>4. CASE ~reinit'
  <2>1. ~reinit /\ \A s \in DOMAIN sem : sem[s] = 1
    BY <1>2, <1>4
  <2>2. reinit' = reinit
    BY <1>2, <2>1 DEF LinkInv, LinkTyped, Link!TypeOK
  <2>3. UNCHANGED sem
    BY <1>1, <1>2, <2>1
  <2>4. Going(t, "connect1")
    <3>1. "connect1" \in Link!PCs /\ "connect1" \notin AfterAck
      BY DEF Link!PCs, AfterAck
    <3>2. /\ In("connect1", Link!Executing) = In("idle", Link!Executing)
          /\ In("connect1", Link!Cancelling) = In("idle", Link!Cancelling)
          /\ In("connect1", OpeningPCs) = In("idle", OpeningPCs)
      BY DEF Link!Executing, Link!Cancelling, OpeningPCs, In
    <3> QED BY <1>2, <2>3, <3>1, <3>2, PlaceMoves
  <2>5. Calling(t, call[t]) /\ Reading
    BY <1>2, CallSame, StreamsSame
  <2> QED BY <1>3, <2>2, <2>4, <2>5, ThreadKeeps
<1>5. CASE reinit'
  <2>1. /\ linkPc' \in [Threads -> Link!PCs] /\ linkPc'[t] = "connect1"
        /\ \A u \in Threads \ {t} : linkPc'[u] = linkPc[u]
    BY <1>1, <1>2 DEF Link!PCs
  <2>2. reinit' \in BOOLEAN /\ sem' \in [{"connect", "execute", "cancel"} -> Nat]
    BY <1>1, <1>2 DEF LinkInv, LinkTyped, Link!TypeOK
  <2>3. /\ unit' \in [busy : 0..MaxCommands, last : 0..MaxCommands]
        /\ issued' \in 0..MaxCommands /\ astray' \in BOOLEAN
        /\ tx' \in Seq(ToReader) /\ rx' \in Seq(FromReader) /\ call' \in [Threads -> CallForm]
    BY <1>1, <1>2 DEF LinkInv, LinkTyped, Link!TypeOK
  <2>4. LinkTyped'
    BY <1>3, <2>1, <2>2, <2>3, LinkRetyped DEF LinkInv, Rest
  <2>5. PlainStep
    <3>1. Later(rx', rx)
      BY <1>2, LaterParts DEF LinkInv, LinkTyped
    <3> QED BY <1>2, <2>1, <3>1 DEF PlainStep, AfterAck, Link!Executing
  <2>6. LinkIds' /\ LinkOrder'
    BY <1>5, <2>3, <2>5, PlainKeeps DEF LinkInv
  <2> QED BY <1>5, <2>4, <2>6 DEF LinkInv, Link!OneAtATime, Link!OwnReply
<1> QED BY <1>4, <1>5

(* A command gets the next number.                                         *)
LEMMA LinkCommands ==
  ASSUME LinkInv, NEW t \in Threads, Link!ExecuteCommand(t)
  PROVE  LinkInv'
<1>1. /\ linkPc \in [Threads -> Link!PCs] /\ call \in [Threads -> CallForm]
      /\ issued \in 0..MaxCommands /\ unit.last \in 0..MaxCommands
      /\ call[t] \in CallForm
  BY LinkForms DEF LinkInv, LinkTyped, Link!TypeOK
<1> DEFINE c0 == [id |-> issued + 1, retry |-> 0, crc |-> 0, nak |-> FALSE, ret |-> "none", reply |-> 0]
           c1 == [call[t] EXCEPT !.ret = "NOT_CONNECTED"]
<1>2. /\ linkPc[t] = "idle" /\ issued < MaxCommands /\ issued' = issued + 1
      /\ UNCHANGED <<tx, rx, unit, astray, sem, info, events, reinit>>
      /\ \/ linkPc' = [linkPc EXCEPT ![t] = "enter"] /\ call' = [call EXCEPT ![t] = c0]
         \/ UNCHANGED linkPc /\ call' = [call EXCEPT ![t] = c1]
  BY DEF Link!ExecuteCommand, Link!LineSame, Link!ReaderSame, Link!Goto, Link!Return, Link!NoCall
<1>3. /\ c0 \in CallForm /\ c0.id = issued + 1 /\ c0.ret = "none"
      /\ c1 \in CallForm /\ c1.id = call[t].id /\ c1.ret = "NOT_CONNECTED"
  BY <1>1, <1>2, LinkBounds DEF CallForm, Link!Results
<1> HIDE DEF c0, c1
<1>4. PICK c \in CallForm, l \in {"idle", "enter"} :
        /\ linkPc' = [linkPc EXCEPT ![t] = l] /\ call' = [call EXCEPT ![t] = c]
        /\ \/ l = "enter" /\ c.id = issued + 1
           \/ l = "idle" /\ c.id = call[t].id
        /\ c.ret # "NO_ERROR"
  <2>1. linkPc = [linkPc EXCEPT ![t] = linkPc[t]]
    BY <1>1
  <2> QED BY <1>2, <1>3, <2>1
<1>5. /\ linkPc' \in [Threads -> Link!PCs] /\ linkPc'[t] = l
      /\ \A u \in Threads \ {t} : linkPc'[u] = linkPc[u]
  BY <1>1, <1>4 DEF Link!PCs
<1>6. /\ call' \in [Threads -> CallForm] /\ call'[t] = c
      /\ \A u \in Threads \ {t} : call'[u] = call[u]
  BY <1>1, <1>4
<1>7. LinkTyped'
  <2>1. issued' \in 0..MaxCommands
    BY <1>1, <1>2, LinkBounds
  <2>2. /\ sem' \in [{"connect", "execute", "cancel"} -> Nat] /\ info' \in InfoForm
        /\ unit' \in [busy : 0..MaxCommands, last : 0..MaxCommands]
        /\ events' \in 0..MaxEvents /\ reinit' \in BOOLEAN /\ astray' \in BOOLEAN
        /\ tx' \in Seq(ToReader) /\ rx' \in Seq(FromReader)
    BY <1>2 DEF LinkInv, LinkTyped, Link!TypeOK, InfoForm
  <2> QED BY <1>5, <1>6, <2>1, <2>2, LinkRetyped DEF LinkInv
<1>8. Link!OneAtATime'
  <2>1. Balanced(t, l)
    BY <1>1, <1>2, <1>4 DEF Balanced, In, Link!PCs, Link!Executing, Link!Cancelling, OpeningPCs
  <2>2. sem' \in [{"connect", "execute", "cancel"} -> Nat]
    BY <1>2 DEF LinkInv, LinkTyped, Link!TypeOK
  <2> QED BY <1>2, <2>1, <2>2, BalancedKeeps DEF LinkInv, LinkTyped
<1>9. LinkIds'
  <2>1. \A u \in Threads : call[u].id \in 0..MaxCommands
    BY LinkForms DEF LinkInv
  <2>2. \A k \in DOMAIN tx : tx[k].id \in 0..MaxCommands
    <3>1. tx \in Seq(ToReader)
      BY DEF LinkInv, LinkTyped
    <3>2. \A k \in DOMAIN tx : tx[k] \in ToReader
      BY <3>1, ElementOfSeq, LenProperties
    <3> QED BY <3>2 DEF ToReader
  <2>3. \A u \in Threads : call'[u].id =< issued'
    BY <1>1, <1>2, <1>4, <1>6, <2>1 DEF LinkInv, LinkIds
  <2>4. \A u, v \in Threads : u # v => call'[u].id # call'[v].id \/ call'[u].id = 0
    BY <1>1, <1>4, <1>6, <2>1 DEF LinkInv, LinkIds
  <2>5. \A u \in Threads : linkPc'[u] \in Link!Executing \cup {"enter"} => call'[u].id > 0
    BY <1>1, <1>4, <1>5, <1>6, <2>1 DEF LinkInv, LinkIds, Link!Executing
  <2>6. /\ unit'.last =< issued' /\ unit'.busy \in {0, unit'.last}
        /\ \A k \in DOMAIN tx' : tx'[k].id =< issued' /\ (tx'[k].kind # "COMMAND" => tx'[k].id = 0)
    BY <1>1, <1>2, <2>2 DEF LinkInv, LinkIds
  <2> QED BY <2>3, <2>4, <2>5, <2>6 DEF LinkIds
<1>10. LinkOrder'
  <2> SUFFICES ASSUME ~astray', ~reinit' PROVE OneCommand' /\ OneAck'
    BY DEF LinkOrder
  <2>1. OneCommand /\ OneAck
    BY <1>2 DEF LinkInv, LinkOrder
  <2>2. \A i : AtAck(i) => AtAck(i)'
    BY <1>2, <1>5, <1>6 DEF AtAck
  <2>3. unit.last # issued + 1
    BY <1>1 DEF LinkInv, LinkIds
  <2>4. OneCommand'
    BY <1>2, <1>4, <1>5, <1>6, <2>1, <2>2, <2>3 DEF OneCommand
  <2>5. OneAck'
    BY <1>2, <1>4, <1>5, <1>6, <2>1, <2>2 DEF OneAck, AfterAck
  <2> QED BY <2>4, <2>5
<1>11. Link!OwnReply'
  <2>1. Answers
    BY <1>4, <1>6 DEF Answers
  <2> QED BY <1>2, <2>1, AnswersOwn
<1> QED BY <1>7, <1>8, <1>9, <1>10, <1>11 DEF LinkInv

(* The command goes out once: the reader has not got it yet.               *)
LEMMA LinkSends ==
  ASSUME LinkInv, NEW t \in Threads, Link!SendCommand(t)
  PROVE  LinkInv'
<1>1. /\ linkPc \in [Threads -> Link!PCs] /\ call \in [Threads -> CallForm]
      /\ call[t].id \in 0..MaxCommands /\ linkPc[t] = "send"
      /\ UNCHANGED <<unit, astray, issued, events, reinit, rx, sem, info>>
  BY LinkForms DEF LinkInv, Link!SendCommand, Link!ReaderSame, Link!BoundsSame
<1>2. CASE /\ UNCHANGED tx
           /\ \E r \in {"NAK_OVERTIMES", "ACK_TIMEOUT", "FAILED_TO_SEND"} : Link!Fail(t, r)
  <2>1. PICK r \in {"NAK_OVERTIMES", "ACK_TIMEOUT", "FAILED_TO_SEND"} : Link!Fail(t, r)
    BY <1>2
  <2>2. r \in Link!Results /\ r # "NO_ERROR"
    BY DEF Link!Results
  <2>3. PICK c : Calling(t, c)
    BY <2>1, <2>2, CallFails
  <2>4. linkPc' = [linkPc EXCEPT ![t] = "done"]
    BY <2>1 DEF Link!Fail, Link!Goto
  <2>5. Going(t, "done")
    <3>1. "done" \in Link!PCs /\ "done" \notin AfterAck
      BY DEF Link!PCs, Link!Executing, AfterAck
    <3>2. /\ In("done", Link!Executing) = In("send", Link!Executing)
          /\ In("done", Link!Cancelling) = In("send", Link!Cancelling)
          /\ In("done", OpeningPCs) = In("send", OpeningPCs)
      BY DEF Link!Executing, Link!Cancelling, OpeningPCs, In
    <3> QED BY <1>1, <2>4, <3>1, <3>2, PlaceMoves
  <2>6. Reading /\ Rest
    BY <1>1, <1>2, StreamsSame, RestSame
  <2> QED BY <1>1, <2>3, <2>5, <2>6, ThreadKeeps
<1> DEFINE m == [kind |-> "COMMAND", id |-> call[t].id]
<1>3. CASE /\ tx' = Append(tx, m) /\ linkPc' = [linkPc EXCEPT ![t] = "ack"] /\ UNCHANGED call
  <2>1. m \in ToReader /\ m.kind = "COMMAND" /\ m.id = call[t].id
    BY <1>1 DEF ToReader
  <2> HIDE DEF m
  <2>2. /\ tx' \in Seq(ToReader)
        /\ \A k \in DOMAIN tx' : \/ k \in DOMAIN tx /\ tx'[k] = tx[k]
                                 \/ k = Len(tx) + 1 /\ tx'[k] = m
    BY <1>3, <2>1, Appended DEF LinkInv, LinkTyped
  <2>3. /\ linkPc' \in [Threads -> Link!PCs] /\ linkPc'[t] = "ack"
        /\ \A u \in Threads \ {t} : linkPc'[u] = linkPc[u]
    BY <1>1, <1>3 DEF Link!PCs, Link!Executing
  <2>4. LinkTyped'
    <3>1. /\ sem' \in [{"connect", "execute", "cancel"} -> Nat] /\ info' \in InfoForm
          /\ unit' \in [busy : 0..MaxCommands, last : 0..MaxCommands]
          /\ issued' \in 0..MaxCommands /\ call' \in [Threads -> CallForm]
          /\ events' \in 0..MaxEvents /\ reinit' \in BOOLEAN /\ astray' \in BOOLEAN
          /\ rx' \in Seq(FromReader)
      BY <1>1, <1>3 DEF LinkInv, LinkTyped, Link!TypeOK, InfoForm
    <3> QED BY <2>2, <2>3, <3>1, LinkRetyped DEF LinkInv
  <2>5. Link!OneAtATime'
    <3>1. Balanced(t, "ack")
      BY <1>1, <1>3 DEF Balanced, In, Link!PCs, Link!Executing, Link!Cancelling, OpeningPCs
    <3>2. sem' \in [{"connect", "execute", "cancel"} -> Nat]
      BY <1>1 DEF LinkInv, LinkTyped, Link!TypeOK
    <3> QED BY <1>1, <3>1, <3>2, BalancedKeeps DEF LinkInv, LinkTyped
  <2>6. LinkIds'
    <3>1. \A u \in Threads : linkPc'[u] \in Link!Executing \cup {"enter"} => call[u].id > 0
      BY <1>1, <2>3 DEF LinkInv, LinkIds, Link!Executing
    <3>2. \A k \in DOMAIN tx' : tx'[k].id =< issued /\ (tx'[k].kind # "COMMAND" => tx'[k].id = 0)
      BY <2>1, <2>2 DEF LinkInv, LinkIds
    <3> QED BY <1>1, <1>3, <3>1, <3>2 DEF LinkInv, LinkIds
  <2>7. LinkOrder'
    <3> SUFFICES ASSUME ~astray', ~reinit' PROVE OneCommand' /\ OneAck'
      BY DEF LinkOrder
    <3>1. OneCommand /\ OneAck /\ ~reinit
      BY <1>1 DEF LinkInv, LinkOrder
    <3>2. \A u \in Threads : linkPc[u] = "ack" => FALSE
      <4>1. "ack" \in Link!Executing /\ "send" \in Link!Executing
        BY DEF Link!Executing
      <4>2. \A u \in Threads : linkPc[u] \in Link!Executing => u = t
        BY <1>1, <3>1, <4>1, Exclusive DEF LinkInv, LinkTyped
      <4> QED BY <1>1, <4>1, <4>2
    <3>3. \A i : ~AtAck(i)
      BY <3>2 DEF AtAck
    <3>4. /\ \A k \in DOMAIN tx : tx[k].kind # "COMMAND"
          /\ \A k \in DOMAIN rx : rx[k].kind # "ACK"
      BY <3>1, <3>3 DEF OneCommand, OneAck
    <3>5. AtAck(call[t].id)'
      BY <1>1, <1>3, <2>3 DEF AtAck
    <3>6. unit.last # call[t].id
      BY <1>1, <3>1 DEF OneCommand
    <3>7. OneCommand'
      BY <1>1, <1>3, <2>1, <2>2, <2>3, <3>1, <3>4, <3>5, <3>6 DEF OneCommand
    <3>8. OneAck'
      BY <1>1, <1>3, <2>3, <3>1, <3>4 DEF OneAck, AfterAck
    <3> QED BY <3>7, <3>8
  <2>8. Link!OwnReply'
    BY <1>1, <1>3, AnswersOwn DEF Answers
  <2> QED BY <2>4, <2>5, <2>6, <2>7, <2>8 DEF LinkInv
<1>4. \/ tx' = Append(tx, m) /\ linkPc' = [linkPc EXCEPT ![t] = "ack"] /\ UNCHANGED call
      \/ /\ UNCHANGED tx
         /\ \E r \in {"NAK_OVERTIMES", "ACK_TIMEOUT", "FAILED_TO_SEND"} : Link!Fail(t, r)
  BY DEF Link!SendCommand, Link!Send, Link!Goto
<1> QED BY <1>2, <1>3, <1>4

(* A wait for the acknowledgement that ends in a NAK or a time-out: the    *)
(* command is on its way no more, or went astray.                          *)
LEMMA LinkGivesUp ==
  ASSUME LinkInv, NEW t \in Threads, NEW l \in {"send", "done"}, NEW c,
         linkPc[t] = "ack", linkPc' = [linkPc EXCEPT ![t] = l], Calling(t, c),
         UNCHANGED <<tx, unit, sem, info, issued, reinit>>,
         rx' \in Seq(FromReader), Later(rx', rx), events' \in 0..MaxEvents,
         astray' = (astray \/ Link!Delivered(t))
  PROVE  LinkInv'
<1>1. linkPc \in [Threads -> Link!PCs] /\ call \in [Threads -> CallForm]
  BY LinkForms DEF LinkInv
<1>2. /\ linkPc' \in [Threads -> Link!PCs] /\ linkPc'[t] = l
      /\ \A u \in Threads \ {t} : linkPc'[u] = linkPc[u]
  BY <1>1 DEF Link!PCs, Link!Executing
<1>3. /\ call' \in [Threads -> CallForm] /\ call'[t] = c /\ c.id = call[t].id
      /\ \A u \in Threads \ {t} : call'[u] = call[u]
  BY <1>1 DEF Calling
<1>4. astray' \in BOOLEAN /\ (astray => astray')
  BY DEF LinkInv, LinkTyped, Link!TypeOK, Link!Delivered
<1>5. LinkTyped'
  <2>1. /\ sem' \in [{"connect", "execute", "cancel"} -> Nat] /\ info' \in InfoForm
        /\ unit' \in [busy : 0..MaxCommands, last : 0..MaxCommands]
        /\ issued' \in 0..MaxCommands /\ reinit' \in BOOLEAN
        /\ tx' \in Seq(ToReader)
    BY DEF LinkInv, LinkTyped, Link!TypeOK, InfoForm
  <2> QED BY <1>2, <1>3, <1>4, <2>1, LinkRetyped DEF LinkInv
<1>6. Link!OneAtATime'
  <2>1. /\ In(l, Link!Executing) = In("ack", Link!Executing)
        /\ In(l, Link!Cancelling) = In("ack", Link!Cancelling)
        /\ In(l, OpeningPCs) = In("ack", OpeningPCs) /\ l \in Link!PCs
    BY DEF Link!PCs, Link!Executing, Link!Cancelling, OpeningPCs, In
  <2>2. Balanced(t, l)
    BY <2>1 DEF Balanced
  <2>3. sem' \in [{"connect", "execute", "cancel"} -> Nat]
    BY DEF LinkInv, LinkTyped, Link!TypeOK
  <2> QED BY <2>2, <2>3, BalancedKeeps DEF LinkInv, LinkTyped
<1>7. \A u \in Threads : call'[u].id = call[u].id
  BY <1>3
<1>8. LinkIds'
  <2>1. \A u \in Threads : linkPc'[u] \in Link!Executing \cup {"enter"} => call[u].id > 0
    BY <1>2 DEF LinkInv, LinkIds, Link!Executing
  <2> QED BY <1>7, <2>1 DEF LinkInv, LinkIds
<1>9. LinkOrder'
  <2> SUFFICES ASSUME ~astray', ~reinit' PROVE OneCommand' /\ OneAck'
    BY DEF LinkOrder
  <2>1. OneCommand /\ OneAck /\ ~reinit /\ ~Link!Delivered(t)
    BY <1>4 DEF LinkInv, LinkOrder
  <2>2. \A u \in Threads : linkPc[u] = "ack" => u = t
    <3>1. "ack" \in Link!Executing
      BY DEF Link!Executing
    <3> QED BY <2>1, <3>1, Exclusive DEF LinkInv, LinkTyped
  <2>3. \A i : AtAck(i) => i = call[t].id
    BY <2>2 DEF AtAck
  <2>4. unit.last # call[t].id /\ \A k \in DOMAIN tx : tx[k].id # call[t].id
    BY <2>1 DEF Link!Delivered
  <2>5. /\ \A k \in DOMAIN tx : tx[k].kind # "COMMAND"
        /\ \A k \in DOMAIN rx : rx[k].kind # "ACK"
    BY <2>1, <2>3, <2>4 DEF OneCommand, OneAck
  <2>6. \A k \in DOMAIN rx' : \E j \in DOMAIN rx : rx'[k] = rx[j]
    BY DEF Later
  <2>7. OneCommand'
    BY <1>2, <1>3, <1>7, <2>1, <2>4, <2>5 DEF OneCommand
  <2>8. OneAck'
    BY <1>2, <1>7, <2>1, <2>5, <2>6 DEF OneAck, AfterAck
  <2> QED BY <2>7, <2>8
<1>10. Answers
  BY <1>3 DEF Calling, Answers
<1>11. Link!OwnReply'
  BY <1>4, <1>10, AnswersOwn
<1> QED BY <1>5, <1>6, <1>8, <1>9, <1>11 DEF LinkInv

(* The acknowledgement comes: what is behind it is this command's.         *)
LEMMA LinkAcknowledged ==
  ASSUME LinkInv, NEW t \in Threads, NEW c,
         linkPc[t] = "ack", linkPc' = [linkPc EXCEPT ![t] = "first"], Calling(t, c),
         UNCHANGED <<tx, unit, sem, issued, events, reinit>>, info' \in InfoForm,
         rx # <<>>, rx' = Tail(rx), Head(rx).kind \in {"ACK", "BODY"},
         astray' = (astray \/ Head(rx).kind = "BODY")
  PROVE  LinkInv'
<1>1. linkPc \in [Threads -> Link!PCs] /\ call \in [Threads -> CallForm]
  BY LinkForms DEF LinkInv
<1>2. /\ linkPc' \in [Threads -> Link!PCs] /\ linkPc'[t] = "first"
      /\ \A u \in Threads \ {t} : linkPc'[u] = linkPc[u]
  BY <1>1 DEF Link!PCs, Link!Executing
<1>3. /\ call' \in [Threads -> CallForm] /\ call'[t] = c /\ c.id = call[t].id
      /\ \A u \in Threads \ {t} : call'[u] = call[u]
  BY <1>1 DEF Calling
<1>4. astray' \in BOOLEAN /\ (astray => astray')
  BY DEF LinkInv, LinkTyped, Link!TypeOK
<1>12. /\ rx' \in Seq(FromReader) /\ Head(rx) = rx[1] /\ 1 \in DOMAIN rx
       /\ DOMAIN rx \subseteq Nat /\ DOMAIN rx' \subseteq 1..Len(rx')
       /\ \A k \in DOMAIN rx' : k + 1 \in DOMAIN rx /\ rx'[k] = rx[k + 1]
  <2>1. rx \in Seq(FromReader)
    BY DEF LinkInv, LinkTyped
  <2>2. rx' \in Seq(FromReader)
    BY <2>1, LaterParts
  <2> QED BY <2>1, <2>2, LaterParts
<1>5. LinkTyped'
  <2>1. /\ sem' \in [{"connect", "execute", "cancel"} -> Nat]
        /\ unit' \in [busy : 0..MaxCommands, last : 0..MaxCommands]
        /\ issued' \in 0..MaxCommands /\ events' \in 0..MaxEvents /\ reinit' \in BOOLEAN
        /\ tx' \in Seq(ToReader)
    BY DEF LinkInv, LinkTyped, Link!TypeOK
  <2> QED BY <1>2, <1>3, <1>4, <1>12, <2>1, LinkRetyped DEF LinkInv
<1>6. Link!OneAtATime'
  <2>1. /\ In("first", Link!Executing) = In("ack", Link!Executing)
        /\ In("first", Link!Cancelling) = In("ack", Link!Cancelling)
        /\ In("first", OpeningPCs) = In("ack", OpeningPCs) /\ "first" \in Link!PCs
    BY DEF Link!PCs, Link!Executing, Link!Cancelling, OpeningPCs, In
  <2>2. Balanced(t, "first")
    BY <2>1 DEF Balanced
  <2>3. sem' \in [{"connect", "execute", "cancel"} -> Nat]
    BY DEF LinkInv, LinkTyped, Link!TypeOK
  <2> QED BY <2>2, <2>3, BalancedKeeps DEF LinkInv, LinkTyped
<1>7. \A u \in Threads : call'[u].id = call[u].id
  BY <1>3
<1>8. LinkIds'
  <2>1. \A u \in Threads : linkPc'[u] \in Link!Executing \cup {"enter"} => call[u].id > 0
    BY <1>2 DEF LinkInv, LinkIds, Link!Executing
  <2> QED BY <1>7, <2>1 DEF LinkInv, LinkIds
<1>9. LinkOrder'
  <2> SUFFICES ASSUME ~astray', ~reinit' PROVE OneCommand' /\ OneAck'
    BY DEF LinkOrder
  <2>1. OneCommand /\ OneAck /\ ~reinit /\ rx[1].kind = "ACK"
    BY <1>4, <1>12 DEF LinkInv, LinkOrder
  <2>2. \A u \in Threads : linkPc[u] \in Link!Executing => u = t
    <3>1. "ack" \in Link!Executing
      BY DEF Link!Executing
    <3> QED BY <2>1, <3>1, Exclusive DEF LinkInv, LinkTyped
  <2>3. \A u \in Threads : u # t => linkPc[u] \notin AfterAck \cup {"ack", "send"}
    BY <2>2 DEF Link!Executing, AfterAck
  <2>4. unit.last = call[t].id
    <3>1. AtAck(unit.last)
      BY <1>12, <2>1 DEF OneAck
    <3> QED BY <2>3, <3>1 DEF AtAck
  <2>5. \A k \in DOMAIN tx : tx[k].kind # "COMMAND"
    BY <1>12, <2>1 DEF OneCommand
  <2>6. \A k \in DOMAIN rx' : k + 1 > 1 /\ k + 1 # 1
    BY <1>12
  <2>7. \A k \in DOMAIN rx' : rx'[k].kind # "ACK"
    BY <1>12, <2>1, <2>6 DEF OneAck
  <2>8. \A k \in DOMAIN rx' : rx'[k].kind = "BODY" => rx'[k].id = unit.last
    BY <1>12, <2>1, <2>6 DEF OneAck
  <2>9. OneCommand'
    BY <1>2, <1>7, <2>1, <2>5 DEF OneCommand
  <2>10. OneAck'
    BY <1>2, <1>7, <2>3, <2>4, <2>7, <2>8 DEF OneAck
  <2> QED BY <2>9, <2>10
<1>10. Answers
  BY <1>3 DEF Calling, Answers
<1>11. Link!OwnReply'
  BY <1>4, <1>10, AnswersOwn
<1> QED BY <1>5, <1>6, <1>8, <1>9, <1>11 DEF LinkInv

LEMMA LinkWaits ==
  ASSUME LinkInv, NEW t \in Threads, Link!ReceiveAck(t) \/ Link!AckTimeout(t)
  PROVE  LinkInv'
<1>1. /\ linkPc[t] = "ack" /\ UNCHANGED <<tx, unit, sem, issued, reinit>>
      /\ linkPc \in [Threads -> Link!PCs]
  BY LinkForms DEF LinkInv, Link!ReceiveAck, Link!AckTimeout, Link!LineSame, Link!BoundsSame
<1>2. CASE Link!ReceiveAck(t)
  <2>1. rx # <<>> /\ rx' = Tail(rx) /\ UNCHANGED events
    BY <1>2 DEF Link!ReceiveAck, Link!Read, Link!BoundsSame
  <2>2. rx' \in Seq(FromReader) /\ Later(rx', rx)
    BY <2>1, LaterParts DEF LinkInv, LinkTyped
  <2>3. PICK b \in Link!LooksLike(Head(rx)) :
       \/ /\ b = "ACK" /\ Link!Goto(t, "first")
          /\ call' = [call EXCEPT ![t].retry = 1, ![t].crc = 1]
          /\ info' = [info EXCEPT !.cancelReceive = FALSE]
          /\ astray' = (astray \/ Head(rx).kind = "BODY")
       \/ /\ b = "NAK" /\ Link!Goto(t, "send")
          /\ call' = [call EXCEPT ![t].retry = @ + 1, ![t].nak = TRUE]
          /\ astray' = (astray \/ Link!Delivered(t)) /\ UNCHANGED info
       \/ b \notin {"ACK", "NAK"} /\ UNCHANGED <<linkPc, call, info, astray>>
    BY <1>2 DEF Link!ReceiveAck
  <2>4. CASE /\ b = "ACK" /\ Link!Goto(t, "first")
             /\ call' = [call EXCEPT ![t].retry = 1, ![t].crc = 1]
             /\ info' = [info EXCEPT !.cancelReceive = FALSE]
             /\ astray' = (astray \/ Head(rx).kind = "BODY")
    <3>1. PICK c : Calling(t, c)
      BY <2>4, CallCounts
    <3>2. Head(rx).kind \in {"ACK", "BODY"}
      BY <2>4 DEF Link!LooksLike
    <3>3. info' \in InfoForm
      BY <2>4 DEF LinkInv, LinkTyped, Link!TypeOK, InfoForm
    <3> QED BY <1>1, <2>1, <2>4, <3>1, <3>2, <3>3, LinkAcknowledged DEF Link!Goto
  <2>5. CASE /\ b = "NAK" /\ Link!Goto(t, "send")
             /\ call' = [call EXCEPT ![t].retry = @ + 1, ![t].nak = TRUE]
             /\ astray' = (astray \/ Link!Delivered(t)) /\ UNCHANGED info
    <3>1. PICK c : Calling(t, c)
      BY <2>5, CallCounts
    <3>2. events' \in 0..MaxEvents
      BY <2>1 DEF LinkInv, LinkTyped, Link!TypeOK
    <3>3. linkPc' = [linkPc EXCEPT ![t] = "send"] /\ astray' = (astray \/ Link!Delivered(t))
      BY <2>5 DEF Link!Goto
    <3>4. UNCHANGED <<tx, unit, sem, info, issued, reinit>>
      BY <1>1, <2>5
    <3> QED BY <1>1, <2>2, <3>1, <3>2, <3>3, <3>4, LinkGivesUp
  <2>6. CASE b \notin {"ACK", "NAK"} /\ UNCHANGED <<linkPc, call, info, astray>>
    <3>1. Going(t, linkPc[t])
      BY <1>1, <2>6, PlaceSame
    <3>2. Calling(t, call[t]) /\ Reading
      BY <1>1, <2>1, <2>6, CallSame, StreamsRead
    <3>3. Rest
      BY <1>1, <2>1, <2>6, RestSame
    <3> QED BY <1>1, <3>1, <3>2, <3>3, ThreadKeeps
  <2> QED BY <2>3, <2>4, <2>5, <2>6
<1>3. CASE Link!AckTimeout(t)
  <2>1. UNCHANGED <<rx, info>> /\ astray' = (astray \/ Link!Delivered(t))
    BY <1>3 DEF Link!AckTimeout, Link!LineSame
  <2>2. rx' \in Seq(FromReader) /\ Later(rx', rx)
    BY <2>1, LaterParts DEF LinkInv, LinkTyped
  <2>3. events' \in 0..MaxEvents
    <3>1. Link!Event \/ UNCHANGED events
      BY <1>3 DEF Link!AckTimeout, Link!Silence
    <3> QED BY <3>1, LinkBounds DEF Link!Event, LinkInv, LinkTyped, Link!TypeOK
  <2>4. UNCHANGED <<tx, unit, sem, info, issued, reinit>>
    BY <1>1, <2>1
  <2>5. \/ /\ linkPc' = [linkPc EXCEPT ![t] = "send"]
           /\ call' = [call EXCEPT ![t].retry = @ + 1, ![t].nak = FALSE]
        \/ Link!Fail(t, "FAILED_TO_RECEIVE")
    BY <1>3 DEF Link!AckTimeout, Link!Goto
  <2>6. PICK l \in {"send", "done"} :
          linkPc' = [linkPc EXCEPT ![t] = l] /\ \E c : Calling(t, c)
    <3>1. CASE /\ linkPc' = [linkPc EXCEPT ![t] = "send"]
               /\ call' = [call EXCEPT ![t].retry = @ + 1, ![t].nak = FALSE]
      BY <3>1, CallCounts
    <3>2. CASE Link!Fail(t, "FAILED_TO_RECEIVE")
      BY <3>2, CallFails DEF Link!Results
    <3> QED BY <2>5, <3>1, <3>2
  <2>7. PICK c : Calling(t, c)
    BY <2>6
  <2> QED BY <1>1, <2>1, <2>2, <2>3, <2>4, <2>6, <2>7, LinkGivesUp
<1> QED BY <1>2, <1>3

(* What the reader adds behind what is there.                              *)
LEMMA Joined ==
  ASSUME NEW S, NEW s \in Seq(S), NEW r \in Seq(S)
  PROVE  /\ s \o r \in Seq(S)
         /\ \A k \in DOMAIN (s \o r) :
              \/ k \in DOMAIN s /\ (s \o r)[k] = s[k]
              \/ \E j \in DOMAIN r : (s \o r)[k] = r[j]
<1> DEFINE q == s \o r
<1>1. /\ q \in Seq(S) /\ Len(q) = Len(s) + Len(r)
      /\ \A i \in 1..Len(s) + Len(r) : q[i] = IF i =< Len(s) THEN s[i] ELSE r[i - Len(s)]
  BY ConcatProperties
<1>2. /\ DOMAIN s = 1..Len(s) /\ Len(s) \in Nat /\ DOMAIN r = 1..Len(r) /\ Len(r) \in Nat
  BY LenProperties
<1> HIDE DEF q
<1>3. DOMAIN q = 1..Len(q)
  BY <1>1, LenProperties
<1>4. ASSUME NEW k \in DOMAIN q
      PROVE  \/ k \in DOMAIN s /\ q[k] = s[k]
             \/ \E j \in DOMAIN r : q[k] = r[j]
  <2>1. CASE k =< Len(s)
    BY <1>1, <1>2, <1>3, <2>1
  <2>2. CASE ~(k =< Len(s))
    <3>1. k - Len(s) \in DOMAIN r /\ q[k] = r[k - Len(s)]
      BY <1>1, <1>2, <1>3, <2>2
    <3> QED BY <3>1
  <2> QED BY <2>1, <2>2
<1> QED BY <1>1, <1>4 DEF q

Unmoved == UNCHANGED <<linkPc, call, sem, info, issued, reinit, astray>>

(* What the reader does apart from taking a command: it takes something    *)
(* from its end, and what it sends is no acknowledgement and no reply to   *)
(* another command than the last.                                          *)
LEMMA ReaderKeeps ==
  ASSUME LinkInv, Unmoved, events' \in 0..MaxEvents,
         unit' \in [busy : 0..MaxCommands, last : 0..MaxCommands],
         unit'.last = unit.last, unit'.busy \in {0, unit.last},
         tx' = tx \/ (tx # <<>> /\ tx' = Tail(tx)),
         rx' \in Seq(FromReader),
         \A k \in DOMAIN rx' :
           \/ k \in DOMAIN rx /\ rx'[k] = rx[k]
           \/ rx'[k].kind # "ACK" /\ (rx'[k].kind = "BODY" => rx'[k].id = unit.last)
  PROVE  LinkInv'
<1>1. UNCHANGED <<linkPc, call, sem, info, issued, reinit, astray>>
  BY DEF Unmoved
<1>2. /\ tx' \in Seq(ToReader)
      /\ \E n \in Nat : \A k \in DOMAIN tx' : k + n \in DOMAIN tx /\ tx'[k] = tx[k + n]
  <2>1. tx \in Seq(ToReader)
    BY DEF LinkInv, LinkTyped
  <2>2. tx' \in Seq(ToReader) /\ Later(tx', tx)
    <3>1. CASE tx' = tx
      BY <2>1, <3>1, LaterParts
    <3>2. CASE tx # <<>> /\ tx' = Tail(tx)
      BY <2>1, <3>2, LaterParts
    <3> QED BY <3>1, <3>2
  <2> QED BY <2>2 DEF Later
<1>3. PICK n \in Nat : \A k \in DOMAIN tx' : k + n \in DOMAIN tx /\ tx'[k] = tx[k + n]
  BY <1>2
<1>4. \A k \in DOMAIN tx' : k \in Int
  BY <1>2, LenProperties
<1>5. LinkTyped'
  <2>1. /\ linkPc' \in [Threads -> Link!PCs] /\ call' \in [Threads -> CallForm]
        /\ sem' \in [{"connect", "execute", "cancel"} -> Nat] /\ info' \in InfoForm
        /\ issued' \in 0..MaxCommands /\ reinit' \in BOOLEAN /\ astray' \in BOOLEAN
    BY <1>1 DEF LinkInv, LinkTyped, Link!TypeOK, InfoForm, CallForm
  <2> QED BY <1>2, <2>1, LinkRetyped DEF LinkInv
<1>6. Link!OneAtATime'
  BY <1>1 DEF LinkInv, Link!OneAtATime, Link!Inside, Link!Opening
<1>7. LinkIds'
  BY <1>1, <1>3 DEF LinkInv, LinkIds
<1>8. LinkOrder'
  <2> SUFFICES ASSUME ~astray', ~reinit' PROVE OneCommand' /\ OneAck'
    BY DEF LinkOrder
  <2>1. OneCommand /\ OneAck
    BY <1>1 DEF LinkInv, LinkOrder
  <2>2. \A i : AtAck(i)' <=> AtAck(i)
    BY <1>1 DEF AtAck
  <2>3. \A k, l \in DOMAIN tx' : tx'[k].kind = "COMMAND" /\ tx'[l].kind = "COMMAND" => k = l
    BY <1>3, <1>4, <2>1 DEF OneCommand
  <2>4. \A k \in DOMAIN tx' : tx'[k].kind = "COMMAND" =>
          /\ AtAck(tx'[k].id) /\ unit.last # tx'[k].id
          /\ \A l \in DOMAIN rx' : rx'[l].kind # "ACK"
    <3> SUFFICES ASSUME NEW k \in DOMAIN tx', tx'[k].kind = "COMMAND"
                 PROVE  /\ AtAck(tx'[k].id) /\ unit.last # tx'[k].id
                        /\ \A l \in DOMAIN rx' : rx'[l].kind # "ACK"
      OBVIOUS
    <3>1. k + n \in DOMAIN tx /\ tx'[k] = tx[k + n] /\ tx[k + n].kind = "COMMAND"
      BY <1>3
    <3>2. /\ AtAck(tx[k + n].id) /\ unit.last # tx[k + n].id
          /\ \A l \in DOMAIN rx : rx[l].kind # "ACK"
      BY <2>1, <3>1 DEF OneCommand
    <3> QED BY <3>1, <3>2
  <2>5. OneCommand'
    BY <1>1, <2>1, <2>3, <2>4 DEF OneCommand, AtAck
  <2>6. OneAck'
    BY <1>1, <2>1, <2>2 DEF OneAck
  <2> QED BY <2>5, <2>6
<1>9. Link!OwnReply'
  BY <1>1 DEF LinkInv, Link!OwnReply
<1> QED BY <1>5, <1>6, <1>7, <1>8, <1>9 DEF LinkInv

(* The reader takes the one command that is on its way.                    *)
LEMMA ReaderTakes ==
  ASSUME LinkInv, Link!ReaderTake
  PROVE  LinkInv'
<1> DEFINE i == Head(tx).id
           a == [kind |-> "ACK", id |-> 0, good |-> TRUE]
<1>1. /\ UNCHANGED <<linkPc, call, sem, info, issued, reinit, astray, events>>
      /\ tx # <<>> /\ Head(tx).kind = "COMMAND" /\ unit.busy = 0 /\ tx' = Tail(tx)
      /\ unit' = [busy |-> i, last |-> i] /\ rx' = Append(rx, a)
  BY DEF Link!ReaderTake, Link!ReaderStep, Link!Control
<1>2. /\ tx \in Seq(ToReader) /\ rx \in Seq(FromReader) /\ a \in FromReader /\ a.kind = "ACK"
  BY LinkBounds DEF LinkInv, LinkTyped, FromReader
<1> HIDE DEF a
<1>3. /\ tx' \in Seq(ToReader) /\ Head(tx) \in ToReader /\ 1 \in DOMAIN tx /\ Head(tx) = tx[1]
      /\ \A k \in DOMAIN tx' : k + 1 \in DOMAIN tx /\ tx'[k] = tx[k + 1]
  BY <1>1, <1>2, LaterParts
<1>4. /\ rx' \in Seq(FromReader) /\ Len(rx) \in Nat /\ DOMAIN rx = 1..Len(rx)
      /\ DOMAIN rx' = 1..(Len(rx) + 1)
      /\ \A k \in DOMAIN rx' : \/ k \in DOMAIN rx /\ rx'[k] = rx[k]
                               \/ k = Len(rx) + 1 /\ rx'[k] = a
  BY <1>1, <1>2, Appended
<1>5. i \in 0..MaxCommands /\ i =< issued /\ tx[1].id = i
  BY <1>3 DEF LinkInv, LinkIds, ToReader
<1> HIDE DEF i
<1>6. unit'.last = i /\ unit'.busy = i /\ unit' \in [busy : 0..MaxCommands, last : 0..MaxCommands]
  BY <1>1, <1>5
<1>7. LinkTyped'
  <2>1. /\ linkPc' \in [Threads -> Link!PCs] /\ call' \in [Threads -> CallForm]
        /\ sem' \in [{"connect", "execute", "cancel"} -> Nat] /\ info' \in InfoForm
        /\ issued' \in 0..MaxCommands /\ reinit' \in BOOLEAN /\ astray' \in BOOLEAN
        /\ events' \in 0..MaxEvents
    BY <1>1 DEF LinkInv, LinkTyped, Link!TypeOK, InfoForm, CallForm
  <2> QED BY <1>3, <1>4, <1>6, <2>1, LinkRetyped DEF LinkInv
<1>8. Link!OneAtATime'
  BY <1>1 DEF LinkInv, Link!OneAtATime, Link!Inside, Link!Opening
<1>9. LinkIds'
  BY <1>1, <1>3, <1>5, <1>6 DEF LinkInv, LinkIds
<1>10. LinkOrder'
  <2> SUFFICES ASSUME ~astray', ~reinit' PROVE OneCommand' /\ OneAck'
    BY DEF LinkOrder
  <2>1. OneCommand /\ OneAck /\ ~reinit
    BY <1>1 DEF LinkInv, LinkOrder
  <2>2. \A x : AtAck(x)' <=> AtAck(x)
    BY <1>1 DEF AtAck
  <2>3. AtAck(i) /\ \A l \in DOMAIN rx : rx[l].kind # "ACK"
    BY <1>1, <1>3, <1>5, <2>1 DEF OneCommand
  <2>4. PICK v \in Threads : linkPc[v] = "ack" /\ call[v].id = i
    BY <2>3 DEF AtAck
  <2>5. \A u \in Threads : linkPc[u] \in Link!Executing => u = v
    <3>1. "ack" \in Link!Executing
      BY DEF Link!Executing
    <3> QED BY <2>1, <2>4, <3>1, Exclusive DEF LinkInv, LinkTyped
  <2>6. \A u \in Threads : linkPc[u] \notin AfterAck \cup {"send"}
    BY <2>4, <2>5 DEF Link!Executing, AfterAck
  <2>7. \A u \in Threads : linkPc[u] = "enter" => call[u].id # i
    <3>1. \A u \in Threads : linkPc[u] = "enter" => u # v /\ call[u].id > 0
      BY <2>4 DEF LinkInv, LinkIds
    <3>2. \A u \in Threads : call[u].id \in 0..MaxCommands
      BY LinkForms DEF LinkInv
    <3> QED BY <2>4, <3>1, <3>2 DEF LinkInv, LinkIds
  <2>8. \A k \in DOMAIN tx' : tx'[k].kind # "COMMAND"
    <3>1. \A k \in DOMAIN tx' : k \in Int /\ k >= 1
      BY <1>3, LenProperties
    <3>2. \A k \in DOMAIN tx' : k + 1 # 1
      BY <3>1
    <3> QED BY <1>1, <1>3, <2>1, <3>2 DEF OneCommand
  <2>9. OneCommand'
    BY <1>1, <1>6, <2>6, <2>7, <2>8 DEF OneCommand
  <2>10. \A k \in DOMAIN rx' : rx'[k].kind = "ACK" => k = Len(rx) + 1
    BY <1>4, <2>3
  <2>11. OneAck'
    BY <1>1, <1>4, <1>6, <2>2, <2>3, <2>6, <2>10 DEF OneAck
  <2> QED BY <2>9, <2>11
<1>11. Link!OwnReply'
  BY <1>1 DEF LinkInv, Link!OwnReply
<1> QED BY <1>7, <1>8, <1>9, <1>10, <1>11 DEF LinkInv

LEMMA LinkReader ==
  ASSUME LinkInv, Link!ReaderRefuse \/ Link!ReaderReply \/ Link!ReaderControl
  PROVE  LinkInv'
<1>1. /\ rx \in Seq(FromReader) /\ unit.busy \in 0..MaxCommands /\ unit.last \in 0..MaxCommands
      /\ unit \in [busy : 0..MaxCommands, last : 0..MaxCommands] /\ unit.busy \in {0, unit.last}
  BY DEF LinkInv, LinkTyped, Link!TypeOK, LinkIds
<1>2. Unmoved /\ (Link!Event \/ UNCHANGED events)
  BY DEF Unmoved, Link!ReaderRefuse, Link!ReaderReply, Link!ReaderControl, Link!ReaderStep
<1>3. events' \in 0..MaxEvents
  BY <1>2, LinkBounds DEF Link!Event, LinkInv, LinkTyped, Link!TypeOK
<1>4. ASSUME NEW q \in Seq(FromReader), rx' = rx \o q,
             \A k \in DOMAIN q : q[k].kind # "ACK" /\ (q[k].kind = "BODY" => q[k].id = unit.last)
      PROVE  /\ rx' \in Seq(FromReader)
             /\ \A k \in DOMAIN rx' :
                  \/ k \in DOMAIN rx /\ rx'[k] = rx[k]
                  \/ rx'[k].kind # "ACK" /\ (rx'[k].kind = "BODY" => rx'[k].id = unit.last)
  BY <1>1, <1>4, Joined
<1>5. \A c \in {"NAK", "STX", "LEN", "DLE", "EOT"} :
        Link!Control(c) \in FromReader /\ Link!Control(c).kind = c
  BY LinkBounds DEF Link!Control, FromReader
<1>6. CASE Link!ReaderRefuse
  <2>1. /\ tx # <<>> /\ tx' = Tail(tx) /\ UNCHANGED unit
        /\ rx' = rx \/ rx' = Append(rx, Link!Control("NAK"))
    BY <1>6 DEF Link!ReaderRefuse
  <2>2. /\ rx' \in Seq(FromReader)
        /\ \A k \in DOMAIN rx' :
             \/ k \in DOMAIN rx /\ rx'[k] = rx[k]
             \/ rx'[k].kind # "ACK" /\ (rx'[k].kind = "BODY" => rx'[k].id = unit.last)
    <3>1. CASE rx' = rx
      BY <1>1, <3>1
    <3>2. CASE rx' = Append(rx, Link!Control("NAK"))
      BY <1>1, <1>5, <3>2, Appended
    <3> QED BY <2>1, <3>1, <3>2
  <2> QED BY <1>1, <1>2, <1>3, <2>1, <2>2, ReaderKeeps
<1>7. CASE Link!ReaderReply
  <2>1. unit' = [unit EXCEPT !.busy = 0] /\ UNCHANGED tx /\ unit.busy = unit.last
    BY <1>1, <1>7 DEF Link!ReaderReply
  <2>2. /\ unit' \in [busy : 0..MaxCommands, last : 0..MaxCommands]
        /\ unit'.last = unit.last /\ unit'.busy = 0
    BY <1>1, <2>1, LinkBounds
  <2> DEFINE B(g) == [kind |-> "BODY", id |-> unit.busy, good |-> g]
             R(g) == <<Link!Control("STX"), Link!Control("LEN"), B(g)>>
  <2>3. \A g \in BOOLEAN : /\ B(g) \in FromReader /\ B(g).id = unit.last /\ B(g).kind = "BODY"
    BY <1>1, <2>1 DEF FromReader
  <2> DEFINE Parts == {Link!Control("STX"), Link!Control("LEN"), B(TRUE), B(FALSE)}
  <2>4. PICK q : rx' = rx \o q /\ (q = R(TRUE) \/ q = R(FALSE) \/ q = SubSeq(R(TRUE), 1, 2))
    BY <1>7 DEF Link!ReaderReply, Link!Reply
  <2> HIDE DEF B
  <2>7. ASSUME NEW g \in BOOLEAN
        PROVE  /\ R(g) \in Seq(FromReader) /\ Len(R(g)) = 3
               /\ \A k \in 1..3 : R(g)[k] \in Parts
    <3>1. B(g) \in Parts
      BY <2>7
    <3>2. R(g)[1] = Link!Control("STX") /\ R(g)[2] = Link!Control("LEN") /\ R(g)[3] = B(g)
      OBVIOUS
    <3>3. R(g) \in Seq(FromReader) /\ Len(R(g)) = 3
      BY <1>5, <2>3
    <3>4. R(g)[1] \in Parts /\ R(g)[2] \in Parts /\ R(g)[3] \in Parts
      BY <3>1, <3>2
    <3> HIDE DEF R, Parts
    <3>5. \A k \in 1..3 : k = 1 \/ k = 2 \/ k = 3
      OBVIOUS
    <3>6. \A k \in 1..3 : R(g)[k] \in Parts
      BY <3>4, <3>5
    <3> QED BY <3>3, <3>6
  <2>8. /\ SubSeq(R(TRUE), 1, 2) \in Seq(FromReader) /\ Len(SubSeq(R(TRUE), 1, 2)) = 2
        /\ \A k \in 1..2 : SubSeq(R(TRUE), 1, 2)[k] \in Parts
    <3> DEFINE s == R(TRUE)
    <3>1. s \in Seq(FromReader) /\ Len(s) = 3 /\ \A k \in 1..3 : s[k] \in Parts
      BY <2>7
    <3> HIDE DEF s, Parts, R
    <3>2. \A k \in 1..2 : s[k] \in FromReader
      BY <3>1, ElementOfSeq
    <3>3. /\ SubSeq(s, 1, 2) \in Seq(FromReader)
          /\ Len(SubSeq(s, 1, 2)) = IF 1 =< 2 THEN 2 - 1 + 1 ELSE 0
          /\ \A k \in 1..(2 - 1 + 1) : SubSeq(s, 1, 2)[k] = s[1 + k - 1]
      BY <3>1, <3>2, SubSeqProperties
    <3>4. \A k \in 1..2 : SubSeq(s, 1, 2)[k] = s[k]
      BY <3>3
    <3>5. \A k \in 1..2 : SubSeq(s, 1, 2)[k] \in Parts
      BY <3>1, <3>4
    <3>6. Len(SubSeq(s, 1, 2)) = 2
      BY <3>3
    <3> QED BY <3>3, <3>5, <3>6 DEF s
  <2>5. /\ q \in Seq(FromReader)
        /\ \A k \in DOMAIN q : q[k] \in Parts
    <3> HIDE DEF R, Parts
    <3>1. ASSUME NEW g \in BOOLEAN, q = R(g)
          PROVE  q \in Seq(FromReader) /\ \A k \in DOMAIN q : q[k] \in Parts
      <4>1. q \in Seq(FromReader) /\ Len(q) = 3 /\ \A k \in 1..3 : q[k] \in Parts
        BY <2>7, <3>1
      <4> QED BY <4>1, LenProperties
    <3>2. CASE q = SubSeq(R(TRUE), 1, 2)
      <4>1. q \in Seq(FromReader) /\ Len(q) = 2 /\ \A k \in 1..2 : q[k] \in Parts
        BY <2>8, <3>2
      <4> QED BY <4>1, LenProperties
    <3> QED BY <2>4, <3>1, <3>2
  <2>6. \A k \in DOMAIN q : q[k].kind # "ACK" /\ (q[k].kind = "BODY" => q[k].id = unit.last)
    BY <1>5, <2>3, <2>5
  <2> QED BY <1>2, <1>3, <1>4, <2>1, <2>2, <2>4, <2>5, <2>6, ReaderKeeps
<1>8. CASE Link!ReaderControl
  <2>1. tx # <<>> /\ tx' = Tail(tx)
    BY <1>8 DEF Link!ReaderControl
  <2>2. Head(tx).kind \in {"NAK", "CANCEL"}
    <3>1. tx \in Seq(ToReader)
      BY DEF LinkInv, LinkTyped
    <3>2. Head(tx) \in ToReader
      BY <2>1, <3>1, LaterParts
    <3> QED BY <1>8, <3>2 DEF Link!ReaderControl, ToReader
  <2>3. CASE Head(tx).kind = "NAK"
    <3>1. unit' = [unit EXCEPT !.busy = IF @ = 0 THEN unit.last ELSE @] /\ UNCHANGED rx
      BY <1>8, <2>3 DEF Link!ReaderControl
    <3>2. /\ unit' \in [busy : 0..MaxCommands, last : 0..MaxCommands]
          /\ unit'.last = unit.last /\ unit'.busy \in {0, unit.last}
      BY <1>1, <3>1
    <3> QED BY <1>1, <1>2, <1>3, <2>1, <3>1, <3>2, ReaderKeeps
  <2>4. CASE Head(tx).kind = "CANCEL"
    <3> DEFINE q == <<Link!Control("DLE"), Link!Control("EOT")>>
    <3>1. unit' = [unit EXCEPT !.busy = 0] /\ rx' = rx \o q
      BY <1>8, <2>4 DEF Link!ReaderControl
    <3>2. /\ unit' \in [busy : 0..MaxCommands, last : 0..MaxCommands]
          /\ unit'.last = unit.last /\ unit'.busy = 0
      BY <1>1, <3>1, LinkBounds
    <3>3. /\ q \in Seq(FromReader)
          /\ \A k \in DOMAIN q : q[k] \in {Link!Control("DLE"), Link!Control("EOT")}
      BY <1>5
    <3>4. \A k \in DOMAIN q : q[k].kind # "ACK" /\ (q[k].kind = "BODY" => q[k].id = unit.last)
      BY <1>5, <3>3
    <3> HIDE DEF q
    <3> QED BY <1>2, <1>3, <1>4, <2>1, <3>1, <3>2, <3>3, <3>4, ReaderKeeps
  <2> QED BY <2>2, <2>3, <2>4
<1> QED BY <1>6, <1>7, <1>8

LEMMA LinkInit == Link!Init => LinkInv
<1> SUFFICES ASSUME Link!Init PROVE LinkInv
  OBVIOUS
<1> USE DEF Link!Init
<1>1. /\ tx \in Seq(ToReader) /\ rx \in Seq(FromReader)
      /\ DOMAIN tx = {} /\ DOMAIN rx = {}
  BY EmptySeq
<1>2. \A t \in Threads : linkPc[t] = "idle" /\ call[t] = Link!NoCall
  OBVIOUS
<1>3. Link!NoCall \in CallForm /\ Link!NoCall.id = 0 /\ Link!NoCall.ret = "none"
  BY LinkBounds DEF Link!NoCall, CallForm, Link!Results
<1>4. linkPc \in [Threads -> Link!PCs] /\ call \in [Threads -> CallForm]
  BY <1>3 DEF Link!PCs
<1>5. LinkTyped
  <2>4. info \in InfoForm
    BY LinkBounds DEF InfoForm
  <2>5. unit \in [busy : 0..MaxCommands, last : 0..MaxCommands]
    BY LinkBounds
  <2>6. issued \in 0..MaxCommands /\ events \in 0..MaxEvents
    BY LinkBounds
  <2>7. reinit \in BOOLEAN /\ astray \in BOOLEAN
    OBVIOUS
  <2>2. /\ info \in InfoForm /\ unit \in [busy : 0..MaxCommands, last : 0..MaxCommands]
        /\ issued \in 0..MaxCommands /\ events \in 0..MaxEvents
        /\ reinit \in BOOLEAN /\ astray \in BOOLEAN
    BY <2>4, <2>5, <2>6, <2>7
  <2>3. sem \in [{"connect", "execute", "cancel"} -> Nat]
    OBVIOUS
  <2>1. /\ sem \in [{"connect", "execute", "cancel"} -> Nat] /\ info \in InfoForm
        /\ unit \in [busy : 0..MaxCommands, last : 0..MaxCommands]
        /\ issued \in 0..MaxCommands /\ events \in 0..MaxEvents
        /\ reinit \in BOOLEAN /\ astray \in BOOLEAN
    BY <2>2, <2>3
  <2> QED BY <1>1, <1>4, <2>1 DEF LinkTyped, Link!TypeOK, CallForm, InfoForm
<1>6. Link!OneAtATime
  <2>1. /\ At(Link!Executing) = {} /\ At(Link!Cancelling) = {} /\ At(OpeningPCs) = {}
    BY <1>2 DEF At, Link!Executing, Link!Cancelling, OpeningPCs
  <2>2. Cardinality({}) = 0
    BY FS_EmptySet
  <2>3. sem.execute = 1 /\ sem.cancel = 1 /\ sem.connect = 1
    OBVIOUS
  <2> QED BY <2>1, <2>2, <2>3, OneAtATimeCounts
<1>7. LinkIds
  BY <1>1, <1>2, <1>3 DEF LinkIds, Link!Executing
<1>8. OneCommand /\ OneAck
  BY <1>1, <1>2 DEF OneCommand, OneAck, AfterAck
<1>9. Link!OwnReply
  BY <1>2, <1>3 DEF Link!OwnReply
<1> QED BY <1>5, <1>6, <1>7, <1>8, <1>9 DEF LinkInv, LinkOrder

LEMMA LinkStep ==
  ASSUME LinkInv, [Link!Next]_(Link!vars)
  PROVE  LinkInv'
<1>1. CASE Link!Reader
  BY <1>1, ReaderTakes, LinkReader DEF Link!Reader
<1>2. ASSUME NEW t \in Threads, Link!Calls(t) PROVE LinkInv'
  BY <1>2, LinkConnects, LinkOpens, LinkCommands, LinkCancels DEF Link!Calls
<1>3. ASSUME NEW t \in Threads, Link!Execute(t) PROVE LinkInv'
  BY <1>3, LinkReads, LinkSends, LinkWaits DEF Link!Execute
<1>4. ASSUME NEW t \in Threads, Link!Cancel(t) \/ Link!Open(t) PROVE LinkInv'
  BY <1>4, LinkCancels, LinkOpens DEF Link!Open
<1>5. CASE UNCHANGED Link!vars
  <2>1. UNCHANGED <<linkPc, call, sem, info, tx, rx, unit, issued, events, reinit, astray>>
    BY <1>5 DEF Link!vars
  <2>2. Unmoved /\ UNCHANGED <<tx, rx, unit, events>>
    BY <2>1 DEF Unmoved
  <2>3. /\ events \in 0..MaxEvents /\ unit \in [busy : 0..MaxCommands, last : 0..MaxCommands]
        /\ unit.busy \in {0, unit.last} /\ rx \in Seq(FromReader)
    BY DEF LinkInv, LinkTyped, Link!TypeOK, LinkIds
  <2> QED BY <2>2, <2>3, ReaderKeeps
<1> QED BY <1>1, <1>2, <1>3, <1>4, <1>5 DEF Link!Next, Link!Going

LEMMA LinkCorrect == Spec => []LinkInv
<1>1. Init => LinkInv
  BY Begins, LinkInit
<1>2. LinkInv /\ [Next]_vars => LinkInv'
  BY LinkMoves, LinkStep
<1> QED BY <1>1, <1>2, PTL DEF Spec

(* For any number of threads, commands, retries, losses and cancellations: *)
(* a reply that RS232C_8_ExecuteCommand returns is the reply to its own    *)
(* command, unless one went astray, and the semaphores let one command at  *)
(* a time on the line, until ConnectDevice initialises them again          *)
(* (ccr.origin/Prtcl_RS232C_8.c:315-630).                                  *)
THEOREM ExchangeCorrect == Spec => []Exchange
<1>1. LinkInv => Exchange
  BY DEF LinkInv, Exchange
<1> QED BY <1>1, LinkCorrect, PTL

-----------------------------------------------------------------------------
(* Every component of the card reader library and of the upgrade manager   *)
(* keeps its state in its types, for every value of the bounds.            *)
THEOREM TypeCorrect == Spec => []TypeOK
<1>1. LinkInv => Link!TypeOK
  BY DEF LinkInv, LinkTyped
<1>2. ManagerInv => Manager!TypeOK
  BY DEF ManagerInv
<1>3. TransmitInv => Transmit!TypeOK
  BY DEF TransmitInv
<1>4. CommandInv => Command!TypeOK
  BY DEF CommandInv
<1>5. PowerInv => Power!TypeOK
  BY DEF PowerInv
<1>6. UpgradeInv => Upgrade!TypeOK
  BY DEF UpgradeInv
<1>7. InstallInv => Install!TypeOK
  <2> SUFFICES ASSUME InstallInv PROVE Install!TypeOK
    OBVIOUS
  <2>1. PackageForm
    BY DEF InstallInv
  <2>2. pkg.id \in Numbers /\ archive.id \in Numbers
    BY <2>1 DEF PackageForm
  <2>3. temp.versions \in Numbers /\ temp.upgrade \in Numbers /\ installed.from \in Numbers
    BY <2>1 DEF PackageForm
  <2> QED BY <2>1, <2>2, <2>3 DEF PackageForm, Numbers, Install!TypeOK
<1> QED BY <1>1, <1>2, <1>3, <1>4, <1>5, <1>6, <1>7, LinkCorrect, ManagerCorrect, UpdateCorrect, TransmitCorrect, CommandCorrect,
           PowerCorrect, UpgradeCorrect, InstallCorrect, UsbTypeCorrect, PTL DEF TypeOK

=============================================================================
