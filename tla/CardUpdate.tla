----------------------------- MODULE CardUpdate -----------------------------
(***************************************************************************)
(* Loading firmware into the card reader: DownloadExe, AreaChange,         *)
(* DownloadGetFileInfo and DownloadGetFileData                             *)
(* (ccr.origin/Prtcl_RS232C_8_FuncDef.c).                                  *)
(*                                                                         *)
(* The reader runs its user firmware or its supervisor, and switches       *)
(* between the two on request (AreaChange), after which the port is opened *)
(* again.  Firmware lines are taken by the supervisor only; from the first *)
(* line to the last there is no user firmware to switch to.  Several       *)
(* updates may follow each other, as one that failed is tried again.       *)
(***************************************************************************)
EXTENDS Integers

CONSTANTS
  Lines,         \* lines of a firmware file after the first, which is skipped
  ConnectRetry,  \* attempts to open the port again after the first (11 in the code)
  MaxFaults,     \* bound on the faults of commands and of the port
  MaxUpdates     \* bound on the updates

UpdateConstants ==
  /\ Lines \in Nat /\ ConnectRetry \in Nat /\ MaxFaults \in Nat /\ MaxUpdates \in Nat

VARIABLES
  updatePc,
  check,    \* CheckRevision
  dat,      \* FileType = DAT_TYPE
  same,     \* the revision of the file is the one in the reader
  count,    \* Count: lines sent so far
  back,     \* where AreaChange returns to
  tries,    \* attempts to open the port again
  updateRet,
  connected,
  mode,     \* what the reader runs: "user" or "sv"
  written,  \* lines the reader has taken since it had a whole firmware
  faults,
  updates

vars == <<updatePc, check, dat, same, count, back, tries, updateRet, connected, mode, written,
          faults, updates>>

file == <<check, dat, same>>
bounds == <<faults, updates>>
reader == <<mode, written>>

\* there is user firmware to switch to
UserArea == written \in {0, Lines}

PCs == {"idle", "connect", "file", "probe", "revision", "area", "areaclose", "areaopen",
        "svinit", "begin", "line", "end", "final", "exit"}

Init ==
  /\ updatePc = "idle" /\ check = FALSE /\ dat = FALSE /\ same = FALSE
  /\ count = 0 /\ back = "idle" /\ tries = 0 /\ updateRet = "none" /\ connected = FALSE
  /\ mode \in {"user", "sv"} /\ written = 0 /\ faults = 0 /\ updates = 0

Leave(r) == updatePc' = "exit" /\ updateRet' = r

Failures == {"COMMAND_EXECUTION_FAILED", "NEGATIVE_REPLY", "UNEXPECTED"}
\* a fault that ends the update with one of the errors in R
Fault(R) == faults < MaxFaults /\ faults' = faults + 1 /\ \E r \in R : Leave(r)
\* a command is not executed, or its reply is refused
CommandFault == Fault(Failures)
\* the same where a negative reply is no error
NegativeAllowed == Fault(Failures \ {"NEGATIVE_REPLY"})

\* RS232C_8_UpdateFirmware
UpdateFirmware(c, d, s) ==
  /\ updatePc = "idle" /\ updates < MaxUpdates
  /\ updates' = updates + 1
  /\ check' = c /\ dat' = d /\ same' = s /\ count' = 0 /\ updateRet' = "none" /\ back' = "idle"
  /\ updatePc' = "connect"
  /\ UNCHANGED <<tries, connected, reader, faults>>

\* a port that cannot be opened ends the update before anything has to be undone
UpdateConnect ==
  /\ updatePc = "connect"
  /\ \/ connected' = TRUE /\ updatePc' = "file" /\ UNCHANGED <<updateRet, faults>>
     \/ /\ faults < MaxFaults /\ faults' = faults + 1
        /\ updatePc' = "idle" /\ updateRet' = "CONNECT_FAILED" /\ UNCHANGED connected
  /\ UNCHANGED <<file, count, back, tries, reader, updates>>

\* what may be wrong with the file: its type, its size, its lines or its revision
DownloadGetFileInfo == {"UNKNOWN_FILE_TYPE", "CANNOT_READ_FILE", "UNEXPECTED_FILE"}

DownloadGetFile ==
  /\ updatePc = "file"
  /\ \/ updatePc' = "probe" /\ UNCHANGED <<updateRet, faults>>
     \/ Fault(DownloadGetFileInfo \cup {"NO_MEMORY"})
  /\ UNCHANGED <<file, count, back, tries, connected, reader, updates>>

\* Check Target Mode: the supervisor answers an initialise command with error 02
CheckTargetMode ==
  /\ updatePc = "probe"
  /\ \/ NegativeAllowed /\ UNCHANGED back
     \/ /\ mode = "sv" /\ check
        /\ updatePc' = "area" /\ back' = "probe" /\ UNCHANGED <<updateRet, faults>>
     \/ mode = "sv" /\ ~check /\ updatePc' = "begin" /\ UNCHANGED <<updateRet, faults, back>>
     \/ mode = "user" /\ check /\ updatePc' = "revision" /\ UNCHANGED <<updateRet, faults, back>>
     \/ /\ mode = "user" /\ ~check
        /\ updatePc' = "area" /\ back' = "svinit" /\ UNCHANGED <<updateRet, faults>>
  /\ UNCHANGED <<file, count, tries, connected, reader, updates>>

CheckRevision ==
  /\ updatePc = "revision"
  /\ \/ CommandFault /\ UNCHANGED back
     \/ same /\ Leave("IDENTICAL_REVISION") /\ UNCHANGED <<faults, back>>
     \/ ~same /\ updatePc' = "area" /\ back' = "svinit" /\ UNCHANGED <<updateRet, faults>>
  /\ UNCHANGED <<file, count, tries, connected, reader, updates>>

\* AreaChange: a negative reply (there is no user area) is as good as a positive one
AreaChange ==
  /\ updatePc = "area"
  /\ \/ NegativeAllowed /\ UNCHANGED <<mode, tries>>
     \/ /\ mode' = IF mode = "user" THEN "sv" ELSE IF UserArea THEN "user" ELSE "sv"
        /\ updatePc' = "areaclose" /\ tries' = 0 /\ UNCHANGED <<updateRet, faults>>
  /\ UNCHANGED <<file, count, back, connected, written, updates>>

AreaDisconnect ==
  /\ updatePc = "areaclose"
  /\ connected' = FALSE /\ updatePc' = "areaopen"
  /\ UNCHANGED <<file, count, back, tries, updateRet, reader, bounds>>

\* mutant: one attempt too many
TriesOverLate == tries > ConnectRetry + 1

TriesOver == tries > ConnectRetry

AreaConnect ==
  /\ updatePc = "areaopen"
  /\ \/ connected' = TRUE /\ updatePc' = back /\ UNCHANGED <<tries, updateRet, faults>>
     \/ /\ ~TriesOver /\ faults < MaxFaults /\ faults' = faults + 1
        /\ tries' = tries + 1 /\ UNCHANGED <<connected, updatePc, updateRet>>
     \/ TriesOver /\ Leave("CONNECT_FAILED") /\ UNCHANGED <<tries, connected, faults>>
  /\ UNCHANGED <<file, count, back, reader, updates>>

SupervisorInitialize ==
  /\ updatePc = "svinit"
  /\ \/ NegativeAllowed
     \/ mode = "sv" /\ updatePc' = "begin" /\ UNCHANGED <<updateRet, faults>>
     \/ mode # "sv" /\ Leave("UNEXPECTED") /\ UNCHANGED faults
  /\ UNCHANGED <<file, count, back, tries, connected, reader, updates>>

\* Send Command J0, for a .dat file only
DownloadBegin ==
  /\ updatePc = "begin"
  /\ \/ dat /\ CommandFault
     \/ updatePc' = "line" /\ UNCHANGED <<updateRet, faults>>
  /\ UNCHANGED <<file, count, back, tries, connected, reader, updates>>

\* mutant: the last line is left out
LinesLeftButOne == count + 1 < Lines

LinesLeft == count < Lines

\* a line, which the reader takes if the supervisor runs; a command that failed may have
\* reached it all the same.  A line of a .wdl or .bin file is itself a command, and a line
\* that is none is found only when its turn comes.
DownloadLine ==
  /\ updatePc = "line" /\ LinesLeft
  /\ LET taken == IF mode = "sv" THEN count + 1 ELSE written IN
     \/ ~dat /\ Fault({"UNEXPECTED_FILE"}) /\ UNCHANGED <<written, count>>
     \/ CommandFault /\ written' \in {written, taken} /\ UNCHANGED count
     \/ /\ mode = "sv" /\ written' = taken /\ count' = count + 1
        /\ UNCHANGED <<updatePc, updateRet, faults>>
     \/ mode # "sv" /\ Leave("NEGATIVE_REPLY") /\ UNCHANGED <<written, count, faults>>
  /\ UNCHANGED <<file, back, tries, connected, mode, updates>>

\* Send Command J2, for a .dat file only; then back to the user firmware
DownloadEnd ==
  /\ updatePc = "line" /\ ~LinesLeft
  /\ \/ dat /\ CommandFault /\ UNCHANGED back
     \/ updatePc' = "area" /\ back' = "final" /\ UNCHANGED <<updateRet, faults>>
  /\ UNCHANGED <<file, count, tries, connected, reader, updates>>

\* the reply to the last initialise command is not looked at
DownloadFinal ==
  /\ updatePc = "final"
  /\ Fault({"COMMAND_EXECUTION_FAILED"}) \/ (Leave("NO_ERROR") /\ UNCHANGED faults)
  /\ UNCHANGED <<file, count, back, tries, connected, reader, updates>>

\* _EXIT
UpdateExit ==
  /\ updatePc = "exit"
  /\ connected' = FALSE /\ updatePc' = "idle"
  /\ UNCHANGED <<file, count, back, tries, updateRet, reader, bounds>>

Working ==
  \/ UpdateConnect \/ DownloadGetFile \/ CheckTargetMode \/ CheckRevision \/ AreaChange
  \/ AreaDisconnect \/ AreaConnect \/ SupervisorInitialize \/ DownloadBegin
  \/ DownloadLine \/ DownloadEnd \/ DownloadFinal \/ UpdateExit

Next ==
  \/ \E c \in BOOLEAN, d \in BOOLEAN, s \in BOOLEAN : UpdateFirmware(c, d, s)
  \/ Working

Spec == Init /\ [][Next]_vars /\ WF_vars(Working)

----------------------------------------------------------------------------

TypeOK ==
  /\ updatePc \in PCs /\ back \in {"idle", "probe", "svinit", "final"}
  /\ check \in BOOLEAN /\ dat \in BOOLEAN /\ same \in BOOLEAN /\ connected \in BOOLEAN
  /\ count \in 0..Lines /\ written \in 0..Lines /\ tries \in 0..(ConnectRetry + 1)
  /\ mode \in {"user", "sv"} /\ faults \in 0..MaxFaults /\ updates \in 0..MaxUpdates
  /\ updateRet \in {"none", "NO_ERROR", "CONNECT_FAILED", "UNKNOWN_FILE_TYPE", "CANNOT_READ_FILE",
              "NO_MEMORY", "UNEXPECTED_FILE", "COMMAND_EXECUTION_FAILED",
              "IDENTICAL_REVISION", "UNEXPECTED", "NEGATIVE_REPLY"}

\* An update that reports success left a reader that runs a whole firmware, after any
\* updates that broke off in the middle before it; and the port is closed again.
UpdateLoaded ==
  updatePc = "idle" => ~connected /\ (updateRet = "NO_ERROR" => mode = "user" /\ UserArea)

\* Every update comes to an end, except on a reader that an earlier update left without
\* user firmware: with CheckRevision set the search for the user mode never ends.
UpdateEnds == []<>(updatePc = "idle" \/ (check /\ mode = "sv" /\ ~UserArea))

=============================================================================
