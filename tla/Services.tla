------------------------------- MODULE Services -------------------------------
(***************************************************************************)
(* The components of the card reader library (CardLink, CardTransmit,      *)
(* CardUpdate, CardCommand, CardManager, CardPower) and of the upgrade     *)
(* manager (UpgradeManager, SwUpdate, UsbDisk) side by side.  They share no*)
(* variable: a behaviour is about one of them, chosen at the start, and the*)
(* others stay as they begin.                                              *)
(***************************************************************************)
EXTENDS Integers, Sequences

CONSTANTS
    Threads, Functions, Connected, MaxCommands, MaxEvents, CommandRetry, ReceiveRetry, NakRetry,
    Lines, ConnectRetry, MaxFaults, MaxUpdates,
    MaxSend, MaxRoom, MaxReply, ChunkLength, MaxReplies,
    MaxLost, MaxCards,
    POWERON_DELAY, POWERDOWN_DELAY, MaxTime,
    Sessions, Exiting, MaxCalls, MaxUevents,
    Versions, MaxInstalls,
    Disks, NoDevice, MaxPlugs

VARIABLES
    which,      \* the component this behaviour is about
    linkPc, call, sem, info, tx, rx, unit, issued, events, reinit, astray,
    acquire, manager, delivery, after, retried, command, bConnected,
    bInitialized, bAuthorized, bAcquireCardState, bShutdown, bThreadExiting,
    nCommandStep, callback_signal_data, registered, data, port,
    updatePc, check, dat, same, count, back, tries, updateRet, connected,
    mode, written, faults, updates,
    sendPc, size, room, left, index, last, part, complete, received, piece,
    storage, sendRet, first, taken, replies, cut,
    pc, queries, known, challenge, initialized, authorized, track, tracks,
    reader, cards, missed, lost,
    powered, holder, until, timestamp_on, timestamp_off, timestamp_on_s,
    timestamp_off_s, now, clock, onAt, offAt,
    at, request, requests, result, late, toManager, toClient, backlog,
    managerPc, socketConnectionList, watched, read_fds, entry, doing,
    serverOpen, uevents,
    installPc, pkg, enc, archive, temp, installed, scripts, installRet,
    installs, overlap,
    disk, packages, reports, szDiskName, bDiskDeviceAttached,
    bDiskDeviceMounted, mounts, there, plugs, performed

Link == INSTANCE CardLink
Manager == INSTANCE CardManager
Update == INSTANCE CardUpdate
Transmit == INSTANCE CardTransmit
Command == INSTANCE CardCommand
Power == INSTANCE CardPower
Upgrade == INSTANCE UpgradeManager
Install == INSTANCE SwUpdate
Usb == INSTANCE UsbDisk

ASSUME ServiceBounds ==
    /\ Link!LinkConstants /\ Update!UpdateConstants /\ Transmit!TransmitConstants
    /\ Command!CommandConstants /\ Power!PowerConstants
    /\ Upgrade!UpgradeConstants /\ Install!UpdateConstants /\ Usb!DiskConstants

linkVars ==
    <<linkPc, call, sem, info, tx, rx, unit, issued, events, reinit, astray>>
managerVars ==
    <<acquire, manager, delivery, after, retried, command, bConnected,
      bInitialized, bAuthorized, bAcquireCardState, bShutdown, bThreadExiting,
      nCommandStep, callback_signal_data, registered, data, port>>
updateVars ==
    <<updatePc, check, dat, same, count, back, tries, updateRet, connected,
      mode, written, faults, updates>>
transmitVars ==
    <<sendPc, size, room, left, index, last, part, complete, received, piece,
      storage, sendRet, first, taken, replies, cut>>
commandVars ==
    <<pc, queries, known, challenge, initialized, authorized, track, tracks,
      reader, cards, missed, lost>>
powerVars ==
    <<powered, holder, until, timestamp_on, timestamp_off, timestamp_on_s,
      timestamp_off_s, now, clock, onAt, offAt>>
upgradeVars ==
    <<at, request, requests, result, late, toManager, toClient, backlog,
      managerPc, socketConnectionList, watched, read_fds, entry, doing,
      serverOpen, uevents>>
installVars ==
    <<installPc, pkg, enc, archive, temp, installed, scripts, installRet,
      installs, overlap>>
usbVars ==
    <<disk, packages, reports, szDiskName, bDiskDeviceAttached,
      bDiskDeviceMounted, mounts, there, plugs, performed>>
vars ==
    <<which, linkVars, managerVars, updateVars, transmitVars, commandVars,
      powerVars, upgradeVars, installVars, usbVars>>

(* Where a component may begin in several states, the others find one.     *)
Init ==
    /\ which \in {"link", "manager", "update", "transmit", "command", "power",
                  "upgrade", "install", "usb"}
    /\ Link!Init /\ Manager!Init /\ Transmit!Init /\ Upgrade!Init /\ Usb!Init
    /\ Update!Init /\ (which # "update" => mode = "user")
    /\ Command!Init /\ (which # "command" => reader.km)
    /\ Power!Init /\ (which # "power" => powered)
    /\ Install!Init /\ (which # "install" => installed.xml = "none")

(* A step A of component c.                                                *)
Of(c, A) ==
    /\ which = c
    /\ A
    /\ UNCHANGED which
    /\ IF c = "link" THEN TRUE ELSE UNCHANGED linkVars
    /\ IF c = "manager" THEN TRUE ELSE UNCHANGED managerVars
    /\ IF c = "update" THEN TRUE ELSE UNCHANGED updateVars
    /\ IF c = "transmit" THEN TRUE ELSE UNCHANGED transmitVars
    /\ IF c = "command" THEN TRUE ELSE UNCHANGED commandVars
    /\ IF c = "power" THEN TRUE ELSE UNCHANGED powerVars
    /\ IF c = "upgrade" THEN TRUE ELSE UNCHANGED upgradeVars
    /\ IF c = "install" THEN TRUE ELSE UNCHANGED installVars
    /\ IF c = "usb" THEN TRUE ELSE UNCHANGED usbVars

Next ==
    \/ Of("link", Link!Next) \/ Of("manager", Manager!Next)
    \/ Of("update", Update!Next) \/ Of("transmit", Transmit!Next)
    \/ Of("command", Command!Next) \/ Of("power", Power!Next)
    \/ Of("upgrade", Upgrade!Next) \/ Of("install", Install!Next)
    \/ Of("usb", Usb!Next)

Spec == Init /\ [][Next]_vars

-----------------------------------------------------------------------------
(* The state of each component has its type.                               *)
TypeOK ==
    /\ Link!TypeOK /\ Manager!TypeOK /\ Update!TypeOK /\ Transmit!TypeOK
    /\ Command!TypeOK /\ Power!TypeOK /\ Upgrade!TypeOK /\ Install!TypeOK
    /\ Usb!TypeOK

(* A reply that RS232C_8_ExecuteCommand returns is the reply to its own    *)
(* command, and one command at a time is on the line                       *)
(* (ccr.origin/Prtcl_RS232C_8.c:315-630).                                  *)
Exchange == Link!OwnReply /\ Link!OneAtATime

(* Cards are acquired only from a reader that is connected, initialised and*)
(* authorised, and the track data are not wiped under a callback           *)
(* (acquireCardThread and msgrCardThread, ccr.origin/cmgrapi.c).           *)
Acquiring == []Manager!AcquireReady /\ Manager!NotWiped

(* An update of the reader that reports success left it with a whole       *)
(* firmware (DownloadExe, ccr.origin/Prtcl_RS232C_8_FuncDef.c).            *)
UpdateLoaded == Update!UpdateLoaded

(* A transmission that succeeds gave the reader every byte in order, and   *)
(* the caller's buffer is kept (TransmitControl).                          *)
SentWhole == Transmit!SentWhole /\ Transmit!Memory

(* The library holds the reader authorised, and reads tracks, only after   *)
(* the reader agreed (authenticateReader, Read3Tracks of                   *)
(* ccr.origin/Command.c).                                                  *)
ReaderSound == Command!AuthSound /\ Command!TrackSound

(* The reader's power is not switched on or off again too soon             *)
(* (ccr_power_on, ccr_power_off).                                          *)
PowerRules == Power!PowerRules

(* The list of connections agrees with the table of descriptors, and an    *)
(* application takes the result of its own request (upgrademanager.c).     *)
Connections == Upgrade!HandlesExact /\ Upgrade!OwnResult

(* What the upgrade script installs is one whole package that was checked  *)
(* (performUpdate, upgrade/swupdate.c).                                    *)
Installs == Install!Installs

(* The disk the manager waits to be removed has not been removed yet       *)
(* (process_netlink_uevent_message, upgrade/netlink.c).                    *)
AttachedSound == Usb!AttachedSound

=============================================================================
