---------------------------- MODULE CardManager ----------------------------
(***************************************************************************)
(* The threads of the card reader library, ccr.origin/cmgrapi.c: the       *)
(* application posts a command in one slot (start_ccr, stop_ccr,           *)
(* exit_ccr), msgrCardThread carries it out, acquireCardThread takes and   *)
(* reads cards while it may, ccr_callback_thread hands the application     *)
(* what either of the two has to report.                                   *)
(*                                                                         *)
(* cmd_mutex is held from the moment msgrCardThread finds a command to the *)
(* end of the command, icrw_mutex while a command changes                  *)
(* bAcquireCardState, callback_mutex while the callback thread is neither  *)
(* waiting nor at the head of its loop, callback_p_mutex during the        *)
(* callback.  data_mutex is taken by one thread only.  Reader commands     *)
(* succeed or fail, each in its turn; the track data are told apart as     *)
(* cleared, an error or a card.                                            *)
(***************************************************************************)
EXTENDS Naturals

VARIABLES
  acquire,     \* where acquireCardThread is
  manager,     \* where msgrCardThread is
  delivery,    \* where ccr_callback_thread is
  after,       \* where the manager goes on after it reported an error
  retried,     \* retry_counter of checkReaderConnected
  command,     \* cardMgrCmd.command
  bConnected, bInitialized, bAuthorized,
  bAcquireCardState,
  bShutdown,
  bThreadExiting,
  nCommandStep,
  callback_signal_data,
  registered,  \* cb_ccr is set
  data,        \* theTrackData
  port         \* the serial port is open

flags == <<bConnected, bInitialized, bAuthorized>>
state == <<bAcquireCardState, bShutdown, bThreadExiting>>
report == <<callback_signal_data, data>>

vars == <<acquire, manager, delivery, after, retried, command, flags, state, nCommandStep,
          callback_signal_data, registered, data, port>>

Commands == {"INIT", "STANDBY", "EXIT"}

Init ==
  /\ acquire = "top" /\ manager = "top" /\ delivery = "top"
  /\ after = "done" /\ retried = FALSE /\ command = "NO"
  /\ bConnected = FALSE /\ bInitialized = FALSE /\ bAuthorized = FALSE
  /\ bAcquireCardState = FALSE /\ bShutdown = FALSE /\ bThreadExiting = FALSE
  /\ nCommandStep = 0
  /\ callback_signal_data = FALSE /\ registered = FALSE /\ data = "wiped" /\ port = FALSE

cmd_mutex_free == manager \in {"top", "wait", "end"}
icrw_mutex_free == manager \notin {"closing", "exiting"}
callback_mutex_free == delivery \in {"top", "wait", "end"}
callback_p_mutex_free == delivery # "deliver"

----------------------------------------------------------------------------
(* The application.  A signal to a thread that waits moves it on; one that *)
(* does not wait finds the new value when it comes back to its loop.       *)

Wake(pc, to) == IF pc = "wait" THEN to ELSE pc

Post(c) ==
  /\ cmd_mutex_free
  /\ command' = c /\ manager' = Wake(manager, "command")
  /\ UNCHANGED <<acquire, delivery, after, retried, flags, state, nCommandStep, registered,
                 data, port>>

start_ccr == Post("INIT") /\ UNCHANGED callback_signal_data

\* what was to be reported is forgotten, unless the callback thread was woken for it
stop_ccr == Post("STANDBY") /\ callback_signal_data' = FALSE

exit_ccr == Post("EXIT") /\ UNCHANGED callback_signal_data

ccr_callback_register ==
  /\ registered' = TRUE
  /\ UNCHANGED <<acquire, manager, delivery, after, retried, command, flags, state, nCommandStep,
                 report, port>>

----------------------------------------------------------------------------
(* ccr_callback_send_signal and ccr_callback_thread                        *)

ccr_callback_send_signal(d) ==
  /\ callback_mutex_free
  /\ callback_signal_data' = TRUE /\ data' = d
  /\ delivery' = Wake(delivery, "woken")

DeliveryStep ==
  UNCHANGED <<acquire, manager, after, retried, command, flags, state, nCommandStep, registered,
              data, port>>

Deliver == IF bShutdown THEN "end" ELSE "deliver"

DeliveryTop ==
  /\ delivery = "top"
  /\ delivery' = IF bShutdown THEN "end" ELSE IF callback_signal_data THEN Deliver ELSE "wait"
  /\ DeliveryStep /\ UNCHANGED callback_signal_data

DeliveryWoken ==
  /\ delivery = "woken"
  /\ delivery' = Deliver
  /\ DeliveryStep /\ UNCHANGED callback_signal_data

\* the callback, if there is one
DeliveryDone ==
  /\ delivery = "deliver"
  /\ callback_signal_data' = FALSE
  /\ delivery' = IF bShutdown THEN "end" ELSE "top"
  /\ DeliveryStep

----------------------------------------------------------------------------
(* msgrCardThread                                                          *)

Manages(to) ==
  /\ manager' = to
  /\ UNCHANGED <<delivery, nCommandStep, report, registered, bThreadExiting>>

ManagerTop ==
  /\ manager = "top"
  /\ Manages(IF bShutdown THEN "end" ELSE IF command = "NO" THEN "wait" ELSE "command")
  /\ UNCHANGED <<acquire, after, retried, command, flags, bAcquireCardState, bShutdown, port>>

\* INIT does nothing while cards are acquired already
ManagerCommand ==
  /\ manager = "command"
  /\ Manages(CASE command = "INIT" -> (IF bAcquireCardState THEN "done" ELSE "connect")
               [] command = "STANDBY" -> "standby"
               [] command = "EXIT" -> "exit")
  /\ retried' = FALSE
  /\ UNCHANGED <<acquire, after, command, flags, bAcquireCardState, bShutdown, port>>

\* checkReaderConnected: Connect
CheckConnect ==
  /\ manager = "connect"
  /\ \/ bConnected /\ Manages("initialize") /\ UNCHANGED <<flags, port, after>>
     \/ ~bConnected /\ \E ok \in BOOLEAN :
          /\ bInitialized' = FALSE /\ bAuthorized' = FALSE
          /\ port' = ok /\ bConnected' = ok /\ after' = "done"
          /\ Manages(IF ok THEN "initialize" ELSE "report")
  /\ UNCHANGED <<acquire, retried, command, bAcquireCardState, bShutdown>>

\* __init: initCardReader and getModelSerialNumber; without a model number the error is
\* reported and the rest goes on
CheckInitialize ==
  /\ manager = "initialize"
  /\ \/ bInitialized /\ Manages("authenticate") /\ UNCHANGED <<flags, bAcquireCardState, after>>
     \/ ~bInitialized /\ \E r \in {"ok", "no_model", "failed"} :
          /\ bInitialized' = (r # "failed")
          /\ bAuthorized' = IF r = "failed" THEN bAuthorized ELSE FALSE
          /\ bAcquireCardState' = IF r = "ok" THEN bAcquireCardState ELSE FALSE
          /\ after' = IF r = "failed" THEN "done" ELSE "authenticate"
          /\ Manages(IF r = "ok" THEN "authenticate" ELSE "report")
          /\ UNCHANGED bConnected
  /\ UNCHANGED <<acquire, retried, command, bShutdown, port>>

\* authenticateReader; the reader is reset once when it fails
CheckAuthenticate ==
  /\ manager = "authenticate"
  /\ \/ bAuthorized /\ Manages("start") /\ UNCHANGED <<flags, retried, after>>
     \/ ~bAuthorized /\ \E ok \in BOOLEAN :
          /\ bAuthorized' = ok /\ bInitialized' = (ok /\ bInitialized)
          /\ retried' = (retried \/ ~ok) /\ after' = "done"
          /\ Manages(IF ok THEN "start" ELSE IF retried THEN "report" ELSE "initialize")
          /\ UNCHANGED bConnected
  /\ UNCHANGED <<acquire, command, bAcquireCardState, bShutdown, port>>

CheckReport ==
  /\ manager = "report"
  /\ ccr_callback_send_signal("error")
  /\ manager' = after
  /\ UNCHANGED <<acquire, after, retried, command, flags, state, nCommandStep, registered, port>>

\* versions, model and serial number, which may fail; then acquire cards
CardStart ==
  /\ manager = "start"
  /\ bAcquireCardState' = TRUE
  /\ acquire' = Wake(acquire, "check")
  /\ Manages("done")
  /\ UNCHANGED <<after, retried, command, flags, bShutdown, port>>

\* CARD_MANAGER_STANDBY_CMD: tell the thread to stop, cancel, and close the port
Standby ==
  /\ manager = "standby"
  /\ bAcquireCardState' = FALSE
  /\ IF bAcquireCardState
     THEN Manages("closing") /\ UNCHANGED acquire
     ELSE Manages("done") /\ acquire' = Wake(acquire, "check")
  /\ UNCHANGED <<after, retried, command, flags, bShutdown, port>>

StandbyClose ==
  /\ manager = "closing"
  /\ port' = FALSE
  /\ bConnected' = FALSE /\ bInitialized' = FALSE /\ bAuthorized' = FALSE
  /\ acquire' = Wake(acquire, "check")
  /\ Manages("done")
  /\ UNCHANGED <<after, retried, command, bAcquireCardState, bShutdown>>

\* CARD_MANAGER_EXIT: nothing happens unless cards are acquired
Exit ==
  /\ manager = "exit"
  /\ bAcquireCardState' = FALSE
  /\ IF bAcquireCardState
     THEN Manages("exiting") /\ UNCHANGED acquire
     ELSE Manages("done") /\ acquire' = Wake(acquire, "check")
  /\ UNCHANGED <<after, retried, command, flags, bShutdown, port>>

ExitShutdown ==
  /\ manager = "exiting"
  /\ bShutdown' = TRUE
  /\ acquire' = Wake(acquire, "check")
  /\ Manages("done")
  /\ UNCHANGED <<after, retried, command, flags, bAcquireCardState, port>>

CommandDone ==
  /\ manager = "done"
  /\ command' = "NO"
  /\ Manages("top")
  /\ UNCHANGED <<acquire, after, retried, flags, bAcquireCardState, bShutdown, port>>

----------------------------------------------------------------------------
(* acquireCardThread                                                       *)

AcquireStep == UNCHANGED <<manager, after, retried, command, flags, bShutdown, registered>>
Acquires(to) == acquire' = to
Quiet == UNCHANGED <<delivery, report>>
Stay == UNCHANGED <<bAcquireCardState, bThreadExiting, port>>

\* where a thread that may no longer acquire cards goes
Stopped == Acquires(IF bShutdown THEN "exit" ELSE "top")

AcquireTop ==
  /\ acquire = "top" /\ icrw_mutex_free
  /\ Acquires(IF bAcquireCardState \/ bShutdown THEN "check" ELSE "wait")
  /\ AcquireStep /\ Quiet /\ Stay /\ UNCHANGED nCommandStep

\* woken or not, the thread looks again; nothing else changes here
AcquireCheck ==
  /\ acquire = "check" /\ icrw_mutex_free
  /\ IF bShutdown THEN Acquires("exit") /\ UNCHANGED nCommandStep
     ELSE /\ nCommandStep' = 0
          /\ IF bAcquireCardState
             THEN Acquires("ready")
             ELSE Acquires("top")
  /\ AcquireStep /\ Quiet /\ Stay

AcquireReadyCheck ==
  /\ acquire = "ready"
  /\ IF bAcquireCardState /\ ~bShutdown
     THEN Acquires(IF bConnected /\ bInitialized /\ bAuthorized THEN "intake" ELSE "top")
     ELSE Stopped
  /\ AcquireStep /\ Quiet /\ Stay /\ UNCHANGED nCommandStep

\* intakeCommand: no card, or one (or an error, which withdrawCommand will meet again)
Intake ==
  /\ acquire = "intake"
  /\ nCommandStep' = 1
  /\ \/ Acquires("top")
     \/ Acquires(IF ~bAcquireCardState THEN "top" ELSE IF bShutdown THEN "exit" ELSE "wipe")
  /\ AcquireStep /\ Quiet /\ Stay

\* mutant: whatever the callback is doing
WipeDataAlways ==
  /\ acquire = "wipe"
  /\ data' = "wiped" /\ Acquires("withdraw")
  /\ AcquireStep /\ Stay /\ UNCHANGED <<delivery, callback_signal_data, nCommandStep>>

\* the card is lost when a callback is looking at the data
WipeData ==
  /\ acquire = "wipe"
  /\ IF callback_p_mutex_free
     THEN data' = "wiped" /\ Acquires("withdraw")
     ELSE Acquires("top") /\ UNCHANGED data
  /\ AcquireStep /\ Stay /\ UNCHANGED <<delivery, callback_signal_data, nCommandStep>>

Withdraw ==
  /\ acquire = "withdraw"
  /\ \/ data' = "error" /\ Acquires("report")
     \/ /\ UNCHANGED data
        /\ Acquires(IF ~bAcquireCardState THEN "top" ELSE IF bShutdown THEN "exit" ELSE "read")
  /\ AcquireStep /\ Stay /\ UNCHANGED <<delivery, callback_signal_data, nCommandStep>>

ReadStart ==
  /\ acquire = "read"
  /\ nCommandStep' = 2
  /\ Acquires(IF bAcquireCardState THEN "reading" ELSE "top")
  /\ AcquireStep /\ Quiet /\ Stay

\* Read3Tracks never returns an error: what follows one in the code, the only place where
\* this thread stops acquiring cards by itself, is not reached
ReadDone ==
  /\ acquire = "reading"
  /\ data' = "card"
  /\ Acquires(IF bShutdown THEN "exit" ELSE "report")
  /\ AcquireStep /\ Stay
  /\ UNCHANGED <<delivery, callback_signal_data, nCommandStep>>

AcquireReport ==
  /\ acquire = "report"
  /\ ccr_callback_send_signal(data)
  /\ Acquires("top")
  /\ AcquireStep /\ Stay /\ UNCHANGED nCommandStep

\* the end of the thread: blinkGreenLED and Disconnect
AcquireExit ==
  /\ acquire = "exit"
  /\ bAcquireCardState' = FALSE /\ port' = FALSE /\ bThreadExiting' = TRUE
  /\ Acquires("end")
  /\ AcquireStep /\ Quiet /\ UNCHANGED nCommandStep

----------------------------------------------------------------------------

App == start_ccr \/ stop_ccr \/ exit_ccr \/ ccr_callback_register

Manager ==
  \/ ManagerTop \/ ManagerCommand \/ CheckConnect \/ CheckInitialize \/ CheckAuthenticate
  \/ CheckReport \/ CardStart \/ Standby \/ StandbyClose \/ Exit \/ ExitShutdown \/ CommandDone

Acquire ==
  \/ AcquireTop \/ AcquireCheck \/ AcquireReadyCheck \/ Intake \/ WipeData \/ Withdraw
  \/ ReadStart \/ ReadDone \/ AcquireReport \/ AcquireExit

Delivery == DeliveryTop \/ DeliveryWoken \/ DeliveryDone

Next == App \/ Manager \/ Acquire \/ Delivery

\* the three threads are scheduled; a mutex that is free now and then is obtained in the end
Spec == Init /\ [][Next]_vars /\ SF_vars(Manager) /\ SF_vars(Acquire) /\ WF_vars(Delivery)

----------------------------------------------------------------------------

TypeOK ==
  /\ acquire \in {"top", "wait", "check", "ready", "intake", "wipe", "withdraw", "read",
                  "reading", "report", "exit", "end"}
  /\ manager \in {"top", "wait", "command", "connect", "initialize", "authenticate", "report",
                  "start", "standby", "closing", "exit", "exiting", "done", "end"}
  /\ delivery \in {"top", "wait", "woken", "deliver", "end"}
  /\ after \in {"done", "authenticate"} /\ command \in Commands \cup {"NO"}
  /\ nCommandStep \in 0..2 /\ data \in {"wiped", "error", "card"}
  /\ {retried, bConnected, bInitialized, bAuthorized, bAcquireCardState, bShutdown,
      bThreadExiting, callback_signal_data, registered, port}
        \subseteq BOOLEAN

\* Cards are acquired only from a reader that is connected, initialised and authorised,
\* whatever commands come while it is being prepared or closed; and the flags say so only of
\* an open port, until the thread that closes it at the end is done.
AcquireReady ==
  /\ bAcquireCardState => bConnected /\ bInitialized /\ bAuthorized
  /\ bConnected /\ ~bThreadExiting => port

\* The track data are never cleared while the callback looks at them.
NotWiped == [][data # data' /\ data' = "wiped" => delivery # "deliver"]_vars

\* Every command that is posted is carried out, and once the library shuts down the reader's
\* thread closes the port and ends, wherever it was: no wake-up is lost on the way.  A command
\* posted when the manager has left is not looked at any more.
Managed == []<>(command = "NO" \/ bShutdown) /\ []<>(bShutdown => bThreadExiting)

=============================================================================
