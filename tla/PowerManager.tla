---------------------------- MODULE PowerManager ----------------------------
(***************************************************************************)
(* The power manager library (src/pm): pm_thread, the PDM thread with its  *)
(* command queue, the SCM thread, and the application threads that call    *)
(* pdm_set_state and pm_exit.                                              *)
(*                                                                         *)
(* All of them share the global power_message. Two mutexes are meant to    *)
(* protect it: pm_thread, the announcement of the PDM thread and pm_exit   *)
(* use pm_mutex, everyone else power_mutex. A section that only one thread *)
(* can be in is one action; where a reader under one mutex meets a writer  *)
(* under the other, the accesses are actions of their own.                 *)
(*                                                                         *)
(* A condition variable is the program counter "wait" of its only waiter;  *)
(* a signal moves it to "woken" and is lost if nobody waits. Wake-ups      *)
(* without a signal are not modelled.                                      *)
(***************************************************************************)
EXTENDS Integers, Sequences, FiniteSets, FiniteSetsExt

CONSTANTS
    Callers,    \* application threads
    Port,       \* power ports of the PDM
    NoPort,     \* the port of an entry that names none
    InitPorts,  \* the ports when the library is initialised
    Commands,   \* the arguments each caller gives pdm_set_state
    EarlyExit,  \* whether pm_exit may be called before all threads started
    MaxCalls    \* bound: calls of pdm_set_state in a behaviour

State == {0, 1}

ASSUME PowerConstants ==
    /\ Port # {} /\ NoPort \notin Port
    /\ InitPorts \in [Port -> State]
    /\ Commands \in [Callers -> SUBSET [port : Port, state : State, wait : BOOLEAN]]
    /\ EarlyExit \in BOOLEAN
    /\ MaxCalls \in Nat

VARIABLES
    msg,        \* power_message
    queue,      \* pdm_list
    active,     \* pmThreadActive, pdmThreadActive, scmThreadActive
    pm,         \* pm_thread_func: program counter
    pdm,        \* pdm_thread_func: program counter, pdm_message
    scm,        \* scm_thread_func: program counter
    call,       \* pdm_set_state in each caller
    ports,      \* powerPortState, and the ports of the device
    calls,      \* calls so far; a call is known by its number
    executed,   \* the calls whose command was carried out
    asked,      \* the state last asked for each port
    mixed,      \* a thread under pm_mutex spoiled or copied a call's message
    exited      \* pm_exit was called

ghosts == <<executed, asked, mixed, exited>>
vars == <<msg, queue, active, pm, pdm, scm, call, ports, calls, ghosts>>

(* An entry of the queue: a command to set a port; the others, the status  *)
(* poll among them, set none.                                              *)
Entry == [port : Port \cup {NoPort}, state : State, wait : BOOLEAN, id : 0..MaxCalls]
Poll == [port |-> NoPort, state |-> 0, wait |-> FALSE, id |-> 0]

Init ==
    /\ ports = InitPorts
    /\ asked = InitPorts
    /\ msg = [type |-> "PM_NO_CMD", port |-> CHOOSE p \in Port : TRUE,
              state |-> 0, wait |-> FALSE]
    /\ queue = <<>>
    /\ active = [pm |-> FALSE, pdm |-> FALSE, scm |-> FALSE]
    /\ pm = "start"
    /\ pdm = [pc |-> "off", cur |-> Poll]
    /\ scm = "off"
    /\ call = [c \in Callers |-> [pc |-> "idle", port |-> NoPort, state |-> 0,
                                  wait |-> FALSE, id |-> 0]]
    /\ calls = 0
    /\ executed = {}
    /\ mixed = FALSE
    /\ exited = FALSE

(* power_mutex and pm_mutex, held across actions only by these.            *)
PowerFree == \A c \in Callers : call[c].pc # "fill"
PmFree == pm \in {"start", "activate", "test", "lock", "wait", "woken", "end"}

Woken(pc) == IF pc = "wait" THEN "woken" ELSE pc

-----------------------------------------------------------------------------
(* pdm_set_state in a caller.                                              *)

(* power_mutex is taken and the type written.                              *)
SetType(c, m) ==
    /\ call[c].pc = "idle"
    /\ calls < MaxCalls
    /\ PowerFree
    /\ msg' = [msg EXCEPT !.type = "PDM_SET_PORT_STATE"]
    /\ calls' = calls + 1
    /\ call' = [call EXCEPT ![c] = [pc |-> "fill", port |-> m.port, state |-> m.state,
                                    wait |-> m.wait, id |-> calls + 1]]
    /\ UNCHANGED <<queue, active, pm, pdm, scm, ports, ghosts>>

(* What is queued is power_message: a type that was overwritten since makes*)
(* it a message the PDM thread does not act upon.                          *)
Spoiled == msg.type # "PDM_SET_PORT_STATE"

Command(c) ==
    IF Spoiled THEN [Poll EXCEPT !.id = call[c].id]
    ELSE [port |-> call[c].port, state |-> call[c].state, wait |-> call[c].wait,
          id |-> call[c].id]

(* Mutant: the PDM thread is not told.                                     *)
SetEnqueueSilently(c) ==
    /\ call[c].pc = "fill"
    /\ msg' = [msg EXCEPT !.port = call[c].port, !.state = call[c].state,
                          !.wait = call[c].wait]
    /\ queue' = Append(queue, Command(c))
    /\ call' = [call EXCEPT ![c].pc = "sync"]
    /\ asked' = [asked EXCEPT ![call[c].port] = call[c].state]
    /\ mixed' = (mixed \/ Spoiled)
    /\ UNCHANGED <<active, pm, pdm, scm, ports, calls, executed, exited>>

(* The rest is filled in, the message queued, the PDM thread signalled and *)
(* power_mutex released.                                                   *)
SetEnqueue(c) ==
    /\ call[c].pc = "fill"
    /\ msg' = [msg EXCEPT !.port = call[c].port, !.state = call[c].state,
                          !.wait = call[c].wait]
    /\ queue' = Append(queue, Command(c))
    /\ pdm' = [pdm EXCEPT !.pc = Woken(@)]
    /\ call' = [call EXCEPT ![c].pc = "sync"]
    /\ asked' = [asked EXCEPT ![call[c].port] = call[c].state]
    /\ mixed' = (mixed \/ Spoiled)
    /\ UNCHANGED <<active, pm, scm, ports, calls, executed, exited>>

(* pdm_sync_read_signal, whatever wait_flag says; a response sent before it*)
(* waits is lost.                                                          *)
SyncRead(c) ==
    /\ call[c].pc = "sync"
    /\ call' = [call EXCEPT ![c].pc = "wait"]
    /\ UNCHANGED <<msg, queue, active, pm, pdm, scm, ports, calls, ghosts>>

(* The wait ends with ETIMEDOUT, or with a response: the call returns.     *)
SyncReturn(c) ==
    /\ call[c].pc \in {"wait", "woken"}
    /\ call' = [call EXCEPT ![c] = [pc |-> "idle", port |-> NoPort, state |-> 0,
                                    wait |-> FALSE, id |-> 0]]
    /\ UNCHANGED <<msg, queue, active, pm, pdm, scm, ports, calls, ghosts>>

Caller(c) == SetEnqueue(c) \/ SyncRead(c) \/ SyncReturn(c)

(* All threads have set their flags.                                       *)
Started == active.pm /\ active.pdm /\ active.scm

(* Mutant: the flags are left to pm_thread.                                *)
pm_exitTypeOnly ==
    /\ ~exited
    /\ EarlyExit \/ Started
    /\ PmFree
    /\ msg' = [msg EXCEPT !.type = "PM_EXIT"]
    /\ pm' = Woken(pm)
    /\ exited' = TRUE
    /\ UNCHANGED <<queue, active, pdm, scm, call, ports, calls, executed, asked, mixed>>

(* pm_exit; it also closes the serial ports.                               *)
pm_exit ==
    /\ ~exited
    /\ EarlyExit \/ Started
    /\ PmFree
    /\ msg' = [msg EXCEPT !.type = "PM_EXIT"]
    /\ active' = [t \in DOMAIN active |-> FALSE]
    /\ pm' = Woken(pm)
    /\ exited' = TRUE
    /\ UNCHANGED <<queue, pdm, scm, call, ports, calls, executed, asked, mixed>>

-----------------------------------------------------------------------------
(* pm_thread_func.                                                         *)

PmMove(from, to) == pm = from /\ pm' = to

(* The USB scan found both devices; their threads are created.             *)
PmStart ==
    /\ PmMove("start", "activate")
    /\ pdm' = [pdm EXCEPT !.pc = "announce"]
    /\ scm' = "activate"
    /\ UNCHANGED <<msg, queue, active, call, ports, calls, ghosts>>

PmActivate ==
    /\ PmMove("activate", "test")
    /\ active' = [active EXCEPT !.pm = TRUE]
    /\ UNCHANGED <<msg, queue, pdm, scm, call, ports, calls, ghosts>>

PmTest ==
    /\ PmMove("test", IF active.pm THEN "lock" ELSE "end")
    /\ UNCHANGED <<msg, queue, active, pdm, scm, call, ports, calls, ghosts>>

(* pm_mutex is taken; without a message the thread waits on power_cond.    *)
PmLock ==
    /\ PmMove("lock", IF msg.type = "PM_NO_CMD" THEN "wait" ELSE "check")
    /\ UNCHANGED <<msg, queue, active, pdm, scm, call, ports, calls, ghosts>>

PmWoken ==
    /\ PmMove("woken", "check")
    /\ UNCHANGED <<msg, queue, active, pdm, scm, call, ports, calls, ghosts>>

PmCheck ==
    /\ PmMove("check", CASE msg.type = "PM_EXIT" -> "exit"
                         [] msg.type = "PDM_ACTIVITY" -> "clear"
                         [] OTHER -> "copy")
    /\ UNCHANGED <<msg, queue, active, pdm, scm, call, ports, calls, ghosts>>

PmExit ==
    /\ PmMove("exit", "end")
    /\ PowerFree
    /\ active' = [active EXCEPT !.pdm = FALSE, !.scm = FALSE]
    /\ pdm' = [pdm EXCEPT !.pc = Woken(@)]
    /\ scm' = Woken(scm)
    /\ UNCHANGED <<msg, queue, call, ports, calls, ghosts>>

(* The message is copied into the queue. A caller may be filling it at the *)
(* same time, under its own mutex: the copy may mix two messages.          *)
PmCopy ==
    LET filling == {call[c] : c \in {d \in Callers : call[d].pc = "fill"}}
        seen == {msg} \cup filling
    IN  /\ PmMove("copy", "signal")
        /\ \E x, y \in seen :
              queue' = Append(queue, [port |-> x.port, state |-> y.state,
                                      wait |-> y.wait, id |-> 0])
        /\ mixed' = TRUE
        /\ UNCHANGED <<msg, active, pdm, scm, call, ports, calls, executed, asked, exited>>

PmSignal ==
    /\ PmMove("signal", "clear")
    /\ PowerFree
    /\ pdm' = [pdm EXCEPT !.pc = Woken(@)]
    /\ UNCHANGED <<msg, queue, active, scm, call, ports, calls, ghosts>>

PmClear ==
    /\ PmMove("clear", "test")
    /\ msg' = [msg EXCEPT !.type = "PM_NO_CMD"]
    /\ UNCHANGED <<queue, active, pdm, scm, call, ports, calls, ghosts>>

Pm == PmStart \/ PmActivate \/ PmTest \/ PmLock \/ PmWoken \/ PmCheck
      \/ PmExit \/ PmCopy \/ PmSignal \/ PmClear

-----------------------------------------------------------------------------
(* pdm_thread_func.                                                        *)

PdmMove(from, to) == pdm.pc = from /\ pdm' = [pdm EXCEPT !.pc = to]

Leaving(flag) == msg.type = "PM_EXIT" \/ ~flag

(* The device was read; PDM_ACTIVITY goes to pm_thread.                    *)
PdmAnnounce ==
    /\ PdmMove("announce", "activate")
    /\ PmFree
    /\ msg' = [msg EXCEPT !.type = "PDM_ACTIVITY"]
    /\ pm' = Woken(pm)
    /\ UNCHANGED <<queue, active, scm, call, ports, calls, ghosts>>

PdmActivate ==
    /\ PdmMove("activate", "test")
    /\ active' = [active EXCEPT !.pdm = TRUE]
    /\ UNCHANGED <<msg, queue, pm, scm, call, ports, calls, ghosts>>

PdmTest ==
    /\ PdmMove("test", IF active.pdm THEN "lock" ELSE "end")
    /\ UNCHANGED <<msg, queue, active, pm, scm, call, ports, calls, ghosts>>

(* Mutant: the newest command is taken.                                    *)
TakeLast(q) ==
    IF Leaving(active.pdm) THEN queue' = q /\ pdm' = [pdm EXCEPT !.pc = "end"]
    ELSE IF q = <<>> THEN queue' = q /\ pdm' = [pdm EXCEPT !.pc = "test"]
    ELSE /\ queue' = SubSeq(q, 1, Len(q) - 1)
         /\ pdm' = [pc |-> "process", cur |-> q[Len(q)]]

(* The rest of the section under power_mutex: leave, or take the first     *)
(* entry, if there is one.                                                 *)
Take(q) ==
    IF Leaving(active.pdm) THEN queue' = q /\ pdm' = [pdm EXCEPT !.pc = "end"]
    ELSE IF q = <<>> THEN queue' = q /\ pdm' = [pdm EXCEPT !.pc = "test"]
    ELSE queue' = Tail(q) /\ pdm' = [pc |-> "process", cur |-> Head(q)]

PdmLock ==
    /\ pdm.pc = "lock"
    /\ PowerFree
    /\ IF queue = <<>> /\ (msg.type # "PM_EXIT" \/ active.pdm)
       THEN pdm' = [pdm EXCEPT !.pc = "wait"] /\ UNCHANGED queue
       ELSE Take(queue)
    /\ UNCHANGED <<msg, active, pm, scm, call, ports, calls, ghosts>>

PdmWoken ==
    /\ pdm.pc = "woken"
    /\ PowerFree
    /\ Take(queue)
    /\ UNCHANGED <<msg, active, pm, scm, call, ports, calls, ghosts>>

(* The poll timer: a status request is queued like a command.              *)
PdmPoll ==
    /\ pdm.pc = "wait"
    /\ PowerFree
    /\ Take(Append(queue, Poll))
    /\ UNCHANGED <<msg, active, pm, scm, call, ports, calls, ghosts>>

(* pdmProcessMessage, if the flag is still set. The delays of the CCR port *)
(* compare a state with a port number and never apply.                     *)
PdmProcess ==
    /\ pdm.pc = "process"
    /\ IF active.pdm /\ pdm.cur.port # NoPort
       THEN /\ ports' = [ports EXCEPT ![pdm.cur.port] = pdm.cur.state]
            /\ executed' = executed \cup ({pdm.cur.id} \ {0})
            /\ pdm' = [pc |-> IF pdm.cur.wait THEN "respond" ELSE "test", cur |-> Poll]
       ELSE /\ pdm' = [pc |-> "test", cur |-> Poll]
            /\ UNCHANGED <<ports, executed>>
    /\ UNCHANGED <<msg, queue, active, pm, scm, call, calls, asked, mixed, exited>>

(* pdm_send_response wakes one of the callers that wait on sync_cond.      *)
Respond(from, to) ==
    LET waiting == {c \in Callers : call[c].pc = "wait"}
    IN  /\ PdmMove(from, to)
        /\ IF waiting = {}
           THEN UNCHANGED call
           ELSE \E c \in waiting : call' = [call EXCEPT ![c].pc = "woken"]
        /\ UNCHANGED <<msg, queue, active, pm, scm, ports, calls, ghosts>>

(* The port is set a second time, and a second response follows.           *)
PdmRespond == Respond("respond", "again") \/ Respond("again", "test")

Pdm == PdmAnnounce \/ PdmActivate \/ PdmTest \/ PdmLock \/ PdmWoken \/ PdmPoll
       \/ PdmProcess \/ PdmRespond

-----------------------------------------------------------------------------
(* scm_thread_func; request_type is never PDM_REQUEST.                     *)

ScmMove(from, to) ==
    /\ scm = from
    /\ scm' = to
    /\ UNCHANGED <<msg, queue, pm, pdm, call, ports, calls, ghosts>>

ScmActivate ==
    /\ ScmMove("activate", "lock")
    /\ active' = [active EXCEPT !.scm = TRUE]

(* The test of the flag before the mutex is repeated under it.             *)
ScmLock ==
    /\ PowerFree
    /\ ScmMove("lock", IF Leaving(active.scm) THEN "end" ELSE "wait")
    /\ UNCHANGED active

ScmWoken ==
    /\ PowerFree
    /\ ScmMove("woken", IF Leaving(active.scm) THEN "end" ELSE "lock")
    /\ UNCHANGED active

(* The poll timer: the device is read outside the mutex, and the loop      *)
(* comes back to its wait.                                                 *)
ScmPoll ==
    /\ PowerFree
    /\ ScmMove("wait", IF Leaving(active.scm) THEN "end" ELSE "wait")
    /\ UNCHANGED active

Scm == ScmActivate \/ ScmLock \/ ScmWoken \/ ScmPoll

-----------------------------------------------------------------------------
Next ==
    \/ \E c \in Callers : Caller(c) \/ \E m \in Commands[c] : SetType(c, m)
    \/ pm_exit \/ Pm \/ Pdm \/ Scm

Spec == Init /\ [][Next]_vars

(* The threads run, a started call goes on, and the poll timers expire;    *)
(* nobody has to call.                                                     *)
FairSpec == /\ Spec
            /\ WF_vars(Pm)
            /\ WF_vars(Pdm)
            /\ WF_vars(Scm)
            /\ \A c \in Callers : WF_vars(Caller(c))

-----------------------------------------------------------------------------
(* Properties.                                                             *)

(* The state has its type; the thread carries out commands it took from the*)
(* queue, each call's at most once, and polls do not pile up in the queue. *)
TypeOK ==
    /\ msg \in [type : {"PM_NO_CMD", "PM_EXIT", "PDM_ACTIVITY", "PDM_SET_PORT_STATE"},
                port : Port, state : State, wait : BOOLEAN]
    /\ queue \in Seq(Entry)
    /\ Cardinality({i \in DOMAIN queue : queue[i] = Poll}) <= 1
    /\ active \in [{"pm", "pdm", "scm"} -> BOOLEAN]
    /\ pm \in {"start", "activate", "test", "lock", "wait", "woken", "check",
               "exit", "copy", "signal", "clear", "end"}
    /\ pdm \in [pc : {"off", "announce", "activate", "test", "lock", "wait", "woken",
                      "process", "respond", "again", "end"},
                cur : Entry]
    /\ pdm.cur.id = 0 \/ pdm.cur.id \notin executed
    /\ scm \in {"off", "activate", "lock", "wait", "woken", "end"}
    /\ call \in [Callers -> [pc : {"idle", "fill", "sync", "wait", "woken"},
                             port : Port \cup {NoPort}, state : State,
                             wait : BOOLEAN, id : 0..MaxCalls]]
    /\ ports \in [Port -> State] /\ asked \in [Port -> State]
    /\ calls \in 0..MaxCalls
    /\ executed \subseteq 1..calls
    /\ mixed \in BOOLEAN /\ exited \in BOOLEAN

(* What a port will be when the queue is empty.                            *)
Final(p) ==
    LET todo == (IF pdm.pc = "process" THEN <<pdm.cur>> ELSE <<>>) \o queue
        I == {i \in DOMAIN todo : todo[i].port = p}
    IN  IF I = {} THEN ports[p] ELSE todo[Max(I)].state

(* The ports end up as they were last asked to be, whichever callers asked *)
(* and when: commands are carried out whole and in the order of the calls, *)
(* until pm_exit, unless a thread under the other mutex spoiled or copied  *)
(* the message of a call.                                                  *)
PortFinal == ~mixed /\ ~exited => \A p \in Port : Final(p) = asked[p]

(* The PDM thread does not sleep until its poll timer while there is       *)
(* something in the queue: whoever put it there is about to signal.        *)
NoLostWakeup == pdm.pc = "wait" /\ queue # <<>> => pm = "signal"

(* pm_exit ends all three threads, whoever overwrites its PM_EXIT message  *)
(* (not those that start after it: EarlyExit is FALSE).                    *)
ExitStops == exited ~> pm = "end" /\ pdm.pc = "end" /\ scm = "end"

-----------------------------------------------------------------------------
(* What a comment in the source says and the code does not guarantee.      *)

(* "wait_flag ... 1 wait for response": a call with wait_flag 1 that       *)
(* returns 0 had its command carried out.                                  *)
WaitedForResponse ==
    \A c \in Callers : call[c].pc = "woken" /\ call[c].wait => call[c].id \in executed

=============================================================================
