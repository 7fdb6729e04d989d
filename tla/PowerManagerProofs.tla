------------------------- MODULE PowerManagerProofs -------------------------
(***************************************************************************)
(* Proofs about the power manager: its type, that no command waits in the  *)
(* queue of a sleeping thread, and that the ports end up as last asked.    *)
(* All three follow from one inductive invariant, PowerInv.                *)
(***************************************************************************)
EXTENDS PowerManager, SequenceTheorems, FiniteSetTheorems, TLAPS

-----------------------------------------------------------------------------
(* The inductive invariant.                                                *)

Sorts ==
    /\ msg \in [type : {"PM_NO_CMD", "PM_EXIT", "PDM_ACTIVITY", "PDM_SET_PORT_STATE"},
                port : Port, state : State, wait : BOOLEAN]
    /\ active \in [{"pm", "pdm", "scm"} -> BOOLEAN]
    /\ pm \in {"start", "activate", "test", "lock", "wait", "woken", "check",
               "exit", "copy", "signal", "clear", "end"}
    /\ pdm \in [pc : {"off", "announce", "activate", "test", "lock", "wait", "woken",
                      "process", "respond", "again", "end"},
                cur : Entry]
    /\ scm \in {"off", "activate", "lock", "wait", "woken", "end"}
    /\ call \in [Callers -> [pc : {"idle", "fill", "sync", "wait", "woken"},
                             port : Port \cup {NoPort}, state : State,
                             wait : BOOLEAN, id : 0..MaxCalls]]
    /\ ports \in [Port -> State] /\ asked \in [Port -> State]
    /\ calls \in 0..MaxCalls
    /\ executed \subseteq 1..calls
    /\ mixed \in BOOLEAN /\ exited \in BOOLEAN

(* A call is numbered under power_mutex: while it fills the message in, it *)
(* is the last one, and nothing has its number yet.                        *)
Filling ==
    \A c \in Callers : call[c].pc = "fill" =>
        /\ call[c].port \in Port
        /\ call[c].id = calls /\ calls # 0
        /\ \A d \in Callers : call[d].pc = "fill" => d = c
        /\ calls \notin executed
        /\ pdm.cur.id # calls

(* The PDM thread holds an entry while it carries it out, once.            *)
Holding ==
    /\ pdm.pc # "process" => pdm.cur = Poll
    /\ pdm.cur.id <= calls
    /\ pdm.cur.id # 0 => pdm.cur.id \notin executed

(* Until pm_exit, nothing makes the PDM thread drop what it took.          *)
Running ==
    ~exited => /\ msg.type # "PM_EXIT"
               /\ pm # "exit"
               /\ pdm.pc = "process" => active.pdm

(* The PDM thread is created by pm_thread.                                 *)
Unstarted == pm = "start" => pdm.pc = "off"

(* v is the state of the last entry of q for port p, or d without any.     *)
LastIs(q, p, d, v) ==
    \/ (\A i \in DOMAIN q : q[i].port # p) /\ v = d
    \/ \E k \in DOMAIN q : /\ q[k].port = p
                           /\ v = q[k].state
                           /\ \A j \in DOMAIN q : j > k => q[j].port # p

(* What the port is when the PDM thread comes back to the queue.           *)
Soon(p) == IF pdm.pc = "process" /\ pdm.cur.port = p THEN pdm.cur.state ELSE ports[p]

(* q could be the queue: of each call at most one entry, of the poll timer *)
(* one at most, and for each port the state that was asked for comes last. *)
Queued(q) ==
    /\ q \in Seq(Entry)
    /\ \A c \in Callers : call[c].pc = "fill" => \A i \in DOMAIN q : q[i].id # calls
    /\ \A i \in DOMAIN q :
          /\ q[i].id <= calls
          /\ q[i].id # 0 => /\ q[i].id \notin executed
                            /\ q[i].id # pdm.cur.id
                            /\ \A j \in DOMAIN q : q[j].id = q[i].id => j = i
    /\ \A i, j \in DOMAIN q : q[i] = Poll /\ q[j] = Poll => i = j
    /\ ~mixed /\ ~exited => \A p \in Port : LastIs(q, p, Soon(p), asked[p])

(* The wait begins with an empty queue, and ends when the timer expires.   *)
NoPoll == pdm.pc = "wait" => \A i \in DOMAIN queue : queue[i] # Poll

PowerInv ==
    /\ Sorts /\ Filling /\ Holding /\ Running /\ Unstarted
    /\ Queued(queue) /\ NoPoll /\ NoLostWakeup

-----------------------------------------------------------------------------
(* Lemmas about the queue.                                                 *)

LEMMA MaxIs ==
    ASSUME NEW I \in SUBSET Int, NEW k \in I, \A j \in I : j <= k
    PROVE  Max(I) = k
<1>1. k \in I /\ \A j \in I : k >= j
  OBVIOUS
<1>2. Max(I) \in I /\ \A j \in I : Max(I) >= j
  BY <1>1, Zenon DEF Max
<1>3. Max(I) >= k /\ k >= Max(I) /\ Max(I) \in Int /\ k \in Int
  BY <1>1, <1>2
<1> QED BY ONLY <1>3

LEMMA PollIsEntry == Poll \in Entry /\ Poll.port = NoPort /\ Poll.id = 0
BY PowerConstants DEF Poll, Entry, State

LEMMA Appended ==
    ASSUME NEW q \in Seq(Entry), NEW e \in Entry
    PROVE  /\ Append(q, e) \in Seq(Entry)
           /\ Append(q, e) # <<>>
           /\ Len(q) \in Nat
           /\ DOMAIN q = 1..Len(q)
           /\ DOMAIN Append(q, e) = 1..(Len(q) + 1)
           /\ \A i \in DOMAIN q : Append(q, e)[i] = q[i]
           /\ Append(q, e)[Len(q) + 1] = e
<1>1. /\ Append(q, e) \in Seq(Entry) /\ Append(q, e) # <<>> /\ Len(Append(q, e)) = Len(q) + 1
      /\ \A i \in 1..Len(q) : Append(q, e)[i] = q[i]
      /\ Append(q, e)[Len(q) + 1] = e
  BY AppendProperties
<1>2. Len(q) \in Nat /\ DOMAIN q = 1..Len(q)
  BY LenProperties
<1>3. DOMAIN Append(q, e) = 1..Len(Append(q, e))
  BY <1>1, LenProperties
<1> QED BY <1>1, <1>2, <1>3

LEMMA Taken ==
    ASSUME NEW q \in Seq(Entry), q # <<>>
    PROVE  /\ Head(q) \in Entry
           /\ Tail(q) \in Seq(Entry)
           /\ Len(q) \in Nat \ {0}
           /\ DOMAIN q = 1..Len(q)
           /\ DOMAIN Tail(q) = 1..(Len(q) - 1)
           /\ \A i \in DOMAIN Tail(q) : Tail(q)[i] = q[i + 1]
           /\ Head(q) = q[1]
<1>1. /\ Head(q) \in Entry /\ Tail(q) \in Seq(Entry) /\ Len(Tail(q)) = Len(q) - 1
      /\ \A i \in 1..Len(Tail(q)) : Tail(q)[i] = q[i + 1]
  BY HeadTailProperties
<1>2. Len(q) \in Nat \ {0} /\ DOMAIN q = 1..Len(q)
  BY LenProperties, EmptySeq
<1>3. DOMAIN Tail(q) = 1..Len(Tail(q))
  BY <1>1, LenProperties
<1>4. Head(q) = q[1]
  OBVIOUS
<1> QED BY <1>1, <1>2, <1>3, <1>4

(* An entry for the port comes last, others change nothing, ...            *)
LEMMA LastAppended ==
    ASSUME NEW q \in Seq(Entry), NEW e \in Entry, NEW p, NEW d, NEW v
    PROVE  /\ e.port = p => LastIs(Append(q, e), p, d, e.state)
           /\ e.port # p /\ LastIs(q, p, d, v) => LastIs(Append(q, e), p, d, v)
<1> DEFINE s == Append(q, e)
           n == Len(q) + 1
<1>1. /\ Len(q) \in Nat /\ DOMAIN q = 1..Len(q) /\ DOMAIN s = 1..n
      /\ \A i \in DOMAIN q : s[i] = q[i]
      /\ s[n] = e
  BY Appended
<1> HIDE DEF s
<1>2. n \in DOMAIN s /\ \A j \in DOMAIN s : ~(j > n) /\ (j = n \/ j \in DOMAIN q)
  BY <1>1
<1> HIDE DEF n
<1>3. ASSUME e.port = p PROVE LastIs(s, p, d, e.state)
  BY <1>1, <1>2, <1>3 DEF LastIs
<1>4. ASSUME e.port # p, LastIs(q, p, d, v) PROVE LastIs(s, p, d, v)
  <2>1. CASE (\A i \in DOMAIN q : q[i].port # p) /\ v = d
    BY <1>1, <1>2, <1>4, <2>1 DEF LastIs
  <2>2. CASE \E k \in DOMAIN q : /\ q[k].port = p
                                 /\ v = q[k].state
                                 /\ \A j \in DOMAIN q : j > k => q[j].port # p
    <3>1. PICK k \in DOMAIN q : /\ q[k].port = p
                                /\ v = q[k].state
                                /\ \A j \in DOMAIN q : j > k => q[j].port # p
      BY <2>2
    <3>2. DOMAIN q \subseteq DOMAIN s
      BY <1>1 DEF n
    <3>3. k \in DOMAIN s /\ s[k].port = p /\ v = s[k].state
      BY <1>1, <3>1, <3>2
    <3>4. \A j \in DOMAIN s : j > k => s[j].port # p
      BY <1>1, <1>2, <1>4, <3>1
    <3> QED BY <3>3, <3>4 DEF LastIs
  <2> QED BY <1>4, <2>1, <2>2 DEF LastIs
<1> QED BY <1>3, <1>4 DEF s

(* ... and the first entry becomes what the port is.                       *)
LEMMA LastTaken ==
    ASSUME NEW q \in Seq(Entry), q # <<>>, NEW p, NEW d, NEW v, LastIs(q, p, d, v)
    PROVE  LastIs(Tail(q), p, IF Head(q).port = p THEN Head(q).state ELSE d, v)
<1> DEFINE s == Tail(q)
           e == IF Head(q).port = p THEN Head(q).state ELSE d
<1> SUFFICES LastIs(s, p, e, v)
  OBVIOUS
<1>1. /\ Len(q) \in Nat \ {0} /\ DOMAIN q = 1..Len(q) /\ DOMAIN s = 1..(Len(q) - 1)
      /\ \A i \in DOMAIN s : s[i] = q[i + 1]
      /\ Head(q) = q[1]
  BY Taken
<1> HIDE DEF s
<1>2. /\ 1 \in DOMAIN q /\ \A i \in DOMAIN s : i + 1 \in DOMAIN q
      /\ \A j \in DOMAIN q : j = 1 \/ j - 1 \in DOMAIN s
  BY <1>1
<1>3. CASE (\A i \in DOMAIN q : q[i].port # p) /\ v = d
  BY <1>1, <1>2, <1>3 DEF LastIs
<1>4. CASE \E k \in DOMAIN q : /\ q[k].port = p
                               /\ v = q[k].state
                               /\ \A j \in DOMAIN q : j > k => q[j].port # p
  <2>1. PICK k \in DOMAIN q : /\ q[k].port = p
                              /\ v = q[k].state
                              /\ \A j \in DOMAIN q : j > k => q[j].port # p
    BY <1>4
  <2>2. k \in Int
    BY <1>1
  <2>3. CASE k = 1
    <3>1. \A i \in DOMAIN s : s[i].port # p
      BY <1>1, <1>2, <2>1, <2>3
    <3>2. e = v
      BY <1>1, <2>1, <2>3
    <3> QED BY <3>1, <3>2 DEF LastIs
  <2>4. CASE k # 1
    <3>1. k - 1 \in DOMAIN s /\ s[k - 1] = q[k]
      BY <1>1, <1>2, <2>2, <2>4
    <3>2. \A j \in DOMAIN s : j > k - 1 => s[j].port # p
      BY <1>1, <1>2, <2>1, <2>2
    <3> QED BY <2>1, <3>1, <3>2 DEF LastIs
  <2> QED BY <2>3, <2>4
<1> QED BY <1>3, <1>4 DEF LastIs

-----------------------------------------------------------------------------
(* The steps that leave the queue alone.                                   *)

LEMMA Quiet ==
    ASSUME PowerInv, Sorts',
           UNCHANGED <<queue, ports, executed, asked, calls>>,
           exited => exited', mixed => mixed',
           \A c \in Callers : call'[c].pc = "fill" => call'[c] = call[c],
           pdm'.cur = pdm.cur,
           pdm'.pc = "process" <=> pdm.pc = "process",
           pdm'.pc = "wait" => pdm.pc = "wait" \/ queue = <<>>,
           Running', Unstarted', NoLostWakeup'
    PROVE  PowerInv'
<1>1. Filling'
  BY DEF PowerInv, Filling
<1>2. Holding'
  BY DEF PowerInv, Holding
<1>3. \A p : Soon(p)' = Soon(p)
  BY DEF Soon
<1>4. Queued(queue)'
  <2>1. ~mixed' /\ ~exited' => \A p \in Port : LastIs(queue, p, Soon(p), asked[p])'
    BY <1>3 DEF PowerInv, Queued, LastIs
  <2> QED BY <2>1 DEF PowerInv, Queued
<1>5. NoPoll'
  BY DEF PowerInv, NoPoll
<1> QED BY <1>1, <1>2, <1>4, <1>5 DEF PowerInv

LEMMA QuietCaller ==
    ASSUME PowerInv, NEW c \in Callers, SyncRead(c) \/ SyncReturn(c)
    PROVE  PowerInv'
<1>1. /\ UNCHANGED <<msg, queue, active, pm, pdm, scm, ports, calls, executed, asked, mixed, exited>>
      /\ \/ call' = [call EXCEPT ![c].pc = "wait"]
         \/ call' = [call EXCEPT ![c] = [pc |-> "idle", port |-> NoPort, state |-> 0,
                                         wait |-> FALSE, id |-> 0]]
  BY DEF SyncRead, SyncReturn, ghosts
<1>2. Sorts'
  <2>1. call' \in [Callers -> [pc : {"idle", "fill", "sync", "wait", "woken"},
                             port : Port \cup {NoPort}, state : State,
                             wait : BOOLEAN, id : 0..MaxCalls]]
    <3>1. 0 \in 0..MaxCalls /\ 0 \in State
      BY PowerConstants DEF State
    <3>2. CASE call' = [call EXCEPT ![c].pc = "wait"]
      BY <3>2 DEF PowerInv, Sorts
    <3>3. CASE call' = [call EXCEPT ![c] = [pc |-> "idle", port |-> NoPort, state |-> 0,
                                            wait |-> FALSE, id |-> 0]]
      BY <3>1, <3>3 DEF PowerInv, Sorts
    <3> QED BY <1>1, <3>2, <3>3
  <2> QED BY <1>1, <2>1 DEF PowerInv, Sorts
<1>3. \A d \in Callers : call'[d].pc = "fill" => call'[d] = call[d]
  BY <1>1 DEF PowerInv, Sorts
<1>4. Running' /\ Unstarted' /\ NoLostWakeup'
  BY <1>1 DEF PowerInv, Running, Unstarted, NoLostWakeup
<1> QED BY <1>1, <1>2, <1>3, <1>4, Quiet

(* The program counter of a thread after it was woken.                     *)
LEMMA WokenPdm ==
    ASSUME Sorts, pdm' = [pdm EXCEPT !.pc = Woken(@)]
    PROVE  /\ pdm'.cur = pdm.cur /\ pdm'.pc # "wait"
           /\ pdm'.pc = "process" <=> pdm.pc = "process"
           /\ pdm' \in [pc : {"off", "announce", "activate", "test", "lock", "wait", "woken",
                              "process", "respond", "again", "end"},
                        cur : Entry]
BY DEF Sorts, Woken

LEMMA QuietExit == ASSUME PowerInv, pm_exit PROVE PowerInv'
<1>1. Sorts'
  BY DEF PowerInv, Sorts, pm_exit, Woken
<1>2. Running' /\ Unstarted' /\ NoLostWakeup'
  BY DEF PowerInv, pm_exit, Woken, Running, Unstarted, NoLostWakeup, PmFree
<1> QED BY <1>1, <1>2, Quiet DEF pm_exit, ghosts

(* What pm_thread does but for its copy of the message, ...                *)
LEMMA QuietPm == ASSUME PowerInv, Pm, ~PmCopy PROVE PowerInv'
<1>1. CASE PmStart
  <2>1. Sorts'
    BY <1>1 DEF PmStart, PmMove, ghosts, PowerInv, Sorts
  <2>2. Running' /\ Unstarted' /\ NoLostWakeup'
    BY <1>1 DEF PmStart, PmMove, ghosts, PowerInv, Sorts, Running, Unstarted, NoLostWakeup
  <2>3. pdm'.cur = pdm.cur /\ pdm'.pc = "announce" /\ pdm.pc = "off"
    BY <1>1 DEF PmStart, PmMove, PowerInv, Sorts, Unstarted
  <2> QED BY <1>1, <2>1, <2>2, <2>3, Quiet DEF PmStart, ghosts
<1>2. CASE PmActivate
  <2>1. Sorts'
    BY <1>2 DEF PmActivate, PmMove, ghosts, PowerInv, Sorts
  <2>2. Running' /\ Unstarted' /\ NoLostWakeup'
    BY <1>2 DEF PmActivate, PmMove, ghosts, PowerInv, Sorts, Running, Unstarted, NoLostWakeup
  <2> QED BY <1>2, <2>1, <2>2, Quiet DEF PmActivate, ghosts
<1>3. CASE PmTest \/ PmLock \/ PmWoken \/ PmCheck
  <2>1. Sorts'
    BY <1>3 DEF PmTest, PmLock, PmWoken, PmCheck, PmMove, ghosts, PowerInv, Sorts
  <2>2. Running' /\ Unstarted' /\ NoLostWakeup'
    BY <1>3 DEF PmTest, PmLock, PmWoken, PmCheck, PmMove, ghosts, PowerInv, Running, Unstarted,
                NoLostWakeup
  <2> QED BY <1>3, <2>1, <2>2, Quiet DEF PmTest, PmLock, PmWoken, PmCheck, ghosts
<1>4. CASE PmExit
  <2>1. Sorts'
    BY <1>4 DEF PmExit, PmMove, ghosts, PowerInv, Sorts, Woken
  <2>2. Running' /\ Unstarted' /\ NoLostWakeup'
    BY <1>4 DEF PmExit, PmMove, ghosts, PowerInv, Sorts, Woken, Running, Unstarted, NoLostWakeup
  <2> QED BY <1>4, <2>1, <2>2, WokenPdm, Quiet DEF PmExit, ghosts, PowerInv
<1>5. CASE PmSignal
  <2>1. Sorts'
    BY <1>5 DEF PmSignal, PmMove, ghosts, PowerInv, Sorts, Woken
  <2>2. Running' /\ Unstarted' /\ NoLostWakeup'
    BY <1>5 DEF PmSignal, PmMove, ghosts, PowerInv, Sorts, Woken, Running, Unstarted, NoLostWakeup
  <2> QED BY <1>5, <2>1, <2>2, WokenPdm, Quiet DEF PmSignal, ghosts, PowerInv
<1>6. CASE PmClear
  <2>1. Sorts'
    BY <1>6 DEF PmClear, PmMove, ghosts, PowerInv, Sorts
  <2>2. Running' /\ Unstarted' /\ NoLostWakeup'
    BY <1>6 DEF PmClear, PmMove, ghosts, PowerInv, Sorts, Running, Unstarted, NoLostWakeup
  <2> QED BY <1>6, <2>1, <2>2, Quiet DEF PmClear, ghosts
<1> QED BY <1>1, <1>2, <1>3, <1>4, <1>5, <1>6 DEF Pm

(* ... what the PDM thread does before it has the mutex and after it       *)
(* carried out a command, ...                                              *)
LEMMA QuietPdm ==
    ASSUME PowerInv, PdmAnnounce \/ PdmActivate \/ PdmTest \/ PdmRespond
    PROVE  PowerInv'
<1>1. /\ pdm'.cur = pdm.cur
      /\ pdm'.pc \in {"activate", "test", "lock", "end", "again"}
      /\ pdm.pc \in {"announce", "activate", "test", "respond", "again"}
      /\ pdm' \in [pc : {"off", "announce", "activate", "test", "lock", "wait", "woken",
                         "process", "respond", "again", "end"},
                   cur : Entry]
  BY DEF PdmAnnounce, PdmActivate, PdmTest, PdmRespond, Respond, PdmMove, PowerInv, Sorts
<1>2. CASE PdmAnnounce
  <2>1. Sorts'
    BY <1>1, <1>2 DEF PdmAnnounce, ghosts, PowerInv, Sorts, Woken
  <2>2. Running' /\ Unstarted' /\ NoLostWakeup'
    BY <1>1, <1>2 DEF PdmAnnounce, ghosts, PowerInv, Sorts, Woken, PmFree, Running, Unstarted,
                      NoLostWakeup
  <2> QED BY <1>1, <1>2, <2>1, <2>2, Quiet DEF PdmAnnounce, ghosts
<1>3. CASE PdmActivate
  <2>1. Sorts'
    BY <1>1, <1>3 DEF PdmActivate, ghosts, PowerInv, Sorts
  <2>2. Running' /\ Unstarted' /\ NoLostWakeup'
    BY <1>1, <1>3 DEF PdmActivate, ghosts, PowerInv, Sorts, Running, Unstarted, NoLostWakeup
  <2> QED BY <1>1, <1>3, <2>1, <2>2, Quiet DEF PdmActivate, ghosts
<1>4. CASE PdmTest
  <2>1. Sorts'
    BY <1>1, <1>4 DEF PdmTest, ghosts, PowerInv, Sorts
  <2>2. Running' /\ Unstarted' /\ NoLostWakeup'
    BY <1>1, <1>4 DEF PdmTest, ghosts, PowerInv, Sorts, Running, Unstarted, NoLostWakeup
  <2> QED BY <1>1, <1>4, <2>1, <2>2, Quiet DEF PdmTest, ghosts
<1>5. CASE PdmRespond
  <2>1. /\ UNCHANGED <<msg, queue, active, pm, scm, ports, calls, executed, asked, mixed, exited>>
        /\ \/ UNCHANGED call
           \/ \E c \in Callers : call' = [call EXCEPT ![c].pc = "woken"]
    BY <1>5 DEF PdmRespond, Respond, ghosts
  <2>2. call' \in [Callers -> [pc : {"idle", "fill", "sync", "wait", "woken"},
                               port : Port \cup {NoPort}, state : State,
                               wait : BOOLEAN, id : 0..MaxCalls]]
    BY <2>1 DEF PowerInv, Sorts
  <2>3. Sorts'
    BY <1>1, <2>1, <2>2 DEF PowerInv, Sorts
  <2>4. \A c \in Callers : call'[c].pc = "fill" => call'[c] = call[c]
    BY <2>1 DEF PowerInv, Sorts
  <2>5. Running' /\ Unstarted' /\ NoLostWakeup'
    BY <1>1, <2>1 DEF PowerInv, Running, Unstarted, NoLostWakeup
  <2> QED BY <1>1, <2>1, <2>3, <2>4, <2>5, Quiet
<1> QED BY <1>2, <1>3, <1>4, <1>5

(* ... and what the SCM thread does.                                       *)
LEMMA QuietScm == ASSUME PowerInv, Scm PROVE PowerInv'
<1>1. /\ UNCHANGED <<msg, queue, pm, pdm, call, ports, calls, executed, asked, mixed, exited>>
      /\ scm' \in {"off", "activate", "lock", "wait", "woken", "end"}
      /\ active' = active \/ active' = [active EXCEPT !.scm = TRUE]
  BY DEF Scm, ScmActivate, ScmLock, ScmWoken, ScmPoll, ScmMove, ghosts
<1>2. /\ active' \in [{"pm", "pdm", "scm"} -> BOOLEAN]
      /\ active'.pdm = active.pdm
  BY <1>1 DEF PowerInv, Sorts
<1>3. Sorts'
  BY <1>1, <1>2 DEF PowerInv, Sorts
<1>4. Running' /\ Unstarted' /\ NoLostWakeup'
  BY <1>1, <1>2 DEF PowerInv, Running, Unstarted, NoLostWakeup
<1> QED BY <1>1, <1>3, <1>4, Quiet

-----------------------------------------------------------------------------
(* The steps that change the queue, the calls or the ports.                *)

(* A call gets its number.                                                 *)
LEMMA SetTypeKeeps ==
    ASSUME PowerInv, NEW c \in Callers, NEW m \in Commands[c], SetType(c, m)
    PROVE  PowerInv'
<1> DEFINE r == [pc |-> "fill", port |-> m.port, state |-> m.state, wait |-> m.wait, id |-> calls + 1]
<1>1. /\ UNCHANGED <<queue, active, pm, pdm, scm, ports, executed, asked, mixed, exited>>
      /\ calls' = calls + 1 /\ calls < MaxCalls
      /\ call' = [call EXCEPT ![c] = r]
      /\ msg' = [msg EXCEPT !.type = "PDM_SET_PORT_STATE"]
      /\ \A d \in Callers : call[d].pc # "fill"
  BY DEF SetType, PowerFree, ghosts
<1>2. m.port \in Port /\ m.state \in State /\ m.wait \in BOOLEAN
  BY PowerConstants
<1>3. calls \in Nat /\ MaxCalls \in Nat /\ calls' \in 0..MaxCalls /\ calls' # 0
  BY <1>1, PowerConstants DEF PowerInv, Sorts
<1>4. Sorts'
  <2>1. call' \in [Callers -> [pc : {"idle", "fill", "sync", "wait", "woken"},
                             port : Port \cup {NoPort}, state : State,
                             wait : BOOLEAN, id : 0..MaxCalls]]
    BY <1>1, <1>2, <1>3 DEF PowerInv, Sorts
  <2>2. executed' \subseteq 1..calls'
    BY <1>1, <1>3 DEF PowerInv, Sorts
  <2> QED BY <1>1, <1>3, <2>1, <2>2 DEF PowerInv, Sorts
<1>5. \A d \in Callers : call'[d].pc = "fill" =>
         d = c /\ call'[d].port \in Port /\ call'[d].id = calls'
  BY <1>1, <1>2 DEF PowerInv, Sorts
<1>6. /\ calls' \notin executed /\ pdm.cur.id # calls'
      /\ \A i \in DOMAIN queue : queue[i].id <= calls' /\ queue[i].id # calls'
  <2>1. \A i \in DOMAIN queue : queue[i].id \in Int
    <3>1. queue \in Seq(Entry) /\ DOMAIN queue = 1..Len(queue)
      BY LenProperties DEF PowerInv, Queued
    <3>2. \A i \in DOMAIN queue : queue[i] \in Entry
      BY <3>1, ElementOfSeq
    <3> QED BY <3>2 DEF Entry
  <2> QED BY <1>1, <1>3, <2>1 DEF PowerInv, Sorts, Holding, Queued, Entry
<1>7. Filling'
  BY <1>1, <1>3, <1>5, <1>6 DEF Filling
<1>8. Holding' /\ Running' /\ Unstarted' /\ NoPoll' /\ NoLostWakeup'
  <2>1. pdm.cur.id <= calls'
    BY <1>1, <1>3 DEF PowerInv, Sorts, Holding, Entry
  <2> QED BY <1>1, <2>1 DEF PowerInv, Sorts, Holding, Running, Unstarted, NoPoll, NoLostWakeup
<1>9. Queued(queue)'
  <2>1. ~mixed' /\ ~exited' => \A p \in Port : LastIs(queue, p, Soon(p), asked[p])'
    BY <1>1 DEF PowerInv, Queued, LastIs, Soon
  <2> QED BY <1>1, <1>6, <2>1 DEF PowerInv, Queued
<1> QED BY <1>4, <1>7, <1>8, <1>9 DEF PowerInv

(* What a call or pm_thread queues is no status request.                   *)
LEMMA SetEnqueueKeeps ==
    ASSUME PowerInv, NEW c \in Callers, SetEnqueue(c)
    PROVE  PowerInv'
<1> DEFINE e == Command(c)
           n == Len(queue) + 1
<1>1. /\ UNCHANGED <<active, pm, scm, ports, calls, executed, exited>>
      /\ call[c].pc = "fill"
      /\ msg' = [msg EXCEPT !.port = call[c].port, !.state = call[c].state, !.wait = call[c].wait]
      /\ queue' = Append(queue, e)
      /\ pdm' = [pdm EXCEPT !.pc = Woken(@)]
      /\ call' = [call EXCEPT ![c].pc = "sync"]
      /\ asked' = [asked EXCEPT ![call[c].port] = call[c].state]
      /\ mixed' = (mixed \/ Spoiled)
  BY DEF SetEnqueue
<1>2. /\ call[c] \in [pc : {"idle", "fill", "sync", "wait", "woken"},
                      port : Port \cup {NoPort}, state : State,
                      wait : BOOLEAN, id : 0..MaxCalls]
      /\ call[c].port \in Port /\ call[c].id = calls /\ calls # 0
      /\ calls \notin executed /\ pdm.cur.id # calls /\ calls \in 0..MaxCalls
      /\ \A d \in Callers : call[d].pc = "fill" => d = c
  BY <1>1 DEF PowerInv, Sorts, Filling
<1>3. /\ e \in Entry /\ e.id = calls /\ e # Poll
      /\ ~Spoiled => e.port = call[c].port /\ e.state = call[c].state
  BY <1>2, PollIsEntry DEF Command, Poll, Entry
<1>4. /\ queue \in Seq(Entry) /\ queue' \in Seq(Entry) /\ Len(queue) \in Nat
      /\ DOMAIN queue = 1..Len(queue) /\ DOMAIN queue' = 1..n
      /\ \A i \in DOMAIN queue : queue'[i] = queue[i]
      /\ queue'[n] = e
  BY <1>1, <1>3, Appended DEF PowerInv, Queued
<1> HIDE DEF e
<1>5. \A i \in DOMAIN queue' : i = n \/ i \in DOMAIN queue
  BY <1>4
<1>6. pdm'.cur = pdm.cur /\ pdm'.pc # "wait" /\ (pdm'.pc = "process" <=> pdm.pc = "process")
  BY <1>1, WokenPdm DEF PowerInv
<1>7. Sorts'
  <2>1. call' \in [Callers -> [pc : {"idle", "fill", "sync", "wait", "woken"},
                               port : Port \cup {NoPort}, state : State,
                               wait : BOOLEAN, id : 0..MaxCalls]]
    BY <1>1 DEF PowerInv, Sorts
  <2>2. msg' \in [type : {"PM_NO_CMD", "PM_EXIT", "PDM_ACTIVITY", "PDM_SET_PORT_STATE"},
                  port : Port, state : State, wait : BOOLEAN]
    BY <1>1, <1>2 DEF PowerInv, Sorts
  <2>3. mixed' \in BOOLEAN
    BY <1>1 DEF PowerInv, Sorts, Spoiled
  <2>4. asked' \in [Port -> State]
    BY <1>1, <1>2 DEF PowerInv, Sorts
  <2> QED BY <1>1, <2>1, <2>2, <2>3, <2>4, WokenPdm DEF PowerInv, Sorts
<1>8. Filling'
  BY <1>1, <1>2 DEF PowerInv, Sorts, Filling
<1>9. Holding' /\ Running' /\ Unstarted' /\ NoPoll' /\ NoLostWakeup'
  <2>1. msg'.type = msg.type
    BY <1>1 DEF PowerInv, Sorts
  <2>2. pm = "start" => pdm'.pc = "off"
    BY <1>1 DEF PowerInv, Sorts, Unstarted, Woken
  <2> QED BY <1>1, <1>6, <2>1, <2>2 DEF PowerInv, Holding, Running, Unstarted, NoPoll, NoLostWakeup
<1>10. Queued(queue)'
  <2>1. \A d \in Callers : call'[d].pc # "fill"
    BY <1>1, <1>2 DEF PowerInv, Sorts
  <2>2. \A i \in DOMAIN queue : queue[i].id # calls
    BY <1>1 DEF PowerInv, Queued
  <2>3. \A i \in DOMAIN queue' :
           /\ queue'[i].id <= calls
           /\ queue'[i].id # 0 => /\ queue'[i].id \notin executed
                                  /\ queue'[i].id # pdm.cur.id
                                  /\ \A j \in DOMAIN queue' : queue'[j].id = queue'[i].id => j = i
    BY <1>2, <1>3, <1>4, <1>5, <2>2 DEF PowerInv, Queued
  <2>4. \A i, j \in DOMAIN queue' : queue'[i] = Poll /\ queue'[j] = Poll => i = j
    BY <1>3, <1>4, <1>5 DEF PowerInv, Queued
  <2>5. ASSUME ~mixed', ~exited', NEW p \in Port
        PROVE  LastIs(queue, p, Soon(p), asked[p])'
    <3>1. Soon(p)' = Soon(p)
      BY <1>1, <1>6 DEF Soon
    <3>2. ~mixed /\ ~Spoiled
      BY <1>1, <2>5
    <3>3. CASE p = call[c].port
      <4>1. asked'[p] = e.state /\ e.port = p
        BY <1>1, <1>3, <3>2, <3>3 DEF PowerInv, Sorts
      <4>2. LastIs(queue', p, Soon(p), e.state)
        BY <1>1, <1>3, <1>4, <4>1, LastAppended DEF e
      <4> QED BY <3>1, <4>1, <4>2 DEF LastIs
    <3>4. CASE p # call[c].port
      <4>1. asked'[p] = asked[p] /\ e.port # p
        BY <1>1, <1>3, <3>2, <3>4 DEF PowerInv, Sorts
      <4>2. LastIs(queue, p, Soon(p), asked[p])
        BY <1>1, <2>5, <3>2 DEF PowerInv, Queued
      <4>3. LastIs(queue', p, Soon(p), asked[p])
        BY <1>1, <1>3, <1>4, <4>1, <4>2, LastAppended DEF e
      <4> QED BY <3>1, <4>1, <4>3 DEF LastIs
    <3> QED BY <3>3, <3>4
  <2> QED BY <1>1, <1>4, <1>6, <2>1, <2>3, <2>4, <2>5 DEF Queued
<1> QED BY <1>7, <1>8, <1>9, <1>10 DEF PowerInv

LEMMA PmCopyKeeps == ASSUME PowerInv, PmCopy PROVE PowerInv'
<1> DEFINE filling == {call[c] : c \in {d \in Callers : call[d].pc = "fill"}}
           seen == {msg} \cup filling
           n == Len(queue) + 1
<1>1. /\ UNCHANGED <<msg, active, pdm, scm, call, ports, calls, executed, asked, exited>>
      /\ pm = "copy" /\ pm' = "signal" /\ mixed' = TRUE
  BY DEF PmCopy, PmMove
<1>2. PICK x \in seen : \E y \in seen :
        queue' = Append(queue, [port |-> x.port, state |-> y.state, wait |-> y.wait, id |-> 0])
  BY DEF PmCopy
<1>3. PICK y \in seen :
        queue' = Append(queue, [port |-> x.port, state |-> y.state, wait |-> y.wait, id |-> 0])
  BY <1>2
<1> DEFINE e == [port |-> x.port, state |-> y.state, wait |-> y.wait, id |-> 0]
<1>4. \A z \in seen : z.port \in Port /\ z.state \in State /\ z.wait \in BOOLEAN
  BY DEF PowerInv, Sorts, Filling
<1>5. e \in Entry /\ e.id = 0 /\ e # Poll
  <2>1. 0 \in 0..MaxCalls
    BY PowerConstants
  <2> QED BY <1>4, <2>1, PowerConstants DEF Entry, Poll
<1>6. /\ queue \in Seq(Entry) /\ queue' \in Seq(Entry) /\ Len(queue) \in Nat
      /\ DOMAIN queue = 1..Len(queue) /\ DOMAIN queue' = 1..n
      /\ \A i \in DOMAIN queue : queue'[i] = queue[i]
      /\ queue'[n] = e
  <2> HIDE DEF e
  <2> QED BY <1>3, <1>5, Appended DEF PowerInv, Queued, e
<1> HIDE DEF e
<1>7. \A i \in DOMAIN queue' : i = n \/ i \in DOMAIN queue
  BY <1>6
<1>8. calls \in Nat
  BY DEF PowerInv, Sorts
<1>9. Queued(queue)'
  <2>1. \A c \in Callers : call[c].pc = "fill" => \A i \in DOMAIN queue' : queue'[i].id # calls
    BY <1>5, <1>6, <1>7 DEF PowerInv, Queued, Filling
  <2>2. \A i \in DOMAIN queue' :
           /\ queue'[i].id <= calls
           /\ queue'[i].id # 0 => /\ queue'[i].id \notin executed
                                  /\ queue'[i].id # pdm.cur.id
                                  /\ \A j \in DOMAIN queue' : queue'[j].id = queue'[i].id => j = i
    BY <1>5, <1>6, <1>7, <1>8 DEF PowerInv, Queued
  <2>3. \A i, j \in DOMAIN queue' : queue'[i] = Poll /\ queue'[j] = Poll => i = j
    BY <1>5, <1>6, <1>7 DEF PowerInv, Queued
  <2> QED BY <1>1, <1>6, <2>1, <2>2, <2>3 DEF Queued
<1>10. NoPoll' /\ NoLostWakeup'
  BY <1>1, <1>5, <1>6, <1>7 DEF PowerInv, NoPoll, NoLostWakeup
<1>11. Sorts' /\ Filling' /\ Holding' /\ Running' /\ Unstarted'
  BY <1>1 DEF PowerInv, Sorts, Filling, Holding, Running, Unstarted
<1> QED BY <1>9, <1>10, <1>11 DEF PowerInv

(* The PDM thread leaves, finds nothing, or takes the first entry.         *)
LEMMA TakeKeeps ==
    ASSUME PowerInv, NEW q, Queued(q), Take(q), pdm.pc \in {"lock", "wait", "woken"},
           UNCHANGED <<msg, active, pm, scm, call, ports, calls, ghosts>>
    PROVE  PowerInv'
<1>1. pdm.cur = Poll /\ pdm \in [pc : {"lock", "wait", "woken"}, cur : Entry] /\ q \in Seq(Entry)
  BY DEF PowerInv, Sorts, Holding, Queued
<1>2. UNCHANGED <<executed, asked, mixed, exited>>
  BY DEF ghosts
<1>3. pm # "start"
  BY <1>1 DEF PowerInv, Unstarted
<1>4. \A c \in Callers : call[c].pc = "fill" =>
        /\ call[c].port \in Port
        /\ call[c].id = calls /\ calls # 0
        /\ \A d \in Callers : call[d].pc = "fill" => d = c
        /\ calls \notin executed
  BY DEF PowerInv, Filling
<1>5. CASE queue' = q /\ (pdm' = [pdm EXCEPT !.pc = "end"] \/ pdm' = [pdm EXCEPT !.pc = "test"])
  <2>1. pdm'.cur = pdm.cur /\ pdm'.pc \in {"end", "test"}
    BY <1>1, <1>5
  <2>2. Sorts'
    BY <1>2, <1>5 DEF PowerInv, Sorts
  <2>3. Filling' /\ Holding' /\ Running' /\ Unstarted' /\ NoPoll' /\ NoLostWakeup'
    BY <1>2, <1>3, <2>1 DEF PowerInv, Filling, Holding, Running, Unstarted, NoPoll, NoLostWakeup
  <2>4. \A p : Soon(p)' = Soon(p)
    BY <1>1, <2>1 DEF Soon
  <2>5. ~mixed' /\ ~exited' => \A p \in Port : LastIs(q, p, Soon(p), asked[p])'
    BY <1>2, <2>4 DEF Queued, LastIs
  <2>6. Queued(queue)'
    BY <1>2, <1>5, <2>1, <2>5 DEF Queued
  <2> QED BY <2>2, <2>3, <2>6 DEF PowerInv
<1>6. CASE /\ ~Leaving(active.pdm) /\ q # <<>>
           /\ queue' = Tail(q) /\ pdm' = [pc |-> "process", cur |-> Head(q)]
  <2>1. /\ Head(q) \in Entry /\ Head(q) = q[1] /\ queue' \in Seq(Entry)
        /\ Len(q) \in Nat \ {0} /\ DOMAIN q = 1..Len(q) /\ DOMAIN queue' = 1..(Len(q) - 1)
        /\ \A i \in DOMAIN queue' : queue'[i] = q[i + 1]
    BY <1>1, <1>6, Taken
  <2>2. /\ 1 \in DOMAIN q
        /\ \A i \in DOMAIN queue' : i \in Int /\ i + 1 \in DOMAIN q /\ i + 1 # 1
    BY <2>1
  <2>3. pdm'.pc = "process" /\ pdm'.cur = q[1]
    BY <1>6, <2>1
  <2>4. Sorts'
    <3>1. pdm' \in [pc : {"off", "announce", "activate", "test", "lock", "wait", "woken",
                          "process", "respond", "again", "end"},
                    cur : Entry]
      BY <1>6, <2>1
    <3> QED BY <1>2, <3>1 DEF PowerInv, Sorts
  <2>5. Filling'
    BY <1>2, <1>4, <2>2, <2>3 DEF Filling, Queued
  <2>6. Holding'
    BY <1>2, <2>2, <2>3 DEF Holding, Queued
  <2>7. Running' /\ Unstarted' /\ NoPoll' /\ NoLostWakeup'
    BY <1>2, <1>3, <1>6, <2>3 DEF PowerInv, Running, Unstarted, NoPoll, NoLostWakeup, Leaving
  <2>8. \A c \in Callers : call[c].pc = "fill" => \A i \in DOMAIN queue' : queue'[i].id # calls
    BY <2>1, <2>2 DEF Queued
  <2>9. \A i \in DOMAIN queue' :
           /\ queue'[i].id <= calls
           /\ queue'[i].id # 0 => /\ queue'[i].id \notin executed
                                  /\ queue'[i].id # pdm'.cur.id
                                  /\ \A j \in DOMAIN queue' : queue'[j].id = queue'[i].id => j = i
    <3> SUFFICES ASSUME NEW i \in DOMAIN queue'
        PROVE  /\ queue'[i].id <= calls
               /\ queue'[i].id # 0 => /\ queue'[i].id \notin executed
                                      /\ queue'[i].id # pdm'.cur.id
                                      /\ \A j \in DOMAIN queue' : queue'[j].id = queue'[i].id => j = i
      OBVIOUS
    <3>1. queue'[i] = q[i + 1] /\ i + 1 \in DOMAIN q /\ i \in Int /\ i + 1 # 1
      BY <2>1, <2>2
    <3>2. /\ q[i + 1].id <= calls
          /\ q[i + 1].id # 0 => /\ q[i + 1].id \notin executed
                                /\ \A j \in DOMAIN q : q[j].id = q[i + 1].id => j = i + 1
      BY <3>1 DEF Queued
    <3>3. q[i + 1].id # 0 => q[i + 1].id # q[1].id
      BY <2>2, <3>1, <3>2
    <3>4. q[i + 1].id # 0 => \A j \in DOMAIN queue' : queue'[j].id = queue'[i].id => j = i
      <4> SUFFICES ASSUME q[i + 1].id # 0, NEW j \in DOMAIN queue', queue'[j].id = queue'[i].id
                   PROVE  j = i
        OBVIOUS
      <4>1. j \in Int /\ j + 1 \in DOMAIN q /\ queue'[j] = q[j + 1]
        BY <2>1, <2>2
      <4>2. j + 1 = i + 1
        BY <3>1, <3>2, <4>1
      <4> QED BY <3>1, <4>1, <4>2
    <3> QED BY <2>3, <3>1, <3>2, <3>3, <3>4
  <2>10. \A i, j \in DOMAIN queue' : queue'[i] = Poll /\ queue'[j] = Poll => i = j
    <3> SUFFICES ASSUME NEW i \in DOMAIN queue', NEW j \in DOMAIN queue',
                        queue'[i] = Poll, queue'[j] = Poll
                 PROVE  i = j
      OBVIOUS
    <3>1. i + 1 = j + 1
      BY <2>1, <2>2 DEF Queued
    <3> QED BY <2>2, <3>1
  <2>11. ASSUME ~mixed', ~exited', NEW p \in Port
         PROVE  LastIs(queue, p, Soon(p), asked[p])'
    <3>1. LastIs(q, p, ports[p], asked[p])
      BY <1>1, <1>2, <2>11 DEF Queued, Soon
    <3>2. LastIs(queue', p, IF Head(q).port = p THEN Head(q).state ELSE ports[p], asked[p])
      BY <1>1, <1>6, <3>1, LastTaken
    <3>3. Soon(p)' = IF Head(q).port = p THEN Head(q).state ELSE ports[p]
      BY <2>1, <2>3 DEF Soon
    <3> QED BY <1>2, <3>2, <3>3 DEF LastIs
  <2>12. Queued(queue)'
    BY <1>2, <2>1, <2>8, <2>9, <2>10, <2>11 DEF Queued
  <2> QED BY <2>4, <2>5, <2>6, <2>7, <2>12 DEF PowerInv
<1> QED BY <1>5, <1>6 DEF Take

LEMMA PdmLockKeeps == ASSUME PowerInv, PdmLock \/ PdmWoken \/ PdmPoll PROVE PowerInv'
<1>1. CASE PdmLock
  <2>1. CASE queue = <<>> /\ pdm' = [pdm EXCEPT !.pc = "wait"] /\ UNCHANGED queue
    <3>1. /\ UNCHANGED <<msg, active, pm, scm, call, ports, calls, executed, asked, mixed, exited>>
          /\ pdm.pc = "lock" /\ pdm'.pc = "wait" /\ pdm'.cur = pdm.cur
      BY <1>1, <2>1 DEF PdmLock, ghosts, PowerInv, Sorts
    <3>2. Sorts'
      BY <2>1, <3>1 DEF PowerInv, Sorts
    <3>3. Running' /\ Unstarted' /\ NoLostWakeup'
      BY <2>1, <3>1 DEF PowerInv, Running, Unstarted, NoLostWakeup
    <3> QED BY <2>1, <3>1, <3>2, <3>3, Quiet
  <2>2. CASE Take(queue)
    BY <1>1, <2>2, TakeKeeps DEF PdmLock, PowerInv
  <2> QED BY <1>1, <2>1, <2>2 DEF PdmLock
<1>2. CASE PdmWoken
  BY <1>2, TakeKeeps DEF PdmWoken, PowerInv
<1>3. CASE PdmPoll
  <2> DEFINE q == Append(queue, Poll)
             n == Len(queue) + 1
  <2>1. pdm.pc = "wait" /\ pdm.cur = Poll
    BY <1>3 DEF PdmPoll, PowerInv, Holding
  <2>2. /\ queue \in Seq(Entry) /\ q \in Seq(Entry) /\ Len(queue) \in Nat
        /\ DOMAIN queue = 1..Len(queue) /\ DOMAIN q = 1..n
        /\ \A i \in DOMAIN queue : q[i] = queue[i]
        /\ q[n] = Poll
    BY PollIsEntry, Appended DEF PowerInv, Queued
  <2>3. \A p \in Port : LastIs(queue, p, Soon(p), asked[p]) => LastIs(q, p, Soon(p), asked[p])
    BY <2>2, PollIsEntry, PowerConstants, LastAppended
  <2> HIDE DEF q
  <2>4. \A i \in DOMAIN q : i = n \/ i \in DOMAIN queue
    BY <2>2
  <2>5. calls \in Nat
    BY DEF PowerInv, Sorts
  <2>6. Queued(q)
    <3>1. \A c \in Callers : call[c].pc = "fill" => \A i \in DOMAIN q : q[i].id # calls
      BY <2>2, <2>4, PollIsEntry DEF PowerInv, Queued, Filling
    <3>2. \A i \in DOMAIN q :
             /\ q[i].id <= calls
             /\ q[i].id # 0 => /\ q[i].id \notin executed
                               /\ q[i].id # pdm.cur.id
                               /\ \A j \in DOMAIN q : q[j].id = q[i].id => j = i
      BY <2>2, <2>4, <2>5, PollIsEntry DEF PowerInv, Queued
    <3>3. \A i, j \in DOMAIN q : q[i] = Poll /\ q[j] = Poll => i = j
      BY <2>1, <2>2, <2>4 DEF PowerInv, NoPoll
    <3> QED BY <2>2, <2>3, <3>1, <3>2, <3>3 DEF PowerInv, Queued
  <2> QED BY <1>3, <2>6, TakeKeeps DEF PdmPoll, q
<1> QED BY <1>1, <1>2, <1>3

(* A command is carried out, unless the thread is told to leave.           *)
LEMMA PdmProcessKeeps == ASSUME PowerInv, PdmProcess PROVE PowerInv'
<1>1. /\ UNCHANGED <<msg, queue, active, pm, scm, call, calls, asked, mixed, exited>>
      /\ pdm.pc = "process" /\ pdm \in [pc : {"process"}, cur : Entry]
  BY DEF PdmProcess, PowerInv, Sorts
<1>2. /\ pdm'.cur = Poll /\ pdm'.pc \in {"respond", "test"}
      /\ pdm' \in [pc : {"off", "announce", "activate", "test", "lock", "wait", "woken",
                         "process", "respond", "again", "end"},
                   cur : Entry]
  BY PollIsEntry DEF PdmProcess
<1>3. Poll.id = 0 /\ calls \in Nat /\ pdm.cur.id \in Nat /\ pdm.cur.state \in State
  BY <1>1, PollIsEntry, PowerConstants DEF PowerInv, Sorts, Entry
<1>4. executed' \subseteq executed \cup ({pdm.cur.id} \ {0})
  BY DEF PdmProcess
<1>5. ports' \in [Port -> State]
  BY <1>1, <1>3 DEF PdmProcess, PowerInv, Sorts
<1>6. executed' \subseteq 1..calls
  BY <1>3, <1>4 DEF PowerInv, Sorts, Holding
<1>7. Sorts'
  BY <1>1, <1>2, <1>5, <1>6 DEF PowerInv, Sorts
<1>8. Filling'
  BY <1>1, <1>2, <1>3, <1>4 DEF PowerInv, Filling
<1>9. Holding'
  BY <1>1, <1>2, <1>3 DEF Holding
<1>10. Running' /\ Unstarted' /\ NoPoll' /\ NoLostWakeup'
  BY <1>1, <1>2 DEF PowerInv, Running, Unstarted, NoPoll, NoLostWakeup
<1>11. \A i \in DOMAIN queue : queue[i].id # 0 => queue[i].id \notin executed'
  BY <1>4 DEF PowerInv, Queued
<1>12. ASSUME ~mixed', ~exited', NEW p \in Port
       PROVE  LastIs(queue, p, Soon(p), asked[p])'
  <2>1. LastIs(queue, p, Soon(p), asked[p])
    BY <1>1, <1>12 DEF PowerInv, Queued
  <2>2. active.pdm
    BY <1>1, <1>12 DEF PowerInv, Running
  <2>3. Soon(p)' = Soon(p)
    BY <1>1, <1>2, <2>2, PowerConstants DEF PdmProcess, Soon, PowerInv, Sorts
  <2> QED BY <1>1, <2>1, <2>3 DEF LastIs
<1>13. Queued(queue)'
  BY <1>1, <1>2, <1>3, <1>11, <1>12 DEF PowerInv, Queued
<1> QED BY <1>7, <1>8, <1>9, <1>10, <1>13 DEF PowerInv

-----------------------------------------------------------------------------
LEMMA PowerInit == Init => PowerInv
<1> SUFFICES ASSUME Init PROVE PowerInv
  OBVIOUS
<1> USE DEF Init
<1>1. <<>> \in Seq(Entry) /\ DOMAIN <<>> = {}
  BY EmptySeq
<1>2. 0 \in 0..MaxCalls /\ 0 \in State /\ (CHOOSE p \in Port : TRUE) \in Port
  BY PowerConstants DEF State
<1>3. Sorts
  <2>1. /\ msg \in [type : {"PM_NO_CMD", "PM_EXIT", "PDM_ACTIVITY", "PDM_SET_PORT_STATE"},
                    port : Port, state : State, wait : BOOLEAN]
        /\ active \in [{"pm", "pdm", "scm"} -> BOOLEAN]
    <3> DEFINE first == CHOOSE p \in Port : TRUE
    <3>1. /\ msg = [type |-> "PM_NO_CMD", port |-> first, state |-> 0, wait |-> FALSE]
          /\ active = [pm |-> FALSE, pdm |-> FALSE, scm |-> FALSE]
      OBVIOUS
    <3>2. first \in Port
      BY <1>2
    <3> HIDE DEF first, Init
    <3>3. /\ "PM_NO_CMD" \in {"PM_NO_CMD", "PM_EXIT", "PDM_ACTIVITY", "PDM_SET_PORT_STATE"}
          /\ 0 \in State /\ FALSE \in BOOLEAN
      BY <1>2
    <3>4. msg \in [type : {"PM_NO_CMD", "PM_EXIT", "PDM_ACTIVITY", "PDM_SET_PORT_STATE"},
                   port : Port, state : State, wait : BOOLEAN]
      BY ONLY <3>1, <3>2, <3>3
    <3>5. active \in [{"pm", "pdm", "scm"} -> BOOLEAN]
      <4>1. active = [pm |-> FALSE, pdm |-> FALSE, scm |-> FALSE]
        BY <3>1
      <4>2. DOMAIN active = {"pm", "pdm", "scm"}
        BY ONLY <4>1
      <4>3. /\ active.pm = FALSE /\ active.pdm = FALSE /\ active.scm = FALSE
            /\ active = [t \in DOMAIN active |-> active[t]]
        BY ONLY <4>1
      <4> QED BY ONLY <4>2, <4>3
    <3> QED BY <3>4, <3>5
  <2>2. call \in [Callers -> [pc : {"idle", "fill", "sync", "wait", "woken"},
                              port : Port \cup {NoPort}, state : State,
                              wait : BOOLEAN, id : 0..MaxCalls]]
    BY <1>2
  <2>3. /\ ports \in [Port -> State] /\ asked \in [Port -> State]
        /\ calls \in 0..MaxCalls /\ executed \subseteq 1..calls
        /\ mixed \in BOOLEAN /\ exited \in BOOLEAN
    BY <1>2, PowerConstants
  <2> QED BY <2>1, <2>2, <2>3, PollIsEntry DEF Sorts
<1>4. Filling /\ Holding /\ Running /\ Unstarted /\ NoPoll /\ NoLostWakeup
  BY <1>1, PollIsEntry DEF Filling, Holding, Running, Unstarted, NoPoll, NoLostWakeup
<1>5. Queued(queue)
  BY <1>1 DEF Queued, LastIs, Soon
<1> QED BY <1>3, <1>4, <1>5 DEF PowerInv

LEMMA PowerStep == ASSUME PowerInv, [Next]_vars PROVE PowerInv'
<1>1. ASSUME NEW c \in Callers, Caller(c) PROVE PowerInv'
  BY <1>1, QuietCaller, SetEnqueueKeeps DEF Caller
<1>2. ASSUME NEW c \in Callers, NEW m \in Commands[c], SetType(c, m) PROVE PowerInv'
  BY <1>2, SetTypeKeeps
<1>3. CASE pm_exit
  BY <1>3, QuietExit
<1>4. CASE Pm
  BY <1>4, QuietPm, PmCopyKeeps
<1>5. CASE Pdm
  BY <1>5, QuietPdm, PdmLockKeeps, PdmProcessKeeps DEF Pdm
<1>6. CASE Scm
  BY <1>6, QuietScm
<1>7. CASE UNCHANGED vars
  <2>1. Sorts'
    BY <1>7 DEF vars, ghosts, PowerInv, Sorts
  <2>2. Running' /\ Unstarted' /\ NoLostWakeup'
    BY <1>7 DEF vars, ghosts, PowerInv, Running, Unstarted, NoLostWakeup
  <2> QED BY <1>7, <2>1, <2>2, Quiet DEF vars, ghosts
<1> QED BY <1>1, <1>2, <1>3, <1>4, <1>5, <1>6, <1>7 DEF Next

LEMMA PowerCorrect == Spec => []PowerInv
BY PowerInit, PowerStep, PTL DEF Spec

(* For any number of callers, ports and calls: the PDM thread does not     *)
(* sleep until its poll timer while there is something in the queue, but   *)
(* for the moment between pm_thread's copy and its signal                  *)
(* (src/pm/pdm.c, the loop of pdm_thread_func).                            *)
THEOREM NoLostWakeupCorrect == Spec => []NoLostWakeup
<1>1. PowerInv => NoLostWakeup
  BY DEF PowerInv
<1> QED BY <1>1, PowerCorrect, PTL

(* For any number of callers, ports and calls: the ports end up as they    *)
(* were last asked to be, until pm_exit, if no call's message was spoiled  *)
(* or copied under the other mutex (pdm_set_state and pdm_thread_func).    *)
THEOREM PortFinalCorrect == Spec => []PortFinal
<1>1. ASSUME PowerInv, ~mixed, ~exited, NEW p \in Port PROVE Final(p) = asked[p]
  <2> DEFINE todo == (IF pdm.pc = "process" THEN <<pdm.cur>> ELSE <<>>) \o queue
             I == {i \in DOMAIN todo : todo[i].port = p}
             d == IF pdm.pc = "process" THEN 1 ELSE 0
  <2>1. /\ LastIs(queue, p, Soon(p), asked[p]) /\ queue \in Seq(Entry) /\ pdm.cur \in Entry
        /\ Len(queue) \in Nat /\ DOMAIN queue = 1..Len(queue)
    BY <1>1, LenProperties DEF PowerInv, Queued, Sorts
  <2>2. /\ DOMAIN todo = 1..(Len(queue) + d)
        /\ \A i \in DOMAIN queue : todo[i + d] = queue[i]
        /\ d = 1 => todo[1] = pdm.cur
    <3>1. CASE pdm.pc = "process"
      <4>1. <<pdm.cur>> \in Seq(Entry) /\ Len(<<pdm.cur>>) = 1 /\ <<pdm.cur>>[1] = pdm.cur
        BY <2>1
      <4>2. todo = <<pdm.cur>> \o queue /\ d = 1
        BY <3>1
      <4> HIDE DEF todo, d
      <4> QED BY <2>1, <4>1, <4>2, ConcatProperties
    <3>2. CASE pdm.pc # "process"
      <4>1. todo = <<>> \o queue /\ d = 0
        BY <3>2
      <4>2. todo = queue
        BY <2>1, <4>1, ConcatEmptySeq
      <4> HIDE DEF todo, d
      <4> QED BY <2>1, <4>1, <4>2
    <3> QED BY <3>1, <3>2
  <2>3. d \in {0, 1} /\ Final(p) = IF I = {} THEN ports[p] ELSE todo[Max(I)].state
    BY DEF Final
  <2>4. Soon(p) = IF d = 1 /\ pdm.cur.port = p THEN pdm.cur.state ELSE ports[p]
    BY DEF Soon
  <2>5. ASSUME NEW k \in I, \A j \in I : j <= k PROVE Max(I) = k
    <3>1. I \in SUBSET Int
      BY <2>1, <2>2, <2>3
    <3> HIDE DEF I
    <3> QED BY ONLY <2>5, <3>1, MaxIs
  <2> HIDE DEF d, todo
  <2>6. \A i \in DOMAIN todo : \/ i - d \in DOMAIN queue /\ todo[i] = queue[i - d]
                               \/ i = 1 /\ d = 1
    BY <2>1, <2>2, <2>3
  <2>7. CASE (\A i \in DOMAIN queue : queue[i].port # p) /\ asked[p] = Soon(p)
    <3>1. CASE d = 1 /\ pdm.cur.port = p
      <4>1. 1 \in I /\ \A j \in I : j = 1
        BY <2>1, <2>2, <2>6, <2>7, <3>1
      <4>2. Max(I) = 1 /\ I # {}
        BY <2>5, <4>1
      <4> HIDE DEF I
      <4> QED BY <2>2, <2>3, <2>4, <2>7, <3>1, <4>2
    <3>2. CASE ~(d = 1 /\ pdm.cur.port = p)
      <4>1. I = {}
        BY <2>1, <2>2, <2>3, <2>6, <2>7, <3>2
      <4> QED BY <2>3, <2>4, <2>7, <3>2, <4>1
    <3> QED BY <3>1, <3>2
  <2>8. CASE \E k \in DOMAIN queue : /\ queue[k].port = p
                                     /\ asked[p] = queue[k].state
                                     /\ \A j \in DOMAIN queue : j > k => queue[j].port # p
    <3>1. PICK k \in DOMAIN queue : /\ queue[k].port = p
                                    /\ asked[p] = queue[k].state
                                    /\ \A j \in DOMAIN queue : j > k => queue[j].port # p
      BY <2>8
    <3>2. k + d \in I
      BY <2>1, <2>2, <2>3, <3>1
    <3>3. \A j \in I : j <= k + d
      BY <2>1, <2>2, <2>3, <2>6, <3>1
    <3>4. Max(I) = k + d /\ I # {}
      BY <2>5, <3>2, <3>3
    <3> HIDE DEF I
    <3> QED BY <2>2, <2>3, <3>1, <3>4
  <2> QED BY <2>1, <2>7, <2>8 DEF LastIs
<1>2. PowerInv => PortFinal
  BY <1>1 DEF PortFinal
<1> QED BY <1>2, PowerCorrect, PTL

(* The state keeps its type: a call is carried out once at most, and status*)
(* requests do not pile up, for any number of callers and calls.           *)
THEOREM PowerTypeCorrect == Spec => []TypeOK
<1>1. ASSUME PowerInv PROVE TypeOK
  <2> DEFINE I == {i \in DOMAIN queue : queue[i] = Poll}
  <2>1. Cardinality(I) <= 1
    <3>1. CASE I = {}
      <4> HIDE DEF I
      <4> QED BY <3>1, FS_EmptySet
    <3>2. CASE I # {}
      <4>1. PICK i \in I : TRUE
        BY <3>2
      <4>2. I = {i}
        BY <1>1, <4>1 DEF PowerInv, Queued
      <4> HIDE DEF I
      <4> QED BY <4>2, FS_Singleton
    <3> QED BY <3>1, <3>2
  <2>2. pdm.cur.id = 0 \/ pdm.cur.id \notin executed
    BY <1>1 DEF PowerInv, Holding
  <2> QED BY <1>1, <2>1, <2>2 DEF PowerInv, Sorts, Queued, TypeOK
<1> QED BY <1>1, PowerCorrect, PTL
=============================================================================
