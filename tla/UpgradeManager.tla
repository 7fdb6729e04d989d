--------------------------- MODULE UpgradeManager ---------------------------
(***************************************************************************)
(* The upgrade manager (upgrade/upgrademanager.c with socketlist.c) and    *)
(* the library functions that talk to it (src/svsUpgrade.c).               *)
(*                                                                         *)
(* One thread waits in select for disk events, connections and commands.   *)
(* It reads the first message of a connection as soon as it is accepted,   *)
(* however long that takes, and carries an update out before it looks at   *)
(* anything else.  A session is one connection of an application: opened   *)
(* by svsUpgradeInit or svsSWUServerInit, closed by svsUpgradeUninit or by *)
(* the end of the application.                                             *)
(*                                                                         *)
(* Every connection type is swu_Command.  What a disk event and an update  *)
(* do is in UsbDisk and SwUpdate; here they only take time.                *)
(***************************************************************************)
EXTENDS Integers, Sequences, FiniteSets

CONSTANTS
  Sessions,
  Exiting,    \* the sessions of svsd, which may end with svsSWUServerUninit
  MaxCalls,   \* bound on the connections and the requests taken together
  MaxUevents  \* bound on the disk events

UpgradeConstants ==
  /\ IsFiniteSet(Sessions) /\ Exiting \subseteq Sessions
  /\ MaxCalls \in Nat /\ MaxUevents \in Nat

VARIABLES
  at,         \* what each session is doing
  request,    \* id of its last request
  requests,   \* number of requests so far
  result,     \* id of the request whose result it last took, 0 for none
  late,       \* it gave a request up, so that a result may come late
  toManager,  \* messages the manager has not read, by session
  toClient,   \* results the session has not read
  backlog,    \* connections not accepted yet
  managerPc,  \* where the manager is
  socketConnectionList,
  watched,    \* descriptors given to select
  read_fds,   \* descriptors select found readable
  entry,      \* index in the list of the entry looked at
  doing,      \* id of the request that is carried out
  serverOpen,
  uevents     \* disk events not read yet

client == <<at, request, requests, result, late>>
wire == <<toManager, toClient, backlog>>
manager == <<managerPc, socketConnectionList, watched, read_fds, entry, doing, serverOpen>>
vars == <<client, wire, manager, uevents>>

uevent_fd == 1
ServerSocket == 2
Closed == -1

Init ==
  /\ at = [s \in Sessions |-> "out"]
  /\ request = [s \in Sessions |-> 0] /\ requests = 0 /\ result = [s \in Sessions |-> 0]
  /\ late = [s \in Sessions |-> FALSE]
  /\ toManager = [s \in Sessions |-> <<>>] /\ toClient = [s \in Sessions |-> <<>>]
  /\ backlog = <<>>
  /\ managerPc = "select" /\ socketConnectionList = <<>> /\ watched = {} /\ read_fds = {}
  /\ entry = 1 /\ doing = 0 /\ serverOpen = TRUE /\ uevents = MaxUevents

Handles == {socketConnectionList[i].socketHandle : i \in DOMAIN socketConnectionList} \ {Closed}

\* the manager has closed, or never accepted, the connection of s
HungUp(s) ==
  /\ \A i \in DOMAIN backlog : backlog[i] # s
  /\ \A i \in DOMAIN socketConnectionList :
       socketConnectionList[i].session = s => socketConnectionList[i].socketHandle = Closed

----------------------------------------------------------------------------
(* The library in the application                                          *)

CallsLeft == Cardinality({s \in Sessions : at[s] # "out"}) + requests < MaxCalls

openTCPConnectionToUpgradeManager(s) ==
  /\ at[s] = "out" /\ serverOpen /\ CallsLeft
  /\ at' = [at EXCEPT ![s] = "connected"]
  /\ backlog' = Append(backlog, s)
  /\ UNCHANGED <<request, requests, result, late, toManager, toClient, manager, uevents>>

Say(s, m) == toManager' = [toManager EXCEPT ![s] = Append(@, m)]

\* the second half of svsUpgradeInit and svsSWUServerInit
sendConnType(s) ==
  /\ at[s] = "connected"
  /\ at' = [at EXCEPT ![s] = "open"]
  /\ Say(s, [command |-> "UPGRADE_MANAGER_CONN_TYPE", id |-> 0])
  /\ UNCHANGED <<request, requests, result, late, toClient, backlog, manager, uevents>>

\* whatever is left of an earlier result stays in the stream
svsDoOTAUpgrade(s) ==
  /\ at[s] = "open" /\ CallsLeft
  /\ at' = [at EXCEPT ![s] = "waiting"]
  /\ requests' = requests + 1 /\ request' = [request EXCEPT ![s] = requests']
  /\ Say(s, [command |-> "UPGRADE_MANAGER_OTA_UPGRADE_CMD", id |-> requests'])
  /\ UNCHANGED <<result, late, toClient, backlog, manager, uevents>>

recvUpgradeManagerResult(s) ==
  /\ at[s] = "waiting" /\ toClient[s] # <<>>
  /\ at' = [at EXCEPT ![s] = "open"]
  /\ result' = [result EXCEPT ![s] = Head(toClient[s])]
  /\ toClient' = [toClient EXCEPT ![s] = Tail(@)]
  /\ UNCHANGED <<request, requests, late, toManager, backlog, manager, uevents>>

\* SO_RCVTIMEO: 30 seconds, fewer than an update may take
recvTimeout(s) ==
  /\ at[s] = "waiting" /\ toClient[s] = <<>> /\ ~HungUp(s)
  /\ at' = [at EXCEPT ![s] = "open"]
  /\ late' = [late EXCEPT ![s] = TRUE] /\ result' = [result EXCEPT ![s] = 0]
  /\ UNCHANGED <<request, requests, wire, manager, uevents>>

recvClosed(s) ==
  /\ at[s] = "waiting" /\ toClient[s] = <<>> /\ HungUp(s)
  /\ at' = [at EXCEPT ![s] = "closed"]
  /\ UNCHANGED <<request, requests, result, late, wire, manager, uevents>>

\* svsUpgradeUninit, the end of svsSWUServerUninit or of the application
svsUpgradeUninit(s) ==
  /\ at[s] \in {"connected", "open", "waiting", "leaving"}
  /\ at' = [at EXCEPT ![s] = "closed"]
  /\ UNCHANGED <<request, requests, result, late, wire, manager, uevents>>

\* the result it then waits for is never sent
svsSWUServerUninit(s) ==
  /\ s \in Exiting /\ at[s] = "open"
  /\ at' = [at EXCEPT ![s] = "leaving"]
  /\ Say(s, [command |-> "UPGRADE_MANAGER_EXIT", id |-> 0])
  /\ UNCHANGED <<request, requests, result, late, toClient, backlog, manager, uevents>>

----------------------------------------------------------------------------
(* The manager                                                             *)

\* a descriptor is watched only when it is greater than those before it in the list
Watched ==
  {uevent_fd, ServerSocket} \cup
    {socketConnectionList[i].socketHandle : i \in
       {j \in DOMAIN socketConnectionList :
          \A h \in {ServerSocket} \cup {socketConnectionList[k].socketHandle : k \in 1..(j - 1)} :
             socketConnectionList[j].socketHandle > h}}

SessionOf(fd) ==
  socketConnectionList[CHOOSE i \in DOMAIN socketConnectionList :
                         socketConnectionList[i].socketHandle = fd].session

Readable(fd) ==
  CASE fd = uevent_fd -> uevents > 0
    [] fd = ServerSocket -> backlog # <<>>
    [] OTHER -> toManager[SessionOf(fd)] # <<>> \/ at[SessionOf(fd)] = "closed"

\* the select: after an EXIT nothing is watched and it never returns
select ==
  /\ managerPc = "select" /\ serverOpen
  /\ watched' = Watched
  /\ read_fds' = {fd \in Watched : Readable(fd)} /\ read_fds' # {}
  /\ managerPc' = IF uevent_fd \in read_fds' THEN "uevent" ELSE "accept"
  /\ UNCHANGED <<client, wire, socketConnectionList, entry, doing, serverOpen, uevents>>

process_netlink_uevent_message ==
  /\ managerPc = "uevent"
  /\ uevents' = uevents - 1
  /\ managerPc' = "accept"
  /\ UNCHANGED <<client, wire, socketConnectionList, watched, read_fds, entry, doing, serverOpen>>

\* accept gives the lowest descriptor that is free; the new entry goes last
LowestFree == CHOOSE fd \in 3..(3 + Cardinality(Handles)) :
                /\ fd \notin Handles
                /\ \A g \in 3..(fd - 1) : g \in Handles

add_socketlist_entry(s) ==
  Append(socketConnectionList, [socketHandle |-> LowestFree, session |-> s])

acceptConnection ==
  /\ managerPc = "accept"
  /\ IF ServerSocket \in read_fds
     THEN /\ socketConnectionList' = add_socketlist_entry(Head(backlog))
          /\ backlog' = Tail(backlog) /\ managerPc' = "type"
     ELSE managerPc' = "scan" /\ UNCHANGED <<socketConnectionList, backlog>>
  /\ entry' = 1
  /\ UNCHANGED <<client, toManager, toClient, watched, read_fds, doing, serverOpen, uevents>>

closeEntry(i) == [socketConnectionList EXCEPT ![i].socketHandle = Closed]

\* the manager waits here for the new client and nobody else
recvConnType ==
  /\ managerPc = "type"
  /\ LET n == Len(socketConnectionList)
         s == socketConnectionList[n].session IN
     \/ /\ toManager[s] # <<>>
        /\ toManager' = [toManager EXCEPT ![s] = Tail(@)]
        /\ UNCHANGED socketConnectionList
     \/ /\ toManager[s] = <<>> /\ at[s] = "closed"
        /\ socketConnectionList' = closeEntry(n) /\ UNCHANGED toManager
  /\ managerPc' = "scan"
  /\ UNCHANGED <<client, toClient, backlog, watched, read_fds, entry, doing, serverOpen, uevents>>

\* the entries that select found readable, from the present one on
Left == {i \in entry..Len(socketConnectionList) : socketConnectionList[i].socketHandle \in read_fds}
Selected == managerPc = "scan" /\ Left # {}
This == CHOOSE i \in Left : \A j \in Left : i =< j

scanEnd ==
  /\ managerPc = "scan" /\ Left = {}
  /\ managerPc' = "select" /\ watched' = {} /\ read_fds' = {} /\ entry' = 1
  /\ UNCHANGED <<client, wire, socketConnectionList, doing, serverOpen, uevents>>

\* one recv takes everything the client has sent; only the first command is looked at
Client == socketConnectionList[IF managerPc = "update" THEN entry ELSE This].session
Received == toManager[Client]

recvClientGone ==
  /\ Selected /\ Received = <<>>
  /\ socketConnectionList' = closeEntry(This) /\ entry' = This + 1
  /\ UNCHANGED <<client, wire, managerPc, watched, read_fds, doing, serverOpen, uevents>>

performUpdate ==
  /\ Selected /\ Received # <<>> /\ Head(Received).command = "UPGRADE_MANAGER_OTA_UPGRADE_CMD"
  /\ toManager' = [toManager EXCEPT ![Client] = <<>>]
  /\ doing' = Head(Received).id /\ managerPc' = "update" /\ entry' = This
  /\ UNCHANGED <<client, toClient, backlog, socketConnectionList, watched, read_fds,
                 serverOpen, uevents>>

\* mutant: the connection is closed with the result
sendResultLast ==
  /\ managerPc = "update" /\ managerPc' = "scan" /\ doing' = 0
  /\ entry' = entry + 1
  /\ toClient' = [toClient EXCEPT ![Client] = Append(@, doing)]
  /\ socketConnectionList' = closeEntry(entry)
  /\ UNCHANGED <<client, toManager, backlog, watched, read_fds, serverOpen, uevents>>

\* the result, of which the first one to a client that is gone may still be accepted
sendResult ==
  /\ managerPc = "update" /\ managerPc' = "scan" /\ doing' = 0
  /\ entry' = entry + 1
  /\ \/ /\ toClient' = [toClient EXCEPT ![Client] = Append(@, doing)]
        /\ UNCHANGED socketConnectionList
     \/ /\ at[Client] = "closed"
        /\ socketConnectionList' = closeEntry(entry) /\ UNCHANGED toClient
  /\ UNCHANGED <<client, toManager, backlog, watched, read_fds, serverOpen, uevents>>

\* UPGRADE_MANAGER_EXIT: every descriptor is closed; the entries are freed while the list is
\* walked, which may end the process.  The shutdown flag is not set: a process that goes on
\* never leaves its next select.
CleanupOpenHandles ==
  /\ Selected /\ Received # <<>> /\ Head(Received).command = "UPGRADE_MANAGER_EXIT"
  /\ serverOpen' = FALSE /\ socketConnectionList' = <<>> /\ backlog' = <<>>
  /\ managerPc' \in {"select", "crashed"}
  /\ watched' = {} /\ read_fds' = {} /\ entry' = 1
  /\ UNCHANGED <<client, toManager, toClient, doing, uevents>>

----------------------------------------------------------------------------

Application(s) ==
  \/ openTCPConnectionToUpgradeManager(s) \/ sendConnType(s) \/ svsDoOTAUpgrade(s)
  \/ recvUpgradeManagerResult(s) \/ recvTimeout(s) \/ recvClosed(s)
  \/ svsUpgradeUninit(s) \/ svsSWUServerUninit(s)

Manager ==
  \/ select \/ process_netlink_uevent_message \/ acceptConnection \/ recvConnType
  \/ scanEnd \/ recvClientGone \/ performUpdate \/ sendResult
  \/ CleanupOpenHandles

Next == Manager \/ \E s \in Sessions : Application(s)

\* the manager runs, and an application that has connected says what it connects for, or ends
Fairness ==
  /\ WF_vars(Manager)
  /\ \A s \in Sessions : WF_vars(sendConnType(s) \/ svsUpgradeUninit(s))

Spec == Init /\ [][Next]_vars /\ Fairness

----------------------------------------------------------------------------

Commands == {"UPGRADE_MANAGER_CONN_TYPE", "UPGRADE_MANAGER_OTA_UPGRADE_CMD", "UPGRADE_MANAGER_EXIT"}

TypeOK ==
  /\ at \in [Sessions -> {"out", "connected", "open", "waiting", "leaving", "closed"}]
  /\ request \in [Sessions -> 0..MaxCalls] /\ requests \in 0..MaxCalls
  /\ result \in [Sessions -> 0..MaxCalls]
  /\ late \in [Sessions -> BOOLEAN]
  /\ toManager \in [Sessions -> Seq([command : Commands, id : 0..MaxCalls])]
  /\ toClient \in [Sessions -> Seq(0..MaxCalls)]
  /\ backlog \in Seq(Sessions)
  /\ managerPc \in {"select", "uevent", "accept", "type", "scan", "update", "crashed"}
  /\ socketConnectionList \in Seq([socketHandle : Int, session : Sessions])
  /\ watched \subseteq Nat /\ read_fds \subseteq watched
  /\ entry \in Nat /\ doing \in 0..MaxCalls
  /\ serverOpen \in BOOLEAN /\ uevents \in 0..MaxUevents

\* The list of connections and the table of descriptors agree: no two entries have the
\* same descriptor, and every connection that was accepted and has not been given up has
\* exactly one entry, whatever order sessions come and go in and descriptors are used again.
HandlesExact ==
  /\ \A i, j \in DOMAIN socketConnectionList :
       i # j => /\ socketConnectionList[i].session # socketConnectionList[j].session
                /\ \/ socketConnectionList[i].socketHandle # socketConnectionList[j].socketHandle
                   \/ socketConnectionList[i].socketHandle = Closed
  /\ \A s \in Sessions :
       at[s] # "out" /\ serverOpen /\ HungUp(s) => at[s] = "closed"

\* The result an application takes is the result of the request it just made, unless it
\* gave up an earlier one.
OwnResult ==
  \A s \in Sessions : result[s] # 0 /\ ~late[s] => result[s] = request[s] \/ at[s] # "open"

\* What a client sends is read, unless a client before it in the list has a greater
\* descriptor, or the manager is told to exit.
Read ==
  \A s \in Sessions :
    []<>(\/ toManager[s] = <<>> \/ at[s] = "closed" \/ ~serverOpen
         \/ \E i \in DOMAIN socketConnectionList :
              /\ socketConnectionList[i].session = s
              /\ socketConnectionList[i].socketHandle \notin Watched)

=============================================================================
