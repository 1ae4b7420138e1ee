---------------------------- MODULE ServerManager ----------------------------
(***************************************************************************)
(* The game server lifecycle manager (server_manager.py): it answers the   *)
(* router's GET /backend with a server that has room, boots a stopped      *)
(* static server or creates a dynamic container when none has, counts the  *)
(* sessions of every server, and stops the servers that stay idle.         *)
(*                                                                         *)
(* Every critical section of ServerManager._lock runs without an await     *)
(* inside, so each is one action here; what interleaves are the awaits     *)
(* between them: the wait for a boot event, the docker calls made in a     *)
(* thread, the sleeps and the reads of the broadcast streams.              *)
(*                                                                         *)
(* The caller is modelled by its contract: it closes a session it was      *)
(* given, once.  What the router really does is in module Router.          *)
(***************************************************************************)
EXTENDS Naturals, FiniteSets

CONSTANTS
  Group,          \* the server groups, one per container name prefix
  MaxIndex,       \* bound: the largest n in a container name prefix-n
  Static,         \* the servers of STATIC_SERVERS
  Request,        \* the callers of GET /backend
  NoServer,       \* the server of a request that has none
  MaxSessions,    \* MAX_SESSIONS
  DockerMayFail,  \* whether a docker call may raise
  Reports,        \* the lines a broadcast stream may carry
  MaxMonitors     \* bound: monitor tasks counted per server

\* A server is known by its container name, prefix-n.
Server == Group \X (1..MaxIndex)

JoinableState == {"WaitingForPlayers", "WaitingToStart", "WaitingForServer", "Unknown"}
GameState     == JoinableState \cup {"InProgress", "Ended", "Offline"}

ASSUME ManagerAssumption ==
  /\ MaxIndex \in Nat
  /\ Static \subseteq Server
  /\ IsFiniteSet(Request)
  /\ NoServer \notin Server
  /\ MaxSessions \in Nat \ {0}
  /\ DockerMayFail \in BOOLEAN
  /\ Reports \subseteq [game_state : GameState, player_count : Nat]
  /\ MaxMonitors \in Nat \ {0}

VARIABLES
  tracked,    \* the keys of ServerManager._servers
  info,       \* the ServerInfo under each key
  boot,       \* where each _boot_server task is; a name is in _start_events
              \* exactly while its task is not "none"
  stopping,   \* where each _stop_server task is
  container,  \* what docker knows of each container (external)
  monitors,   \* the monitor_broadcast tasks of each server ...
  links,      \* ... and how many of them hold a connection
  req         \* where each caller of get_backend is

vars == <<tracked, info, boot, stopping, container, monitors, links, req>>

\* quiet stands for (now - last_close) > IDLE_TIMEOUT.
ServerInfo == [running : BOOLEAN, sessions : Nat, quiet : BOOLEAN,
               game_state : GameState, player_count : Nat]

BootPhase      == {"none", "launch", "settle"}
StopPhase      == {"none", "queued", "stop", "remove", "forget"}
ContainerState == {"absent", "stopped", "running"}
RequestState   ==
       [phase : {"idle"}, srv : {NoServer}]
  \cup [phase : {"waiting", "woken", "open"}, srv : Server]

\* The value of a ServerInfo that was just built.
NewInfo(running) ==
  [running |-> running, sessions |-> 0, quiet |-> FALSE,
   game_state |-> "Unknown", player_count |-> 0]

NoRequest    == [phase |-> "idle", srv |-> NoServer]
Dynamic(s)   == s \notin Static
At(phase, s) == [phase |-> phase, srv |-> s]

Init ==
  /\ tracked = Static
  /\ container \in [Server -> ContainerState]
  /\ \A s \in Server : Dynamic(s) => container[s] = "absent"
  /\ info = [s \in Server |-> NewInfo(container[s] = "running")]
  /\ boot = [s \in Server |-> "none"]
  /\ stopping = [s \in Server |-> "none"]
  /\ monitors = [s \in Server |-> IF container[s] = "running" THEN 1 ELSE 0]
  /\ links = [s \in Server |-> 0]
  /\ req = [r \in Request |-> NoRequest]

-----------------------------------------------------------------------------
(* get_backend *)

\* The tracked servers of group g that run, can be joined and have room.
Candidates(g) ==
  {s \in tracked : /\ s[1] = g
                   /\ info[s].running
                   /\ info[s].game_state \in JoinableState
                   /\ info[s].sessions < MaxSessions}

\* The stopped static servers of group g.
StoppedStatic(g) == {s \in tracked : s[1] = g /\ ~Dynamic(s) /\ ~info[s].running}

\* _next_name: the smallest n that makes prefix-n a new key.
IsNextName(s) ==
  /\ s \notin tracked
  /\ \A n \in 1..(s[2] - 1) : <<s[1], n>> \in tracked

\* A boot task is started unless the name already has a start event.
BootOnce(s) ==
  boot' = [boot EXCEPT ![s] = IF @ = "none" THEN "launch" ELSE @]

\* The most populated candidate takes the session at once.
AssignRunning(r, g) ==
  /\ req[r] = NoRequest
  /\ \E best \in Candidates(g) :
       /\ \A s \in Candidates(g) : info[s].player_count <= info[best].player_count
       /\ info' = [info EXCEPT ![best].sessions = @ + 1]
       /\ req' = [req EXCEPT ![r] = At("open", best)]
  /\ UNCHANGED <<tracked, boot, stopping, container, monitors, links>>

\* No candidate: wait for the boot of a stopped static server.
WaitForStatic(r, g) ==
  /\ req[r] = NoRequest
  /\ Candidates(g) = {}
  /\ \E s \in StoppedStatic(g) :
       /\ BootOnce(s)
       /\ req' = [req EXCEPT ![r] = At("waiting", s)]
  /\ UNCHANGED <<tracked, info, stopping, container, monitors, links>>

\* No candidate and no stopped static server: create a dynamic one.
CreateDynamic(r, g) ==
  /\ req[r] = NoRequest
  /\ Candidates(g) = {}
  /\ StoppedStatic(g) = {}
  /\ \E s \in Server :
       /\ s[1] = g
       /\ IsNextName(s)
       /\ tracked' = tracked \cup {s}
       /\ info' = [info EXCEPT ![s] = NewInfo(FALSE)]
       /\ BootOnce(s)
       /\ req' = [req EXCEPT ![r] = At("waiting", s)]
  /\ UNCHANGED <<stopping, container, monitors, links>>

\* Variant: the server is not looked up again after the wait.
ClaimUnchecked(r) ==
  /\ req[r].phase = "woken"
  /\ info' = [info EXCEPT ![req[r].srv].sessions = @ + 1]
  /\ req' = [req EXCEPT ![r] = At("open", req[r].srv)]
  /\ UNCHANGED <<tracked, boot, stopping, container, monitors, links>>

\* After the event: the server is looked up again by its name.
ClaimBooted(r) ==
  /\ req[r].phase = "woken"
  /\ LET s == req[r].srv IN
       \/ /\ s \in tracked /\ info[s].running
          /\ info' = [info EXCEPT ![s].sessions = @ + 1]
          /\ req' = [req EXCEPT ![r] = At("open", s)]
       \/ /\ ~(s \in tracked /\ info[s].running)
          /\ req' = [req EXCEPT ![r] = NoRequest]
          /\ UNCHANGED info
  /\ UNCHANGED <<tracked, boot, stopping, container, monitors, links>>

\* Variant: a caller that gives up stays tied to the server it waited for.
WaitTimeoutKeepsServer(r) ==
  /\ req[r].phase = "waiting"
  /\ req' = [req EXCEPT ![r].phase = "idle"]
  /\ UNCHANGED <<tracked, info, boot, stopping, container, monitors, links>>

\* SERVER_START_WAIT + 15 seconds pass without the event: the call fails.
WaitTimeout(r) ==
  /\ req[r].phase = "waiting"
  /\ req' = [req EXCEPT ![r] = NoRequest]
  /\ UNCHANGED <<tracked, info, boot, stopping, container, monitors, links>>

-----------------------------------------------------------------------------
(* close_session *)

\* Variant: the last session of a server is never counted off.
ReleaseAllButOne(s) ==
  IF s \in tracked
  THEN info' = [info EXCEPT ![s].sessions = IF @ > 1 THEN @ - 1 ELSE @,
                            ![s].quiet = FALSE]
  ELSE UNCHANGED info

\* The count of a tracked server goes down, never below 0, and its idle
\* period starts again.
ReleaseSession(s) ==
  IF s \in tracked
  THEN info' = [info EXCEPT ![s].sessions = IF @ > 0 THEN @ - 1 ELSE @,
                            ![s].quiet = FALSE]
  ELSE UNCHANGED info

CloseSession(r) ==
  /\ req[r].phase = "open"
  /\ ReleaseSession(req[r].srv)
  /\ req' = [req EXCEPT ![r] = NoRequest]
  /\ UNCHANGED <<tracked, boot, stopping, container, monitors, links>>

-----------------------------------------------------------------------------
(* _boot_server *)

\* docker run needs a free container name, docker start an existing container.
Launchable(s) ==
  IF Dynamic(s) THEN container[s] = "absent" ELSE container[s] # "absent"

\* What a docker run or start that raises may leave behind.
LaunchLeftover(s) ==
  IF Dynamic(s) THEN ContainerState ELSE {container[s], "running"}

\* Variant: one waiter is notified where the event releases all of them.
WakeOneWaiter(s) ==
  LET waiting == {r \in Request : req[r] = At("waiting", s)} IN
  IF waiting = {} THEN UNCHANGED req
  ELSE \E r \in waiting : req' = [req EXCEPT ![r] = At("woken", s)]

\* evt.set(): every caller that waits for s goes on.
WakeWaiters(s) ==
  req' = [r \in Request |-> IF req[r] = At("waiting", s) THEN At("woken", s) ELSE req[r]]

BootLaunch(s) ==
  /\ boot[s] = "launch"
  /\ Launchable(s)
  /\ container' = [container EXCEPT ![s] = "running"]
  /\ boot' = [boot EXCEPT ![s] = "settle"]
  /\ UNCHANGED <<tracked, info, stopping, monitors, links, req>>

\* Variant: a boot starts no monitor.
BootReadyUnwatched(s) ==
  /\ boot[s] = "settle"
  /\ info' = [info EXCEPT ![s].running = TRUE]
  /\ WakeWaiters(s)
  /\ boot' = [boot EXCEPT ![s] = "none"]
  /\ UNCHANGED <<tracked, stopping, container, monitors, links>>

\* The SERVER_START_WAIT sleep is over.
BootReady(s) ==
  /\ boot[s] = "settle"
  /\ info' = [info EXCEPT ![s].running = TRUE]
  /\ monitors' = [monitors EXCEPT ![s] = IF @ < MaxMonitors THEN @ + 1 ELSE @]
  /\ WakeWaiters(s)
  /\ boot' = [boot EXCEPT ![s] = "none"]
  /\ UNCHANGED <<tracked, stopping, container, links>>

\* Variant: the event is not set when the boot fails.
BootFailsSilently(s) ==
  /\ boot[s] = "launch"
  /\ ~Launchable(s) \/ DockerMayFail
  /\ tracked' = IF Dynamic(s) THEN tracked \ {s} ELSE tracked
  /\ boot' = [boot EXCEPT ![s] = "none"]
  /\ UNCHANGED <<info, stopping, container, monitors, links, req>>

\* The docker call raised: a dynamic server is forgotten.
BootFails(s) ==
  /\ boot[s] = "launch"
  /\ \/ /\ ~Launchable(s)
        /\ UNCHANGED container
     \/ /\ Launchable(s) /\ DockerMayFail
        /\ \E c \in LaunchLeftover(s) : container' = [container EXCEPT ![s] = c]
  /\ tracked' = IF Dynamic(s) THEN tracked \ {s} ELSE tracked
  /\ WakeWaiters(s)
  /\ boot' = [boot EXCEPT ![s] = "none"]
  /\ UNCHANGED <<info, stopping, monitors, links>>

-----------------------------------------------------------------------------
(* run_cleanup and _stop_server *)

\* IDLE_TIMEOUT has passed since the last close.
QuietElapses(s) ==
  /\ s \in tracked
  /\ ~info[s].quiet
  /\ info' = [info EXCEPT ![s].quiet = TRUE]
  /\ UNCHANGED <<tracked, boot, stopping, container, monitors, links, req>>

\* Variant: servers that are still booting count as idle.
IdleOrBooting == {s \in tracked : info[s].sessions = 0 /\ info[s].quiet}

IdleServers ==
  {s \in tracked : info[s].running /\ info[s].sessions = 0 /\ info[s].quiet}

\* One tick of the cleanup loop.  Bound: a server has one stop task at a time
\* (to have two, a server stopped and booted again would have to stay idle
\* while docker is still busy with the first stop).
Cleanup ==
  LET idle == {s \in IdleServers : stopping[s] = "none"} IN
  /\ idle # {}
  /\ stopping' = [s \in Server |-> IF s \in idle THEN "queued" ELSE stopping[s]]
  /\ UNCHANGED <<tracked, info, boot, container, monitors, links, req>>

\* Variant: the count is not read again.
StopBeginUnchecked(s) ==
  /\ stopping[s] = "queued"
  /\ stopping' = [stopping EXCEPT ![s] = "stop"]
  /\ info' = [info EXCEPT ![s].running = FALSE]
  /\ UNCHANGED <<tracked, boot, container, monitors, links, req>>

\* The count is read again before the server is taken out of service.
StopBegin(s) ==
  /\ stopping[s] = "queued"
  /\ \/ /\ info[s].sessions > 0
        /\ stopping' = [stopping EXCEPT ![s] = "none"]
        /\ UNCHANGED info
     \/ /\ info[s].sessions = 0
        /\ stopping' = [stopping EXCEPT ![s] = "stop"]
        /\ info' = [info EXCEPT ![s].running = FALSE]
  /\ UNCHANGED <<tracked, boot, container, monitors, links, req>>

\* Variant: a stopped dynamic server is forgotten and its container kept.
StopWithoutRemove(s) ==
  /\ stopping[s] = "stop"
  /\ container[s] # "absent"
  /\ container' = [container EXCEPT ![s] = "stopped"]
  /\ stopping' = [stopping EXCEPT ![s] = IF Dynamic(s) THEN "forget" ELSE "none"]
  /\ UNCHANGED <<tracked, info, boot, monitors, links, req>>

StopContainer(s) ==
  /\ stopping[s] = "stop"
  /\ container[s] # "absent"
  /\ container' = [container EXCEPT ![s] = "stopped"]
  /\ stopping' = [stopping EXCEPT ![s] = IF Dynamic(s) THEN "remove" ELSE "none"]
  /\ UNCHANGED <<tracked, info, boot, monitors, links, req>>

\* Variant: a removed server keeps its entry.
RemoveKeepsEntry(s) ==
  /\ stopping[s] = "remove"
  /\ container[s] = "stopped"
  /\ container' = [container EXCEPT ![s] = "absent"]
  /\ stopping' = [stopping EXCEPT ![s] = "none"]
  /\ UNCHANGED <<tracked, info, boot, monitors, links, req>>

RemoveContainer(s) ==
  /\ stopping[s] = "remove"
  /\ container[s] = "stopped"
  /\ container' = [container EXCEPT ![s] = "absent"]
  /\ stopping' = [stopping EXCEPT ![s] = "forget"]
  /\ UNCHANGED <<tracked, info, boot, monitors, links, req>>

\* The removed server leaves _servers.  Its monitors see that, or go on with
\* an object nobody reads: they no longer count.
ForgetServer(s) ==
  /\ stopping[s] = "forget"
  /\ tracked' = tracked \ {s}
  /\ stopping' = [stopping EXCEPT ![s] = "none"]
  /\ monitors' = [monitors EXCEPT ![s] = 0]
  /\ links' = [links EXCEPT ![s] = 0]
  /\ UNCHANGED <<info, boot, container, req>>

\* What a docker stop or remove that raises may leave behind.
StopLeftover(s) ==
  CASE stopping[s] = "remove"  -> {"stopped", "absent"}
    [] container[s] = "absent" -> {"absent"}
    [] OTHER                   -> {container[s], "stopped"}

\* A docker call of _stop_server raised, with or without its effect: the
\* server is put back in service.
StopFails(s) ==
  /\ stopping[s] \in {"stop", "remove"}
  /\ container[s] = "absent" \/ DockerMayFail
  /\ \E c \in StopLeftover(s) : container' = [container EXCEPT ![s] = c]
  /\ info' = [info EXCEPT ![s].running = TRUE]
  /\ stopping' = [stopping EXCEPT ![s] = "none"]
  /\ UNCHANGED <<tracked, boot, monitors, links, req>>

-----------------------------------------------------------------------------
(* monitor_broadcast *)

MonitorConnects(s) ==
  /\ links[s] < monitors[s]
  /\ s \in tracked /\ info[s].running
  /\ container[s] = "running"
  /\ links' = [links EXCEPT ![s] = @ + 1]
  /\ UNCHANGED <<tracked, info, boot, stopping, container, monitors, req>>

MonitorReads(s) ==
  /\ links[s] > 0
  /\ container[s] = "running"
  /\ \E rep \in Reports :
       info' = [info EXCEPT ![s].game_state = rep.game_state,
                            ![s].player_count = rep.player_count]
  /\ UNCHANGED <<tracked, boot, stopping, container, monitors, links, req>>

\* A connection is lost, or an attempt to connect fails.
MonitorLost(s) ==
  /\ \/ /\ links[s] > 0
        /\ links' = [links EXCEPT ![s] = @ - 1]
     \/ /\ links[s] < monitors[s]
        /\ s \in tracked /\ info[s].running
        /\ UNCHANGED links
  /\ info' = [info EXCEPT ![s].game_state = "Unknown", ![s].player_count = 0]
  /\ UNCHANGED <<tracked, boot, stopping, container, monitors, req>>

-----------------------------------------------------------------------------
CallerStep ==
  \/ \E r \in Request, g \in Group :
       AssignRunning(r, g) \/ WaitForStatic(r, g) \/ CreateDynamic(r, g)
  \/ \E r \in Request : ClaimBooted(r) \/ WaitTimeout(r) \/ CloseSession(r)

ServerStep ==
  \E s \in Server :
    \/ BootLaunch(s) \/ BootReady(s) \/ BootFails(s)
    \/ QuietElapses(s)
    \/ StopBegin(s) \/ StopContainer(s) \/ RemoveContainer(s)
    \/ ForgetServer(s) \/ StopFails(s)
    \/ MonitorConnects(s) \/ MonitorReads(s) \/ MonitorLost(s)

Next == CallerStep \/ ServerStep \/ Cleanup

Spec == Init /\ [][Next]_vars

\* The event loop runs every task that can go on, docker calls return, and
\* timers elapse.  Callers, reports, lost connections and timeouts of the
\* wait owe nothing.
Fairness ==
  /\ \A r \in Request : WF_vars(ClaimBooted(r))
  /\ \A s \in Server :
       /\ WF_vars(BootLaunch(s) \/ BootFails(s))
       /\ WF_vars(BootReady(s))
       /\ WF_vars(QuietElapses(s))
       /\ WF_vars(StopBegin(s))
       /\ WF_vars(StopContainer(s) \/ RemoveContainer(s) \/ StopFails(s))
       /\ WF_vars(ForgetServer(s))
  /\ WF_vars(Cleanup)

FairSpec == Spec /\ Fairness

-----------------------------------------------------------------------------
(* Properties *)

\* The sessions that callers hold on server s.
Holders(s) == {r \in Request : req[r] = At("open", s)}

\* Every variable keeps its type.
TypeOK ==
  /\ tracked \in SUBSET Server
  /\ info \in [Server -> ServerInfo]
  /\ boot \in [Server -> BootPhase]
  /\ stopping \in [Server -> StopPhase]
  /\ container \in [Server -> ContainerState]
  /\ monitors \in [Server -> 0..MaxMonitors]
  /\ links \in [Server -> 0..MaxMonitors]
  /\ req \in [Request -> RequestState]

\* The session count of a server is the number of callers that hold a session
\* on it, whatever boots, stops, failures and timeouts happen in between: no
\* call of get_backend is counted twice and none is lost.
SessionLedger == \A s \in Server : info[s].sessions = Cardinality(Holders(s))

\* A session is held only on a server that is known and whose running flag is
\* set, and on a dynamic server only while no boot task is at work on it and no
\* stop task has passed its look at the count: no session is granted on one
\* that run_cleanup is taking down, and none is taken down under a session
\* granted while its stop task was queued.  Of a static server the flag is all
\* that is promised: a boot that overtakes the docker stop of an earlier idle
\* period puts it back in service, and a session may be granted on it, before
\* that stop has reached the container.
HeldIsUp ==
  \A s \in Server : Holders(s) # {} =>
    /\ s \in tracked /\ info[s].running
    /\ Dynamic(s) => boot[s] = "none" /\ stopping[s] \in {"none", "queued"}

\* A caller that waits for a start event has a boot task that will set it:
\* the event is registered and set without a gap in which it could be missed.
NoLostWakeup ==
  \A r \in Request : req[r].phase = "waiting" => boot[req[r].srv] # "none"

\* A server in service has a monitor that follows its game state, whatever stops
\* and boots it went through: none stays joinable on what it once reported.
Monitored == \A s \in tracked : info[s].running => monitors[s] > 0

\* The life of a dynamic server goes through its boot, its service and its stop
\* one after the other: its boot and stop tasks never overlap, it is out of
\* service during both, and its entry outlives them.  A static server may be
\* booted while it is being stopped, but it is never removed.
DynamicLifecycle ==
  \A s \in Server :
    /\ Dynamic(s) /\ s \notin tracked => boot[s] = "none" /\ stopping[s] = "none"
    /\ Dynamic(s) /\ boot[s] # "none" => stopping[s] = "none" /\ ~info[s].running
    /\ Dynamic(s) /\ stopping[s] \in {"stop", "remove", "forget"} => ~info[s].running
    /\ stopping[s] \in {"remove", "forget"} => Dynamic(s)

\* While docker raises nothing, the name that _next_name gives to a dynamic
\* server belongs to no container, so that docker run cannot conflict: an entry
\* leaves _servers only after its container was removed.
FreshName ==
  \A s \in Server :
    /\ Dynamic(s) /\ s \notin tracked => container[s] = "absent"
    /\ Dynamic(s) /\ boot[s] = "launch" => container[s] = "absent"

\* A dynamic container is never stopped while a session is held on it.
DynamicStaysUp ==
  [][\A s \in Server :
       Dynamic(s) /\ Holders(s) # {} /\ container[s] = "running"
         => container'[s] = "running"]_vars

\* What a caller of the manager sees: the server it holds a place on, and the
\* servers in service.
Place == [r \in Request |-> IF req[r].phase = "open" THEN req[r].srv ELSE NoServer]
InService == {s \in Server : info[s].running}

Lease == INSTANCE SessionLease WITH Client <- Request, holder <- Place, up <- InService

\* The manager keeps the promise of SessionLease to its callers: boots, stops,
\* failures, restarts of a name and monitors are invisible to them but for the
\* servers that come and go, and a server goes only when no place is held on it.
\* A server comes and goes with its running flag; what its container does under
\* that flag is the matter of DynamicStaysUp.
KeepsLease == Lease!LeaseSpec

\* A caller that has to wait for a boot is answered in the end, with a server
\* or with an error, even when docker fails.
Answered ==
  \A r \in Request :
    req[r].phase = "waiting" ~> req[r].phase \in {"idle", "open"}

\* Once the callers are gone for good, every dynamic server is stopped, removed
\* and forgotten, and every static server is taken out of service.
ScaleDown ==
  <>[](req = [r \in Request |-> NoRequest])
    => <>[](/\ tracked = Static
            /\ \A s \in Server : container[s] # "running")
=============================================================================
