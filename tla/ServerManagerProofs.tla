------------------------ MODULE ServerManagerProofs ------------------------
(***************************************************************************)
(* Proofs about ServerManager, for every set of servers and of callers.    *)
(*                                                                         *)
(* The inductive invariant is the conjunction of TypeOK, SessionLedger,    *)
(* HeldInService and DynamicLifecycle: none of the last three is inductive     *)
(* alone: a server may be taken down only because a count of 0 means that  *)
(* nobody holds a session (SessionLedger), a new entry may start from 0    *)
(* only because nobody holds a session on an unknown name (HeldIsUp), and  *)
(* an entry may go only because its server was out of service all along    *)
(* (DynamicLifecycle).                                                     *)
(***************************************************************************)
EXTENDS ServerManager, FiniteSetTheorems, TLAPS

-----------------------------------------------------------------------------
(* Types *)

\* Every variable has its type in the initial states.
LEMMA InitType == Init => TypeOK
  BY ManagerAssumption
     DEF Init, TypeOK, NewInfo, NoRequest, ServerInfo, GameState, JoinableState,
         BootPhase, StopPhase, ContainerState, RequestState

\* What a caller's record may be.
LEMMA RequestShape ==
  ASSUME TypeOK, NEW r \in Request
  PROVE  /\ req[r].phase \in {"idle", "waiting", "woken", "open"}
         /\ req[r].phase = "idle" => req[r] = NoRequest
         /\ req[r].phase # "idle" =>
              req[r].srv \in Server /\ req[r] = At(req[r].phase, req[r].srv)
  BY DEF TypeOK, RequestState, NoRequest, At

\* What close_session leaves in an entry is an entry.
LEMMA ReleaseType ==
  ASSUME TypeOK, NEW s \in Server, ReleaseSession(s)
  PROVE  info' \in [Server -> ServerInfo]
<1>1. CASE s \in tracked /\ info[s].sessions > 0
  BY <1>1 DEF TypeOK, ServerInfo, ReleaseSession
<1>2. CASE s \in tracked /\ ~(info[s].sessions > 0)
  BY <1>2 DEF TypeOK, ServerInfo, ReleaseSession
<1>3. CASE s \notin tracked
  BY <1>3 DEF TypeOK, ReleaseSession
<1> QED
  BY <1>1, <1>2, <1>3

\* Putting a server in or out of service leaves an entry.
LEMMA RunningType ==
  ASSUME TypeOK, NEW s \in Server
  PROVE  /\ [info EXCEPT ![s].running = TRUE] \in [Server -> ServerInfo]
         /\ [info EXCEPT ![s].running = FALSE] \in [Server -> ServerInfo]
  BY DEF TypeOK, ServerInfo

\* A caller's step keeps the types.
LEMMA CallerStepType == TypeOK /\ CallerStep => TypeOK'
<1> SUFFICES ASSUME TypeOK, CallerStep PROVE TypeOK'
  OBVIOUS
<1> USE ManagerAssumption DEF TypeOK, ServerInfo, RequestState, At
<1>a. \A q \in Request : req[q].phase # "idle" => req[q].srv \in Server
  BY RequestShape
<1>1. ASSUME NEW r \in Request, NEW g \in Group, AssignRunning(r, g)
      PROVE TypeOK'
  BY <1>1 DEF AssignRunning, Candidates
<1>2. ASSUME NEW r \in Request, NEW g \in Group, WaitForStatic(r, g)
      PROVE TypeOK'
  BY <1>2 DEF WaitForStatic, StoppedStatic, BootOnce, BootPhase
<1>3. ASSUME NEW r \in Request, NEW g \in Group, CreateDynamic(r, g)
      PROVE TypeOK'
  BY <1>3 DEF CreateDynamic, BootOnce, BootPhase, NewInfo, GameState, JoinableState
<1>4. ASSUME NEW r \in Request, ClaimBooted(r)
      PROVE TypeOK'
  <2>1. info' \in [Server -> ServerInfo]
    BY <1>a, <1>4 DEF ClaimBooted
  <2>2. req' \in [Request -> RequestState]
    <3>1. \/ req' = [req EXCEPT ![r] = At("open", req[r].srv)]
          \/ req' = [req EXCEPT ![r] = NoRequest]
      BY <1>4 DEF ClaimBooted
    <3>2. req[r].srv \in Server
      BY <1>a, <1>4 DEF ClaimBooted
    <3> QED
      BY <3>1, <3>2 DEF NoRequest
  <2> QED
    BY <2>1, <2>2, <1>4 DEF ClaimBooted
<1>5. ASSUME NEW r \in Request, WaitTimeout(r)
      PROVE TypeOK'
  BY <1>5 DEF WaitTimeout, NoRequest
<1>6. ASSUME NEW r \in Request, CloseSession(r)
      PROVE TypeOK'
  <2>1. info' \in [Server -> ServerInfo]
    <3> HIDE DEF ServerInfo, RequestState, TypeOK
    <3>1. req[r].srv \in Server /\ ReleaseSession(req[r].srv)
      BY <1>a, <1>6 DEF CloseSession
    <3> QED
      BY <3>1, ReleaseType
  <2>2. req' \in [Request -> RequestState]
    BY <1>6 DEF CloseSession, NoRequest
  <2> QED
    BY <2>1, <2>2, <1>6 DEF CloseSession
<1> QED
  BY <1>1, <1>2, <1>3, <1>4, <1>5, <1>6 DEF CallerStep

\* A step of a boot, a stop, the cleanup or a monitor keeps the types.
LEMMA ServerStepType == TypeOK /\ (ServerStep \/ Cleanup) => TypeOK'
<1> SUFFICES ASSUME TypeOK, ServerStep \/ Cleanup PROVE TypeOK'
  OBVIOUS
<1> USE ManagerAssumption DEF TypeOK, ServerInfo
<1>1. ASSUME NEW s \in Server, BootLaunch(s) PROVE TypeOK'
  BY <1>1 DEF BootLaunch, BootPhase, ContainerState
<1>2. ASSUME NEW s \in Server, BootReady(s) PROVE TypeOK'
  <2>1. info' \in [Server -> ServerInfo]
    BY <1>2 DEF BootReady
  <2>2. req' \in [Request -> RequestState]
    BY <1>2 DEF BootReady, WakeWaiters, At, RequestState
  <2>3. monitors' \in [Server -> 0..MaxMonitors]
    BY <1>2 DEF BootReady
  <2> QED
    BY <2>1, <2>2, <2>3, <1>2 DEF BootReady, BootPhase
<1>3. ASSUME NEW s \in Server, BootFails(s) PROVE TypeOK'
  BY <1>3 DEF BootFails, WakeWaiters, At, RequestState, BootPhase, LaunchLeftover,
              ContainerState
<1>4. ASSUME NEW s \in Server, QuietElapses(s) PROVE TypeOK'
  BY <1>4 DEF QuietElapses
<1>5. ASSUME Cleanup PROVE TypeOK'
  BY <1>5 DEF Cleanup, StopPhase
<1>6. ASSUME NEW s \in Server, StopBegin(s) PROVE TypeOK'
  <2>1. info' \in [Server -> ServerInfo]
    <3> HIDE DEF ServerInfo
    <3>1. info' = info \/ info' = [info EXCEPT ![s].running = FALSE]
      BY <1>6 DEF StopBegin
    <3>2. [info EXCEPT ![s].running = FALSE] \in [Server -> ServerInfo]
      BY RunningType
    <3> QED
      BY <3>1, <3>2
  <2>2. stopping' \in [Server -> StopPhase]
    BY <1>6 DEF StopBegin, StopPhase
  <2> QED
    BY <2>1, <2>2, <1>6 DEF StopBegin
<1>7. ASSUME NEW s \in Server, StopContainer(s) PROVE TypeOK'
  BY <1>7 DEF StopContainer, StopPhase, ContainerState
<1>8. ASSUME NEW s \in Server, RemoveContainer(s) PROVE TypeOK'
  BY <1>8 DEF RemoveContainer, StopPhase, ContainerState
<1>9. ASSUME NEW s \in Server, ForgetServer(s) PROVE TypeOK'
  BY <1>9 DEF ForgetServer, StopPhase
<1>10. ASSUME NEW s \in Server, StopFails(s) PROVE TypeOK'
  <2>1. info' \in [Server -> ServerInfo]
    BY <1>10 DEF StopFails
  <2>2. container' \in [Server -> ContainerState]
    BY <1>10 DEF StopFails, StopLeftover, ContainerState
  <2> QED
    BY <2>1, <2>2, <1>10 DEF StopFails, StopPhase
<1>11. ASSUME NEW s \in Server, MonitorConnects(s) PROVE TypeOK'
  BY <1>11 DEF MonitorConnects
<1>12. ASSUME NEW s \in Server, MonitorReads(s) PROVE TypeOK'
  <2>1. info' \in [Server -> ServerInfo]
    <3>1. PICK rep \in Reports :
            info' = [info EXCEPT ![s].game_state = rep.game_state,
                                 ![s].player_count = rep.player_count]
      BY <1>12 DEF MonitorReads
    <3>2. rep.game_state \in GameState /\ rep.player_count \in Nat
      BY <3>1
    <3> QED
      BY <3>1, <3>2
  <2> QED
    BY <2>1, <1>12 DEF MonitorReads
<1>13. ASSUME NEW s \in Server, MonitorLost(s) PROVE TypeOK'
  <2>1. info' \in [Server -> ServerInfo]
    <3>1. "Unknown" \in GameState
      BY DEF GameState, JoinableState
    <3> QED
      BY <3>1, <1>13 DEF MonitorLost
  <2>2. links' \in [Server -> 0..MaxMonitors]
    BY <1>13 DEF MonitorLost
  <2> QED
    BY <2>1, <2>2, <1>13 DEF MonitorLost
<1> QED
  BY <1>1, <1>2, <1>3, <1>4, <1>5, <1>6, <1>7, <1>8, <1>9, <1>10, <1>11, <1>12,
     <1>13 DEF ServerStep

\* No step breaks the types.
LEMMA NextType == TypeOK /\ [Next]_vars => TypeOK'
<1>1. TypeOK /\ UNCHANGED vars => TypeOK'
  BY DEF TypeOK, vars
<1> QED
  BY <1>1, CallerStepType, ServerStepType DEF Next

\* Every variable keeps its type.
THEOREM TypeCorrect == Spec => []TypeOK
  BY InitType, NextType, PTL DEF Spec

-----------------------------------------------------------------------------
(* The life of a dynamic server *)

\* A server starts with no boot and no stop under way.
LEMMA InitLifecycle == Init => DynamicLifecycle
  BY DEF Init, DynamicLifecycle

\* A caller's step keeps the phases of dynamic servers apart: only a name that
\* is not tracked, hence has no task, gets a boot task.
LEMMA CallerStepLifecycle ==
  TypeOK /\ DynamicLifecycle /\ CallerStep => DynamicLifecycle'
<1> SUFFICES ASSUME TypeOK, DynamicLifecycle, CallerStep PROVE DynamicLifecycle'
  OBVIOUS
<1>1. ASSUME NEW r \in Request, NEW g \in Group, AssignRunning(r, g)
      PROVE DynamicLifecycle'
  BY <1>1 DEF AssignRunning, Candidates, DynamicLifecycle, Dynamic, TypeOK, ServerInfo
<1>2. ASSUME NEW r \in Request, NEW g \in Group, WaitForStatic(r, g)
      PROVE DynamicLifecycle'
  BY <1>2 DEF WaitForStatic, StoppedStatic, BootOnce, DynamicLifecycle, Dynamic, TypeOK
<1>3. ASSUME NEW r \in Request, NEW g \in Group, CreateDynamic(r, g)
      PROVE DynamicLifecycle'
  BY <1>3 DEF CreateDynamic, IsNextName, BootOnce, NewInfo, DynamicLifecycle, Dynamic,
              TypeOK, ServerInfo
<1>4. ASSUME NEW r \in Request, ClaimBooted(r)
      PROVE DynamicLifecycle'
  <2>1. req[r].srv \in Server
    BY <1>4, RequestShape DEF ClaimBooted
  <2> QED
    BY <1>4, <2>1 DEF ClaimBooted, DynamicLifecycle, Dynamic, TypeOK, ServerInfo
<1>5. ASSUME NEW r \in Request, WaitTimeout(r)
      PROVE DynamicLifecycle'
  BY <1>5 DEF WaitTimeout, DynamicLifecycle, Dynamic
<1>6. ASSUME NEW r \in Request, CloseSession(r)
      PROVE DynamicLifecycle'
  <2>1. req[r].srv \in Server
    BY <1>6, RequestShape DEF CloseSession
  <2> QED
    BY <1>6, <2>1 DEF CloseSession, ReleaseSession, DynamicLifecycle, Dynamic, TypeOK,
                      ServerInfo
<1> QED
  BY <1>1, <1>2, <1>3, <1>4, <1>5, <1>6 DEF CallerStep

\* So does a step of a boot, a stop, the cleanup or a monitor.
LEMMA ServerStepLifecycle ==
  TypeOK /\ DynamicLifecycle /\ (ServerStep \/ Cleanup) => DynamicLifecycle'
<1> SUFFICES ASSUME TypeOK, DynamicLifecycle, ServerStep \/ Cleanup
             PROVE  DynamicLifecycle'
  OBVIOUS
<1> USE DEF DynamicLifecycle, Dynamic, TypeOK, ServerInfo
<1>1. ASSUME NEW s \in Server, BootLaunch(s) PROVE DynamicLifecycle'
  BY <1>1 DEF BootLaunch
<1>2. ASSUME NEW s \in Server, BootReady(s) PROVE DynamicLifecycle'
  BY <1>2 DEF BootReady
<1>3. ASSUME NEW s \in Server, BootFails(s) PROVE DynamicLifecycle'
  BY <1>3 DEF BootFails
<1>4. ASSUME NEW s \in Server, QuietElapses(s) PROVE DynamicLifecycle'
  BY <1>4 DEF QuietElapses
<1>5. ASSUME Cleanup PROVE DynamicLifecycle'
  BY <1>5 DEF Cleanup, IdleServers
<1>6. ASSUME NEW s \in Server, StopBegin(s) PROVE DynamicLifecycle'
  BY <1>6 DEF StopBegin
<1>7. ASSUME NEW s \in Server, StopContainer(s) PROVE DynamicLifecycle'
  BY <1>7 DEF StopContainer
<1>8. ASSUME NEW s \in Server, RemoveContainer(s) PROVE DynamicLifecycle'
  BY <1>8 DEF RemoveContainer
<1>9. ASSUME NEW s \in Server, ForgetServer(s) PROVE DynamicLifecycle'
  BY <1>9 DEF ForgetServer
<1>10. ASSUME NEW s \in Server, StopFails(s) PROVE DynamicLifecycle'
  BY <1>10 DEF StopFails
<1>11. ASSUME NEW s \in Server, MonitorConnects(s) PROVE DynamicLifecycle'
  BY <1>11 DEF MonitorConnects
<1>12. ASSUME NEW s \in Server, MonitorReads(s) PROVE DynamicLifecycle'
  BY <1>12 DEF MonitorReads
<1>13. ASSUME NEW s \in Server, MonitorLost(s) PROVE DynamicLifecycle'
  BY <1>13 DEF MonitorLost
<1> QED
  BY <1>1, <1>2, <1>3, <1>4, <1>5, <1>6, <1>7, <1>8, <1>9, <1>10, <1>11, <1>12,
     <1>13 DEF ServerStep

\* The boot and the stop of a dynamic server never overlap, and its entry
\* outlives both.
THEOREM DynamicLifecycleHolds == Spec => []DynamicLifecycle
<1>1. TypeOK /\ DynamicLifecycle /\ [Next]_vars => DynamicLifecycle'
  <2>1. DynamicLifecycle /\ UNCHANGED vars => DynamicLifecycle'
    BY DEF DynamicLifecycle, vars
  <2> QED
    BY <2>1, CallerStepLifecycle, ServerStepLifecycle DEF Next
<1> QED
  BY <1>1, InitLifecycle, TypeCorrect, PTL DEF Spec

-----------------------------------------------------------------------------
(* Who holds a session on which server *)

\* The holders of a server are finitely many, so counting them makes sense.
LEMMA HoldersFinite ==
  ASSUME NEW s PROVE IsFiniteSet(Holders(s)) /\ Cardinality(Holders(s)) \in Nat
<1>1. Holders(s) \in SUBSET Request
  BY DEF Holders
<1> QED
  BY <1>1, ManagerAssumption, FS_Subset, FS_CardinalityType

\* A caller that gets a session on s is one more holder of s.
LEMMA HoldersGain ==
  ASSUME TypeOK, NEW r \in Request, NEW s \in Server,
         req[r].phase # "open", req' = [req EXCEPT ![r] = At("open", s)]
  PROVE  /\ Cardinality(Holders(s)') = Cardinality(Holders(s)) + 1
         /\ \A q \in Server : q # s => Holders(q)' = Holders(q)
<1>1. r \notin Holders(s)
  BY DEF Holders, At
<1>2. Holders(s)' = Holders(s) \cup {r}
  BY DEF Holders, At, TypeOK
<1>3. \A q \in Server : q # s => Holders(q)' = Holders(q)
  BY DEF Holders, At, TypeOK
<1> QED
  BY <1>1, <1>2, <1>3, HoldersFinite, FS_AddElement

\* A caller that closes its session on s is one holder of s less.
LEMMA HoldersLose ==
  ASSUME TypeOK, NEW r \in Request, NEW s \in Server,
         req[r] = At("open", s), req' = [req EXCEPT ![r] = NoRequest]
  PROVE  /\ r \in Holders(s)
         /\ Cardinality(Holders(s)') = Cardinality(Holders(s)) - 1
         /\ \A q \in Server : q # s => Holders(q)' = Holders(q)
<1>1. r \in Holders(s)
  BY DEF Holders
<1>2. Holders(s)' = Holders(s) \ {r}
  BY DEF Holders, At, NoRequest, TypeOK
<1>3. \A q \in Server : q # s => Holders(q)' = Holders(q)
  BY DEF Holders, At, NoRequest, TypeOK
<1> QED
  BY <1>1, <1>2, <1>3, HoldersFinite, FS_RemoveElement

\* Whoever neither gets nor gives up a session changes no holder.
LEMMA HoldersKept ==
  ASSUME \A r \in Request : \/ req'[r] = req[r]
                            \/ req[r].phase # "open" /\ req'[r].phase # "open"
  PROVE  \A q \in Server : Holders(q)' = Holders(q)
  BY DEF Holders, At

\* Setting an event changes no holder.
LEMMA WakeKeepsHolders ==
  ASSUME NEW s \in Server, WakeWaiters(s)
  PROVE  \A q \in Server : Holders(q)' = Holders(q)
<1>1. \A r \in Request : \/ req'[r] = req[r]
                         \/ req[r].phase # "open" /\ req'[r].phase # "open"
  BY DEF WakeWaiters, At
<1> QED
  BY <1>1, HoldersKept

-----------------------------------------------------------------------------
(* The session count, and who may be taken down *)

\* The part of HeldIsUp that the steps keep without the phases of a name.
HeldInService ==
  \A s \in Server : Holders(s) # {} => s \in tracked /\ info[s].running

\* The two together are inductive.
Ledger == SessionLedger /\ HeldInService

\* Nothing is counted and nothing is held at the start.
LEMMA InitLedger == Init => Ledger
<1> SUFFICES ASSUME Init PROVE Ledger
  OBVIOUS
<1>1. \A s \in Server : Holders(s) = {}
  BY DEF Init, Holders, NoRequest, At
<1>2. \A s \in Server : info[s].sessions = 0
  BY DEF Init, NewInfo
<1> QED
  BY <1>1, <1>2, FS_EmptySet DEF Ledger, SessionLedger, HeldInService

\* A server with a count of 0 has no holder.
LEMMA ZeroMeansNobody ==
  ASSUME SessionLedger, NEW s \in Server, info[s].sessions = 0
  PROVE  Holders(s) = {}
  BY HoldersFinite, FS_EmptySet DEF SessionLedger

\* A step that changes no holder, no count and takes no held server out of
\* service keeps the ledger.
LEMMA LedgerFrame ==
  ASSUME Ledger,
         \A q \in Server : Holders(q)' = Holders(q),
         \A q \in Server : info'[q].sessions = info[q].sessions,
         \A q \in Server : Holders(q) # {} /\ q \in tracked => q \in tracked',
         \A q \in Server : Holders(q) # {} /\ info[q].running => info'[q].running
  PROVE  Ledger'
<1>1. SessionLedger'
  <2> SUFFICES ASSUME NEW q \in Server
               PROVE  info'[q].sessions = Cardinality(Holders(q)')
    BY DEF SessionLedger
  <2> QED
    BY DEF Ledger, SessionLedger
<1>2. HeldInService'
  <2> SUFFICES ASSUME NEW q \in Server, Holders(q)' # {}
               PROVE  q \in tracked' /\ info'[q].running
    BY DEF HeldInService
  <2> QED
    BY DEF Ledger, HeldInService
<1> QED
  BY <1>1, <1>2 DEF Ledger

\* A session granted on a server in service keeps the ledger.
LEMMA LedgerGrant ==
  ASSUME TypeOK, Ledger, NEW r \in Request, NEW s \in Server,
         s \in tracked, info[s].running, req[r].phase # "open",
         req' = [req EXCEPT ![r] = At("open", s)],
         info' = [info EXCEPT ![s].sessions = @ + 1],
         tracked' = tracked
  PROVE  Ledger'
<1>1. SessionLedger'
  <2> SUFFICES ASSUME NEW q \in Server
               PROVE  info'[q].sessions = Cardinality(Holders(q)')
    BY DEF SessionLedger
  <2>1. info[q].sessions = Cardinality(Holders(q))
    BY DEF Ledger, SessionLedger
  <2>2. CASE q = s
    <3>1. info'[s].sessions = info[s].sessions + 1
      BY DEF TypeOK, ServerInfo
    <3> QED
      BY <2>1, <2>2, <3>1, HoldersGain
  <2>3. CASE q # s
    BY <2>1, <2>3, HoldersGain DEF TypeOK
  <2> QED
    BY <2>2, <2>3
<1>2. HeldInService'
  <2> SUFFICES ASSUME NEW q \in Server, Holders(q)' # {}
               PROVE  q \in tracked' /\ info'[q].running
    BY DEF HeldInService
  <2>1. CASE q = s
    BY <2>1 DEF TypeOK, ServerInfo
  <2>2. CASE q # s
    BY <2>2, HoldersGain DEF Ledger, HeldInService, TypeOK
  <2> QED
    BY <2>1, <2>2
<1> QED
  BY <1>1, <1>2 DEF Ledger

\* Closing a session on s counts it off: s is still tracked, because a session
\* is held on it, and its count is not 0 yet.
LEMMA ReleaseEffect ==
  ASSUME TypeOK, Ledger, NEW r \in Request, NEW s \in Server,
         req[r] = At("open", s), CloseSession(r)
  PROVE  /\ info'[s].sessions = info[s].sessions - 1
         /\ info'[s].running = info[s].running
         /\ \A q \in Server : q # s => info'[q] = info[q]
         /\ s \in tracked /\ info[s].running
<1>1. ReleaseSession(s) /\ r \in Holders(s)
  BY DEF CloseSession, Holders, At
<1>2. s \in tracked /\ info[s].running /\ info[s].sessions = Cardinality(Holders(s))
  BY <1>1 DEF Ledger, HeldInService, SessionLedger
<1>3. info[s].sessions > 0
  BY <1>1, <1>2, HoldersFinite, FS_EmptySet
<1>4. info' = [info EXCEPT ![s].sessions = info[s].sessions - 1, ![s].quiet = FALSE]
  BY <1>1, <1>2, <1>3 DEF ReleaseSession, TypeOK, ServerInfo
<1> QED
  BY <1>2, <1>4 DEF TypeOK, ServerInfo

\* A session given back keeps the ledger.
LEMMA LedgerRelease ==
  ASSUME TypeOK, Ledger, NEW r \in Request, CloseSession(r)
  PROVE  Ledger'
<1>1. PICK s \in Server : req[r] = At("open", s)
  BY RequestShape DEF CloseSession
<1>2. req' = [req EXCEPT ![r] = NoRequest] /\ tracked' = tracked
  BY DEF CloseSession
<1>3. /\ Cardinality(Holders(s)') = Cardinality(Holders(s)) - 1
      /\ \A q \in Server : q # s => Holders(q)' = Holders(q)
  BY <1>1, <1>2, HoldersLose
<1>4. /\ info'[s].sessions = info[s].sessions - 1
      /\ info'[s].running = info[s].running
      /\ \A q \in Server : q # s => info'[q] = info[q]
      /\ s \in tracked /\ info[s].running
  BY <1>1, ReleaseEffect
<1>5. SessionLedger'
  <2> SUFFICES ASSUME NEW q \in Server
               PROVE  info'[q].sessions = Cardinality(Holders(q)')
    BY DEF SessionLedger
  <2> QED
    BY <1>3, <1>4 DEF Ledger, SessionLedger
<1>6. HeldInService'
  <2> SUFFICES ASSUME NEW q \in Server, Holders(q)' # {}
               PROVE  q \in tracked' /\ info'[q].running
    BY DEF HeldInService
  <2> QED
    BY <1>2, <1>3, <1>4 DEF Ledger, HeldInService
<1> QED
  BY <1>5, <1>6 DEF Ledger

\* A caller's step keeps the ledger.
LEMMA CallerStepLedger == TypeOK /\ Ledger /\ CallerStep => Ledger'
<1> SUFFICES ASSUME TypeOK, Ledger, CallerStep PROVE Ledger'
  OBVIOUS
<1>1. ASSUME NEW r \in Request, NEW g \in Group, AssignRunning(r, g)
      PROVE Ledger'
  <2>1. PICK best \in Candidates(g) :
          /\ info' = [info EXCEPT ![best].sessions = @ + 1]
          /\ req' = [req EXCEPT ![r] = At("open", best)]
    BY <1>1 DEF AssignRunning
  <2>2. best \in Server /\ best \in tracked /\ info[best].running
    BY DEF Candidates, TypeOK
  <2>3. req[r].phase # "open" /\ tracked' = tracked
    BY <1>1 DEF AssignRunning, NoRequest
  <2> QED
    BY <2>1, <2>2, <2>3, LedgerGrant
<1>2. ASSUME NEW r \in Request, NEW g \in Group, WaitForStatic(r, g)
      PROVE Ledger'
  <2>1. \A q \in Server : Holders(q)' = Holders(q)
    BY <1>2, HoldersKept DEF WaitForStatic, NoRequest, At, TypeOK
  <2> QED
    BY <1>2, <2>1, LedgerFrame DEF WaitForStatic
<1>3. ASSUME NEW r \in Request, NEW g \in Group, CreateDynamic(r, g)
      PROVE Ledger'
  <2>1. PICK s \in Server :
          /\ IsNextName(s)
          /\ tracked' = tracked \cup {s}
          /\ info' = [info EXCEPT ![s] = NewInfo(FALSE)]
          /\ req' = [req EXCEPT ![r] = At("waiting", s)]
    BY <1>3 DEF CreateDynamic
  <2>2. \A q \in Server : Holders(q)' = Holders(q)
    BY <1>3, <2>1, HoldersKept DEF CreateDynamic, NoRequest, At, TypeOK
  <2>3. Holders(s) = {}
    BY <2>1 DEF IsNextName, Ledger, HeldInService
  <2>4. info[s].sessions = 0 /\ info'[s].sessions = 0
    BY <2>1, <2>3, FS_EmptySet DEF Ledger, SessionLedger, TypeOK, NewInfo
  <2>5. \A q \in Server : q # s => info'[q] = info[q]
    BY <2>1 DEF TypeOK
  <2>6. \A q \in Server : info'[q].sessions = info[q].sessions
    BY <2>4, <2>5
  <2>7. \A q \in Server : Holders(q) # {} => info'[q] = info[q]
    BY <2>3, <2>5
  <2> QED
    BY <2>1, <2>2, <2>6, <2>7, LedgerFrame
<1>4. ASSUME NEW r \in Request, ClaimBooted(r)
      PROVE Ledger'
  <2>1. req[r].srv \in Server /\ req[r].phase # "open" /\ tracked' = tracked
    BY <1>4, RequestShape DEF ClaimBooted
  <2>2. PICK s \in Server : s = req[r].srv
    BY <2>1
  <2>3. CASE s \in tracked /\ info[s].running
    BY <1>4, <2>1, <2>2, <2>3, LedgerGrant DEF ClaimBooted
  <2>4. CASE ~(s \in tracked /\ info[s].running)
    <3>1. req' = [req EXCEPT ![r] = NoRequest] /\ info' = info
      BY <1>4, <2>2, <2>4 DEF ClaimBooted
    <3>2. \A q \in Server : Holders(q)' = Holders(q)
      BY <2>1, <3>1, HoldersKept DEF NoRequest, TypeOK
    <3> QED
      BY <2>1, <3>1, <3>2, LedgerFrame
  <2> QED
    BY <2>3, <2>4
<1>5. ASSUME NEW r \in Request, WaitTimeout(r)
      PROVE Ledger'
  <2>1. \A q \in Server : Holders(q)' = Holders(q)
    BY <1>5, HoldersKept DEF WaitTimeout, NoRequest, TypeOK
  <2> QED
    BY <1>5, <2>1, LedgerFrame DEF WaitTimeout
<1>6. ASSUME NEW r \in Request, CloseSession(r)
      PROVE Ledger'
  BY <1>6, LedgerRelease
<1> QED
  BY <1>1, <1>2, <1>3, <1>4, <1>5, <1>6 DEF CallerStep

\* A step of a boot, a stop, the cleanup or a monitor keeps the ledger.  The
\* count that StopBegin reads is what keeps a held server in service, and the
\* phases of a dynamic server are what keeps its entry.
LEMMA ServerStepLedger ==
  TypeOK /\ DynamicLifecycle /\ Ledger /\ (ServerStep \/ Cleanup) => Ledger'
<1> SUFFICES ASSUME TypeOK, DynamicLifecycle, Ledger, ServerStep \/ Cleanup
             PROVE  Ledger'
  OBVIOUS
<1> DEFINE Kept == \A q \in Server : Holders(q)' = Holders(q)
<1>a. req' = req => Kept
  BY HoldersKept
<1>b. \A q \in Server : Dynamic(q) /\ ~info[q].running => Holders(q) = {}
  BY DEF Ledger, HeldInService
<1>1. ASSUME NEW s \in Server, BootLaunch(s) PROVE Ledger'
  BY <1>a, <1>1, LedgerFrame DEF BootLaunch
<1>2. ASSUME NEW s \in Server, BootReady(s) PROVE Ledger'
  <2>1. Kept
    BY <1>2, WakeKeepsHolders DEF BootReady
  <2>2. /\ \A q \in Server : info'[q].sessions = info[q].sessions
        /\ \A q \in Server : info[q].running => info'[q].running
    BY <1>2 DEF BootReady, TypeOK, ServerInfo
  <2> QED
    BY <1>2, <2>1, <2>2, LedgerFrame DEF BootReady
<1>3. ASSUME NEW s \in Server, BootFails(s) PROVE Ledger'
  <2>1. Kept
    BY <1>3, WakeKeepsHolders DEF BootFails
  <2>2. Dynamic(s) => Holders(s) = {}
    BY <1>b, <1>3 DEF BootFails, DynamicLifecycle
  <2>3. \A q \in Server : Holders(q) # {} /\ q \in tracked => q \in tracked'
    BY <1>3, <2>2 DEF BootFails
  <2> QED
    BY <1>3, <2>1, <2>3, LedgerFrame DEF BootFails
<1>4. ASSUME NEW s \in Server, QuietElapses(s) PROVE Ledger'
  <2>1. /\ \A q \in Server : info'[q].sessions = info[q].sessions
        /\ \A q \in Server : info'[q].running = info[q].running
    BY <1>4 DEF QuietElapses, TypeOK, ServerInfo
  <2> QED
    BY <1>a, <1>4, <2>1, LedgerFrame DEF QuietElapses
<1>5. ASSUME Cleanup PROVE Ledger'
  BY <1>a, <1>5, LedgerFrame DEF Cleanup
<1>6. ASSUME NEW s \in Server, StopBegin(s) PROVE Ledger'
  <2>1. CASE info[s].sessions > 0
    <3>1. info' = info
      BY <1>6, <2>1 DEF StopBegin
    <3> QED
      BY <1>a, <1>6, <3>1, LedgerFrame DEF StopBegin
  <2>2. CASE info[s].sessions = 0
    <3>1. Holders(s) = {}
      BY <2>2, ZeroMeansNobody DEF Ledger
    <3>2. info' = [info EXCEPT ![s].running = FALSE]
      BY <1>6, <2>2 DEF StopBegin
    <3>3. /\ \A q \in Server : info'[q].sessions = info[q].sessions
          /\ \A q \in Server : q # s => info'[q].running = info[q].running
      BY <3>2 DEF TypeOK, ServerInfo
    <3> QED
      BY <1>a, <1>6, <3>1, <3>3, LedgerFrame DEF StopBegin
  <2> QED
    BY <1>6, <2>1, <2>2 DEF StopBegin
<1>7. ASSUME NEW s \in Server, StopContainer(s) PROVE Ledger'
  BY <1>a, <1>7, LedgerFrame DEF StopContainer
<1>8. ASSUME NEW s \in Server, RemoveContainer(s) PROVE Ledger'
  BY <1>a, <1>8, LedgerFrame DEF RemoveContainer
<1>9. ASSUME NEW s \in Server, ForgetServer(s) PROVE Ledger'
  <2>1. Holders(s) = {}
    BY <1>b, <1>9 DEF ForgetServer, DynamicLifecycle
  <2>2. \A q \in Server : Holders(q) # {} /\ q \in tracked => q \in tracked'
    BY <1>9, <2>1 DEF ForgetServer
  <2> QED
    BY <1>a, <1>9, <2>2, LedgerFrame DEF ForgetServer
<1>10. ASSUME NEW s \in Server, StopFails(s) PROVE Ledger'
  <2>1. /\ \A q \in Server : info'[q].sessions = info[q].sessions
        /\ \A q \in Server : info[q].running => info'[q].running
    BY <1>10 DEF StopFails, TypeOK, ServerInfo
  <2> QED
    BY <1>a, <1>10, <2>1, LedgerFrame DEF StopFails
<1>11. ASSUME NEW s \in Server, MonitorConnects(s) PROVE Ledger'
  BY <1>a, <1>11, LedgerFrame DEF MonitorConnects
<1>12. ASSUME NEW s \in Server, MonitorReads(s) PROVE Ledger'
  <2>1. /\ \A q \in Server : info'[q].sessions = info[q].sessions
        /\ \A q \in Server : info'[q].running = info[q].running
    BY <1>12 DEF MonitorReads, TypeOK, ServerInfo
  <2> QED
    BY <1>a, <1>12, <2>1, LedgerFrame DEF MonitorReads
<1>13. ASSUME NEW s \in Server, MonitorLost(s) PROVE Ledger'
  <2>1. /\ \A q \in Server : info'[q].sessions = info[q].sessions
        /\ \A q \in Server : info'[q].running = info[q].running
    BY <1>13 DEF MonitorLost, TypeOK, ServerInfo
  <2> QED
    BY <1>a, <1>13, <2>1, LedgerFrame DEF MonitorLost
<1> QED
  BY <1>1, <1>2, <1>3, <1>4, <1>5, <1>6, <1>7, <1>8, <1>9, <1>10, <1>11, <1>12,
     <1>13 DEF ServerStep

\* The ledger holds in every behaviour.
LEMMA LedgerHolds == Spec => []Ledger
<1>1. TypeOK /\ DynamicLifecycle /\ Ledger /\ [Next]_vars => Ledger'
  <2>1. Ledger /\ UNCHANGED vars => Ledger'
    <3> SUFFICES ASSUME Ledger, UNCHANGED vars PROVE Ledger'
      OBVIOUS
    <3>1. \A q \in Server : Holders(q)' = Holders(q)
      BY HoldersKept DEF vars
    <3> QED
      BY <3>1, LedgerFrame DEF vars
  <2> QED
    BY <2>1, CallerStepLedger, ServerStepLedger DEF Next
<1> QED
  BY <1>1, InitLedger, TypeCorrect, DynamicLifecycleHolds, PTL DEF Spec

\* The session count of every server is the number of its holders.
THEOREM SessionLedgerHolds == Spec => []SessionLedger
<1>1. Ledger => SessionLedger
  BY DEF Ledger
<1> QED
  BY <1>1, LedgerHolds, PTL

\* A session is held only on a server that is known and in service, and on a
\* dynamic one only while no boot and no stop is under way: its phases leave a
\* server that is in service no other.
THEOREM HeldIsUpHolds == Spec => []HeldIsUp
<1>1. TypeOK /\ DynamicLifecycle /\ Ledger => HeldIsUp
  <2> SUFFICES ASSUME TypeOK, DynamicLifecycle, Ledger,
                      NEW s \in Server, Holders(s) # {}
               PROVE  /\ s \in tracked /\ info[s].running
                      /\ Dynamic(s) => boot[s] = "none" /\ stopping[s] \in {"none", "queued"}
    BY DEF HeldIsUp
  <2>1. s \in tracked /\ info[s].running
    BY DEF Ledger, HeldInService
  <2>2. stopping[s] \in StopPhase
    BY DEF TypeOK
  <2> QED
    BY <2>1, <2>2 DEF DynamicLifecycle, StopPhase
<1> QED
  BY <1>1, TypeCorrect, DynamicLifecycleHolds, LedgerHolds, PTL

-----------------------------------------------------------------------------
(* No lost wakeup *)

\* Waiting is begun with a boot task and ended with it.
LEMMA NextNoLostWakeup == TypeOK /\ NoLostWakeup /\ [Next]_vars => NoLostWakeup'
<1> SUFFICES ASSUME TypeOK, NoLostWakeup, [Next]_vars,
                    NEW q \in Request, req'[q].phase = "waiting"
             PROVE  boot'[req'[q].srv] # "none"
  BY DEF NoLostWakeup
<1>0. req[q].phase = "waiting" => req[q].srv \in Server /\ boot[req[q].srv] # "none"
  BY RequestShape DEF NoLostWakeup
<1>1. CASE UNCHANGED <<boot, req>>
  BY <1>0, <1>1
<1>2. ASSUME NEW r \in Request, NEW g \in Group, AssignRunning(r, g)
      PROVE boot'[req'[q].srv] # "none"
  BY <1>0, <1>2 DEF AssignRunning, At, TypeOK
<1>3. ASSUME NEW r \in Request, NEW g \in Group, WaitForStatic(r, g)
      PROVE boot'[req'[q].srv] # "none"
  BY <1>0, <1>3 DEF WaitForStatic, StoppedStatic, BootOnce, At, TypeOK
<1>4. ASSUME NEW r \in Request, NEW g \in Group, CreateDynamic(r, g)
      PROVE boot'[req'[q].srv] # "none"
  BY <1>0, <1>4 DEF CreateDynamic, BootOnce, At, TypeOK
<1>5. ASSUME NEW r \in Request, ClaimBooted(r) \/ WaitTimeout(r) \/ CloseSession(r)
      PROVE boot'[req'[q].srv] # "none"
  BY <1>0, <1>5 DEF ClaimBooted, WaitTimeout, CloseSession, At, NoRequest, TypeOK
<1>6. ASSUME NEW s \in Server, BootLaunch(s)
      PROVE boot'[req'[q].srv] # "none"
  BY <1>0, <1>6 DEF BootLaunch, TypeOK
<1>7. ASSUME NEW s \in Server, BootReady(s) \/ BootFails(s)
      PROVE boot'[req'[q].srv] # "none"
  <2>1. WakeWaiters(s) /\ boot' = [boot EXCEPT ![s] = "none"]
    BY <1>7 DEF BootReady, BootFails
  <2>2. req'[q] = req[q] /\ req[q] # At("waiting", s)
    BY <2>1 DEF WakeWaiters, At
  <2>3. req[q].srv # s
    BY <2>2, RequestShape
  <2> QED
    BY <1>0, <2>1, <2>2, <2>3 DEF TypeOK
<1>8. ASSUME NEW s \in Server,
             \/ QuietElapses(s)
             \/ StopBegin(s) \/ StopContainer(s) \/ RemoveContainer(s)
             \/ ForgetServer(s) \/ StopFails(s)
             \/ MonitorConnects(s) \/ MonitorReads(s) \/ MonitorLost(s)
      PROVE UNCHANGED <<boot, req>>
  BY <1>8 DEF QuietElapses, StopBegin, StopContainer, RemoveContainer, ForgetServer,
              StopFails, MonitorConnects, MonitorReads, MonitorLost
<1>9. Cleanup \/ UNCHANGED vars => UNCHANGED <<boot, req>>
  BY DEF Cleanup, vars
<1> QED
  BY <1>1, <1>2, <1>3, <1>4, <1>5, <1>6, <1>7, <1>8, <1>9
     DEF Next, CallerStep, ServerStep

\* Whoever waits for a start event waits for a boot that is under way.
THEOREM NoLostWakeupHolds == Spec => []NoLostWakeup
<1>1. Init => NoLostWakeup
  BY DEF Init, NoLostWakeup, NoRequest
<1> QED
  BY <1>1, NextNoLostWakeup, TypeCorrect, PTL DEF Spec

-----------------------------------------------------------------------------
(* A held dynamic container *)

\* A step that stops a container is one of a stop task, which found no session,
\* or the failure of a boot, whose server is not in service yet.
LEMMA StepStaysUp ==
  ASSUME TypeOK, DynamicLifecycle, Ledger, [Next]_vars,
         NEW q \in Server, Dynamic(q), Holders(q) # {}, container[q] = "running"
  PROVE  container'[q] = "running"
<1>1. /\ info[q].running
      /\ boot[q] = "none"
      /\ stopping[q] \notin {"stop", "remove"}
  BY DEF Ledger, HeldInService, DynamicLifecycle
<1>2. CASE container' = container
  BY <1>2
<1>3. ASSUME NEW s \in Server, BootLaunch(s) \/ BootFails(s)
      PROVE container'[q] = "running"
  BY <1>1, <1>3 DEF BootLaunch, BootFails, TypeOK
<1>4. ASSUME NEW s \in Server, StopContainer(s) \/ RemoveContainer(s) \/ StopFails(s)
      PROVE container'[q] = "running"
  BY <1>1, <1>4 DEF StopContainer, RemoveContainer, StopFails, TypeOK
<1>5. CallerStep \/ Cleanup \/ UNCHANGED vars => container' = container
  BY DEF CallerStep, AssignRunning, WaitForStatic, CreateDynamic, ClaimBooted,
         WaitTimeout, CloseSession, Cleanup, vars
<1>6. ASSUME NEW s \in Server,
             \/ BootReady(s) \/ QuietElapses(s) \/ StopBegin(s) \/ ForgetServer(s)
             \/ MonitorConnects(s) \/ MonitorReads(s) \/ MonitorLost(s)
      PROVE container' = container
  BY <1>6 DEF BootReady, QuietElapses, StopBegin, ForgetServer, MonitorConnects,
              MonitorReads, MonitorLost
<1> QED
  BY <1>2, <1>3, <1>4, <1>5, <1>6 DEF Next, ServerStep

\* A dynamic container is never stopped while a session is held on it.
THEOREM DynamicStaysUpHolds == Spec => DynamicStaysUp
<1>1. TypeOK /\ DynamicLifecycle /\ Ledger /\ [Next]_vars
        => [\A s \in Server :
              Dynamic(s) /\ Holders(s) # {} /\ container[s] = "running"
                => container'[s] = "running"]_vars
  BY StepStaysUp
<1> QED
  BY <1>1, TypeCorrect, DynamicLifecycleHolds, LedgerHolds, PTL
     DEF Spec, DynamicStaysUp

-----------------------------------------------------------------------------
(* A server in service is monitored *)

\* Monitored with what makes it inductive: a server that is about to be stopped
\* keeps its monitor, because a stop that fails puts it back in service, and a
\* static entry is never dropped, so that a new entry has no stop task yet.
Watched ==
  /\ Static \subseteq tracked
  /\ \A s \in tracked :
       info[s].running \/ stopping[s] \in {"queued", "stop", "remove"} => monitors[s] > 0

\* A caller's step adds at most an entry out of service, with no stop task.
LEMMA CallerStepWatched ==
  TypeOK /\ DynamicLifecycle /\ Watched /\ CallerStep => Watched'
<1> SUFFICES ASSUME TypeOK, DynamicLifecycle, Watched, CallerStep PROVE Watched'
  OBVIOUS
<1> USE DEF Watched, TypeOK, ServerInfo
<1>1. ASSUME NEW r \in Request, NEW g \in Group, AssignRunning(r, g) PROVE Watched'
  BY <1>1 DEF AssignRunning, Candidates
<1>2. ASSUME NEW r \in Request, NEW g \in Group, WaitForStatic(r, g) PROVE Watched'
  BY <1>2 DEF WaitForStatic
<1>3. ASSUME NEW r \in Request, NEW g \in Group, CreateDynamic(r, g) PROVE Watched'
  BY <1>3 DEF CreateDynamic, IsNextName, NewInfo, DynamicLifecycle, Dynamic
<1>4. ASSUME NEW r \in Request, ClaimBooted(r) PROVE Watched'
  <2>1. req[r].srv \in Server
    BY <1>4, RequestShape DEF ClaimBooted
  <2> QED
    BY <1>4, <2>1 DEF ClaimBooted
<1>5. ASSUME NEW r \in Request, WaitTimeout(r) PROVE Watched'
  BY <1>5 DEF WaitTimeout
<1>6. ASSUME NEW r \in Request, CloseSession(r) PROVE Watched'
  <2>1. req[r].srv \in Server
    BY <1>6, RequestShape DEF CloseSession
  <2> QED
    BY <1>6, <2>1 DEF CloseSession, ReleaseSession
<1> QED
  BY <1>1, <1>2, <1>3, <1>4, <1>5, <1>6 DEF CallerStep

\* A boot starts a monitor, and a monitor counts until its entry is dropped.
LEMMA ServerStepWatched ==
  TypeOK /\ DynamicLifecycle /\ Watched /\ (ServerStep \/ Cleanup) => Watched'
<1> SUFFICES ASSUME TypeOK, DynamicLifecycle, Watched, ServerStep \/ Cleanup
             PROVE  Watched'
  OBVIOUS
<1> USE DEF Watched, TypeOK, ServerInfo
<1>1. ASSUME NEW s \in Server, BootLaunch(s) PROVE Watched'
  BY <1>1 DEF BootLaunch
<1>2. ASSUME NEW s \in Server, BootReady(s) PROVE Watched'
  BY <1>2, ManagerAssumption DEF BootReady
<1>3. ASSUME NEW s \in Server, BootFails(s) PROVE Watched'
  BY <1>3 DEF BootFails, Dynamic
<1>4. ASSUME NEW s \in Server, QuietElapses(s) PROVE Watched'
  BY <1>4 DEF QuietElapses
<1>5. ASSUME Cleanup PROVE Watched'
  BY <1>5 DEF Cleanup, IdleServers
<1>6. ASSUME NEW s \in Server, StopBegin(s) PROVE Watched'
  BY <1>6 DEF StopBegin
<1>7. ASSUME NEW s \in Server, StopContainer(s) PROVE Watched'
  BY <1>7 DEF StopContainer
<1>8. ASSUME NEW s \in Server, RemoveContainer(s) PROVE Watched'
  BY <1>8 DEF RemoveContainer
<1>9. ASSUME NEW s \in Server, ForgetServer(s) PROVE Watched'
  BY <1>9 DEF ForgetServer, DynamicLifecycle, Dynamic
<1>10. ASSUME NEW s \in Server, StopFails(s) PROVE Watched'
  BY <1>10 DEF StopFails
<1>11. ASSUME NEW s \in Server, MonitorConnects(s) PROVE Watched'
  BY <1>11 DEF MonitorConnects
<1>12. ASSUME NEW s \in Server, MonitorReads(s) PROVE Watched'
  BY <1>12 DEF MonitorReads
<1>13. ASSUME NEW s \in Server, MonitorLost(s) PROVE Watched'
  BY <1>13 DEF MonitorLost
<1> QED
  BY <1>1, <1>2, <1>3, <1>4, <1>5, <1>6, <1>7, <1>8, <1>9, <1>10, <1>11, <1>12,
     <1>13 DEF ServerStep

\* Whatever stops, failed stops and boots it went through, a server in service
\* has a monitor.
THEOREM MonitoredHolds == Spec => []Monitored
<1>1. Init => Watched
  <2> SUFFICES ASSUME Init, NEW s \in Static,
                      info[s].running \/ stopping[s] \in {"queued", "stop", "remove"}
               PROVE  monitors[s] > 0
    BY DEF Init, Watched
  <2>1. s \in Server
    BY ManagerAssumption
  <2>2. container[s] = "running"
    BY <2>1 DEF Init, NewInfo
  <2> QED
    BY <2>1, <2>2 DEF Init
<1>2. TypeOK /\ DynamicLifecycle /\ Watched /\ [Next]_vars => Watched'
  <2>1. Watched /\ UNCHANGED vars => Watched'
    BY DEF Watched, vars
  <2> QED
    BY <2>1, CallerStepWatched, ServerStepWatched DEF Next
<1>3. Watched => Monitored
  BY DEF Watched, Monitored
<1> QED
  BY <1>1, <1>2, <1>3, TypeCorrect, DynamicLifecycleHolds, PTL DEF Spec

-----------------------------------------------------------------------------
(* The names of dynamic containers *)

\* FreshName with what makes it inductive: the entry of a stopped server is
\* dropped only once its container is gone.
Fresh ==
  /\ FreshName
  /\ \A s \in Server : stopping[s] = "forget" => container[s] = "absent"

\* No step of a docker that raises nothing breaks it.
LEMMA NextFresh ==
  DockerMayFail = FALSE /\ TypeOK /\ DynamicLifecycle /\ Fresh /\ [Next]_vars => Fresh'
<1> SUFFICES ASSUME DockerMayFail = FALSE, TypeOK, DynamicLifecycle, Fresh, [Next]_vars
             PROVE  Fresh'
  OBVIOUS
<1> USE DEF Fresh, FreshName, Dynamic, TypeOK
<1>1. CASE UNCHANGED <<tracked, boot, stopping, container>>
  BY <1>1
<1>2. ASSUME NEW r \in Request, NEW g \in Group,
             WaitForStatic(r, g) \/ CreateDynamic(r, g)
      PROVE Fresh'
  BY <1>2 DEF WaitForStatic, StoppedStatic, CreateDynamic, IsNextName, BootOnce
<1>3. ASSUME NEW s \in Server, BootLaunch(s) PROVE Fresh'
  BY <1>3 DEF BootLaunch, DynamicLifecycle
<1>4. ASSUME NEW s \in Server, BootReady(s) PROVE Fresh'
  BY <1>4 DEF BootReady
<1>5. ASSUME NEW s \in Server, BootFails(s) PROVE Fresh'
  <2>1. ~Dynamic(s) /\ container' = container
    BY <1>5 DEF BootFails, Launchable
  <2> QED
    BY <1>5, <2>1 DEF BootFails
<1>6. ASSUME Cleanup PROVE Fresh'
  BY <1>6 DEF Cleanup
<1>7. ASSUME NEW s \in Server, StopBegin(s) PROVE Fresh'
  BY <1>7 DEF StopBegin
<1>8. ASSUME NEW s \in Server, StopContainer(s) PROVE Fresh'
  BY <1>8 DEF StopContainer, DynamicLifecycle
<1>9. ASSUME NEW s \in Server, RemoveContainer(s) PROVE Fresh'
  BY <1>9 DEF RemoveContainer, DynamicLifecycle
<1>10. ASSUME NEW s \in Server, ForgetServer(s) PROVE Fresh'
  BY <1>10 DEF ForgetServer
<1>11. ASSUME NEW s \in Server, StopFails(s) PROVE Fresh'
  BY <1>11 DEF StopFails, StopLeftover, DynamicLifecycle
<1>12. ASSUME NEW r \in Request, NEW g \in Group, AssignRunning(r, g)
       PROVE UNCHANGED <<tracked, boot, stopping, container>>
  BY <1>12 DEF AssignRunning
<1>13. ASSUME NEW r \in Request, ClaimBooted(r) \/ WaitTimeout(r) \/ CloseSession(r)
       PROVE UNCHANGED <<tracked, boot, stopping, container>>
  BY <1>13 DEF ClaimBooted, WaitTimeout, CloseSession
<1>14. ASSUME NEW s \in Server,
              \/ QuietElapses(s)
              \/ MonitorConnects(s) \/ MonitorReads(s) \/ MonitorLost(s)
       PROVE UNCHANGED <<tracked, boot, stopping, container>>
  BY <1>14 DEF QuietElapses, MonitorConnects, MonitorReads, MonitorLost
<1>15. UNCHANGED vars => UNCHANGED <<tracked, boot, stopping, container>>
  BY DEF vars
<1> QED
  BY <1>1, <1>2, <1>3, <1>4, <1>5, <1>6, <1>7, <1>8, <1>9, <1>10, <1>11, <1>12,
     <1>13, <1>14, <1>15 DEF Next, CallerStep, ServerStep

\* While docker raises nothing, a new dynamic server gets a name that belongs
\* to no container.
THEOREM FreshNameHolds ==
  ASSUME DockerMayFail = FALSE
  PROVE  Spec => []FreshName
<1>1. Init => Fresh
  BY DEF Init, Fresh, FreshName
<1>2. TypeOK /\ DynamicLifecycle /\ Fresh /\ [Next]_vars => Fresh'
  BY NextFresh
<1>3. Fresh => FreshName
  BY DEF Fresh
<1> QED
  BY <1>1, <1>2, <1>3, TypeCorrect, DynamicLifecycleHolds, PTL DEF Spec

-----------------------------------------------------------------------------
(* The manager implements SessionLease *)

\* A caller that is not given a session holds no place, before and after.
LEMMA PlaceKept ==
  ASSUME \A q \in Server : Holders(q)' = Holders(q), TypeOK, TypeOK'
  PROVE  Place' = Place
<1> SUFFICES ASSUME NEW r \in Request PROVE Place'[r] = Place[r]
  BY DEF Place
<1>1. \A s \in Server : req[r] = At("open", s) <=> req'[r] = At("open", s)
  BY DEF Holders
<1> QED
  BY <1>1 DEF Place, TypeOK, RequestState, At

\* A session granted on a server in service is a Grant.
LEMMA GrantStep ==
  ASSUME TypeOK, NEW r \in Request, NEW s \in Server,
         req[r].phase # "open", info[s].running,
         req' = [req EXCEPT ![r] = At("open", s)],
         info' = [info EXCEPT ![s].sessions = @ + 1]
  PROVE  Lease!Grant(r, s)
<1>1. Place[r] = NoServer
  BY DEF Place
<1>2. s \in InService
  BY DEF InService
<1>3. Place' = [Place EXCEPT ![r] = s]
  BY DEF Place, At, TypeOK
<1>4. InService' = InService
  BY DEF InService, TypeOK, ServerInfo
<1> QED
  BY <1>1, <1>2, <1>3, <1>4 DEF Lease!Grant

\* The initial states of the manager are initial states of SessionLease.
LEMMA InitLease == Init => Lease!LeaseInit
  BY DEF Init, NoRequest, Place, InService, Lease!LeaseInit

\* A step of a caller is a step of SessionLease, or none.
LEMMA CallerStepLease ==
  ASSUME TypeOK, TypeOK', Ledger, CallerStep
  PROVE  [Lease!LeaseNext]_(Lease!leaseVars)
<1> DEFINE Step == [Lease!LeaseNext]_(Lease!leaseVars)
<1>a. Place' = Place /\ InService' = InService => Step
  BY DEF Lease!leaseVars
<1>b. info' = info => InService' = InService
  BY DEF InService
<1>c. \A r \in Request, s \in Server : Lease!Grant(r, s) => Step
  BY DEF Lease!LeaseNext
<1>1. ASSUME NEW r \in Request, NEW g \in Group, AssignRunning(r, g)
      PROVE Step
  <2>1. PICK best \in Candidates(g) :
          /\ info' = [info EXCEPT ![best].sessions = @ + 1]
          /\ req' = [req EXCEPT ![r] = At("open", best)]
    BY <1>1 DEF AssignRunning
  <2>2. best \in Server /\ info[best].running
    BY DEF Candidates, TypeOK
  <2>3. req[r].phase # "open"
    BY <1>1 DEF AssignRunning, NoRequest
  <2> QED
    BY <1>c, <2>1, <2>2, <2>3, GrantStep
<1>2. ASSUME NEW r \in Request, NEW g \in Group, WaitForStatic(r, g)
      PROVE Step
  <2>1. \A q \in Server : Holders(q)' = Holders(q)
    BY <1>2, HoldersKept DEF WaitForStatic, NoRequest, At, TypeOK
  <2> QED
    BY <1>a, <1>b, <1>2, <2>1, PlaceKept DEF WaitForStatic
<1>3. ASSUME NEW r \in Request, NEW g \in Group, CreateDynamic(r, g)
      PROVE Step
  <2>1. \A q \in Server : Holders(q)' = Holders(q)
    BY <1>3, HoldersKept DEF CreateDynamic, NoRequest, At, TypeOK
  <2>2. Place' = Place
    BY <2>1, PlaceKept
  <2>3. PICK s \in Server :
          /\ IsNextName(s)
          /\ info' = [info EXCEPT ![s] = NewInfo(FALSE)]
    BY <1>3 DEF CreateDynamic
  <2>4. InService' = InService \ {s}
    BY <2>3 DEF InService, NewInfo, TypeOK
  <2>5. Holders(s) = {}
    BY <2>3 DEF IsNextName, Ledger, HeldInService
  <2>6. \A r2 \in Request : Place[r2] # s
    BY <2>5, ManagerAssumption DEF Place, Holders, At, TypeOK, RequestState
  <2> QED
    BY <2>2, <2>4, <2>6 DEF Lease!LeaseNext, Lease!Retire
<1>4. ASSUME NEW r \in Request, ClaimBooted(r)
      PROVE Step
  <2>1. req[r].srv \in Server /\ req[r].phase # "open"
    BY <1>4, RequestShape DEF ClaimBooted
  <2>2. PICK s \in Server : s = req[r].srv
    BY <2>1
  <2>3. CASE s \in tracked /\ info[s].running
    BY <1>c, <1>4, <2>1, <2>2, <2>3, GrantStep DEF ClaimBooted
  <2>4. CASE ~(s \in tracked /\ info[s].running)
    <3>1. req' = [req EXCEPT ![r] = NoRequest] /\ info' = info
      BY <1>4, <2>2, <2>4 DEF ClaimBooted
    <3>2. \A q \in Server : Holders(q)' = Holders(q)
      BY <2>1, <3>1, HoldersKept DEF NoRequest, TypeOK
    <3> QED
      BY <1>a, <1>b, <3>1, <3>2, PlaceKept
  <2> QED
    BY <2>3, <2>4
<1>5. ASSUME NEW r \in Request, WaitTimeout(r)
      PROVE Step
  <2>1. \A q \in Server : Holders(q)' = Holders(q)
    BY <1>5, HoldersKept DEF WaitTimeout, NoRequest, TypeOK
  <2> QED
    BY <1>a, <1>b, <1>5, <2>1, PlaceKept DEF WaitTimeout
<1>6. ASSUME NEW r \in Request, CloseSession(r)
      PROVE Step
  <2>1. PICK s \in Server : req[r] = At("open", s) /\ s = req[r].srv
    BY <1>6, RequestShape DEF CloseSession
  <2>2. Place[r] # NoServer
    BY <2>1, ManagerAssumption DEF Place, At
  <2>3. Place' = [Place EXCEPT ![r] = NoServer]
    BY <1>6 DEF CloseSession, NoRequest, Place, TypeOK
  <2>4. \A q \in Server : info'[q].running = info[q].running
    BY <1>6, <2>1, ReleaseEffect
  <2>5. InService' = InService
    BY <2>4 DEF InService
  <2> QED
    BY <2>2, <2>3, <2>5 DEF Lease!LeaseNext, Lease!Release
<1> QED
  BY <1>1, <1>2, <1>3, <1>4, <1>5, <1>6 DEF CallerStep

\* So is a step of a boot, a stop, the cleanup or a monitor.
LEMMA ServerStepLease ==
  ASSUME TypeOK, TypeOK', Ledger, ServerStep \/ Cleanup
  PROVE  [Lease!LeaseNext]_(Lease!leaseVars)
<1> DEFINE Step == [Lease!LeaseNext]_(Lease!leaseVars)
<1>a. Place' = Place /\ InService' = InService => Step
  BY DEF Lease!leaseVars
<1>b. info' = info => InService' = InService
  BY DEF InService
<1>c. req' = req => Place' = Place
  BY DEF Place
<1>d. ASSUME NEW s \in Server, Place' = Place, info' = [info EXCEPT ![s].running = TRUE]
      PROVE Step
  <2>1. InService' = InService \cup {s}
    BY <1>d DEF InService, TypeOK, ServerInfo
  <2> QED
    BY <1>d, <2>1 DEF Lease!LeaseNext, Lease!Launch
<1>e. (\A q \in Server : info'[q].running = info[q].running) => InService' = InService
  BY DEF InService
<1>1. ASSUME NEW s \in Server, BootLaunch(s) PROVE Step
  BY <1>a, <1>b, <1>c, <1>1 DEF BootLaunch
<1>2. ASSUME NEW s \in Server, BootReady(s) PROVE Step
  <2>1. Place' = Place
    BY <1>2, WakeKeepsHolders, PlaceKept DEF BootReady
  <2> QED
    BY <1>d, <1>2, <2>1 DEF BootReady
<1>3. ASSUME NEW s \in Server, BootFails(s) PROVE Step
  <2>1. Place' = Place
    BY <1>3, WakeKeepsHolders, PlaceKept DEF BootFails
  <2> QED
    BY <1>a, <1>b, <1>3, <2>1 DEF BootFails
<1>4. ASSUME NEW s \in Server, QuietElapses(s) PROVE Step
  <2>1. \A q \in Server : info'[q].running = info[q].running
    BY <1>4 DEF QuietElapses, TypeOK, ServerInfo
  <2> QED
    BY <1>a, <1>c, <1>e, <1>4, <2>1 DEF QuietElapses
<1>5. ASSUME Cleanup PROVE Step
  BY <1>a, <1>b, <1>c, <1>5 DEF Cleanup
<1>6. ASSUME NEW s \in Server, StopBegin(s) PROVE Step
  <2>1. CASE info[s].sessions > 0
    BY <1>a, <1>b, <1>c, <1>6, <2>1 DEF StopBegin
  <2>2. CASE info[s].sessions = 0
    <3>1. Holders(s) = {}
      BY <2>2, ZeroMeansNobody DEF Ledger
    <3>2. \A r \in Request : Place[r] # s
      BY <3>1, ManagerAssumption DEF Place, Holders, At, TypeOK, RequestState
    <3>3. info' = [info EXCEPT ![s].running = FALSE]
      BY <1>6, <2>2 DEF StopBegin
    <3>4. InService' = InService \ {s}
      BY <3>3 DEF InService, TypeOK, ServerInfo
    <3> QED
      BY <1>c, <1>6, <3>2, <3>4 DEF StopBegin, Lease!LeaseNext, Lease!Retire
  <2> QED
    BY <1>6, <2>1, <2>2 DEF StopBegin
<1>7. ASSUME NEW s \in Server, StopContainer(s) \/ RemoveContainer(s) \/ ForgetServer(s)
      PROVE Step
  BY <1>a, <1>b, <1>c, <1>7 DEF StopContainer, RemoveContainer, ForgetServer
<1>8. ASSUME NEW s \in Server, StopFails(s) PROVE Step
  BY <1>c, <1>d, <1>8 DEF StopFails
<1>9. ASSUME NEW s \in Server, MonitorConnects(s) PROVE Step
  BY <1>a, <1>b, <1>c, <1>9 DEF MonitorConnects
<1>10. ASSUME NEW s \in Server, MonitorReads(s) PROVE Step
  <2>1. \A q \in Server : info'[q].running = info[q].running
    BY <1>10 DEF MonitorReads, TypeOK, ServerInfo
  <2> QED
    BY <1>a, <1>c, <1>e, <1>10, <2>1 DEF MonitorReads
<1>11. ASSUME NEW s \in Server, MonitorLost(s) PROVE Step
  <2>1. \A q \in Server : info'[q].running = info[q].running
    BY <1>11 DEF MonitorLost, TypeOK, ServerInfo
  <2> QED
    BY <1>a, <1>c, <1>e, <1>11, <2>1 DEF MonitorLost
<1> QED
  BY <1>1, <1>2, <1>3, <1>4, <1>5, <1>6, <1>7, <1>8, <1>9, <1>10, <1>11 DEF ServerStep

\* The manager implements SessionLease.
THEOREM Implementation == Spec => KeepsLease
<1>1. TypeOK /\ TypeOK' /\ Ledger /\ [Next]_vars => [Lease!LeaseNext]_(Lease!leaseVars)
  <2>1. UNCHANGED vars => UNCHANGED Lease!leaseVars
    BY DEF vars, Lease!leaseVars, Place, InService
  <2> QED
    BY <2>1, CallerStepLease, ServerStepLease DEF Next
<1> QED
  BY <1>1, InitLease, TypeCorrect, LedgerHolds, PTL DEF Spec, KeepsLease, Lease!LeaseSpec
=============================================================================
