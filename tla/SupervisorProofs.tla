-------------------------- MODULE SupervisorProofs --------------------------
(***************************************************************************)
(* Proofs about Supervisor, for every set of players and of reports.       *)
(*                                                                         *)
(* The inductive invariant is TypeOK with Rounds, which says what is left  *)
(* of a game at each place of the run loop and of the shutdown, and with   *)
(* FreshMatch.  A game is launched over no other one because nothing but   *)
(* the termination of the former leads out of its round (Rounds), and on a *)
(* fresh match state because the log watcher does not outlive the round    *)
(* (TypeOK).                                                               *)
(***************************************************************************)
EXTENDS Supervisor, TLAPS

\* What is left of a game outside of its round, and of the program after its
\* end.
Rounds ==
  /\ orphans = 0
  /\ loop \in {"launch", "retry"} => game \in {"none", "exited"}
  /\ loop = "pause" => game \in {"none", "killed", "exited"}
  /\ loop = "launch" => main = "up"
  /\ main # "up" => watcher = "none"
  /\ main = "stopping" => game # "up"
  /\ main = "cut" => loop = "over" /\ game # "up"
  /\ main = "down" => loop = "over" /\ game \notin {"up", "terminated"}

Inv == TypeOK /\ Rounds /\ FreshMatch

-----------------------------------------------------------------------------
(* The match state *)

\* An operation of the match state keeps its type.
MatchOperation ==
  \/ \E u \in User : PlayerConnected(u) \/ PlayerDisconnected(u)
  \/ SetMatchStarted \/ SetServerReady \/ SignalMatchEnd
  \/ SetOffline \/ ResetMatch
  \/ \E push \in TrackerPush : UpdateFromTracker(push)
  \/ UNCHANGED matchVars

\* The tasks that are started for the players who left stay within their bound.
LEMMA LeaveType ==
  ASSUME MatchTypeOK, NEW gone \in SUBSET User, Leave(gone)
  PROVE  leaving' \in [User -> 0..MaxTasks]
  BY MatchAssumption DEF MatchTypeOK, Leave

\* Every operation of the match state keeps the types of its variables.
LEMMA OperationType == MatchTypeOK /\ MatchOperation => MatchTypeOK'
<1> SUFFICES ASSUME MatchTypeOK, MatchOperation PROVE MatchTypeOK'
  OBVIOUS
<1> USE MatchAssumption DEF MatchTypeOK, Status, Entry
<1>1. ASSUME NEW u \in User, PlayerConnected(u) PROVE MatchTypeOK'
  BY <1>1 DEF PlayerConnected, matchVars
<1>2. ASSUME NEW u \in User, PlayerDisconnected(u) PROVE MatchTypeOK'
  <2>1. leaving' \in [User -> 0..MaxTasks]
    BY <1>2, LeaveType DEF PlayerDisconnected, matchVars
  <2> QED
    BY <1>2, <2>1 DEF PlayerDisconnected, matchVars
<1>3. CASE SetMatchStarted \/ SetServerReady \/ SetOffline \/ ResetMatch
  BY <1>3 DEF SetMatchStarted, SetServerReady, SetOffline, ResetMatch
<1>4. CASE SignalMatchEnd
  BY <1>4 DEF SignalMatchEnd
<1>5. ASSUME NEW push \in TrackerPush, UpdateFromTracker(push) PROVE MatchTypeOK'
  <2>1. push.state \in Status \cup {""}
    BY DEF Push
  <2>2. leaving' \in [User -> 0..MaxTasks]
    BY <1>5, LeaveType DEF UpdateFromTracker, Departed
  <2>3. status' \in Status /\ started' \in BOOLEAN /\ ending' = ending
    BY <1>5, <2>1 DEF UpdateFromTracker
  <2>4. players' \in [User -> Entry]
    BY <1>5 DEF UpdateFromTracker
  <2> QED
    BY <2>2, <2>3, <2>4
<1>6. CASE UNCHANGED matchVars
  BY <1>6 DEF matchVars
<1> QED
  BY <1>1, <1>2, <1>3, <1>4, <1>5, <1>6 DEF MatchOperation

-----------------------------------------------------------------------------
(* The invariant *)

\* A program that starts has no game and a fresh match state.
LEMMA InitInv == Init => Inv
<1> SUFFICES ASSUME Init PROVE Inv
  OBVIOUS
<1>1. MatchTypeOK
  <2>1. 0 \in 0..MaxTasks
    BY MatchAssumption
  <2> QED
    BY <2>1 DEF Init, MatchInit, MatchTypeOK, Status, Entry
<1>2. TypeOK
  BY <1>1 DEF Init, TypeOK, Loop, Game, Watcher, Main
<1>3. Rounds /\ FreshMatch
  BY DEF Init, MatchInit, Rounds, FreshMatch
<1> QED
  BY <1>1, <1>2, <1>3 DEF Inv

\* The step of the run loop from one place to the next.
LEMMA LoopStepInv == Inv /\ LoopStep => Inv'
<1> SUFFICES ASSUME Inv, LoopStep PROVE Inv'
  OBVIOUS
<1> USE DEF Inv, TypeOK, Rounds, FreshMatch, Loop, Game, Watcher, Main, Alive, Running
<1>a. SetOffline \/ ResetMatch \/ UNCHANGED matchVars => MatchTypeOK'
  BY OperationType DEF MatchOperation
<1>1. CASE Launched
  BY <1>1, <1>a DEF Launched
<1>2. CASE LaunchFails
  BY <1>2, <1>a DEF LaunchFails
<1>3. CASE Wake
  BY <1>3, <1>a DEF Wake
<1>4. CASE WatchersCancelled
  BY <1>4, <1>a DEF WatchersCancelled, Conclude
<1>5. CASE Terminated
  BY <1>5, <1>a DEF Terminated, Conclude
<1>6. CASE SleepOver
  <2>1. CASE Running
    BY <1>6, <1>a, <2>1 DEF SleepOver, Begin, ResetMatch
  <2>2. CASE ~Running
    BY <1>6, <1>a, <2>2 DEF SleepOver
  <2> QED
    BY <2>1, <2>2
<1> QED
  BY <1>1, <1>2, <1>3, <1>4, <1>5, <1>6 DEF LoopStep

\* What the log, the tracker, the watchdog and the administrators bring.
LEMMA ReportInv ==
  Inv /\ (LogFound \/ LogGivenUp \/ LogLine \/ TrackerPushes \/ IdleRestart
            \/ AdminRestart) => Inv'
<1> SUFFICES ASSUME Inv, LogFound \/ LogGivenUp \/ LogLine \/ TrackerPushes
                           \/ IdleRestart \/ AdminRestart
             PROVE  Inv'
  OBVIOUS
<1> USE DEF Inv, TypeOK, Rounds, FreshMatch, Loop, Game, Watcher, Main
<1>a. /\ SetServerReady \/ SetMatchStarted \/ SignalMatchEnd => MatchTypeOK'
      /\ (\E push \in TrackerPush : UpdateFromTracker(push)) => MatchTypeOK'
      /\ UNCHANGED matchVars => MatchTypeOK'
  BY OperationType DEF MatchOperation
<1>1. CASE LogFound \/ LogGivenUp
  <2>1. MatchTypeOK' /\ UNCHANGED <<status, started, players>>
    BY <1>1, <1>a DEF LogFound, LogGivenUp, matchVars
  <2> QED
    BY <1>1, <2>1 DEF LogFound, LogGivenUp
<1>2. CASE LogLine
  <2>1. loop # "launch" /\ UNCHANGED <<loop, game, orphans, watcher, main>>
    BY <1>2 DEF LogLine
  <2>2. MatchTypeOK'
    BY <1>2, <1>a DEF LogLine
  <2>3. wanted' \in BOOLEAN
    BY <1>2, SupervisorAssumption DEF LogLine
  <2> QED
    BY <2>1, <2>2, <2>3
<1>3. CASE TrackerPushes
  BY <1>3, <1>a DEF TrackerPushes, supervisorVars
<1>4. CASE IdleRestart \/ AdminRestart
  <2>1. MatchTypeOK' /\ UNCHANGED <<status, started, players>>
    BY <1>4, <1>a DEF IdleRestart, AdminRestart, matchVars
  <2> QED
    BY <1>4, <2>1 DEF IdleRestart, AdminRestart
<1> QED
  BY <1>1, <1>2, <1>3, <1>4

\* The shutdown, and an exit of the game.
LEMMA EndInv == Inv /\ (Signal \/ SignalAgain \/ Stop \/ Stopped \/ GameExits) => Inv'
<1> SUFFICES ASSUME Inv, Signal \/ SignalAgain \/ Stop \/ Stopped \/ GameExits PROVE Inv'
  OBVIOUS
<1> USE DEF Inv, TypeOK, Rounds, FreshMatch, Loop, Game, Watcher, Main, Alive
<1>a. UNCHANGED matchVars => MatchTypeOK'
  BY OperationType DEF MatchOperation
<1>b. MatchTypeOK' /\ UNCHANGED <<status, started, players>>
  BY <1>a DEF Signal, SignalAgain, Stop, Stopped, GameExits, matchVars
<1>1. CASE Signal \/ SignalAgain
  BY <1>1, <1>b DEF Signal, SignalAgain
<1>2. CASE Stop
  BY <1>2, <1>b DEF Stop
<1>3. CASE Stopped
  BY <1>3, <1>b DEF Stopped
<1>4. CASE GameExits
  BY <1>4, <1>b DEF GameExits
<1> QED
  BY <1>1, <1>2, <1>3, <1>4

\* What the proxy does to the player list, at any place of the run loop: a
\* player it puts on the list was not reported by the DLL.
LEMMA ProxyInv == Inv /\ ProxySteps => Inv'
<1> SUFFICES ASSUME Inv, ProxySteps PROVE Inv'
  OBVIOUS
<1> USE DEF Inv, TypeOK
<1>1. UNCHANGED supervisorVars
  BY DEF ProxySteps
<1>2. MatchTypeOK'
  <2>1. CASE \E u \in User : PlayerConnected(u) \/ PlayerDisconnected(u)
    BY <2>1, OperationType DEF MatchOperation
  <2>2. ASSUME NEW u \in User, leaving[u] > 0,
               leaving' = [leaving EXCEPT ![u] = @ - 1],
               UNCHANGED <<status, started, players, ending>>
        PROVE  MatchTypeOK'
    BY <2>2, MatchAssumption DEF MatchTypeOK
  <2>3. CASE ending > 0 /\ ending' = ending - 1
               /\ UNCHANGED <<status, started, players, leaving>>
    BY <2>3, MatchAssumption DEF MatchTypeOK
  <2> QED
    BY <2>1, <2>2, <2>3 DEF ProxySteps
<1>3. FreshMatch'
  <2> SUFFICES ASSUME loop = "launch"
               PROVE  /\ status' \in {"WaitingForServer", "WaitingForPlayers"}
                      /\ ~started'
                      /\ \A u \in User : players'[u] # "dll"
    BY <1>1 DEF FreshMatch, supervisorVars
  <2>1. ASSUME NEW u \in User, PlayerConnected(u) \/ PlayerDisconnected(u)
        PROVE  /\ status' \in {"WaitingForServer", "WaitingForPlayers"}
               /\ ~started'
               /\ \A v \in User : players'[v] # "dll"
    BY <2>1 DEF PlayerConnected, PlayerDisconnected, matchVars, FreshMatch, MatchTypeOK,
                Entry
  <2>2. CASE UNCHANGED <<status, started, players>>
    BY <2>2 DEF FreshMatch
  <2> QED
    BY <2>1, <2>2 DEF ProxySteps
<1> QED
  BY <1>1, <1>2, <1>3 DEF Rounds, supervisorVars

\* The invariant holds in every behaviour.
LEMMA InvHolds == Spec => []Inv
<1>1. Inv /\ [Next]_vars => Inv'
  <2>1. Inv /\ UNCHANGED vars => Inv'
    BY DEF Inv, TypeOK, Rounds, FreshMatch, MatchTypeOK, vars, supervisorVars, matchVars
  <2> QED
    BY <2>1, LoopStepInv, ReportInv, EndInv, ProxyInv DEF Next
<1> QED
  BY <1>1, InitInv, PTL DEF Spec

-----------------------------------------------------------------------------
(* The properties *)

\* Every variable keeps its type, and no log watcher outlives its round.
THEOREM SupervisorTypeCorrect == Spec => []TypeOK
<1>1. Inv => TypeOK
  BY DEF Inv
<1> QED
  BY <1>1, InvHolds, PTL

\* No game is ever launched over another.
THEOREM OneGameHolds == Spec => []OneGame
<1>1. Inv => OneGame
  BY DEF Inv, Rounds, OneGame
<1> QED
  BY <1>1, InvHolds, PTL

\* The program leaves no game behind that it did not kill, or at least told to
\* end if a second signal cut its shutdown short.
THEOREM NoneLeftHolds == Spec => []NoneLeft
<1>1. Inv => NoneLeft
  BY DEF Inv, Rounds, NoneLeft
<1> QED
  BY <1>1, InvHolds, PTL

\* A game is launched on a match state that holds nothing of the former one.
THEOREM FreshMatchHolds == Spec => []FreshMatch
<1>1. Inv => FreshMatch
  BY DEF Inv
<1> QED
  BY <1>1, InvHolds, PTL

\* A request for a restart is cleared only at the beginning of a launch.
THEOREM RequestKeptHolds == Spec => RequestKept
<1>1. TypeOK /\ [Next]_vars
        => [wanted /\ ~wanted' => loop # "launch" /\ loop' = "launch"]_vars
  <2> SUFFICES ASSUME TypeOK, Next, wanted, ~wanted'
               PROVE  loop # "launch" /\ loop' = "launch"
    BY DEF TypeOK
  <2>1. CASE LoopStep
    BY <2>1 DEF LoopStep, Launched, LaunchFails, Wake, WatchersCancelled, Terminated,
                SleepOver, Begin
  <2>2. CASE LogFound \/ LogGivenUp \/ LogLine
    BY <2>2 DEF LogFound, LogGivenUp, LogLine
  <2>3. CASE TrackerPushes \/ IdleRestart \/ AdminRestart \/ ProxySteps
    BY <2>3 DEF TrackerPushes, IdleRestart, AdminRestart, ProxySteps, supervisorVars
  <2>4. CASE Signal \/ SignalAgain \/ Stop \/ Stopped \/ GameExits
    BY <2>4 DEF Signal, SignalAgain, Stop, Stopped, GameExits
  <2> QED
    BY <2>1, <2>2, <2>3, <2>4 DEF Next
<1> QED
  BY <1>1, SupervisorTypeCorrect, PTL DEF Spec, RequestKept
=============================================================================
