------------------------------ MODULE Supervisor ------------------------------
(***************************************************************************)
(* The supervisor of one game server (elefrac/game_supervisor.py): it      *)
(* launches the game, watches its process and its log, takes what the      *)
(* tracker DLL pushes, and launches the game anew when it exits or when a  *)
(* restart is asked for; with the shutdown of elefrac/main.py, which       *)
(* cancels every task at each signal and stops the game after the first.   *)
(*                                                                         *)
(* _run_loop is suspended while the process is created, while its watchers *)
(* run, while they are cancelled, while the game ends and while it sleeps; *)
(* what happens at each of these places is what can go wrong here.         *)
(*                                                                         *)
(* Left out: the clock.  What it orders is in the guards: a killed process *)
(* is gone and a tracker's last report is read before the 5 seconds        *)
(* between two launches are over, and stop() follows the shutdown signal   *)
(* in less than that.                                                      *)
(***************************************************************************)
EXTENDS MatchState

CONSTANT
  RestartOnMatchEnd   \* restart_on_match_end

ASSUME SupervisorAssumption == RestartOnMatchEnd \in BOOLEAN

VARIABLES
  loop,     \* where _run_loop is
  game,     \* the process _proc refers to
  orphans,  \* the live game processes nothing refers to
  wanted,   \* whether _restart_event is set
  watcher,  \* the _watch_log task
  main      \* where _main is

supervisorVars == <<loop, game, orphans, wanted, watcher, main>>
vars           == <<supervisorVars, matchVars>>

Loop    == {"launch", "retry", "watch", "cancel", "terminate", "pause", "over"}
Game    == {"none", "up", "terminated", "killed", "exited"}
Watcher == {"none", "seek", "tail", "ended"}
Main    == {"up", "signalled", "stopping", "down", "cut"}

Alive == game \in {"up", "terminated", "killed"}

\* _running is cleared when stop() begins.
Running == main \in {"up", "signalled"}

Init ==
  /\ MatchInit
  /\ loop = "launch"
  /\ game = "none"
  /\ orphans = 0
  /\ wanted = FALSE
  /\ watcher = "none"
  /\ main = "up"

-----------------------------------------------------------------------------
(* _run_loop *)

\* Variant: the request for a restart is not cleared.
BeginAgain ==
  /\ loop' = "launch"
  /\ ResetMatch
  /\ UNCHANGED wanted

\* The head of the loop, up to the creation of the process.
Begin ==
  /\ loop' = "launch"
  /\ wanted' = FALSE
  /\ ResetMatch

\* Variant: requests are cleared once the game is there.
LaunchedClears ==
  /\ loop = "launch"
  /\ game' = "up"
  /\ orphans' = IF Alive THEN orphans + 1 ELSE orphans
  /\ loop' = "watch"
  /\ watcher' = "seek"
  /\ wanted' = FALSE
  /\ UNCHANGED <<main, matchVars>>

\* The process is created: three tasks watch it.
Launched ==
  /\ loop = "launch"
  /\ game' = "up"
  /\ orphans' = IF Alive THEN orphans + 1 ELSE orphans
  /\ loop' = "watch"
  /\ watcher' = "seek"
  /\ UNCHANGED <<wanted, main, matchVars>>

LaunchFails ==
  /\ loop = "launch"
  /\ game' = "none"
  /\ orphans' = IF Alive THEN orphans + 1 ELSE orphans
  /\ SetOffline
  /\ loop' = "retry"
  /\ UNCHANGED <<wanted, watcher, main>>

\* Variant: the request for a restart is not waited for.
WakeOnExit ==
  /\ loop = "watch"
  /\ game = "exited" \/ watcher = "ended"
  /\ loop' = "cancel"
  /\ UNCHANGED <<game, orphans, wanted, watcher, main, matchVars>>

\* The first of the three tasks is done: the process exited, the log watcher
\* returned, or a restart is asked for.
Wake ==
  /\ loop = "watch"
  /\ game = "exited" \/ watcher = "ended" \/ wanted
  /\ loop' = "cancel"
  /\ UNCHANGED <<game, orphans, wanted, watcher, main, matchVars>>

\* The game of this round has ended, or is about to.
Conclude ==
  IF Running
  THEN SetOffline /\ loop' = "pause"
  ELSE loop' = "over" /\ UNCHANGED matchVars

\* Variant: the game is left alone.
WatchersCancelledOnly ==
  /\ loop = "cancel"
  /\ watcher' = "none"
  /\ Conclude
  /\ UNCHANGED <<game, orphans, wanted, main>>

\* Variant: the log watcher is left running.
WatcherLeft ==
  /\ loop = "cancel"
  /\ \/ /\ Alive
        /\ game' = IF game = "up" THEN "terminated" ELSE game
        /\ loop' = "terminate"
        /\ UNCHANGED matchVars
     \/ /\ ~Alive
        /\ Conclude
        /\ UNCHANGED game
  /\ UNCHANGED <<watcher, orphans, wanted, main>>

\* The other tasks are cancelled, and a process that is alive is terminated.
WatchersCancelled ==
  /\ loop = "cancel"
  /\ watcher' = "none"
  /\ \/ /\ Alive
        /\ game' = IF game = "up" THEN "terminated" ELSE game
        /\ loop' = "terminate"
        /\ UNCHANGED matchVars
     \/ /\ ~Alive
        /\ Conclude
        /\ UNCHANGED game
  /\ UNCHANGED <<orphans, wanted, main>>

\* The process exits in time, or is killed and not waited for any more.
Terminated ==
  /\ loop = "terminate"
  /\ game' = IF Alive THEN "killed" ELSE game
  /\ Conclude
  /\ UNCHANGED <<orphans, wanted, watcher, main>>

\* The sleep before the next round is over.
SleepOver ==
  /\ loop \in {"retry", "pause"}
  /\ main # "signalled"
  /\ game # "killed"
  /\ IF Running THEN Begin ELSE loop' = "over" /\ UNCHANGED <<wanted, matchVars>>
  /\ UNCHANGED <<game, orphans, watcher, main>>

-----------------------------------------------------------------------------
(* _watch_log and _handle_log_line *)

LogFound ==
  /\ watcher = "seek"
  /\ watcher' = "tail"
  /\ UNCHANGED <<loop, game, orphans, wanted, main, matchVars>>

\* The task returns: no log is configured, none appeared, or reading it failed.
LogGivenUp ==
  /\ watcher \in {"seek", "tail"}
  /\ watcher' = "ended"
  /\ UNCHANGED <<loop, game, orphans, wanted, main, matchVars>>

\* A line says that the server is ready, that the match started, or that it is
\* complete.
LogLine ==
  /\ watcher = "tail"
  /\ \/ SetServerReady /\ UNCHANGED wanted
     \/ SetMatchStarted /\ UNCHANGED wanted
     \/ SignalMatchEnd /\ wanted' = (wanted \/ RestartOnMatchEnd)
  /\ UNCHANGED <<loop, game, orphans, watcher, main>>

-----------------------------------------------------------------------------
(* _handle_tracker_push, run_idle_watchdog, RESTART and RESTART_MATCHMAKING *)

TrackerPushes ==
  /\ main = "up"
  /\ loop # "launch"
  /\ game # "none"
  /\ \E push \in TrackerPush : UpdateFromTracker(push)
  /\ UNCHANGED supervisorVars

\* The server has waited for players longer than idle_restart_minutes.
IdleRestart ==
  /\ main = "up"
  /\ status = "WaitingForPlayers"
  /\ \A u \in User : players[u] = "absent"
  /\ wanted' = TRUE
  /\ UNCHANGED <<loop, game, orphans, watcher, main, matchVars>>

AdminRestart ==
  /\ main = "up"
  /\ wanted' = TRUE
  /\ UNCHANGED <<loop, game, orphans, watcher, main, matchVars>>

-----------------------------------------------------------------------------
(* The shutdown of _main *)

\* Every task is cancelled.  _run_loop takes a cancellation that comes while it
\* awaits a cancelled watcher for that of the watcher, and goes on.
Signal ==
  /\ main = "up"
  /\ main' = "signalled"
  /\ loop' = IF loop = "cancel" THEN loop ELSE "over"
  /\ watcher' = "none"
  /\ UNCHANGED <<game, orphans, wanted, matchVars>>

\* The handler stays installed, and a later signal cancels every task again.
\* Before stop() begins, _main takes it for the first one; while stop() waits for
\* the game to end, it cuts stop() and _main short: nothing kills a game that
\* has not ended by then.
SignalAgain ==
  /\ \/ /\ main = "signalled"
        /\ loop' = IF loop = "cancel" THEN loop ELSE "over"
        /\ UNCHANGED main
     \/ /\ main = "stopping"
        /\ main' = "cut"
        /\ loop' = "over"
  /\ UNCHANGED <<game, orphans, wanted, watcher, matchVars>>

\* Variant: stop() does not look at the process.
StopAtOnce ==
  /\ main = "signalled"
  /\ wanted' = TRUE
  /\ main' = "down"
  /\ loop' = "over"
  /\ UNCHANGED <<game, orphans, watcher, matchVars>>

\* stop() terminates a process that is alive ...
Stop ==
  /\ main = "signalled"
  /\ wanted' = TRUE
  /\ main' = "stopping"
  /\ game' = IF game = "up" THEN "terminated" ELSE game
  /\ UNCHANGED <<loop, orphans, watcher, matchVars>>

\* ... and kills it when that takes too long.  What is left of the tasks ends
\* with the program.
Stopped ==
  /\ main = "stopping"
  /\ game' = IF Alive THEN "killed" ELSE game
  /\ main' = "down"
  /\ loop' = "over"
  /\ UNCHANGED <<orphans, wanted, watcher, matchVars>>

-----------------------------------------------------------------------------
(* The game and the proxy (external) *)

\* The game exits by itself, or because it was told to.
GameExits ==
  /\ Alive
  /\ game' = "exited"
  /\ UNCHANGED <<loop, orphans, wanted, watcher, main, matchVars>>

\* The proxy opens and closes sessions, and runs the callbacks that wait.
ProxySteps ==
  /\ main = "up"
  /\ \/ \E u \in User :
          \/ PlayerConnected(u) \/ PlayerDisconnected(u)
          \/ /\ leaving[u] > 0
             /\ leaving' = [leaving EXCEPT ![u] = @ - 1]
             /\ UNCHANGED <<status, started, players, ending>>
     \/ /\ ending > 0
        /\ ending' = ending - 1
        /\ UNCHANGED <<status, started, players, leaving>>
  /\ UNCHANGED supervisorVars

-----------------------------------------------------------------------------
LoopStep ==
  Launched \/ LaunchFails \/ Wake \/ WatchersCancelled \/ Terminated \/ SleepOver

Next ==
  \/ LoopStep
  \/ LogFound \/ LogGivenUp \/ LogLine
  \/ TrackerPushes \/ IdleRestart \/ AdminRestart
  \/ Signal \/ SignalAgain \/ Stop \/ Stopped
  \/ GameExits
  \/ ProxySteps

Spec == Init /\ [][Next]_vars

\* The event loop runs what can go on, processes are created or not, timers
\* elapse, and a killed process is gone.  A game may run for ever and a log say
\* nothing.
Fairness ==
  /\ WF_vars(LoopStep)
  /\ WF_vars(Stop \/ Stopped)
  /\ WF_vars(GameExits /\ game = "killed")

FairSpec == Spec /\ Fairness

-----------------------------------------------------------------------------
(* Properties *)

\* Every variable keeps its type; a log watcher runs only between the launch of
\* a game and the end of its round.
TypeOK ==
  /\ MatchTypeOK
  /\ loop \in Loop
  /\ game \in Game
  /\ orphans \in Nat
  /\ wanted \in BOOLEAN
  /\ watcher \in Watcher
  /\ main \in Main
  /\ watcher # "none" => loop \in {"watch", "cancel"}

\* A game is launched only when the one before is gone, whatever ended its
\* round, so that no process is ever left to itself on the server's port.
OneGame == orphans = 0

\* Once the program has ended, its game has ended or was killed, also when the
\* run loop took the cancellation for that of a watcher.  If a second signal cut
\* stop() short, the game has at least been told to end; more is not true then.
NoneLeft ==
  /\ main = "down" => game \notin {"up", "terminated"}
  /\ main = "cut" => game # "up"
  /\ main \in {"down", "cut"} => orphans = 0

\* A game is launched on a match state of its own: no state of the former
\* match, start time or reported player is left, and no log line or report of
\* the former game comes after the reset.
FreshMatch ==
  loop = "launch" =>
    /\ status \in {"WaitingForServer", "WaitingForPlayers"}
    /\ ~started
    /\ \A u \in User : players[u] # "dll"

\* A request for a restart is dropped only where a new launch begins: none that
\* comes while a game is launched, ended or waited for is lost.
RequestKept == [][wanted /\ ~wanted' => loop # "launch" /\ loop' = "launch"]_vars

\* A request leads to a launch, unless the program is shut down.
RequestServed == wanted ~> ~wanted \/ main # "up"

\* What makes the supervisor do something: a request, an exit, a launch that
\* fails, a log that is given up, the end of the program.
Disturbance ==
  \/ ~wanted /\ wanted'
  \/ game = "up" /\ game' = "exited"
  \/ loop = "launch" /\ loop' = "retry"
  \/ watcher # "ended" /\ watcher' = "ended"
  \/ main' # "up"

\* Left in peace, the supervisor ends up with a game that runs: no request is
\* served twice, and no exit or failure is the last thing that happens.
Settles ==
  <>[][~Disturbance]_vars => <>[](main # "up" \/ (loop = "watch" /\ game = "up"))
=============================================================================
