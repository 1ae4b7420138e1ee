------------------------------ MODULE MatchState ------------------------------
(***************************************************************************)
(* The match state of one game server (elefrac/match_state.py): its status *)
(* and the list of its players, written by the UDP proxy, by the tracker   *)
(* DLL and by the supervisor.                                              *)
(*                                                                         *)
(* No critical section of MatchStateManager._lock awaits anything, so the  *)
(* lock is always free when it is asked for and an operation, with the     *)
(* awaits of its caller in front of it, is one step.  The operations are   *)
(* actions on matchVars; the modules of the callers use them as parts of   *)
(* their own actions.                                                      *)
(*                                                                         *)
(* Left out: the map name, the attributes of a player other than whether   *)
(* the DLL has reported them, and the tasks of on_state_change.            *)
(***************************************************************************)
EXTENDS Naturals, FiniteSets

CONSTANTS
  User,        \* registered usernames
  TrackerPush, \* the messages the tracker DLL may push
  MaxTasks     \* bound: tasks of one callback that wait to run

Status == {"WaitingForServer", "WaitingForPlayers", "WaitingToStart",
           "InProgress", "Ended", "Offline"}

\* A message of the DLL: a state, and a list of players where full holds.
Push == [state : Status \cup {""}, full : BOOLEAN, players : SUBSET User]

ASSUME MatchAssumption ==
  /\ IsFiniteSet(User)
  /\ TrackerPush \subseteq {p \in Push : p.full \/ p.players = {}}
  /\ MaxTasks \in Nat \ {0}

VARIABLES
  status,   \* MatchState.status
  started,  \* whether match_started_at is set
  players,  \* MatchState.players: the entry of each user, and who wrote it
  leaving,  \* the on_player_leave tasks that wait to run, by user
  ending    \* the on_match_end tasks that wait to run

matchVars == <<status, started, players, leaving, ending>>

\* An entry the proxy made has no ping until the DLL reports its player.
Entry == {"absent", "proxy", "dll"}

MatchInit ==
  /\ status = "WaitingForServer"
  /\ started = FALSE
  /\ players = [u \in User |-> "absent"]
  /\ leaving = [u \in User |-> 0]
  /\ ending = 0

\* An on_player_leave task is started for each of gone.  Bound: MaxTasks.
Leave(gone) ==
  /\ \A u \in gone : leaving[u] < MaxTasks
  /\ leaving' = [u \in User |-> IF u \in gone THEN leaving[u] + 1 ELSE leaving[u]]

\* A player who is on the list already is left alone.
PlayerConnected(u) ==
  \/ /\ players[u] # "absent"
     /\ UNCHANGED matchVars
  \/ /\ players[u] = "absent"
     /\ players' = [players EXCEPT ![u] = "proxy"]
     /\ status' = IF status = "WaitingForServer" THEN "WaitingForPlayers" ELSE status
     /\ UNCHANGED <<started, leaving, ending>>

PlayerDisconnected(u) ==
  \/ /\ players[u] = "absent"
     /\ UNCHANGED matchVars
  \/ /\ players[u] # "absent"
     /\ players' = [players EXCEPT ![u] = "absent"]
     /\ Leave({u})
     /\ UNCHANGED <<status, started, ending>>

SetMatchStarted ==
  /\ status # "InProgress"
  /\ status' = "InProgress"
  /\ started' = TRUE
  /\ UNCHANGED <<players, leaving, ending>>

\* Those on the list whom a full report does not name.
Departed(push) ==
  IF push.full THEN {u \in User : players[u] # "absent"} \ push.players ELSE {}

\* The report of the DLL is merged, and is authoritative when it is full.
UpdateFromTracker(push) ==
  /\ status' = IF push.state = "" THEN status ELSE push.state
  /\ started' = (started \/ (status # "InProgress" /\ status' = "InProgress"))
  /\ players' = [u \in User |-> CASE u \in push.players    -> "dll"
                                  [] u \in Departed(push)  -> "absent"
                                  [] OTHER                 -> players[u]]
  /\ Leave(Departed(push))
  /\ UNCHANGED ending

SetServerReady ==
  /\ status' = "WaitingForPlayers"
  /\ UNCHANGED <<started, players, leaving, ending>>

SignalMatchEnd ==
  /\ ending < MaxTasks
  /\ status' = "Ended"
  /\ ending' = ending + 1
  /\ UNCHANGED <<started, players, leaving>>

SetOffline ==
  /\ status' = "Offline"
  /\ players' = [u \in User |-> "absent"]
  /\ UNCHANGED <<started, leaving, ending>>

\* The tasks that wait are not touched.
ResetMatch ==
  /\ status' = "WaitingForServer"
  /\ started' = FALSE
  /\ players' = [u \in User |-> "absent"]
  /\ UNCHANGED <<leaving, ending>>

MatchTypeOK ==
  /\ status \in Status
  /\ started \in BOOLEAN
  /\ players \in [User -> Entry]
  /\ leaving \in [User -> 0..MaxTasks]
  /\ ending \in 0..MaxTasks
=============================================================================
