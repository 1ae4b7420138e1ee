-------------------------- MODULE MCServerManager --------------------------
(***************************************************************************)
(* Small instances of ServerManager.  Servers are pairs, so the group and  *)
(* the callers are model values and the static server is picked here.      *)
(***************************************************************************)
EXTENDS ServerManager, TLC

CONSTANTS
  g1,       \* a server group
  r1, r2    \* two callers

\* The first server of every group is static, as in STATIC_SERVERS.
FirstOfEach == {<<g, 1>> : g \in Group}

\* A lobby that fills up and a match that is on.
LobbyAndMatch ==
  { [game_state |-> "WaitingForPlayers", player_count |-> 1],
    [game_state |-> "InProgress",        player_count |-> 1] }

\* Servers of which no broadcast line is ever read.
NoReports == {}

\* The callers are alike.
Callers == Permutations(Request)
=============================================================================
