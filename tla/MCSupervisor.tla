---------------------------- MODULE MCSupervisor ----------------------------
(***************************************************************************)
(* A small instance of Supervisor: one player, and a DLL that reports the  *)
(* match in progress, a player, or nobody.                                 *)
(***************************************************************************)
EXTENDS Supervisor, TLC

CONSTANT ann   \* a player

\* The DLL reports a state, a list with nobody, or a list with one player.
Pushes == { [state |-> "InProgress", full |-> FALSE, players |-> {}],
            [state |-> "",           full |-> TRUE,  players |-> {}],
            [state |-> "",           full |-> TRUE,  players |-> {ann}] }
=============================================================================
