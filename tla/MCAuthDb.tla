------------------------------ MODULE MCAuthDb ------------------------------
(***************************************************************************)
(* A small instance of AuthDb: two control sessions, two Discord ids.      *)
(***************************************************************************)
EXTENDS AuthDb, TLC

CONSTANTS
  bot, cli,  \* two control sessions
  ann, bob,  \* two Discord ids
  n1         \* a username

Alike == Permutations({bot, cli}) \cup Permutations({ann, bob})
=============================================================================
