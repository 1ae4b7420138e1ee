----------------------------- MODULE MCBroadcast -----------------------------
(***************************************************************************)
(* A small instance of Broadcast: two clients whose buffers may fill up.   *)
(***************************************************************************)
EXTENDS Broadcast

CONSTANTS
  s1, s2  \* two clients
=============================================================================
