------------------------------ MODULE MCRouter ------------------------------
(***************************************************************************)
(* Small instances of Router: two clients behind one NAT, the two          *)
(* hard-coded backends and a third one that only the manager gives.        *)
(***************************************************************************)
EXTENDS Router, TLC

CONSTANTS
  c1, c2,                 \* two client addresses
  nat,                    \* the host they share
  solo, arena, overflow   \* backends

OneNat == [a \in Addr |-> nat]

\* _BACKENDS, with 's' standing for 's', 'd' and 'q' as well.
Backends == [m \in Mode |-> IF m = "c" THEN arena ELSE solo]

\* The manager may add a dynamic server for mode 's'.
Groups == [m \in Mode |-> IF m = "c" THEN {arena} ELSE {solo, overflow}]

NoMode == {}

Clients == Permutations(Addr)
=============================================================================
