------------------------------- MODULE MCProxy -------------------------------
(***************************************************************************)
(* Small instances of Proxy: two client addresses of two hosts, and two    *)
(* users, whose joins come from one address each or from both.             *)
(***************************************************************************)
EXTENDS Proxy, TLC

CONSTANTS
  a1, a2,     \* two client addresses
  h1,         \* their host
  t1, t2,     \* two tasks
  ann, bob    \* two users

SameHost == [a \in Addr |-> h1]

\* Each user plays from one address, with a token.
OwnAddress ==
  [a \in Addr |-> [user : {IF a = a1 THEN ann ELSE bob}, token : {TRUE}]]

\* The two users with their addresses are alike.
Alike == { [x \in {a1, a2, ann, bob} |->
              CASE x = a1 -> a2 [] x = a2 -> a1 [] x = ann -> bob [] x = bob -> ann] }

\* One user, with a token or without, from whatever address.
OneUser == [a \in Addr |-> [user : {ann}, token : BOOLEAN]]

\* The DLL reports a state, a list with nobody, or a list with one player.
Pushes == { [state |-> "InProgress", full |-> FALSE, players |-> {}],
            [state |-> "",           full |-> TRUE,  players |-> {}],
            [state |-> "",           full |-> TRUE,  players |-> {ann}] }

\* Nothing is heard of the game.
NoPush   == {}
NoEvents == {}
=============================================================================
