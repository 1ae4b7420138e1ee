---------------------------- MODULE SessionLease ----------------------------
(***************************************************************************)
(* What the server manager promises its only caller, the UDP router: a     *)
(* caller is granted a place on one server that is up, and a server is     *)
(* taken down only when nobody holds a place on it.  Nothing is said of    *)
(* containers, boots, timers or monitors; ServerManager is shown to        *)
(* implement this module.                                                  *)
(***************************************************************************)
CONSTANTS
  Server,    \* every server the manager may come to know
  Client,    \* the callers that ask for a place
  NoServer   \* what a caller that holds no place holds

VARIABLES
  holder,    \* the server on which each caller holds a place
  up         \* the servers that are up

leaseVars == <<holder, up>>

LeaseInit ==
  /\ holder = [c \in Client |-> NoServer]
  /\ up \in SUBSET Server

\* A caller that holds nothing is given a place on a server that is up.
Grant(c, s) ==
  /\ holder[c] = NoServer
  /\ s \in up
  /\ holder' = [holder EXCEPT ![c] = s]
  /\ UNCHANGED up

\* A caller gives its place back.
Release(c) ==
  /\ holder[c] # NoServer
  /\ holder' = [holder EXCEPT ![c] = NoServer]
  /\ UNCHANGED up

\* A server comes up.
Launch(s) ==
  /\ up' = up \cup {s}
  /\ UNCHANGED holder

\* A server on which nobody holds a place is taken down.
Retire(s) ==
  /\ \A c \in Client : holder[c] # s
  /\ up' = up \ {s}
  /\ UNCHANGED holder

LeaseNext ==
  \/ \E c \in Client, s \in Server : Grant(c, s)
  \/ \E c \in Client : Release(c)
  \/ \E s \in Server : Launch(s) \/ Retire(s)

LeaseSpec == LeaseInit /\ [][LeaseNext]_leaseVars
=============================================================================
