------------------------------ MODULE Broadcast ------------------------------
(***************************************************************************)
(* The broadcast server (elefrac/broadcast.py): every change of the match  *)
(* state starts a task that writes it to all connected clients, one after  *)
(* the other, and waits at a client whose buffer is full.                  *)
(*                                                                         *)
(* The event loop runs its queue of ready tasks in order, one at a time,   *)
(* each until it awaits something.  A state is the number of changes so    *)
(* far, and the push of a state is known by it.                            *)
(*                                                                         *)
(* Left out: what a state holds; clients that send something, which the    *)
(* server takes for a disconnect, or that shut down one direction only.    *)
(***************************************************************************)
EXTENDS Naturals, Sequences, FiniteSets

CONSTANTS
  Client,     \* connections, each of which is opened once
  Slow,       \* the clients whose buffer may fill up
  MaxVersion, \* bound: changes
  None

ASSUME BroadcastAssumption ==
  /\ IsFiniteSet(Client) /\ Slow \subseteq Client
  /\ MaxVersion \in Nat \ {0}
  /\ None \notin Client

Version == 1..MaxVersion

VARIABLES
  version,  \* the match state
  clients,  \* BroadcastServer._clients
  conn,     \* the connection of each client
  full,     \* the clients whose transport has called pause_writing
  waiting,  \* the pushes that wait for the buffer of a client to drain
  ready,    \* the tasks the event loop is to run next, in order
  running,  \* the push that has the loop
  push,     \* the push of each version
  since,    \* history: the version a client was greeted with
  got       \* history: the versions written to a client after that

vars == <<version, clients, conn, full, waiting, ready, running, push, since, got>>

\* A push: left are the clients of its copy of the list that it is not done with,
\* on is the one it awaits, and stale are those whose drain raised.
Pushes == [at : {"none", "start", "next", "drain", "yield", "done"},
           on : Client \cup {None}, left : SUBSET Client, stale : SUBSET Client]

NoPush == [at |-> "none", on |-> None, left |-> {}, stale |-> {}]

Init ==
  /\ version = 0 /\ running = 0
  /\ clients = {} /\ full = {} /\ ready = <<>>
  /\ conn = [c \in Client |-> "new"]
  /\ waiting = [c \in Client |-> <<>>]
  /\ push = [v \in Version |-> NoPush]
  /\ since = [c \in Client |-> 0]
  /\ got = [c \in Client |-> {}]

PushTask(v)    == [kind |-> "push", version |-> v, client |-> None]
HandlerTask(c) == [kind |-> "handler", version |-> 0, client |-> c]

Tasks(vs) == [i \in DOMAIN vs |-> PushTask(vs[i])]

-----------------------------------------------------------------------------
(* What the loop hears of.                                                 *)

\* MatchStateManager._fire_state_change.  Bound: MaxVersion.
Change ==
  /\ running = 0 /\ version < MaxVersion
  /\ version' = version + 1
  /\ push' = [push EXCEPT ![version'].at = "start"]
  /\ ready' = Append(ready, PushTask(version'))
  /\ UNCHANGED <<clients, conn, full, waiting, running, since, got>>

\* The handler of a new client adds it and sends it the state.
Connect(c) ==
  /\ running = 0 /\ conn[c] = "new"
  /\ conn' = [conn EXCEPT ![c] = "open"]
  /\ clients' = clients \cup {c}
  /\ since' = [since EXCEPT ![c] = version]
  /\ \E fills \in {FALSE, (c \in Slow)} : full' = IF fills THEN full \cup {c} ELSE full
  /\ UNCHANGED <<version, waiting, ready, running, push, got>>

\* Variant: one waiter is woken.
ResumeWakesFirst(c) ==
  /\ running = 0 /\ c \in full
  /\ full' = full \ {c}
  /\ IF waiting[c] = <<>> THEN UNCHANGED <<ready, waiting>>
     ELSE /\ ready' = Append(ready, PushTask(Head(waiting[c])))
          /\ waiting' = [waiting EXCEPT ![c] = Tail(@)]
  /\ UNCHANGED <<version, clients, conn, running, push, since, got>>

\* The client reads again, and all who wait for it are woken.
Resume(c) ==
  /\ running = 0 /\ c \in full
  /\ full' = full \ {c}
  /\ ready' = ready \o Tasks(waiting[c])
  /\ waiting' = [waiting EXCEPT ![c] = <<>>]
  /\ UNCHANGED <<version, clients, conn, running, push, since, got>>

\* connection_lost wakes the handler and all who wait for the client.
Disconnect(c) ==
  /\ running = 0 /\ conn[c] = "open"
  /\ conn' = [conn EXCEPT ![c] = "lost"]
  /\ full' = full \ {c}
  /\ ready' = Append(ready, HandlerTask(c)) \o Tasks(waiting[c])
  /\ waiting' = [waiting EXCEPT ![c] = <<>>]
  /\ since' = [since EXCEPT ![c] = 0]
  /\ got' = [got EXCEPT ![c] = {}]
  /\ UNCHANGED <<version, clients, running, push>>

-----------------------------------------------------------------------------
(* What the loop runs.                                                     *)

\* The finally of _handle_client.
HandlerEnds ==
  /\ running = 0 /\ ready # <<>>
  /\ Head(ready).kind = "handler"
  /\ clients' = clients \ {Head(ready).client}
  /\ ready' = Tail(ready)
  /\ UNCHANGED <<version, conn, full, waiting, running, push, since, got>>

\* A push takes its copy of the list.
PushStarts ==
  /\ running = 0 /\ ready # <<>>
  /\ Head(ready).kind = "push"
  /\ LET v == Head(ready).version
     IN /\ push[v].at = "start"
        /\ running' = v
        /\ push' = [push EXCEPT ![v] =
             [at |-> "next", on |-> None, left |-> clients, stale |-> {}]]
  /\ ready' = Tail(ready)
  /\ UNCHANGED <<version, clients, conn, full, waiting, since, got>>

\* Variant: the exception ends the push.
PushWakesOrDies ==
  /\ running = 0 /\ ready # <<>>
  /\ Head(ready).kind = "push"
  /\ LET v == Head(ready).version
     IN /\ push[v].at \in {"yield", "drain"}
        /\ running' = v
        /\ push' = [push EXCEPT ![v] = [at |-> "next", on |-> None, stale |-> {},
                                        left |-> IF push[v].at = "yield" THEN {} ELSE @.left \ {@.on}]]
  /\ ready' = Tail(ready)
  /\ UNCHANGED <<version, clients, conn, full, waiting, since, got>>

\* A drain ends.  It raises where the push met a lost client, and where the
\* client was lost meanwhile it may.
PushWakes ==
  /\ running = 0 /\ ready # <<>>
  /\ Head(ready).kind = "push"
  /\ LET v == Head(ready).version
         c == push[v].on
     IN /\ push[v].at \in {"yield", "drain"}
        /\ running' = v
        /\ \E raises \in IF push[v].at = "yield" THEN {TRUE} ELSE {FALSE, (conn[c] = "lost")} :
             push' = [push EXCEPT ![v] = [at |-> "next", on |-> None, left |-> @.left \ {c},
                                          stale |-> IF raises THEN @.stale \cup {c} ELSE @.stale]]
  /\ ready' = Tail(ready)
  /\ UNCHANGED <<version, clients, conn, full, waiting, since, got>>

\* The write of the running push to c, which goes through.
Written(c) ==
  /\ conn[c] = "open"
  /\ got' = [got EXCEPT ![c] = @ \cup {running}]

\* The buffer has room: drain returns at once.
WriteOn(c) ==
  /\ running # 0 /\ c \in push[running].left
  /\ c \notin full
  /\ Written(c)
  /\ push' = [push EXCEPT ![running].left = @ \ {c}]
  /\ UNCHANGED <<version, clients, conn, full, waiting, ready, running, since>>

\* Push p is suspended in a drain of client c.
Awaits(p, at, c) == [at |-> at, on |-> c, left |-> p.left, stale |-> p.stale]

\* The buffer is full, or fills up: the push waits until it drains.
WriteWaits(c) ==
  /\ running # 0 /\ c \in push[running].left
  /\ c \in full \cup Slow
  /\ Written(c)
  /\ full' = full \cup {c}
  /\ waiting' = [waiting EXCEPT ![c] = Append(@, running)]
  /\ push' = [push EXCEPT ![running] = Awaits(@, "drain", c)]
  /\ running' = 0
  /\ UNCHANGED <<version, clients, conn, ready, since>>

\* The transport is closing: drain yields to the loop once, and then raises.
WriteLost(c) ==
  /\ running # 0 /\ c \in push[running].left
  /\ conn[c] = "lost"
  /\ push' = [push EXCEPT ![running] = Awaits(@, "yield", c)]
  /\ ready' = Append(ready, PushTask(running))
  /\ running' = 0
  /\ UNCHANGED <<version, clients, conn, full, waiting, since, got>>

PushEnds ==
  /\ running # 0 /\ push[running].left = {}
  /\ clients' = clients \ push[running].stale
  /\ push' = [push EXCEPT ![running] = [NoPush EXCEPT !.at = "done"]]
  /\ running' = 0
  /\ UNCHANGED <<version, conn, full, waiting, ready, since, got>>

LoopStep ==
  \/ HandlerEnds \/ PushStarts \/ PushWakes \/ PushEnds
  \/ \E c \in Client : WriteOn(c) \/ WriteWaits(c) \/ WriteLost(c)

Next ==
  \/ Change
  \/ \E c \in Client : Connect(c) \/ Resume(c) \/ Disconnect(c)
  \/ LoopStep

\* The loop runs what is ready, and a client whose buffer is full reads again,
\* unless it goes away.
Spec == /\ Init /\ [][Next]_vars
        /\ WF_vars(LoopStep)
        /\ \A c \in Client : SF_vars(Resume(c))

-----------------------------------------------------------------------------
TypeOK ==
  /\ version \in 0..MaxVersion /\ running \in 0..MaxVersion
  /\ clients \subseteq Client /\ full \subseteq Slow
  /\ conn \in [Client -> {"new", "open", "lost"}]
  /\ push \in [Version -> Pushes]
  /\ \A c \in Client : /\ conn[c] = "open" => c \in clients
                       /\ waiting[c] # <<>> => c \in full
  /\ \A v \in Version : push[v].stale \subseteq {c \in Client : conn[c] = "lost"}
  /\ got \in [Client -> SUBSET Version]

(***************************************************************************)
(* A connected client gets every change after its greeting, whoever else   *)
(* comes, goes or stalls in the middle of a push (broadcast.py:4: clients  *)
(* "receive a push whenever state changes"): it has the version already,   *)
(* or a push that will write it.                                           *)
(***************************************************************************)
EveryChangePushed ==
  \A c \in Client : conn[c] = "open" =>
    \A v \in since[c] + 1..version :
      v \in got[c] \/ push[v].at = "start" \/ c \in push[v].left

(***************************************************************************)
(* Every push ends, if the clients read or leave.  One that does neither   *)
(* keeps all pushes after it from the clients behind it (broadcast.py:59). *)
(***************************************************************************)
PushesEnd == \A v \in Version : push[v].at # "none" ~> push[v].at = "done"
=============================================================================
