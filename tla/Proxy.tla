-------------------------------- MODULE Proxy --------------------------------
(***************************************************************************)
(* The UDP proxy in front of a game server (elefrac/udp_proxy.py,          *)
(* ProxyProtocol) with the match state it feeds (module MatchState) and    *)
(* the callbacks of elefrac/main.py that lead back to it: a player who     *)
(* leaves the list is kicked, the end of a match closes every session.     *)
(*                                                                         *)
(* The event loop runs a handler up to an await that suspends it: calls of *)
(* the database and the creation of a socket.  Each piece between two such *)
(* awaits that matters to others is one action.  A session is an object    *)
(* that the tasks which loaded it keep using after it left _sessions.      *)
(*                                                                         *)
(* Left out: the clock (a session falls silent in a step of its own, which *)
(* stands for the timeouts of run_cleanup_loop), the rewriting of packets, *)
(* and the tables of tokens and bans: a lookup may accept or refuse.       *)
(***************************************************************************)
EXTENDS MatchState

CONSTANTS
  Addr,         \* client addresses, (ip, port)
  Ip,           \* client hosts
  IpOf,         \* the host of each address
  Joins,        \* the join packets each address may send
  RequireAuth,  \* require_auth
  MayFail,      \* whether the database and socket creation may raise
  AdminKicks,   \* whether KICK and BAN commands are given
  MatchEvents,  \* what the supervisor may report of the game
  Task,         \* bound: tasks that close sessions, besides the cleanup loop
  Cleaner,      \* the cleanup loop
  MaxObjects,   \* bound: session objects in memory
  MaxJoins,     \* bound: _identify_session tasks of one session
  MaxRows,      \* bound: open rows of connection_log for one address
  Dead,         \* what is left of a cleanup loop that an exception ended
  None          \* no session, no user, no task

Sweeper == Task \cup {Cleaner}
Object  == 1..MaxObjects

\* A join packet names a user, and may prove it with a valid token.
JoinPacket == [user : User, token : BOOLEAN]

ASSUME ProxyAssumption ==
  /\ IsFiniteSet(Addr)
  /\ IpOf \in [Addr -> Ip]
  /\ Joins \in [Addr -> SUBSET JoinPacket]
  /\ {RequireAuth, MayFail, AdminKicks} \subseteq BOOLEAN
  /\ MatchEvents \subseteq {"started", "ready", "ended", "offline", "reset"}
  /\ Cleaner \notin Task
  /\ MaxObjects \in Nat
  /\ {MaxJoins, MaxRows} \subseteq Nat \ {0}
  /\ None \notin Object \cup User \cup JoinPacket
  /\ Dead # None

VARIABLES
  handler,    \* the _handle task of a first packet; its address is in _pending
              \* exactly while the task is there
  sess,       \* _sessions: the session object of each address
  object,     \* the session objects
  active,     \* whether the session of an address is within its timeouts
  identify,   \* the _identify_session tasks of each object that look up a packet
  announce,   \* those that have identified it and are about to announce it
  sweep,      \* the tasks that close sessions one after the other
  rows        \* rows of connection_log without disconnected_at, by address

proxyVars == <<handler, sess, object, active, identify, announce, sweep, rows>>
vars      == <<proxyVars, matchVars>>

Session == [addr : Addr, user : User \cup {None}, kicked : BOOLEAN]
\* A first packet on its way: looked up, then waiting for the socket.
Pending == [phase : {"lookup"}, packet : JoinPacket \cup {None}]
             \cup [phase : {"socket"}, user : User \cup {None}]
\* A list of addresses to close, and the session whose closing is being logged.
Sweep   == [todo : SUBSET Addr, kick : BOOLEAN, closing : Object]

\* What stands for nothing is none of these.
ASSUME NoneAssumption ==
  /\ None \notin Session
  /\ None \notin Pending
  /\ None \notin Sweep
  /\ Dead \notin Sweep

Init ==
  /\ MatchInit
  /\ handler = [a \in Addr |-> None]
  /\ sess = [a \in Addr |-> None]
  /\ object = [i \in Object |-> None]
  /\ active = [a \in Addr |-> FALSE]
  /\ identify = [i \in Object |-> [p \in JoinPacket |-> 0]]
  /\ announce = [i \in Object |-> 0]
  /\ sweep = [k \in Sweeper |-> None]
  /\ rows = [a \in Addr |-> 0]

\* The sweeps in progress, and the sessions they are closing.
Sweeping == {k \in Sweeper : sweep[k] \notin {None, Dead}}
Closing  == {sweep[k].closing : k \in Sweeping}

Identifying(i) == \E p \in JoinPacket : identify[i][p] > 0

\* An object lives while _sessions or a task refers to it.
Referenced(i) ==
  \/ \E a \in Addr : sess[a] = i
  \/ i \in Closing
  \/ Identifying(i)
  \/ announce[i] > 0

Objects(objects) == object' = [i \in Object |-> IF Referenced(i)' THEN objects[i] ELSE None]

\* The addresses whose session is of user u.
SessionsOf(u) == {a \in Addr : sess[a] # None /\ object[sess[a]].user = u}

-----------------------------------------------------------------------------
(* _handle and _open_session: the first packet of an address *)

\* Variant: the session of the address is not looked for.
FirstPacketAlways(a, p) ==
  /\ handler[a] = None
  /\ handler' = [handler EXCEPT ![a] = [phase |-> "lookup", packet |-> p]]
  /\ UNCHANGED <<sess, object, active, identify, announce, sweep, rows, matchVars>>

FirstPacket(a, p) ==
  /\ sess[a] = None
  /\ handler[a] = None
  /\ handler' = [handler EXCEPT ![a] = [phase |-> "lookup", packet |-> p]]
  /\ UNCHANGED <<sess, object, active, identify, announce, sweep, rows, matchVars>>

\* The database answers its one connection's calls in their order, so the
\* lookups of a first packet end after the closing of the former session of the
\* same address was logged.
LookedUp(a) ==
  /\ handler[a] # None
  /\ handler[a].phase = "lookup"
  /\ \A i \in Closing : object[i].addr # a

\* A ban, a wrong name, a missing or unknown token, or an error of the database.
TurnedAway(a) ==
  /\ LookedUp(a)
  /\ handler' = [handler EXCEPT ![a] = None]
  /\ UNCHANGED <<sess, object, active, identify, announce, sweep, rows, matchVars>>

\* The packet is let through, with the user its join names, and logged.
LogConnection(a) ==
  /\ LookedUp(a)
  /\ LET p == handler[a].packet IN
       /\ p # None /\ RequireAuth => p.token
       /\ handler' = [handler EXCEPT ![a] =
            [phase |-> "socket", user |-> IF p = None THEN None ELSE p.user]]
  /\ rows[a] < MaxRows
  /\ rows' = [rows EXCEPT ![a] = @ + 1]
  /\ UNCHANGED <<sess, object, active, identify, announce, sweep, matchVars>>

\* The session of user u that address a gets.
Registered(a, u) ==
  /\ \E i \in Object :
       /\ object[i] = None
       /\ \A j \in 1..(i - 1) : object[j] # None
       /\ sess' = [sess EXCEPT ![a] = i]
       /\ object' = [object EXCEPT ![i] = [addr |-> a, user |-> u, kicked |-> FALSE]]
  /\ active' = [active EXCEPT ![a] = TRUE]
  /\ IF u = None THEN UNCHANGED matchVars ELSE PlayerConnected(u)

\* Variant: the address stays in _pending.
SocketOpenedStaysPending(a) ==
  /\ handler[a] # None
  /\ handler[a].phase = "socket"
  /\ Registered(a, handler[a].user)
  /\ UNCHANGED <<handler, identify, announce, sweep, rows>>

SocketOpened(a) ==
  /\ handler[a] # None
  /\ handler[a].phase = "socket"
  /\ Registered(a, handler[a].user)
  /\ handler' = [handler EXCEPT ![a] = None]
  /\ UNCHANGED <<identify, announce, sweep, rows>>

\* The exception ends the handler; the row that was logged stays open.
SocketFails(a) ==
  /\ MayFail
  /\ handler[a] # None
  /\ handler[a].phase = "socket"
  /\ handler' = [handler EXCEPT ![a] = None]
  /\ UNCHANGED <<sess, object, active, identify, announce, sweep, rows, matchVars>>

-----------------------------------------------------------------------------
(* _handle, _identify_session and _forward: packets of a session *)

\* _forward, for the session the address has now.
Forward(a) ==
  active' = [active EXCEPT ![a] = sess[a] # None /\ (~object[sess[a]].kicked \/ @)]

Packet(a) ==
  /\ sess[a] # None
  /\ ~object[sess[a]].kicked
  /\ Forward(a)
  /\ UNCHANGED <<handler, sess, object, identify, announce, sweep, rows, matchVars>>

\* A join packet of a session without identity starts a lookup of its own.
LateJoin(a, p) ==
  /\ sess[a] # None
  /\ LET i == sess[a] IN
       /\ ~object[i].kicked
       /\ object[i].user = None
       /\ announce[i] + Cardinality({q \in JoinPacket : identify[i][q] > 0}) < MaxJoins
       /\ identify[i][p] < MaxJoins
       /\ identify' = [identify EXCEPT ![i][p] = @ + 1]
  /\ UNCHANGED <<handler, sess, object, active, announce, sweep, rows, matchVars>>

\* A ban, a wrong name, a missing or unknown token: the session is marked, and
\* stays in _sessions until it falls silent.
IdentifyRefused(i, p) ==
  /\ identify[i][p] > 0
  /\ identify' = [identify EXCEPT ![i][p] = @ - 1]
  /\ UNCHANGED <<handler, sess, announce, sweep>>
  /\ Objects([object EXCEPT ![i].kicked = TRUE])
  /\ UNCHANGED <<active, rows, matchVars>>

\* No user is found, or the database raises: the session stays unidentified.
IdentifyNobody(i, p) ==
  /\ identify[i][p] > 0
  /\ MayFail \/ ~(RequireAuth \/ p.token)
  /\ identify' = [identify EXCEPT ![i][p] = @ - 1]
  /\ UNCHANGED <<handler, sess, announce, sweep>>
  /\ Objects(object)
  /\ Forward(object[i].addr) \/ UNCHANGED active
  /\ UNCHANGED <<rows, matchVars>>

\* The session has a user, and the task goes on to log it.  Bound: MaxJoins.
IdentifyResolved(i, p) ==
  /\ identify[i][p] > 0
  /\ RequireAuth => p.token
  /\ announce[i] < MaxJoins
  /\ identify' = [identify EXCEPT ![i][p] = @ - 1]
  /\ announce' = [announce EXCEPT ![i] = @ + 1]
  /\ object' = [object EXCEPT ![i].user = p.user]
  /\ UNCHANGED <<handler, sess, active, sweep, rows, matchVars>>

\* Variant: the match state is not told.
AnnounceNobody(i) ==
  /\ announce[i] > 0
  /\ announce' = [announce EXCEPT ![i] = @ - 1]
  /\ UNCHANGED <<handler, sess, identify, sweep, rows, matchVars>>
  /\ Objects(object)
  /\ IF object[i].kicked THEN UNCHANGED active ELSE Forward(object[i].addr)

\* The row of the session has its user: the player is put on the list, whether
\* the session is still there or not.
Announce(i) ==
  /\ announce[i] > 0
  /\ announce' = [announce EXCEPT ![i] = @ - 1]
  /\ UNCHANGED <<handler, sess, identify, sweep, rows>>
  /\ Objects(object)
  /\ PlayerConnected(object[i].user)
  /\ IF object[i].kicked THEN UNCHANGED active ELSE Forward(object[i].addr)

\* The database raises after the session got its user: nobody announces him.
AnnounceFails(i) ==
  /\ MayFail
  /\ announce[i] > 0
  /\ announce' = [announce EXCEPT ![i] = @ - 1]
  /\ UNCHANGED <<handler, sess, active, identify, sweep, rows, matchVars>>
  /\ Objects(object)

\* A timeout of the session passes.  Packets of the game put off those on the
\* silence of both sides, but not the one on the client's, so they are no action:
\* what they delay is the time of this step.
FallSilent(a) ==
  /\ sess[a] # None
  /\ active[a]
  /\ active' = [active EXCEPT ![a] = FALSE]
  /\ UNCHANGED <<handler, sess, object, identify, announce, sweep, rows, matchVars>>

-----------------------------------------------------------------------------
(* _close_session, and the tasks that call it in a loop *)

\* The session of a is taken out of _sessions, and k waits for the database.
Pop(k, a, rest, kick) ==
  /\ sess' = [sess EXCEPT ![a] = None]
  /\ active' = [active EXCEPT ![a] = FALSE]
  /\ sweep' = [sweep EXCEPT ![k] = [todo |-> rest, kick |-> kick, closing |-> sess[a]]]
  /\ UNCHANGED <<identify, announce>>
  /\ Objects(IF kick THEN [object EXCEPT ![sess[a]].kicked = TRUE] ELSE object)

\* k closes the sessions of the addresses in todo that still have one when their
\* turn comes.
Close(k, todo, kick) ==
  LET present == {a \in todo : sess[a] # None} IN
  \/ \E a \in present : Pop(k, a, todo \ {a}, kick)
  \/ /\ present = {}
     /\ sweep' = [sweep EXCEPT ![k] = None]
     /\ UNCHANGED <<sess, active, identify, announce>>
     /\ Objects(object)

\* A task that closes the sessions of targets starts, in k if there are any.
Start(k, targets, kick) ==
  \/ /\ targets = {}
     /\ UNCHANGED <<sess, object, active, identify, announce, sweep>>
  \/ /\ targets # {}
     /\ sweep[k] = None
     /\ Close(k, targets, kick)

\* Variant: the end of the connection is not logged.
ClosedUnlogged(k) ==
  /\ k \in Sweeping
  /\ LET s == object[sweep[k].closing] IN
       IF s.user = None THEN UNCHANGED matchVars ELSE PlayerDisconnected(s.user)
  /\ Close(k, sweep[k].todo, sweep[k].kick)
  /\ UNCHANGED <<handler, rows>>

\* The disconnection is logged; the user the session has now leaves the list,
\* and the sweep goes on.
Closed(k) ==
  /\ k \in Sweeping
  /\ LET s == object[sweep[k].closing] IN
       /\ rows' = [rows EXCEPT ![s.addr] = @ - 1]
       /\ IF s.user = None THEN UNCHANGED matchVars ELSE PlayerDisconnected(s.user)
  /\ Close(k, sweep[k].todo, sweep[k].kick)
  /\ UNCHANGED handler

\* The database raises: the task ends, the cleanup loop with it.
CloseFails(k) ==
  /\ MayFail
  /\ k \in Sweeping
  /\ sweep' = [sweep EXCEPT ![k] = IF k = Cleaner THEN Dead ELSE None]
  /\ UNCHANGED <<handler, sess, active, identify, announce, rows, matchVars>>
  /\ Objects(object)

\* Variant: a session without identity is not looked at.
CleanupIdentified ==
  /\ Start(Cleaner, {a \in Addr : sess[a] # None /\ ~active[a] /\ object[sess[a]].user # None}, FALSE)
  /\ UNCHANGED <<handler, rows, matchVars>>

\* One tick of run_cleanup_loop.
Cleanup ==
  /\ Start(Cleaner, {a \in Addr : sess[a] # None /\ ~active[a]}, FALSE)
  /\ UNCHANGED <<handler, rows, matchVars>>

\* _on_player_leave: kick_by_username.
PlayerLeave(k, u) ==
  /\ leaving[u] > 0
  /\ leaving' = [leaving EXCEPT ![u] = @ - 1]
  /\ Start(k, SessionsOf(u), TRUE)
  /\ UNCHANGED <<handler, rows, status, started, players, ending>>

\* _on_match_end: clear_all_sessions.
MatchEnd(k) ==
  /\ ending > 0
  /\ ending' = ending - 1
  /\ Start(k, {a \in Addr : sess[a] # None}, FALSE)
  /\ UNCHANGED <<handler, rows, status, started, players, leaving>>

\* KICK and BAN_USER of a user, BAN_IP of a host.
AdminKick(k) ==
  /\ AdminKicks
  /\ \E targets \in {SessionsOf(u) : u \in User}
                      \cup {{a \in Addr : sess[a] # None /\ IpOf[a] = h} : h \in Ip} :
       Start(k, targets, TRUE)
  /\ UNCHANGED <<handler, rows, matchVars>>

-----------------------------------------------------------------------------
\* What the game server reports, through its log and through the tracker DLL.
GameReports ==
  /\ \/ \E push \in TrackerPush : UpdateFromTracker(push)
     \/ "started" \in MatchEvents /\ SetMatchStarted
     \/ "ready" \in MatchEvents /\ SetServerReady
     \/ "ended" \in MatchEvents /\ SignalMatchEnd
     \/ "offline" \in MatchEvents /\ SetOffline
     \/ "reset" \in MatchEvents /\ ResetMatch
  /\ UNCHANGED proxyVars

ClientStep ==
  \E a \in Addr :
    \/ \E p \in Joins[a] \cup {None} : FirstPacket(a, p)
    \/ \E p \in Joins[a] : LateJoin(a, p)
    \/ Packet(a)

TaskStep ==
  \/ \E a \in Addr : TurnedAway(a) \/ LogConnection(a) \/ SocketOpened(a) \/ SocketFails(a)
  \/ \E i \in Object :
       \/ \E p \in JoinPacket :
            IdentifyRefused(i, p) \/ IdentifyNobody(i, p) \/ IdentifyResolved(i, p)
       \/ Announce(i) \/ AnnounceFails(i)
  \/ \E k \in Sweeper : Closed(k) \/ CloseFails(k)
  \/ \E k \in Task : MatchEnd(k) \/ \E u \in User : PlayerLeave(k, u)
  \/ Cleanup
  \/ \E a \in Addr : FallSilent(a)

Next == ClientStep \/ TaskStep \/ GameReports \/ \E k \in Task : AdminKick(k)

Spec == Init /\ [][Next]_vars

\* The database answers or raises, sockets are created or not, the event loop
\* runs every task that can go on, and silence lasts for its timeout.
Fairness ==
  /\ \A a \in Addr :
       /\ WF_vars(TurnedAway(a) \/ LogConnection(a))
       /\ WF_vars(SocketOpened(a) \/ SocketFails(a))
       /\ WF_vars(FallSilent(a))
  /\ \A i \in Object :
       /\ WF_vars(\E p \in JoinPacket :
                    IdentifyRefused(i, p) \/ IdentifyNobody(i, p) \/ IdentifyResolved(i, p))
       /\ WF_vars(Announce(i) \/ AnnounceFails(i))
  /\ \A k \in Sweeper : WF_vars(Closed(k) \/ CloseFails(k))
  /\ WF_vars(\E k \in Task : MatchEnd(k))
  /\ \A u \in User : WF_vars(\E k \in Task : PlayerLeave(k, u))
  /\ WF_vars(Cleanup)

FairSpec == Spec /\ Fairness

-----------------------------------------------------------------------------
(* Properties *)

\* Every variable keeps its type; a session has its own object, and an address
\* is never pending while it has a session.
TypeOK ==
  /\ MatchTypeOK
  /\ \A a \in Addr :
       /\ handler[a] \in Pending \cup {None}
       /\ sess[a] \in Object \cup {None}
       /\ sess[a] # None => object[sess[a]] # None /\ object[sess[a]].addr = a
       /\ ~(handler[a] # None /\ sess[a] # None)
  /\ \A i \in Object : object[i] \in Session \cup {None}
  /\ active \in [Addr -> BOOLEAN]
  /\ identify \in [Object -> [JoinPacket -> 0..MaxJoins]]
  /\ announce \in [Object -> 0..MaxJoins]
  /\ \A k \in Sweeper : sweep[k] \in Sweep \cup {None, Dead}
  /\ rows \in [Addr -> 0..MaxRows]

\* A session is never replaced by another one in place, which would leave its
\* socket open and its player on the list: the handlers of the packets of one
\* address never both open a session.
NeverReplaced ==
  [][\A a \in Addr : sess[a] # None => sess'[a] \in {sess[a], None}]_vars

\* When nothing fails, the open rows of the connection log are those of the
\* sessions there are, the one about to be there and those being closed: every
\* connection is logged off once, however many tasks close it.
RowsExact ==
  \A a \in Addr :
    rows[a] = (IF sess[a] # None THEN 1 ELSE 0)
            + (IF handler[a] # None /\ handler[a].phase = "socket" THEN 1 ELSE 0)
            + Cardinality({i \in Closing : object[i].addr = a})

\* As long as every user plays from one address and only the proxy writes the
\* list, a player whose session is identified and announced is on it: no late
\* closing of an earlier session takes it off.
Listed ==
  \A a \in Addr :
    sess[a] # None /\ object[sess[a]].user # None /\ announce[sess[a]] = 0
      => players[object[sess[a]].user] # "absent"

\* A session that falls silent is closed, unless its client speaks up again or
\* an exception has ended the cleanup loop: no kick, match end or report of the
\* game that runs meanwhile keeps it, and no refused packet makes it last.
SilentCloses ==
  \A a \in Addr :
    sess[a] # None /\ ~active[a] ~> sess[a] = None \/ active[a] \/ sweep[Cleaner] = Dead
=============================================================================
