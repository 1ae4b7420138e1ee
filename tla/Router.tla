------------------------------- MODULE Router -------------------------------
(***************************************************************************)
(* The UDP game-mode router (udp_router.py, RouterProtocol): it opens an   *)
(* upstream socket for every client address, relays, redirects a client to *)
(* another backend when its join URL names another mode, expires idle      *)
(* sessions, and reports to the server manager the sessions that end.      *)
(*                                                                         *)
(* _handle runs up to its first await as one step of the event loop, so    *)
(* what it does for an established session is one action.  The tasks that  *)
(* stay open across awaits are variables: the handler of a first packet,   *)
(* the _open of a redirect, the _notify_close calls.                       *)
(*                                                                         *)
(* Left out: what is relayed, and the clock.  A packet of either side      *)
(* refreshes the session of its client; one that neither side refreshes    *)
(* for SESSION_TIMEOUT seconds is silent (FallsSilent), and only a silent  *)
(* one expires.                                                            *)
(***************************************************************************)
EXTENDS Naturals, Sequences, FiniteSets

CONSTANTS
  Addr,            \* client addresses, (ip, port)
  Ip,              \* client hosts
  IpOf,            \* the host of each address: clients behind one NAT share it
  Mode,            \* mode characters
  DefaultMode,     \* 's'
  Backend,         \* game servers
  Hardcoded,       \* _BACKENDS: the hard-coded backend of each mode
  Serves,          \* the backends the manager may give for each mode
  JoinModes,       \* the modes that may appear as EFMode in a join URL
  UseManager,      \* whether MANAGER_URL is set
  MayFail,         \* whether HTTP calls and socket creation may raise
  RedirectBuffer,  \* REDIRECT_BUFFER
  MaxCalls,        \* bound: tasks of one kind in flight for one backend
  MaxCount,        \* bound: the sessions the manager counts on one backend
  None             \* no mode, no session, no task

ASSUME RouterAssumption ==
  /\ IsFiniteSet(Addr)
  /\ IpOf \in [Addr -> Ip]
  /\ DefaultMode \in Mode
  /\ Hardcoded \in [Mode -> Backend]
  /\ Serves \in [Mode -> SUBSET Backend]
  /\ JoinModes \subseteq Mode
  /\ UseManager \in BOOLEAN
  /\ MayFail \in BOOLEAN
  /\ RedirectBuffer \in Nat \ {0}
  /\ MaxCalls \in Nat \ {0}
  /\ MaxCount \in Nat \ {0}
  /\ None \notin Mode \cup Backend

VARIABLES
  prefs,      \* _mode_prefs: the unexpired mode preference of each host
  sess,       \* _sessions
  handler,    \* the _handle task of a first packet; its address is in
              \* _pending exactly while the task is there
  redirect,   \* the _open task of a redirect
  sockets,    \* the open upstream sockets of each address, by backend
  closing,    \* the _notify_close calls in flight, by backend
  ledger,     \* the manager's session count of each backend
  silent      \* the addresses whose session was last seen more than
              \* SESSION_TIMEOUT seconds ago

vars == <<prefs, sess, handler, redirect, sockets, closing, ledger, silent>>

\* What matters of a game packet: the mode in its join URL, if it is one.
Packet == JoinModes \cup {None}

Session  == [backend : Backend, committed : BOOLEAN, buf : Seq(Packet)]
Fetching == [phase : {"fetch"}, mode : Mode, first : Packet]
Opening  == [phase : {"open"}, backend : Backend, first : Packet]
Redirect == [target : Backend, buf : Seq(Packet)]

ASSUME NoneAssumption == None \notin Session \cup Fetching \cup Opening \cup Redirect

Init ==
  /\ prefs = [i \in Ip |-> None]
  /\ sess = [a \in Addr |-> None]
  /\ handler = [a \in Addr |-> None]
  /\ redirect = [a \in Addr |-> None]
  /\ sockets = [a \in Addr |-> [b \in Backend |-> 0]]
  /\ closing = [b \in Backend |-> 0]
  /\ ledger = [b \in Backend |-> 0]
  /\ silent = {}

-----------------------------------------------------------------------------
(* last_seen *)

\* The session of the address, if there is one, is seen now.
Refresh(a) == silent' = silent \ {a}

\* SESSION_TIMEOUT seconds pass in which neither side refreshes the session.
FallsSilent(a) ==
  /\ sess[a] # None
  /\ silent' = silent \cup {a}
  /\ UNCHANGED <<prefs, sess, handler, redirect, sockets, closing, ledger>>

\* A backend sends on a socket of the address, also on one that the session has
\* left behind: what it sends refreshes whatever session the address has now.
BackendPacket(a) ==
  /\ \E b \in Backend : sockets[a][b] > 0
  /\ Refresh(a)
  /\ UNCHANGED <<prefs, sess, handler, redirect, sockets, closing, ledger>>

-----------------------------------------------------------------------------
(* Calls to the manager *)

\* close_session: the count goes down, never below 0.
Uncount(b) == ledger' = [ledger EXCEPT ![b] = IF @ > 0 THEN @ - 1 ELSE 0]

\* Variant: the manager is never told.
NotifyNobody(b) == UNCHANGED closing

\* A _notify_close task is started, in manager mode only.
NotifyClose(b) ==
  IF UseManager THEN closing' = [closing EXCEPT ![b] = @ + 1] ELSE UNCHANGED closing

\* The bound on the _notify_close tasks in flight.
MayNotify(b) == closing[b] < MaxCalls

\* The notification reaches the manager.
CloseArrives(b) ==
  /\ closing[b] > 0
  /\ closing' = [closing EXCEPT ![b] = @ - 1]
  /\ Uncount(b)
  /\ UNCHANGED <<prefs, sess, handler, redirect, sockets, silent>>

\* It does not, and is not sent again.
CloseLost(b) ==
  /\ MayFail
  /\ closing[b] > 0
  /\ closing' = [closing EXCEPT ![b] = @ - 1]
  /\ UNCHANGED <<prefs, sess, handler, redirect, sockets, ledger, silent>>

-----------------------------------------------------------------------------
(* Packets of clients *)

\* An EFM side-channel packet sets the preference of the client's host.
EfmPacket(a, m) ==
  /\ prefs' = [prefs EXCEPT ![IpOf[a]] = m]
  /\ UNCHANGED <<sess, handler, redirect, sockets, closing, ledger, silent>>

\* MODE_PREF_TTL seconds have passed since the last one.
PrefExpires(i) ==
  /\ prefs[i] # None
  /\ prefs' = [prefs EXCEPT ![i] = None]
  /\ UNCHANGED <<sess, handler, redirect, sockets, closing, ledger, silent>>

PreferredMode(a) == IF prefs[IpOf[a]] = None THEN DefaultMode ELSE prefs[IpOf[a]]

\* The first packet of an address without session or pending handler.
FirstPacket(a, p) ==
  /\ sess[a] = None
  /\ handler[a] = None
  /\ LET m == PreferredMode(a) IN
       handler' = [handler EXCEPT ![a] =
         IF UseManager
         THEN [phase |-> "fetch", mode |-> m, first |-> p]
         ELSE [phase |-> "open", backend |-> Hardcoded[m], first |-> p]]
  /\ UNCHANGED <<prefs, sess, redirect, sockets, closing, ledger, silent>>

\* A packet joins the buffer while there is room for it.
Buffered(buf, p) == IF Len(buf) < RedirectBuffer THEN Append(buf, p) ELSE buf

\* A packet of a session whose backend is final is sent on.
CommittedPacket(a) ==
  /\ sess[a] # None
  /\ sess[a].committed
  /\ Refresh(a)
  /\ UNCHANGED <<prefs, sess, handler, redirect, sockets, closing, ledger>>

\* A packet of an uncommitted session that settles nothing.
PlainPacket(a) ==
  /\ sess[a] # None
  /\ ~sess[a].committed
  /\ sess' = [sess EXCEPT ![a].buf = Buffered(@, None)]
  /\ Refresh(a)
  /\ UNCHANGED <<prefs, handler, redirect, sockets, closing, ledger>>

\* A join packet that names the mode of the session's backend.
ConfirmingJoin(a, m) ==
  /\ sess[a] # None
  /\ ~sess[a].committed
  /\ Hardcoded[m] = sess[a].backend
  /\ sess' = [sess EXCEPT ![a] =
       [backend |-> @.backend, committed |-> TRUE, buf |-> <<>>]]
  /\ Refresh(a)
  /\ UNCHANGED <<prefs, handler, redirect, sockets, closing, ledger>>

\* Variant: the session is not deleted before the other one is opened.
RedirectKeepsSession(a, m) ==
  /\ sess[a] # None
  /\ ~sess[a].committed
  /\ Hardcoded[m] # sess[a].backend
  /\ redirect[a] = None
  /\ LET b == sess[a].backend IN
       /\ MayNotify(b)
       /\ sockets' = [sockets EXCEPT ![a][b] = @ - 1]
       /\ NotifyClose(b)
  /\ redirect' = [redirect EXCEPT ![a] =
       [target |-> Hardcoded[m], buf |-> Buffered(sess[a].buf, m)]]
  /\ Refresh(a)
  /\ UNCHANGED <<prefs, sess, handler, ledger>>

\* A join packet that names another: the socket is closed, the manager is told,
\* the session is deleted and another one is opened by a task.  Bound: one such
\* task per address.
RedirectingJoin(a, m) ==
  /\ sess[a] # None
  /\ ~sess[a].committed
  /\ Hardcoded[m] # sess[a].backend
  /\ redirect[a] = None
  /\ LET b == sess[a].backend IN
       /\ MayNotify(b)
       /\ sockets' = [sockets EXCEPT ![a][b] = @ - 1]
       /\ NotifyClose(b)
  /\ redirect' = [redirect EXCEPT ![a] =
       [target |-> Hardcoded[m], buf |-> Buffered(sess[a].buf, m)]]
  /\ sess' = [sess EXCEPT ![a] = None]
  /\ Refresh(a)
  /\ UNCHANGED <<prefs, handler, ledger>>

-----------------------------------------------------------------------------
(* _fetch_backend *)

\* The manager gives a backend for the mode and counts a session on it.
FetchAnswered(a) ==
  /\ handler[a] # None
  /\ handler[a].phase = "fetch"
  /\ \E b \in Serves[handler[a].mode] :
       /\ ledger[b] < MaxCount
       /\ ledger' = [ledger EXCEPT ![b] = @ + 1]
       /\ handler' = [handler EXCEPT ![a] =
            [phase |-> "open", backend |-> b, first |-> @.first]]
  /\ UNCHANGED <<prefs, sess, redirect, sockets, closing, silent>>

\* The call fails: the manager refused it, or counted a session and its answer
\* came too late.  The hard-coded backend is used.
FetchFails(a) ==
  /\ MayFail
  /\ handler[a] # None
  /\ handler[a].phase = "fetch"
  /\ handler' = [handler EXCEPT ![a] =
       [phase |-> "open", backend |-> Hardcoded[@.mode], first |-> @.first]]
  /\ \/ UNCHANGED ledger
     \/ \E b \in Serves[handler[a].mode] :
          /\ ledger[b] < MaxCount
          /\ ledger' = [ledger EXCEPT ![b] = @ + 1]
  /\ UNCHANGED <<prefs, sess, redirect, sockets, closing, silent>>

-----------------------------------------------------------------------------
(* _open *)

\* The socket of address a to backend b is there: a new session takes the place
\* of whatever session the address has.
Installed(a, b, packets) ==
  /\ sockets[a][b] < MaxCalls
  /\ sockets' = [sockets EXCEPT ![a][b] = @ + 1]
  /\ sess' = [sess EXCEPT ![a] = [backend |-> b, committed |-> FALSE, buf |-> packets]]
  /\ Refresh(a)

\* Variant: the address stays in _pending.
FirstOpenedStaysPending(a) ==
  /\ handler[a] # None
  /\ handler[a].phase = "open"
  /\ Installed(a, handler[a].backend, <<handler[a].first>>)
  /\ UNCHANGED <<prefs, handler, redirect, closing, ledger>>

FirstOpened(a) ==
  /\ handler[a] # None
  /\ handler[a].phase = "open"
  /\ Installed(a, handler[a].backend, <<handler[a].first>>)
  /\ handler' = [handler EXCEPT ![a] = None]
  /\ UNCHANGED <<prefs, redirect, closing, ledger>>

RedirectOpened(a) ==
  /\ redirect[a] # None
  /\ Installed(a, redirect[a].target, redirect[a].buf)
  /\ redirect' = [redirect EXCEPT ![a] = None]
  /\ UNCHANGED <<prefs, handler, closing, ledger>>

\* The socket cannot be created: the packets are dropped.
FirstOpenFails(a) ==
  /\ MayFail
  /\ handler[a] # None
  /\ handler[a].phase = "open"
  /\ handler' = [handler EXCEPT ![a] = None]
  /\ UNCHANGED <<prefs, sess, redirect, sockets, closing, ledger, silent>>

RedirectOpenFails(a) ==
  /\ MayFail
  /\ redirect[a] # None
  /\ redirect' = [redirect EXCEPT ![a] = None]
  /\ UNCHANGED <<prefs, sess, handler, sockets, closing, ledger, silent>>

-----------------------------------------------------------------------------
(* run_cleanup *)

\* Variant: the socket of an expired session is left open.
ExpireLeavesSocket(a) ==
  /\ sess[a] # None
  /\ a \in silent
  /\ MayNotify(sess[a].backend)
  /\ NotifyClose(sess[a].backend)
  /\ sess' = [sess EXCEPT ![a] = None]
  /\ Refresh(a)
  /\ UNCHANGED <<prefs, handler, redirect, sockets, ledger>>

\* Variant: only a session whose backend is final expires.
ExpireCommitted(a) ==
  /\ sess[a] # None
  /\ a \in silent
  /\ sess[a].committed
  /\ LET b == sess[a].backend IN
       /\ MayNotify(b)
       /\ sockets' = [sockets EXCEPT ![a][b] = @ - 1]
       /\ NotifyClose(b)
  /\ sess' = [sess EXCEPT ![a] = None]
  /\ Refresh(a)
  /\ UNCHANGED <<prefs, handler, redirect, ledger>>

\* A silent session is removed, its socket closed and the manager told.
Expire(a) ==
  /\ sess[a] # None
  /\ a \in silent
  /\ LET b == sess[a].backend IN
       /\ MayNotify(b)
       /\ sockets' = [sockets EXCEPT ![a][b] = @ - 1]
       /\ NotifyClose(b)
  /\ sess' = [sess EXCEPT ![a] = None]
  /\ Refresh(a)
  /\ UNCHANGED <<prefs, handler, redirect, ledger>>

-----------------------------------------------------------------------------
ClientStep ==
  \E a \in Addr :
    \/ \E m \in Mode : EfmPacket(a, m)
    \/ \E p \in Packet : FirstPacket(a, p)
    \/ CommittedPacket(a)
    \/ PlainPacket(a)
    \/ \E m \in JoinModes : ConfirmingJoin(a, m) \/ RedirectingJoin(a, m)

RouterStep ==
  \/ \E i \in Ip : PrefExpires(i)
  \/ \E a \in Addr :
       \/ FetchAnswered(a) \/ FetchFails(a)
       \/ FirstOpened(a) \/ FirstOpenFails(a)
       \/ RedirectOpened(a) \/ RedirectOpenFails(a)
       \/ Expire(a)
  \/ \E b \in Backend : CloseArrives(b) \/ CloseLost(b)

TimePasses == \E a \in Addr : FallsSilent(a)

Next == ClientStep \/ (\E a \in Addr : BackendPacket(a)) \/ TimePasses \/ RouterStep

Spec == Init /\ [][Next]_vars

\* HTTP calls end (they have timeouts), sockets are created or not, and the
\* cleanup loop finds a session that stays silent.
Fairness ==
  /\ \A a \in Addr :
       /\ WF_vars(FetchAnswered(a) \/ FetchFails(a))
       /\ WF_vars(FirstOpened(a) \/ FirstOpenFails(a))
       /\ WF_vars(RedirectOpened(a) \/ RedirectOpenFails(a))
       /\ WF_vars(Expire(a))
  /\ \A b \in Backend : WF_vars(CloseArrives(b) \/ CloseLost(b))

FairSpec == Spec /\ Fairness

-----------------------------------------------------------------------------
(* Properties *)

\* The addresses with a session on backend b, and those whose first packet is
\* on its way there.
On(b)       == {a \in Addr : sess[a] # None /\ sess[a].backend = b}
HeadedTo(b) == {a \in Addr : handler[a] # None /\ handler[a].phase = "open"
                               /\ handler[a].backend = b}

\* Every variable keeps its type.
TypeOK ==
  /\ prefs \in [Ip -> Mode \cup {None}]
  /\ sess \in [Addr -> Session \cup {None}]
  /\ handler \in [Addr -> Fetching \cup Opening \cup {None}]
  /\ redirect \in [Addr -> Redirect \cup {None}]
  /\ sockets \in [Addr -> [Backend -> 0..MaxCalls]]
  /\ closing \in [Backend -> 0..MaxCalls]
  /\ ledger \in [Backend -> 0..MaxCount]
  /\ silent \subseteq Addr

\* A session always has its socket: neither the redirect, nor the expiry, nor a
\* session that takes the place of another closes a socket still in use.
SessionHasSocket ==
  \A a \in Addr : sess[a] # None => sockets[a][sess[a].backend] > 0

\* A client has the socket of its session and no other: none outlives its
\* session, none is left behind by a session that another one replaces.
OneSocket ==
  \A a \in Addr, b \in Backend : sockets[a][b] = IF a \in On(b) THEN 1 ELSE 0

\* When nothing fails, what the manager counts on a backend is what the router
\* holds, what it is about to open, and what it is about to report as closed:
\* every session that was counted is reported once.
AccountingExact ==
  \A b \in Backend :
    ledger[b] = Cardinality(On(b)) + Cardinality(HeadedTo(b)) + closing[b]

\* The handler of a first packet ends, so that its address does not stay in
\* _pending, where it would be ignored for ever.
PendingClears == \A a \in Addr : handler[a] # None ~> handler[a] = None

\* What the next two properties presuppose: neither the clients nor the backends
\* send any more, for longer than SESSION_TIMEOUT.  The silence of the clients
\* alone is not enough, because every packet of a backend refreshes the session.
Silence ==
  /\ <>[][RouterStep \/ TimePasses]_vars
  /\ \A a \in Addr : WF_vars(FallsSilent(a))

\* Once clients and backends are silent for good, every session, handler,
\* redirect and notification comes to its end.
Drains ==
  Silence
    => <>[](/\ \A a \in Addr : sess[a] = None /\ handler[a] = None /\ redirect[a] = None
            /\ \A b \in Backend : closing[b] = 0)

\* And, when nothing fails and nobody is redirected, every socket is closed and
\* the manager is left with no session to count, so that it can stop its
\* servers.
CountsReturn ==
  Silence
    => <>[](/\ ledger = [b \in Backend |-> 0]
            /\ sockets = [a \in Addr |-> [b \in Backend |-> 0]])
=============================================================================
