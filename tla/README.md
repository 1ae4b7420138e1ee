# Spellbreak game server: verification project

TLA+ modules, TLC configurations and TLAPS proofs for the Python services that
run a Spellbreak server: the game-mode router, the server manager, the
authentication proxy in front of each game server, the accounts and bans it
consults, the supervisor that launches the game, and the broadcast of the match
state. All of them are `asyncio` programs, so what is
hard about them is not parallelism but the awaits: every `await` that suspends is a point where another packet, another
caller, a timer or a failure may come in between, and state read before it may
be stale after it.

Reading order: `SessionLease`, `ServerManager`; `Router`; `MatchState`, `Proxy`;
`AccountTables`, `Accounts`, `AuthDb`; `PacketParser`, `Identity`; `Supervisor`;
`Broadcast`. The theorems about a module are in the module of the same name
with `Proofs` at its end (those about `Accounts` in `AccountsProofs` and
`AnswersProofs`), and the `MC*` modules hold the definitions the `.cfg`
files need.

## 1. Inventory

| component | source | state it keeps | operations | status |
|---|---|---|---|---|
| Server lifecycle manager | `server_manager.py` | `_servers` (count, game state, running), `_start_events`, tasks for boot, stop, monitor | `get_backend`, `close_session`, `_boot_server`, `_stop_server`, `run_cleanup`, `monitor_broadcast` | modelled, proved |
| UDP game-mode router | `udp_router.py` (`RouterProtocol`) | `_sessions`, `_pending`, `_mode_prefs`, upstream sockets | first packet, EFM preference, redirect, `_open`, `_fetch_backend`, `_notify_close`, cleanup | modelled, proved |
| UDP authentication proxy | `elefrac/udp_proxy.py`, `elefrac/ban_handler.py`, callbacks of `elefrac/main.py` | `_sessions`, `_pending`, session objects, open rows of `connection_log` | first packet, late identification, forward, close, kick, clear, cleanup | modelled, proved |
| Match state | `elefrac/match_state.py` | status, player list, start time | connect, disconnect, tracker update, ready, started, ended, offline, reset | partly: as part of the proxy and the supervisor, without `set_map_name` |
| Account database | `elefrac/database.py` | SQLite tables, one shared connection and its one transaction | users, tokens, roles, bans, connection log | partly: without `resolve_player`, aliases and temporary bans; proved |
| Admin control server | `elefrac/tcp_control.py`, control port of `udp_router.py` | none of its own | REGISTER, ROTATE_TOKEN, DELETE_REGISTRATION, GRANT, BAN, KICK, RESTART, ... | modelled, proved in part |
| Pre-auth servers | `elefrac/auth_server.py`, auth port of `udp_router.py` | none | look a token up | modelled |
| Packet parser | `elefrac/packet_parser.py` | none | find and rewrite the name, find tokens and machine ids | modelled, proved but for machine ids |
| Game supervisor | `elefrac/game_supervisor.py`, shutdown of `elefrac/main.py` | game process, log watcher, restart event | `_run_loop`, `_watch_log`, `_handle_tracker_push`, `run_idle_watchdog`, `request_restart`, `stop` | modelled, proved |
| Match state broadcast | `elefrac/broadcast.py` | connected clients, push tasks | `_handle_client`, `push_update` | modelled, proved |
| Configuration and logging, legacy launcher, load simulator, web pages, containers and scripts | `elefrac/config.py`, `GameServer/`, `tools/`, `web/`, `Dockerfile*` | nothing that changes at run time | | not modelled |

How they interact. A client's packets reach the router; for an address it does
not know, the router asks the manager over HTTP for a backend
(`GET /backend`), which counts a session, and reports the end of the session
(`POST /session/close`), which counts it off. The backend is the container of a
game server, where the authentication proxy opens a session of its own, asks
the database who the player is, writes a row to the connection log and puts the
player on the list of the match state. The match state is also written by the
tracker DLL and by the supervisor, and calls back: a player who leaves the list
is kicked from the proxy, the end of a match closes every session. Changes of
the match state are broadcast over TCP, and the manager's monitors read them to
know which servers can be joined.

What is hard, and what makes each component correct:

* **Manager.** The boot of a server takes half a minute, in which callers pile
  up on one event; the idle stop is decided in one task and done in another; a
  static server may be booted while docker is still stopping it; docker calls
  may raise with or without their effect. Correct means: the count of a server
  is the number of sessions granted and not closed; nobody holds a session on a
  server out of service; whoever waits is woken; names are not reused too early;
  unused servers go away.
* **Router.** The handler of a first packet waits for the manager and for a
  socket while more packets arrive; a redirect closes a session and opens
  another in a task of its own. Correct means: one session, one socket; the
  manager's counts match what the router holds; no address is stuck.
* **Proxy.** A session object is used by tasks that started before it was
  closed; sessions are closed by the cleanup loop, kicks, bans, the end of a
  match and a player's departure, at the same time; every closing waits for the
  database. Correct means: each connection is logged off once; the player list
  has the players who are there; silent sessions go, sessions in use stay.
* **Accounts.** A command is several statements, and all tasks write in one
  transaction: between two statements of a command others run theirs, and any
  commit makes a half-done command durable. User ids read earlier may belong to
  nobody by now. Correct means: a token logs in its owner and nobody else; what
  was answered outlives a crash; a token that was revoked, and a subject that
  was banned, stay so.
* **Identity.** A token may be in either of two fields, whole or cut, encoded or
  plain, in a first packet, a later one or a retransmission; a name is written
  over it in place. Correct means: the game server sees the name of the user,
  never the token, and with `require_auth` nobody passes on any of the paths but a
  user who is known by what he gave.
* **Broadcast.** Every change starts a task that writes to one client after the
  other and waits for those who read slowly. Correct means: each connected
  client is written each change, whoever comes, stalls or goes meanwhile.
* **Supervisor.** Restarts are asked for at any moment, also while one is under
  way; the game may exit, hang or fail to start at every point; log lines and
  reports of the former game may come late; a shutdown cancels the loop
  wherever it is. Correct means: one game at a time, each on a fresh match
  state; no request lost, none served twice; no game left after a shutdown that is
  let end.

The hazards this makes, each at its line, are in `PROJECT.json` with the
properties that cover them.

## 2. Modules

### `SessionLease`: what the manager promises

Two variables: the server on which each caller holds a place, and the servers
that are up, which for the manager are those whose `running` flag is set. A
place is granted on a server that is up; a server is taken down only when nobody
holds a place on it. Nothing is said of how.

### `ServerManager`

| variable | code |
|---|---|
| `tracked`, `info` | `ServerManager._servers` and the `ServerInfo` under each name; `quiet` stands for `now - last_close > IDLE_TIMEOUT` |
| `boot` | the `_boot_server` task of a name: before docker answers, during `SERVER_START_WAIT`, or none; `_start_events` has a name exactly while its task runs |
| `stopping` | the `_stop_server` task: queued by the cleanup loop, in `container.stop`, in `container.remove`, before the entry is dropped |
| `container` | what docker knows (external) |
| `monitors`, `links` | `monitor_broadcast` tasks, and those with a connection |
| `req` | each caller of `get_backend`: waiting for the event, woken, holding a session |

No critical section of `_lock` awaits anything, so each is one action. What
interleaves are the pieces between awaits: `AssignRunning`, `WaitForStatic` and
`CreateDynamic` are the three ends of the first critical section of
`get_backend`; `ClaimBooted` is the second one, after the event; `WaitTimeout`
is `wait_for` giving up. `BootLaunch`/`BootReady`/`BootFails` and
`StopBegin`/`StopContainer`/`RemoveContainer`/`ForgetServer`/`StopFails` are the
pieces of the two tasks. The caller is modelled by its contract: it closes a
session once. What the router really does is in `Router`.

A docker call that raises may have had its effect or not (`LaunchLeftover`,
`StopLeftover`). A monitor of a server that was removed goes on with an object
nobody reads, so it stops counting.

### `Router`

| variable | code |
|---|---|
| `sess` | `_sessions`: backend, whether the mode is final, the replay buffer |
| `handler` | the `_handle` task of a first packet; its address is in `_pending` while it runs |
| `redirect` | the `_open` task of a redirect, whose address is in neither |
| `sockets` | upstream sockets that are open, with or without a session |
| `closing` | `_notify_close` calls in flight |
| `ledger` | the manager's counts (`close_session` and the increments of `get_backend`) |
| `prefs` | `_mode_prefs`, by host: clients behind one NAT share it |
| `silent` | the addresses with `now - last_seen > SESSION_TIMEOUT` |

What `_handle` does for an established session happens before its first await
and is one action per case: `CommittedPacket`, `PlainPacket`, `ConfirmingJoin`,
`RedirectingJoin`. Each of them refreshes the session, and so does every packet
of a backend (`BackendPacket`), also one that arrives on a socket an earlier
session of the address has left open. `FallsSilent` is `SESSION_TIMEOUT` seconds
without any of them, and only a session that is silent at the tick of the
cleanup loop expires. A client that is gone thus keeps its session for as long
as its backend sends.

### `MatchState` and `Proxy`

`MatchState` gives the operations of `MatchStateManager` as actions on its own
variables; `Proxy` extends it and uses them as parts of its steps. The
callbacks `on_player_leave` and `on_match_end` are tasks that wait to run
(`leaving`, `ending`).

| variable | code |
|---|---|
| `handler` | the `_handle` task of a first packet: in the lookups of the database, or waiting for its socket |
| `sess`, `object` | `_sessions`, and the session objects, which outlive their entry as long as a task refers to them |
| `active` | whether the session is within its timeouts |
| `identify`, `announce` | `_identify_session` tasks, before and after the session got its user |
| `sweep` | the tasks that close sessions one after the other: what is left to do, and the session whose closing is being logged |
| `rows` | rows of `connection_log` without `disconnected_at` |

`Closed` is the code of `_close_session` after its await, and the next round of
the caller's loop: the user is read from the object *then*, so an
identification that ended meanwhile counts. The database answers calls in the
order they were made on its one connection, hence `LookedUp`. Bans, tokens and
names are a choice here: a lookup accepts or refuses. What it decides is in
`Identity`, and how it races the commands of an admin in `Accounts`. User names
are compared as they are written. `Dead` is what an exception leaves of the
cleanup loop.

### `AccountTables`, `Accounts` and `AuthDb`

`AccountTables` has the tables of users, tokens and bans with what SQLite does
on its own: uniqueness, foreign keys, cascades, and ids that are given again
(`Strict = FALSE`: the schema of the router) or never again (`Strict = TRUE`:
the `AUTOINCREMENT` of the proxy). `Accounts` and `AuthDb` are the two servers
that use them.

| variable of `Accounts` | code |
|---|---|
| `db`, `disk` | the tables as the one connection of `database.py` sees them, and as of its last commit |
| `cmd` | the command each session of `tcp_control.py` is at: the statement that comes next, and what it read |
| `join`, `session` | `_open_session` of a client with a valid token, and its entry in `_sessions` |
| `held`, `dead`, `banned` | history: what the answers of commands have promised |

A step is one SQL statement with the code up to the next one. There is one
transaction for all tasks, so a commit by anyone (`LogCommit` stands for the
commits of the connection log) makes whatever is written durable, and only a
`Crash` rolls back. `raced` remembers that a ban was inserted after a join had
looked for it. In `AuthDb`, the control and pre-auth servers of the router, each
database call is a connection and a transaction of its own, so a step is one
call.

### `PacketParser` and `Identity`

`PacketParser` has the functions of `packet_parser.py` as operators on sequences
of bytes: a name is found by its marker, encoded (every code doubled) or plain,
and written over in place, padded or cut to its slot. `Identity` is what
`_open_session`, `_identify_session` and `_handle` decide on the packets of one
client, each handled at once: `Outcomes` is the order of the fields, and
`Rewritten` what a retransmission becomes. `Owners` is the query of
`validate_token`, whose `LIKE` (`Like`) takes the client's text as a pattern: any
beginning of a token will do, however short, in capitals or not, and so will a
text with `%` or `_` in it that matches one. A user may have several tokens
(`TokensOf`), of any bytes: those of the web pages are no hex digits. The run
compares `Like` with a character by character reading of the pattern
(`LikeMatches`). `ByNone` leaves it open whether `resolve_player` finds a player.
`Unknown` is the name `_open_session`
gives to sessions of nobody, which the retransmission branch compares with.
`sent` and `seen` are the last packet
and what the game server got of it. The interleavings are in `Proxy`.

### `Supervisor`

| variable | code |
|---|---|
| `loop` | where `_run_loop` is suspended: creating the process, in `asyncio.wait`, awaiting the watchers it cancelled, waiting for the process to end, sleeping 5 or 15 seconds |
| `game`, `orphans` | the process `_proc` refers to, and live ones nothing refers to |
| `wanted` | `_restart_event` |
| `watcher` | the `_watch_log` task |
| `main` | `_main`: running, its tasks cancelled, in `stop()`, at its end, or cut short in `stop()`; `_running` is cleared by `stop()` |

`Begin` is the head of the loop (clear the event, reset the match state),
which runs without a suspension after each sleep. `Signal` is the shutdown
handler: it cancels every task, but a cancellation that comes while the loop
awaits a cancelled watcher is swallowed by the `except` there. The handler stays
installed: `SignalAgain` is each further signal, which cancels the tasks once
more and, in `stop()`, the wait for the game and with it the rest of `_main`.

Three orders are taken from the clock: a killed process is gone and a tracker's
last report is read before the sleep of 5 seconds is over, and `stop()` begins
before it is. The first one is an assumption about the operating system, which
the code does not check (`game_supervisor.py:127`): `SleepOver` has it as a
guard, and `OneGame` therefore says nothing of a killed process that lingers.

### `Broadcast`

| variable | code |
|---|---|
| `version` | the match state, as the number of its changes |
| `clients`, `conn` | `_clients`, and the connections themselves |
| `full`, `waiting` | what asyncio keeps of a transport that paused writing, and of the tasks in its `drain` |
| `ready`, `running` | the ready queue of the event loop, in order, and the push that has the loop |
| `push` | the task of each change: the clients of its copy it is not done with, and those whose drain raised |

The loop runs its queue in order, so the queue is modelled: the order in which
pushes that waited go on is not a free choice. A push meets the clients of its
copy in any order (the code iterates over a set). A write to a lost connection
yields once and then raises; a write to a full one waits.

### Bounds

Every bound is a constant named in its module: `MaxIndex` (names per group),
`MaxMonitors`, `MaxCalls` (tasks of one kind per backend), `MaxCount`,
`MaxTasks`, `MaxObjects`, `MaxJoins`, `MaxRows`, `MaxId` and `MaxTokens` (ids and
tokens ever given), `MaxCrashes`, `MaxVersion` (changes). A server has one stop task at
a time, an address one redirect at a time. A bound disables the step that would
exceed it; none is reached by the shortest ways into the cases named below.
`MaxJoins` also keeps `IdentifyResolved` from announcing a session more often
than it may send joins; where it is 1, as in the runs, that forbids nothing.

## 3. What is checked

Runs that pass:

| run | instance | what it shows |
|---|---|---|
| `manager_safety` | two callers, one static and one dynamic name, `MAX_SESSIONS` 2, docker may raise, lobby and match reports | `SessionLedger`, `HeldIsUp`, `NoLostWakeup`, `Monitored`, `DynamicLifecycle`, `DynamicStaysUp`, and that the manager implements `SessionLease` (`KeepsLease`) |
| `manager_service` | the same servers, `MAX_SESSIONS` 1, docker never raises, fairness | `Answered`: a waiter gets a server or an error; `FreshName`: a name given out belongs to no container; `ScaleDown`: without callers, dynamic servers are removed and static ones stopped |
| `router_vanilla` | two clients behind one NAT, three backends, a manager, no failures, no `EFMode` in joins | `OneSocket`, `AccountingExact`; `CountsReturn`: a router whose clients and backends are silent for good leaves nothing counted and nothing open |
| `router_rough` | one client, redirects, failing calls and sockets | `SessionHasSocket`; `PendingClears` and `Drains`: no address stays pending; once clients and backends are silent for good, everything comes to rest |
| `proxy_sessions` | two clients on one host, a user each, kicks and bans, joins at first and later | `RowsExact`: each connection is logged off once; `Listed`: no late closing takes a present player off the list |
| `supervisor_restarts` | one player, all reports, requests, exits, launch failures and a shutdown at any moment, with further signals | `OneGame`, `NoneLeft`, `FreshMatch`, `RequestKept`; `RequestServed`: a request leads to a launch; `Settles`: left in peace, the supervisor ends up with a game that runs |
| `proxy_faults` | one client, joins with and without token, failing database and sockets, kicks, every report of the game | `NeverReplaced`: no session is overwritten in place; `SilentCloses`: a silent session goes unless an exception ended the cleanup loop |
| `accounts_tokens` | a bot and a CLI, two Discord ids, two names, two tokens, a client, a crash; 3.8 million states | `RightAccount`: no token logs in another's account, also when its user was deleted under the command; `AnsweredTokenKept` and `RevokedForGood`: answers outlive crashes |
| `accounts_bans` | a bot and a CLI that ban and unban, two clients on one host, a crash; 1.7 million states | `BanHolds`: an answered ban holds, except for a join that had looked for it before it was there |
| `identity_packets` | two users, neither called "unknown", one of them with two tokens, every packet made of URLs with a name, a token (whole, cut, in capitals), a text with a wildcard or nothing in either form, and of 7 tails, and one that is no join | `GameSeesUser`; `AuthGate`: with `require_auth` a join gets through only for a user, known by a text that begins a token of his or has a wildcard; `UidIsTheClients`: the machine noted is the one in the packet |
| `broadcast_clients` | two clients that may stall, three changes | `EveryChangePushed`; `PushesEnd`: every push ends if the clients read or go |

Two callers are enough for one to be granted, or wait, while the server of the
other is booted, stopped or forgotten; one static and one dynamic name of one
group reach every branch of `get_backend`, and groups share no state. Two
clients are enough for the counts of one backend to mix, and one host for them
to share a preference. In the proxy, the entries of different addresses meet
only through users, hosts, the list of a sweep and the player list, so two
addresses with a sweep besides the cleanup loop bring each pair of tasks
together; three objects allow a session, its successor and one still in a task.
Two control sessions are one command interrupted by another; two ids are a user
and the one registered after its deletion; two tokens are the old and the new
one; one crash loses what was not committed, and a second finds nothing new to
lose. In the broadcast three changes are the push that waits, one that waits
behind it and one that overtakes. The packets of `identity_packets` have shorter
markers, tokens (four hex digits, two of them in the UID field) and ids than
the game's, which the operators take as constants; the names fit their slot, are
shorter or longer than it, in other cases, and unknown.

Two runs leave something out on purpose, because the code promises nothing
there. `router_vanilla` has no redirects and no failures: a redirect is not
counted by the manager while its end is reported, and a call that fails is not
repeated, so `AccountingExact` cannot hold with them. `proxy_sessions` has no
database errors and no reports of the game: the code does not retry an
announcement that raised, and `reset` empties the list under live sessions.
`Answered` is checked in `manager_service`, where docker never raises; that the
failure of a boot wakes its waiters is `NoLostWakeup`, in `manager_safety`.
`HeldIsUp` speaks of boots and stops under way for dynamic servers only: a
static one may be booted, and handed out, while an earlier stop is still under
way (the first divergence below). `SilentCloses` excepts a cleanup loop that an
exception has ended. `NoneLeft` promises less of a shutdown cut short by a
second signal, and `AuthGate` excepts texts with a wildcard.
The properties of `Accounts` except, by their history variables, what the code
does not promise: two rotations for one user that cross, and a join that passed
its check before a ban (both among the divergences below).

Each property has a variant of some definition (marked "Variant" in the
modules) that a plausible mistake would give, and that breaks it; the pairs are
in `PROJECT.json` under "mutants".

One run finds what a comment of the code says violated (see "findings"):
`auth_reuse`. The users of the router have ids that are given again, so a
rotation that read a user who is deleted writes its token for the next user
registered, and the pre-auth server lets it log in there (`udp_router.py:552`).
`RightAccount`, the same question of the proxy's database, holds: its ids are
never given again.

The runs of the supervisor, of the accounts and of the broadcast do not look for
deadlock: once the program is down, the commands and crashes of the bound are
used up or all connections are lost, nothing happens any more.

Divergences that need no run, because one reading of the code or of the steps
named shows them:

* `running = False` is set before docker stops a static server; a caller boots
  it at once, docker start of a container that still runs does nothing, docker
  stop then takes it down, and the server is handed out
  (`server_manager.py:275`; `StopBegin`, `WaitForStatic`, `BootLaunch`,
  `StopContainer`, `BootReady`);
* a packet between the deletion of a redirected session and the end of its
  `_open` starts a second session: one of the two sockets is never closed
  (`udp_router.py:240`; `RedirectingJoin`, `FirstPacket`, `FirstOpened`,
  `RedirectOpened`);
* a user comes back from a new address; the old session expires, the user leaves
  the list, and everything of that name is kicked (`main.py:44`; `FallSilent`,
  `Cleanup`, `Closed`, `PlayerLeave`);
* a session is closed while its join is looked up; its player is announced
  afterwards and stays on the list (`udp_proxy.py:269`; `LateJoin`, `Cleanup`,
  `Closed`, `IdentifyResolved`, `Announce`);
* `_watch_log` returns because no log is configured or none appears within a
  minute: the round ends, and a game that runs well is terminated, every time
  (`game_supervisor.py:113`; `LogGivenUp`, `Wake`);
* a second signal cancels `stop()` while it waits for the game: a game that
  ignores SIGTERM is not killed, and the database is not closed (`main.py:54`;
  `Signal`, `Stop`, `SignalAgain`);
* a text with `%` or `_` in it is a pattern for `validate_token`, and may pass for
  a token it is not the beginning of (`database.py:333`, where lines 327 and 328
  speak of tokens that start with the prefix; `FirstJoin`, `LateJoin`);
* two rotations that cross leave two valid tokens (`database.py:310`), and a
  rotation half done may be made durable by somebody else's commit, which leaves
  the user without any (`database.py:119`);
* a BAN between the check and the opening of a join kicks nobody, and the join
  goes on (`udp_proxy.py:335`);
* roles set for a user deleted meanwhile are answered with ok
  (`tcp_control.py:356`);
* `resolve_player` answers a name that is taken with the account of its owner
  (`database.py:301`), and lets the `IntegrityError` of an update through
  (`database.py:281`);
* tokens are called consumed and single-use (`udp_proxy.py:8`,
  `index.php:121`) and never are (`database.py:324`);
* one client that does not read holds up every push for those behind it
  (`broadcast.py:59`), and a later push may be written before an earlier one
  (`broadcast.py:55`);
* a user may register as "unknown", the name of sessions of nobody, and then a join
  that he sends again goes through with the token (`udp_proxy.py:135`, where line
  136 says that the game server always sees the name; `FirstJoin`, `JoinAgain`);
* the id of a machine with a name of one letter is not found
  (`packet_parser.py:206`);
* later joins of a session known by its UID field are not looked at
  (`udp_proxy.py:135`), and first packets that join send `EF_AUTH` without
  `is_dev` (`udp_proxy.py:377`);
* callers that wait for one boot are all counted on it, whatever `MAX_SESSIONS`
  says (`server_manager.py:157`; line 12 says "sessions < MAX_SESSIONS");
* one exception of the database ends `run_cleanup_loop`, and no session expires
  any more (`udp_proxy.py:491`; line 21 says that sessions expire);
* every boot of a static server adds a `monitor_broadcast` task, and the ones
  of its former boots do not end while the name is tracked
  (`server_manager.py:260`; line 175 speaks of "a persistent TCP connection");
* the replay buffer of the router keeps the first packets and ignores the later
  ones (`udp_router.py:223`), where line 158 speaks of recent packets;
* a redirect opens its session without asking the manager
  (`udp_router.py:241`), which therefore counts off a session it never counted;
* a full report of the tracker that does not name a player who is still joining
  takes the player off the list and kicks the session (`match_state.py:167`).

### Fairness

Safety runs use a specification without fairness, except in `Broadcast`, whose
one `Spec` has both. The others' `FairSpec` is weak fairness only:

* tasks that can go on do, because the event loop runs what is ready;
* docker, HTTP and database calls end, with or without an error: HTTP calls
  have timeouts, the others run in threads that return;
* timers elapse, silence lasts for its timeout, and the cleanup loops tick;
* game processes are created or not, and a killed one is gone.

In `Broadcast` the loop is weakly fair, and `Resume` strongly: a client may be
filled up, resumed and filled up again, and TCP gives no more than that one who
stays connected reads some time after each. The loop's queue needs no fairness
of its own, since it is run in order.

Clients, callers, game reports, lost connections and the timeout of a waiting
caller owe nothing: `Answered` must not rest on the timeout, and a client may
stay silent for ever. `ScaleDown` assumes that the callers fall silent for good,
which is its question. `Drains` and `CountsReturn` assume `Silence`: neither
clients nor backends send any more, and `SESSION_TIMEOUT` passes. The silence of
the clients alone would not do, for a backend that sends refreshes the session;
that game servers fall silent some time after their clients is an assumption
about them, and none of the fairness of the router.

## 4. What is proved

### `ServerManagerProofs`

It holds for every set of groups, callers and static
servers, every `MaxIndex`, `MAX_SESSIONS` and set of reports, from
`ManagerAssumption` alone (callers are finitely many, `NoServer` is no server,
`MAX_SESSIONS > 0`, at least one monitor per server is counted).

| theorem | states |
|---|---|
| `TypeCorrect` | `Spec => []TypeOK` |
| `DynamicLifecycleHolds` | boot, service and stop of a dynamic server never overlap |
| `SessionLedgerHolds` | the count of a server is the number of its holders |
| `HeldIsUpHolds` | sessions are held only on servers in service, and on dynamic ones only while no boot and no stop is under way |
| `NoLostWakeupHolds` | a waiter has a boot task that will wake it |
| `DynamicStaysUpHolds` | no step stops the container of a dynamic server in use |
| `MonitoredHolds` | a server in service has a monitor |
| `FreshNameHolds` | names given out belong to no container, if docker raises nothing |
| `Implementation` | `Spec => Lease!LeaseSpec` |

The inductive invariant is `TypeOK /\ DynamicLifecycle /\ Ledger`, where
`Ledger` is `SessionLedger /\ HeldInService`, the latter being the first part of
`HeldIsUp`; its second part follows from `DynamicLifecycle`, since a server that
boots or is past `StopBegin` is out of service. The parts need one another. `StopBegin`
takes a server down when its count is 0, which says that nobody holds a session
only by `SessionLedger`. `CreateDynamic` sets the count of a new entry to 0,
which is right only because nobody holds a session on an unknown name, by
`HeldInService`. `BootFails` and `ForgetServer` drop an entry, and `HeldInService`
survives because a server that boots or has been stopped is out of service, by
`DynamicLifecycle`. This last one is inductive with `TypeOK`, because only
servers in service are queued for a stop and only unknown names get a dynamic
boot. `NoLostWakeup` needs the types only. `MonitoredHolds` uses `Watched`: a
server queued for a stop or being stopped keeps its monitor, for a stop that
fails puts it back in service. `FreshNameHolds` uses `Fresh`: an entry about to
be dropped has no container.

The lemmas on cardinality (`HoldersGain`, `HoldersLose`, `LedgerGrant`,
`LedgerRelease`) say what a session granted or given back does to the set of
holders and to its size; the step lemmas cite them, one step per action.

### `SupervisorProofs`

It holds for every set of players and of reports, from `MatchAssumption` and
`SupervisorAssumption`: `SupervisorTypeCorrect`, `OneGameHolds`,
`NoneLeftHolds`, `FreshMatchHolds`, `RequestKeptHolds`.

The inductive invariant is `TypeOK /\ Rounds /\ FreshMatch`. `Rounds` says what
is left of a game at each place of the loop and of the shutdown: nothing alive
where one is launched, at most a killed process in the pause before, no game
up once `stop()` has begun, also if a second signal cuts it short. `OneGame`
needs it, since a launch over a live
process is what makes an orphan, and it needs `SleepOver` not to begin a round
over a killed process. `FreshMatch` needs the type invariant, which ties the log
watcher to its round. `OperationType` is the lemma that every operation of
`MatchState` keeps its types.

### `RouterProofs`

For every set of clients, backends and modes, and whatever fails,
`RouterTypeCorrect` and `SessionHasSocketHolds`, from `RouterAssumption`. The
invariant is `TypeOK /\ SessionHasSocket`.

Two more theorems have a hypothesis, because the code does not promise more:
`OneSocketHolds` assumes that no join names a mode (`JoinModes = {}`, so nobody
is redirected), and `AccountingExactHolds` in addition that there is a manager
and that nothing fails: a redirect opens a session nobody counts, and a call
that fails is not repeated. Their invariant adds `Plain`: no redirect is under
way, and an address that is being handled has no session. `AccountingExact` is
about sizes of sets, so lemmas say what an address that joins or leaves a set
does to its size, and each step names the set it moves an address into and out
of: opening, on, or reported.

### `ProxyProofs`

For every set of addresses, users and tasks, from `MatchAssumption`,
`ProxyAssumption` and `NoneAssumption` (`None` and `Dead` are no records):

| theorem | states |
|---|---|
| `NeverReplacedHolds` | a session is never overwritten in place |
| `ProxyTypeCorrect` | `TypeOK`: objects belong to the address they serve, nobody is pending and in session, no connection is logged off too often |
| `RowsExactHolds` | if nothing fails, the open rows are those of the sessions, of the handlers that wait for a socket, and of the closings being logged |
| `ListedHolds` | if nothing fails, each user has an address of his own and only the proxy takes players off the list, who is identified and announced is on it |

The hypotheses of the last two are the cases where the code promises something:
a database error between the row and the session leaves a row open, a second
address of a user kicks the first, and `reset`, `set_offline` and a full list of
the tracker empty the list under live sessions (all among the divergences or
hazards). They ask less than the run `proxy_sessions`, which leaves out every
report of the game: here reports that keep the players are allowed.

`NeverReplaced` rests on `Exclusive`: an address is being handled or has a
session, never both. Every step is one of two kinds, `NoneOpened` (sessions stay
or go) and `HandlerMoves` (one handler goes on, and leaves a session where it
ends). The other three rest on `Sound`, which adds to it

* `Typed` and `Live`: whatever a session, a task or a sweep refers to is an
  object that exists, of the right address. Objects are given again when nothing
  refers to them, so this is what makes "the object I hold" the same one after
  an await;
* `Rows`: of an address, at most one of these is there: a session, a handler that
  waits for its socket, *one* task that logs its closing (`OnceAt`), and where one
  is, a row is open (`CountedAt`). The step that makes it so is `Pop`: the entry
  leaves `_sessions` before the first await of `_close_session`, so a second
  closer finds nothing. Without failures the row is there exactly then.

Steps are sorted by what they do to rows: `Talks` (nothing), `Moves` (a handler
goes on), `Opens`, and `Sweeps` (a closer begins, logs, goes on or fails).
`ListedHolds` adds `Own`: the users of an address's handler, lookups and sessions
are among those who join from it. So the user whom a late `Closed` takes off the
list is of the closing's address, and by `OnceAt` that address has no session
then.

### `AccountsProofs`

`RightAccountHolds`: for every set of control sessions, clients and users, a
token logs in the account of the Discord id it was drawn for. The invariant has
two parts. `Rows` says of the tables, in memory and on disk, that ids are at
most the last one given and that a token belongs to a user of its Discord id, or
to one who is gone. `Reading` says of every command that writes with an id it
read that this id is at most the last one given, and still of the Discord user
it was read for, if of anyone. `RegisterInsert` preserves both because the new
id is above the last one given: without `AUTOINCREMENT` they fail, and that
failure is the run `auth_reuse`. `Crash` preserves them because no command
outlives it.

### `AnswersProofs`

What the answers of the control server promise, for any commands, clients, ids,
tokens and crashes: `AccountsTypeCorrect`, `RevokedForGoodHolds`,
`AnsweredTokenKeptHolds` and `BanHoldsAlways`. They assume `TablesAssumption`,
`AccountsAssumption` and that `None` is no row of a user (`NoneAssumption`). The
invariants come in layers, each inductive with those before it.

* `Typed`: the tables are sound, in memory and on disk (`Sound`: uniqueness and
  references), a command that holds an id holds one that was given, and the name
  it kicks by is that user's (`Placed`), as are those of joins and sessions
  (`Who`). Along every step but a crash the tables grow without renaming anybody
  (`Follows`), which is why what was read before an await is still good.
* `Crossings`: of two commands on one subject that could undo each other, both
  know of it (`crossed`). The promises except those, so the layers below may
  take a command that knows of none to be alone.
* `Ending`, for `RevokedForGood`: no row in memory or on disk is of a token a
  command has ended (`Drawn`), and a command past its DELETE has left none of the
  tokens it found (`Finds`), so its commit makes that durable whoever wrote in
  between.
* `Keeping`, for `AnsweredTokenKept`: an answered token has a row in memory and on
  disk that no command in flight could take away (`HeldAs`), and a rotation
  nothing crossed has the row it is about to answer in memory (`Drew`).
* `Banning`, for `BanHolds`: once a ban is inserted, every join past its check is
  marked as raced (`Guarded`); once the kick begins, so is every session but
  those still on its list (`Clear`). `Guarded` is what makes `Clear` last: a
  session that opens after the kick was a join past its check.

As there, an action is first shown to be one of a few kinds (`Begins`, `Draws`,
`Bans`, `Kicks`, ...), and each layer is proved kind by kind.

### `IdentityProofs`

`GameSeesUserHolds` and `AuthGateHolds`, for every set of users, tokens and
packets, and every markers and lengths that satisfy `ParserAssumption`,
`MarkerAssumption` and `IdentityAssumption`: a name has no delimiter and no byte
that cannot be printed (`_USERNAME_RE`), and a marker begins with a delimiter,
has no other, and is not the beginning of another. The first theorem assumes
that nobody is called "unknown"; with `Unknown` among the users of the run TLC
refutes it in two joins (see the divergences).

`AuthGateHolds` says of each join that is let through which text it was let
through for: one of the field the session is known by, which begins a token of
the session's user or has a wildcard. `LikeBegins` is the lemma that a text
without a wildcard that is like a token begins it.

The invariant `Sound` is small: with `require_auth` whoever is known gave a token
(`Known`), and a name that was written is a user's (`Named`). What carries the
proof is the lemma `Reparse`: *after a name is written to the name field of a
packet, that name is what `extract_name` reads there, cut or filled up to the
slot*. It is not obvious, because `extract_name` takes the first field that is not
empty of up to three, and writing might make or break a marker. The argument:

* a name field ends before the first delimiter, and what is written has none
  (`FittedClear`), so every marker, which begins with one, lies outside of the
  slot before and after (`MarkersOutside`), hence none moves (`PlacesSame`);
* a field that was empty before the chosen one stays empty: it ends at a byte
  that was not written, for only the chosen marker ends where the slot begins
  (`EmptyStays`);
* the chosen field now ends where the text does, if it is encoded and shorter
  than the slot, and else where the slot does (`WrittenRead`).

No induction is needed: the searches are stated as least elements of sets of
places, which exist because `<` is well-founded on the naturals (`LeastOf`).

### `BroadcastProofs`

`BroadcastTypeCorrect` and `EveryChangePushedHolds`, for any number of clients
and changes. The invariant adds to `TypeOK` and `EveryChangePushed` what is
queued (`Queued`: a handler in the queue is that of a lost connection) and where
pushes are suspended (`Waits`: a push in the drain of a connected client has
written to it; one that yields has met a lost client; a later version has no
push). `PushWakes` takes a client off the list of a push, which loses no write
only by `Waits`; `HandlerEnds` and `PushEnds` take clients off `_clients`, which
loses none because they are lost, by `Queued` and the type of `stale`.

### Only model-checked

Liveness (`Answered`, `ScaleDown`, `PendingClears`, `Drains`, `CountsReturn`,
`SilentCloses`, `RequestServed`, `Settles`, `PushesEnd`), which is out of reach
of the prover, and `UidIsTheClients` of `Identity`: a machine id is a text of a
certain form in a segment of the packet, so whether writing a name can make or
break one depends on the lengths of names, tokens and ids, which the run fixes and
the theorems leave open. `LogsInItsOwner` of `AuthDb` is violated.

## 5. Plan

Done, in this order: `SessionLease`, `ServerManager` and its proofs; `Router`;
`MatchState` and `Proxy`; `Supervisor` and its proofs; then `Broadcast`,
`AccountTables` with `Accounts` and `AuthDb`, `PacketParser` with `Identity`,
and the proofs about `Router`, `Proxy`, `Accounts`, `Broadcast` and `Identity`.
The order
was that of what players depend on: whether their server stays up, whether their
packets arrive, whether they stay on the list, whether the game is there, who
they are taken for.

Left:

1. `Matchmaking`: `Router` with the real `ServerManager` in place of `ledger`.
   Question: what the uncounted sessions of a redirect and the counts that are
   never undone do to the idle stop.
2. `resolve_player` and the aliases, as statements of a join in `Accounts`.
3. `ManagerRecovery`: restart of the manager process over containers that
   exist, and names that a failed `docker run` leaves taken.
4. Theorems: `UidIsTheClients` for names shorter than a machine id; and what of
   `RowsExact` remains when the database or a socket fails, where rows stay open
   but none is logged off twice.

## 6. What is not modelled, and why

* The contents of relayed packets, the `EF_AUTH` packets, and `decode_join_url`,
  whose result is only logged. Packets of a game server refresh the router's
  session, which `BackendPacket` of `Router` does. In the proxy they put off the
  timeouts on the silence of both sides, but not the one on the client's
  (`udp_proxy.py:487`): they delay `FallSilent` and keep no session for ever.
* `resolve_player`, aliases and `set_map_name`; the expiry of temporary bans,
  which are bans in `Accounts`.
* Wall-clock time: timeouts are steps that may happen whenever they are armed.
* `GET /status` and other reads without effect; logging; formatting.
* Configuration, which is read once; build files and shell scripts; the legacy
  launcher in `GameServer/`; the load simulator in `tools/`; the pages in
  `web/`, which are requests over the database and the control port. The pages
  write tokens on a connection of their own (`index.php:61`), so what `Accounts`
  says of tokens holds for a database the proxy alone writes to.
* The game server and the tracker DLL, which are not in the repository: what
  they report is a choice among `Reports`, `TrackerPush` and `MatchEvents`.
