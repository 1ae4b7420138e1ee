----------------------------- MODULE ProxyProofs -----------------------------
(***************************************************************************)
(* Proofs about Proxy, for every set of addresses, users and tasks: an     *)
(* address whose first packet is being handled has no session, so that no  *)
(* session is put in the place of another; an address has one session, one *)
(* handler that waits for a socket or one closing that is being logged, so *)
(* that each connection is logged off once; and the players whose sessions *)
(* are identified are on the list.                                         *)
(***************************************************************************)
EXTENDS Proxy, FiniteSetTheorems, TLAPS

\* _sessions and the handlers are tables by address.
Tables ==
  /\ sess = [a \in Addr |-> sess[a]]
  /\ handler = [a \in Addr |-> handler[a]]

\* An address is in _pending or in _sessions, or in neither.
Exclusive == \A a \in Addr : handler[a] = None \/ sess[a] = None

Inv == Tables /\ Exclusive

\* What a step does that opens no session: sessions stay or go.
NoneOpened ==
  /\ handler' = handler
  /\ sess' = [a \in Addr |-> sess'[a]]
  /\ \A a \in Addr : sess'[a] \in {sess[a], None}

\* What the steps of a first packet do: one address changes its handler, and
\* gets its session where the handler ends.
HandlerMoves(a) ==
  /\ \E h : handler' = [handler EXCEPT ![a] = h]
  /\ sess[a] = None
  /\ \/ sess' = sess
     \/ \E i : sess' = [sess EXCEPT ![a] = i] /\ handler'[a] = None

LEMMA NoneOpenedInv ==
  ASSUME Inv, NoneOpened
  PROVE  Inv' /\ \A a \in Addr : sess[a] # None => sess'[a] \in {sess[a], None}
<1>1. Tables'
  BY DEF Inv, Tables, NoneOpened
<1>2. Exclusive'
  BY DEF Inv, Exclusive, NoneOpened
<1> QED
  BY <1>1, <1>2 DEF Inv, NoneOpened

LEMMA HandlerMovesInv ==
  ASSUME Inv, NEW a \in Addr, HandlerMoves(a)
  PROVE  Inv' /\ \A x \in Addr : sess[x] # None => sess'[x] \in {sess[x], None}
<1>1. /\ handler' = [x \in Addr |-> handler'[x]]
      /\ \A x \in Addr : x # a => handler'[x] = handler[x]
  BY DEF Inv, Tables, HandlerMoves
<1>2. /\ sess' = [x \in Addr |-> sess'[x]]
      /\ \A x \in Addr : x # a => sess'[x] = sess[x]
  BY DEF Inv, Tables, HandlerMoves
<1>3. sess[a] = None /\ (sess'[a] = None \/ handler'[a] = None)
  BY DEF HandlerMoves
<1>4. Exclusive'
  BY <1>1, <1>2, <1>3 DEF Inv, Exclusive
<1> QED
  BY <1>1, <1>2, <1>3, <1>4 DEF Inv, Tables

\* The tasks that close sessions open none.
LEMMA CloseOpensNone ==
  ASSUME Inv, handler' = handler, NEW k, NEW todo \in SUBSET Addr, NEW kick, Close(k, todo, kick)
  PROVE  NoneOpened
<1>1. CASE sess' = sess
  BY <1>1 DEF NoneOpened, Inv, Tables
<1>2. CASE \E a \in Addr : sess' = [sess EXCEPT ![a] = None]
  BY <1>2 DEF NoneOpened, Inv, Tables
<1> QED
  BY <1>1, <1>2 DEF Close, Pop

LEMMA StartOpensNone ==
  ASSUME Inv, handler' = handler, NEW k, NEW targets \in SUBSET Addr, NEW kick, Start(k, targets, kick)
  PROVE  NoneOpened
<1>1. CASE sess' = sess
  BY <1>1 DEF NoneOpened, Inv, Tables
<1>2. CASE Close(k, targets, kick)
  BY <1>2, CloseOpensNone
<1> QED
  BY <1>1, <1>2 DEF Start

\* Every step is of one of the two kinds.
LEMMA StepKinds ==
  ASSUME Inv, Next
  PROVE  NoneOpened \/ \E a \in Addr : HandlerMoves(a)
<1>n. ASSUME handler' = handler, sess' = sess PROVE NoneOpened
  BY <1>n DEF NoneOpened, Inv, Tables
<1>1. CASE ClientStep
  <2>1. ASSUME NEW a \in Addr, NEW p, FirstPacket(a, p) PROVE HandlerMoves(a)
    BY <2>1 DEF FirstPacket, HandlerMoves
  <2>2. ASSUME NEW a \in Addr, NEW p, LateJoin(a, p) PROVE NoneOpened
    BY <1>n, <2>2 DEF LateJoin
  <2>3. ASSUME NEW a \in Addr, Packet(a) PROVE NoneOpened
    BY <1>n, <2>3 DEF Packet
  <2> QED
    BY <1>1, <2>1, <2>2, <2>3 DEF ClientStep
<1>2. CASE TaskStep
  <2>1. ASSUME NEW a \in Addr, TurnedAway(a) \/ LogConnection(a) \/ SocketFails(a)
        PROVE  HandlerMoves(a)
    <3>1. handler[a] # None /\ sess[a] = None
      BY <2>1 DEF TurnedAway, LogConnection, SocketFails, LookedUp, Inv, Exclusive
    <3> QED
      BY <2>1, <3>1 DEF TurnedAway, LogConnection, SocketFails, HandlerMoves
  <2>2. ASSUME NEW a \in Addr, SocketOpened(a) PROVE HandlerMoves(a)
    <3>1. sess[a] = None
      BY <2>2 DEF SocketOpened, Inv, Exclusive
    <3>2. handler' = [handler EXCEPT ![a] = None] /\ handler'[a] = None
      BY <2>2 DEF SocketOpened, Inv, Tables
    <3>3. \E i : sess' = [sess EXCEPT ![a] = i]
      BY <2>2 DEF SocketOpened, Registered
    <3> QED
      BY <3>1, <3>2, <3>3 DEF HandlerMoves
  <2>3. ASSUME NEW i \in Object, NEW p \in JoinPacket,
               IdentifyRefused(i, p) \/ IdentifyNobody(i, p) \/ IdentifyResolved(i, p)
        PROVE  NoneOpened
    BY <1>n, <2>3 DEF IdentifyRefused, IdentifyNobody, IdentifyResolved
  <2>4. ASSUME NEW i \in Object, Announce(i) \/ AnnounceFails(i) PROVE NoneOpened
    BY <1>n, <2>4 DEF Announce, AnnounceFails
  <2>5. ASSUME NEW k \in Sweeper, Closed(k) PROVE NoneOpened
    <3>1. Close(k, sweep[k].todo, sweep[k].kick) /\ handler' = handler
      BY <2>5 DEF Closed
    <3>2. CASE sess' = sess
      BY <1>n, <3>1, <3>2
    <3>3. CASE \E a \in sweep[k].todo : sess' = [sess EXCEPT ![a] = None]
      BY <3>1, <3>3 DEF NoneOpened, Inv, Tables
    <3> QED
      BY <3>1, <3>2, <3>3 DEF Close, Pop
  <2>6. ASSUME NEW k \in Sweeper, CloseFails(k) PROVE NoneOpened
    BY <1>n, <2>6 DEF CloseFails
  <2>7. ASSUME NEW k \in Task, MatchEnd(k) PROVE NoneOpened
    BY <2>7, StartOpensNone DEF MatchEnd
  <2>8. ASSUME NEW k \in Task, NEW u \in User, PlayerLeave(k, u) PROVE NoneOpened
    BY <2>8, StartOpensNone DEF PlayerLeave, SessionsOf
  <2>9. CASE Cleanup
    BY <2>9, StartOpensNone DEF Cleanup
  <2>10. ASSUME NEW a \in Addr, FallSilent(a) PROVE NoneOpened
    BY <1>n, <2>10 DEF FallSilent
  <2> QED
    BY <1>2, <2>1, <2>2, <2>3, <2>4, <2>5, <2>6, <2>7, <2>8, <2>9, <2>10 DEF TaskStep
<1>3. CASE GameReports
  BY <1>3, <1>n DEF GameReports, proxyVars
<1>4. ASSUME NEW k \in Task, AdminKick(k) PROVE NoneOpened
  <2>1. PICK targets \in {SessionsOf(u) : u \in User}
                      \cup {{a \in Addr : sess[a] # None /\ IpOf[a] = h} : h \in Ip} :
          Start(k, targets, TRUE)
    BY <1>4 DEF AdminKick
  <2>2. targets \in SUBSET Addr
    BY <2>1 DEF SessionsOf
  <2> QED
    BY <1>4, <2>1, <2>2, StartOpensNone DEF AdminKick
<1> QED
  BY <1>1, <1>2, <1>3, <1>4 DEF Next

LEMMA Invariance == Spec => []Inv
<1>1. Init => Inv
  BY DEF Init, Inv, Tables, Exclusive
<1>2. Inv /\ [Next]_vars => Inv'
  <2> SUFFICES ASSUME Inv, [Next]_vars PROVE Inv'
    OBVIOUS
  <2>1. CASE Next
    BY <2>1, StepKinds, NoneOpenedInv, HandlerMovesInv
  <2>2. CASE UNCHANGED vars
    BY <2>2 DEF vars, proxyVars, Inv, Tables, Exclusive
  <2> QED
    BY <2>1, <2>2
<1> QED
  BY <1>1, <1>2, PTL DEF Spec

(***************************************************************************)
(* However its first packets and its lookups interleave with timeouts,     *)
(* kicks and the end of a match, the session of an address is never        *)
(* replaced in place (the test of _sessions and _pending, and the entry in *)
(* _pending, at udp_proxy.py:125-149, are one step).                       *)
(***************************************************************************)
THEOREM NeverReplacedHolds == Spec => NeverReplaced
<1>1. Inv /\ [Next]_vars =>
        [\A a \in Addr : sess[a] # None => sess'[a] \in {sess[a], None}]_vars
  BY StepKinds, NoneOpenedInv, HandlerMovesInv
<1> QED
  BY <1>1, Invariance, PTL DEF Spec, NeverReplaced

-----------------------------------------------------------------------------
(* Types, the life of a session object, and what the closing tasks do *)

\* The variables of the proxy, as tables of their types.
Typed ==
  /\ handler \in [Addr -> Pending \cup {None}]
  /\ sess \in [Addr -> Object \cup {None}]
  /\ object \in [Object -> Session \cup {None}]
  /\ active \in [Addr -> BOOLEAN]
  /\ identify \in [Object -> [JoinPacket -> 0..MaxJoins]]
  /\ announce \in [Object -> 0..MaxJoins]
  /\ sweep \in [Sweeper -> Sweep \cup {None, Dead}]

\* What is referred to is there, and a session belongs to its address.
Live ==
  /\ \A i \in Object : Referenced(i) => object[i] \in Session
  /\ \A a \in Addr : sess[a] # None => object[sess[a]].addr = a

\* The objects after a step that makes no reference to a new one.
Kept ==
  /\ object' \in [Object -> Session \cup {None}]
  /\ \A i \in Object : Referenced(i)' =>
       /\ Referenced(i)
       /\ object[i] \in Session
       /\ object'[i] \in Session
       /\ object'[i].addr = object[i].addr

\* ... and that changes no user.
KeptUsers == \A i \in Object : Referenced(i)' => object'[i].user = object[i].user

\* A closing task k stops, or takes the session of an address out of _sessions.
Stops(k) == sess' = sess /\ sweep'[k] = None
Pops(k, a) ==
  /\ sess[a] # None
  /\ sess' = [sess EXCEPT ![a] = None]
  /\ sweep'[k] \in Sweep
  /\ sweep'[k].closing = sess[a]
Goes(k) == Stops(k) \/ \E a \in Addr : Pops(k, a)

\* The other tasks are where they were.
Alone(k) == \A j \in Sweeper : j # k => sweep'[j] = sweep[j]

\* The variables a closing task writes.
CloseTypes ==
  /\ sess' \in [Addr -> Object \cup {None}]
  /\ active' \in [Addr -> BOOLEAN]
  /\ sweep' \in [Sweeper -> Sweep \cup {None, Dead}]
  /\ UNCHANGED <<identify, announce>>

LEMMA ObjectsKept ==
  ASSUME Typed, Live,
         NEW objects \in [Object -> Session \cup {None}],
         \A i \in Object : object[i] \in Session =>
           /\ objects[i] \in Session
           /\ objects[i].addr = object[i].addr,
         \A i \in Object : Referenced(i)' => Referenced(i),
         Objects(objects)
  PROVE  Kept /\ \A i \in Object : Referenced(i)' => object'[i] = objects[i]
<1>1. object' = [i \in Object |-> IF Referenced(i)' THEN objects[i] ELSE None]
  BY DEF Objects
<1>2. object' \in [Object -> Session \cup {None}]
  BY <1>1
<1>3. \A i \in Object : Referenced(i)' => object'[i] = objects[i]
  BY <1>1
<1>4. \A i \in Object : Referenced(i)' => object[i] \in Session
  BY DEF Live
<1> QED
  BY <1>2, <1>3, <1>4 DEF Kept

LEMMA SweepSort ==
  ASSUME Typed, NEW k \in Sweeper
  PROVE  /\ k \in Sweeping <=> sweep[k] \in Sweep
         /\ k \in Sweeping => /\ sweep[k].todo \in SUBSET Addr
                              /\ sweep[k].kick \in BOOLEAN
                              /\ sweep[k].closing \in Object
                              /\ sweep[k].closing \in Closing
<1>1. k \in Sweeping <=> sweep[k] \in Sweep
  BY NoneAssumption DEF Typed, Sweeping
<1>2. ASSUME k \in Sweeping
      PROVE  /\ sweep[k].todo \in SUBSET Addr
             /\ sweep[k].kick \in BOOLEAN
             /\ sweep[k].closing \in Object
  BY <1>1, <1>2 DEF Sweep
<1>3. k \in Sweeping => sweep[k].closing \in Closing
  BY DEF Closing
<1> QED
  BY <1>1, <1>2, <1>3

LEMMA PopEffect ==
  ASSUME Typed, Live, NEW k \in Sweeper, NEW a \in Addr, sess[a] # None,
         NEW rest \in SUBSET Addr, NEW kick \in BOOLEAN, Pop(k, a, rest, kick)
  PROVE  Pops(k, a) /\ Alone(k) /\ CloseTypes /\ Kept /\ KeptUsers
<1>1. /\ sess' = [sess EXCEPT ![a] = None]
      /\ active' = [active EXCEPT ![a] = FALSE]
      /\ sweep' = [sweep EXCEPT ![k] = [todo |-> rest, kick |-> kick, closing |-> sess[a]]]
      /\ identify' = identify
      /\ announce' = announce
  BY DEF Pop
<1>2. sess[a] \in Object /\ Referenced(sess[a]) /\ object[sess[a]] \in Session
  BY DEF Typed, Live, Referenced
<1>3. [todo |-> rest, kick |-> kick, closing |-> sess[a]] \in Sweep
  BY <1>2 DEF Sweep
<1>4. CloseTypes
  BY <1>1, <1>3 DEF CloseTypes, Typed
<1>5. Pops(k, a) /\ Alone(k)
  BY <1>1, <1>3 DEF Pops, Alone, Typed
<1>6. ASSUME NEW i \in Object, Referenced(i)' PROVE Referenced(i)
  <2>1. CASE \E x \in Addr : sess'[x] = i
    BY <1>1, <2>1, ProxyAssumption DEF Referenced, Typed
  <2>2. CASE i \in Closing'
    <3>1. PICK j \in Sweeper : sweep'[j] \notin {None, Dead} /\ i = sweep'[j].closing
      BY <2>2 DEF Closing, Sweeping
    <3>2. CASE j = k
      BY <1>1, <3>1, <3>2 DEF Referenced, Typed
    <3>3. CASE j # k
      <4>1. sweep'[j] = sweep[j]
        BY <1>5, <3>3 DEF Alone
      <4> QED
        BY <3>1, <4>1 DEF Referenced, Closing, Sweeping
    <3> QED
      BY <3>2, <3>3
  <2>3. CASE Identifying(i)' \/ announce'[i] > 0
    BY <1>1, <2>3 DEF Identifying, Referenced
  <2> QED
    BY <1>6, <2>1, <2>2, <2>3 DEF Referenced
<1>7. CASE kick
  <2> DEFINE objects == [object EXCEPT ![sess[a]].kicked = TRUE]
  <2>1. Objects(objects)
    BY <1>7 DEF Pop
  <2>2. objects \in [Object -> Session \cup {None}]
    BY <1>2 DEF Typed, Session
  <2>3. \A i \in Object : object[i] \in Session =>
          /\ objects[i] \in Session
          /\ objects[i].addr = object[i].addr
          /\ objects[i].user = object[i].user
    BY <1>2 DEF Typed, Session
  <2> HIDE DEF objects
  <2>4. Kept /\ \A i \in Object : Referenced(i)' => object'[i] = objects[i]
    BY <1>6, <2>1, <2>2, <2>3, ObjectsKept
  <2>5. KeptUsers
    BY <2>3, <2>4 DEF Kept, KeptUsers
  <2> QED
    BY <1>4, <1>5, <2>4, <2>5
<1>8. CASE ~kick
  <2>1. Objects(object)
    BY <1>8 DEF Pop
  <2>2. Kept /\ \A i \in Object : Referenced(i)' => object'[i] = object[i]
    BY <1>6, <2>1, ObjectsKept DEF Typed
  <2> QED
    BY <1>4, <1>5, <2>2 DEF KeptUsers
<1> QED
  BY <1>7, <1>8

\* A task that stops makes no reference.
LEMMA EndEffect ==
  ASSUME Typed, Live, NEW k \in Sweeper, NEW x \in {None, Dead},
         sweep' = [sweep EXCEPT ![k] = x], Objects(object),
         UNCHANGED <<sess, identify, announce>>
  PROVE  Alone(k) /\ sweep'[k] = x /\ sweep' \in [Sweeper -> Sweep \cup {None, Dead}] /\ Kept /\ KeptUsers
<1>1. Alone(k) /\ sweep'[k] = x /\ sweep' \in [Sweeper -> Sweep \cup {None, Dead}]
  BY DEF Typed, Alone
<1>2. Closing' \subseteq Closing
  BY <1>1 DEF Closing, Sweeping, Alone
<1>3. \A i \in Object : Referenced(i)' => Referenced(i)
  BY <1>2 DEF Referenced, Identifying
<1>4. Kept /\ \A i \in Object : Referenced(i)' => object'[i] = object[i]
  BY <1>3, ObjectsKept DEF Typed
<1> QED
  BY <1>1, <1>4 DEF KeptUsers

LEMMA CloseEffect ==
  ASSUME Typed, Live, NEW k \in Sweeper, NEW todo \in SUBSET Addr, NEW kick \in BOOLEAN,
         Close(k, todo, kick)
  PROVE  Goes(k) /\ Alone(k) /\ CloseTypes /\ Kept /\ KeptUsers
<1>1. ASSUME NEW a \in todo, sess[a] # None, NEW rest \in SUBSET Addr, Pop(k, a, rest, kick)
      PROVE  Goes(k) /\ Alone(k) /\ CloseTypes /\ Kept /\ KeptUsers
  BY <1>1, PopEffect DEF Goes
<1>2. ASSUME sweep' = [sweep EXCEPT ![k] = None], UNCHANGED <<sess, active, identify, announce>>,
             Objects(object)
      PROVE  Goes(k) /\ Alone(k) /\ CloseTypes /\ Kept /\ KeptUsers
  <2>1. Alone(k) /\ sweep'[k] = None /\ sweep' \in [Sweeper -> Sweep \cup {None, Dead}] /\ Kept /\ KeptUsers
    BY <1>2, EndEffect
  <2> QED
    BY <1>2, <2>1 DEF Goes, Stops, CloseTypes, Typed
<1> DEFINE present == {a \in todo : sess[a] # None}
<1>3. \/ \E a \in present : Pop(k, a, todo \ {a}, kick)
      \/ /\ sweep' = [sweep EXCEPT ![k] = None]
         /\ UNCHANGED <<sess, active, identify, announce>>
         /\ Objects(object)
  BY DEF Close
<1> QED
  BY <1>1, <1>2, <1>3

-----------------------------------------------------------------------------
(* The steps, seen by what they do to sessions, objects and rows *)

\* The rows are numbers, and the handlers that wait for a socket have one open.
RowsTyped == rows \in [Addr -> 0..MaxRows]
Waits(a)  == handler[a] # None /\ handler[a].phase = "socket"

\* A handler of address a begins or ends, or has the connection logged.
Moves(a) ==
  /\ \E h \in Pending \cup {None} : handler' = [handler EXCEPT ![a] = h]
  /\ UNCHANGED <<sess, object, active, identify, announce, sweep>>
Waitless(a) == ~Waits(a)' /\ rows' = rows /\ (Waits(a) => MayFail)
Logs(a) ==
  /\ ~Waits(a)
  /\ Waits(a)'
  /\ sess[a] = None
  /\ \A i \in Closing : object[i].addr # a
  /\ rows[a] < MaxRows
  /\ rows' = [rows EXCEPT ![a] = @ + 1]

\* The handler of address a opens its session, of user u.
Opens(a, u) ==
  /\ Waits(a)
  /\ u \in User \cup {None}
  /\ handler' = [handler EXCEPT ![a] = None]
  /\ \E i \in Object :
       /\ object[i] = None
       /\ sess' = [sess EXCEPT ![a] = i]
       /\ object' = [object EXCEPT ![i] = [addr |-> a, user |-> u, kicked |-> FALSE]]
  /\ active' = [active EXCEPT ![a] = TRUE]
  /\ UNCHANGED <<identify, announce, sweep, rows>>

\* Packets, their lookups, and time.
Talks ==
  /\ UNCHANGED <<handler, sess, sweep, rows>>
  /\ active' \in [Addr -> BOOLEAN]
  /\ identify' \in [Object -> [JoinPacket -> 0..MaxJoins]]
  /\ announce' \in [Object -> 0..MaxJoins]
  /\ Kept

\* A task that closes sessions begins, goes on, or is ended by the database.
Sweeps(k) ==
  /\ handler' = handler
  /\ CloseTypes
  /\ Alone(k)
  /\ Kept
  /\ KeptUsers
Begins(k) == k \notin Sweeping /\ Goes(k) /\ rows' = rows
Logged(k) ==
  /\ k \in Sweeping
  /\ Goes(k)
  /\ rows' = [rows EXCEPT ![object[sweep[k].closing].addr] = @ - 1]
Fails(k)  == MayFail /\ sess' = sess /\ sweep'[k] \in {None, Dead} /\ rows' = rows

\* What Start does: nothing, or the beginning of a sweep.
LEMMA StartEffect ==
  ASSUME Typed, Live, NEW k \in Sweeper, NEW targets \in SUBSET Addr, NEW kick \in BOOLEAN,
         UNCHANGED <<handler, rows>>, Start(k, targets, kick)
  PROVE  UNCHANGED proxyVars \/ (Sweeps(k) /\ Begins(k))
<1>1. CASE targets = {}
  BY <1>1 DEF Start, proxyVars
<1>2. CASE sweep[k] = None /\ Close(k, targets, kick)
  <2>1. Goes(k) /\ Alone(k) /\ CloseTypes /\ Kept /\ KeptUsers
    BY <1>2, CloseEffect
  <2> QED
    BY <1>2, <2>1 DEF Sweeps, Begins, Sweeping
<1> QED
  BY <1>1, <1>2 DEF Start

LEMMA ClosedEffect ==
  ASSUME Typed, Live, NEW k \in Sweeper, Closed(k)
  PROVE  Sweeps(k) /\ Logged(k)
<1>1. k \in Sweeping /\ handler' = handler /\ Close(k, sweep[k].todo, sweep[k].kick)
  BY DEF Closed
<1>2. sweep[k].todo \in SUBSET Addr /\ sweep[k].kick \in BOOLEAN
  BY <1>1, SweepSort
<1>3. Goes(k) /\ Alone(k) /\ CloseTypes /\ Kept /\ KeptUsers
  BY <1>1, <1>2, CloseEffect
<1>4. rows' = [rows EXCEPT ![object[sweep[k].closing].addr] = @ - 1]
  BY DEF Closed
<1> QED
  BY <1>1, <1>3, <1>4 DEF Sweeps, Logged

LEMMA CloseFailsEffect ==
  ASSUME Typed, Live, NEW k \in Sweeper, CloseFails(k)
  PROVE  Sweeps(k) /\ Fails(k)
<1>1. PICK x \in {None, Dead} : sweep' = [sweep EXCEPT ![k] = x]
  BY DEF CloseFails
<1>2. Objects(object) /\ MayFail /\ UNCHANGED <<handler, sess, active, identify, announce, rows>>
  BY DEF CloseFails
<1>3. Alone(k) /\ sweep'[k] = x /\ sweep' \in [Sweeper -> Sweep \cup {None, Dead}] /\ Kept /\ KeptUsers
  BY <1>1, <1>2, EndEffect
<1> QED
  BY <1>2, <1>3 DEF Sweeps, Fails, CloseTypes, Typed

\* What Forward leaves of the table active.
LEMMA ForwardTyped ==
  ASSUME Typed, NEW a, Forward(a) \/ UNCHANGED active
  PROVE  active' \in [Addr -> BOOLEAN]
<1>1. CASE UNCHANGED active
  BY <1>1 DEF Typed
<1>2. CASE Forward(a)
  <2>1. PICK b \in BOOLEAN : active' = [active EXCEPT ![a] = b]
    <3>1. (sess[a] # None /\ (~object[sess[a]].kicked \/ active[a])) \in BOOLEAN
      OBVIOUS
    <3>2. active' = [active EXCEPT ![a] = (sess[a] # None /\ (~object[sess[a]].kicked \/ active[a]))]
      BY <1>2 DEF Forward
    <3> QED
      BY <3>1, <3>2
  <2> QED
    BY <2>1 DEF Typed
<1> QED
  BY <1>1, <1>2

\* A step of a task that looks a packet up, or announces, lets references go.
LEMMA TaskKept ==
  ASSUME Typed, Live, NEW objects \in [Object -> Session \cup {None}],
         \A i \in Object : object[i] \in Session =>
           /\ objects[i] \in Session
           /\ objects[i].addr = object[i].addr,
         UNCHANGED <<sess, sweep>>,
         \A i \in Object : announce'[i] > 0 => Referenced(i),
         \A i \in Object, p \in JoinPacket : identify'[i][p] > 0 => identify[i][p] > 0,
         Objects(objects)
  PROVE  Kept /\ \A i \in Object : Referenced(i)' => object'[i] = objects[i]
<1>1. \A i \in Object : Referenced(i)' => Referenced(i)
  BY DEF Referenced, Identifying, Closing, Sweeping
<1> QED
  BY <1>1, ObjectsKept

LEMMA NothingKept ==
  ASSUME Typed, Live, UNCHANGED <<sess, object, identify, announce, sweep>>
  PROVE  Kept /\ KeptUsers
<1>1. \A i \in Object : Referenced(i)' => Referenced(i)
  BY DEF Referenced, Identifying, Closing, Sweeping
<1> QED
  BY <1>1 DEF Kept, KeptUsers, Live, Typed

LEMMA PacketTalks ==
  ASSUME Typed, Live, NEW a \in Addr, Packet(a) \/ FallSilent(a)
  PROVE  Talks /\ KeptUsers
<1>1. UNCHANGED <<handler, sess, object, identify, announce, sweep, rows>>
  BY DEF Packet, FallSilent
<1>2. active' \in [Addr -> BOOLEAN]
  <2>1. CASE Packet(a)
    BY <2>1, ForwardTyped DEF Packet
  <2>2. CASE FallSilent(a)
    BY <2>2 DEF FallSilent, Typed
  <2> QED
    BY <2>1, <2>2
<1> QED
  BY <1>1, <1>2, NothingKept DEF Talks, Typed

LEMMA LateJoinTalks ==
  ASSUME Typed, Live, NEW a \in Addr, NEW p \in JoinPacket, LateJoin(a, p)
  PROVE  /\ Talks
         /\ KeptUsers
         /\ object' = object
         /\ announce' = announce
         /\ \A i \in Object, q \in JoinPacket : identify'[i][q] > 0 =>
              identify[i][q] > 0 \/ (i = sess[a] /\ q = p)
<1>1. /\ UNCHANGED <<handler, sess, object, active, announce, sweep, rows>>
      /\ identify[sess[a]][p] < MaxJoins
      /\ identify' = [identify EXCEPT ![sess[a]][p] = @ + 1]
      /\ sess[a] # None
  BY DEF LateJoin
<1>2. sess[a] \in Object /\ Referenced(sess[a])
  BY <1>1 DEF Typed, Referenced
<1>3. identify' \in [Object -> [JoinPacket -> 0..MaxJoins]]
  BY <1>1, <1>2, ProxyAssumption DEF Typed
<1>4. \A i \in Object, q \in JoinPacket : identify'[i][q] > 0 =>
        identify[i][q] > 0 \/ (i = sess[a] /\ q = p)
  BY <1>1, <1>2, ProxyAssumption DEF Typed
<1>5. \A i \in Object : Referenced(i)' => Referenced(i)
  BY <1>1, <1>2, <1>4 DEF Referenced, Identifying, Closing, Sweeping
<1>6. Kept /\ KeptUsers
  BY <1>1, <1>5 DEF Kept, KeptUsers, Live, Typed
<1> QED
  BY <1>1, <1>3, <1>4, <1>6 DEF Talks, Typed

\* One task of session i has its packet p looked up.
LEMMA AnswerTyped ==
  ASSUME Typed, NEW i \in Object, NEW p \in JoinPacket, identify[i][p] > 0,
         identify' = [identify EXCEPT ![i][p] = @ - 1]
  PROVE  /\ identify' \in [Object -> [JoinPacket -> 0..MaxJoins]]
         /\ \A j \in Object, q \in JoinPacket : identify'[j][q] > 0 => identify[j][q] > 0
         /\ Referenced(i)
<1>1. identify[i][p] \in 1..MaxJoins
  BY ProxyAssumption DEF Typed
<1>2. identify[i][p] - 1 \in 0..MaxJoins /\ identify[i][p] - 1 < identify[i][p]
  BY <1>1, ProxyAssumption
<1>3. identify' \in [Object -> [JoinPacket -> 0..MaxJoins]]
  BY <1>2 DEF Typed
<1>4. \A j \in Object, q \in JoinPacket : identify'[j][q] > 0 => identify[j][q] > 0
  BY <1>1 DEF Typed
<1> QED
  BY <1>3, <1>4 DEF Referenced, Identifying

LEMMA IdentifyRefusedTalks ==
  ASSUME Typed, Live, NEW i \in Object, NEW p \in JoinPacket, IdentifyRefused(i, p)
  PROVE  Talks /\ KeptUsers
<1>1. /\ UNCHANGED <<handler, sess, announce, sweep, active, rows>>
      /\ identify[i][p] > 0
      /\ identify' = [identify EXCEPT ![i][p] = @ - 1]
      /\ Objects([object EXCEPT ![i].kicked = TRUE])
  BY DEF IdentifyRefused
<1>2. object[i] \in Session
  BY <1>1, AnswerTyped DEF Live
<1> DEFINE objects == [object EXCEPT ![i].kicked = TRUE]
<1>3. objects \in [Object -> Session \cup {None}]
  BY <1>2 DEF Typed, Session
<1>4. \A j \in Object : object[j] \in Session =>
        /\ objects[j] \in Session
        /\ objects[j].addr = object[j].addr
        /\ objects[j].user = object[j].user
  BY <1>2 DEF Typed, Session
<1>5. Objects(objects)
  BY <1>1
<1> HIDE DEF objects
<1>6. \A j \in Object : announce'[j] > 0 => Referenced(j)
  BY <1>1 DEF Referenced
<1>7. Kept /\ \A j \in Object : Referenced(j)' => object'[j] = objects[j]
  BY <1>1, <1>3, <1>4, <1>5, <1>6, AnswerTyped, TaskKept
<1>8. KeptUsers
  BY <1>4, <1>7 DEF Kept, KeptUsers
<1> QED
  BY <1>1, <1>7, <1>8, AnswerTyped DEF Talks, Typed

LEMMA IdentifyNobodyTalks ==
  ASSUME Typed, Live, NEW i \in Object, NEW p \in JoinPacket, IdentifyNobody(i, p)
  PROVE  Talks /\ KeptUsers
<1>1. /\ UNCHANGED <<handler, sess, announce, sweep, rows>>
      /\ identify[i][p] > 0
      /\ identify' = [identify EXCEPT ![i][p] = @ - 1]
      /\ Objects(object)
      /\ Forward(object[i].addr) \/ UNCHANGED active
  BY DEF IdentifyNobody
<1>2. \A j \in Object : announce'[j] > 0 => Referenced(j)
  BY <1>1 DEF Referenced
<1>3. Kept /\ \A j \in Object : Referenced(j)' => object'[j] = object[j]
  BY <1>1, <1>2, AnswerTyped, TaskKept DEF Typed
<1>4. active' \in [Addr -> BOOLEAN]
  BY <1>1, ForwardTyped
<1> QED
  BY <1>1, <1>3, <1>4, AnswerTyped DEF Talks, KeptUsers, Typed

LEMMA IdentifyResolvedTalks ==
  ASSUME Typed, Live, NEW i \in Object, NEW p \in JoinPacket, IdentifyResolved(i, p)
  PROVE  /\ Talks
         /\ announce'[i] > 0
         /\ \A j \in Object : j # i => object'[j] = object[j] /\ announce'[j] = announce[j]
         /\ object[i] \in Session
         /\ object'[i] \in Session
         /\ object'[i].user = p.user
<1>1. /\ UNCHANGED <<handler, sess, active, sweep, rows>>
      /\ identify[i][p] > 0
      /\ identify' = [identify EXCEPT ![i][p] = @ - 1]
      /\ announce[i] < MaxJoins
      /\ announce' = [announce EXCEPT ![i] = @ + 1]
      /\ object' = [object EXCEPT ![i].user = p.user]
  BY DEF IdentifyResolved
<1>2. Referenced(i) /\ object[i] \in Session
  BY <1>1, AnswerTyped DEF Live
<1>3. p.user \in User
  BY DEF JoinPacket
<1>4. announce' \in [Object -> 0..MaxJoins]
  BY <1>1, ProxyAssumption DEF Typed
<1>5. announce'[i] > 0 /\ \A j \in Object : j # i => announce'[j] = announce[j]
  BY <1>1, ProxyAssumption DEF Typed
<1>6. object' \in [Object -> Session \cup {None}]
  BY <1>1, <1>2, <1>3 DEF Typed, Session
<1>7. /\ object'[i] \in Session
      /\ object'[i].addr = object[i].addr
      /\ object'[i].user = p.user
      /\ \A j \in Object : j # i => object'[j] = object[j]
  BY <1>1, <1>2, <1>3 DEF Typed, Session
<1>8. \A j \in Object : Referenced(j)' => Referenced(j)
  BY <1>1, <1>2, <1>5, AnswerTyped DEF Referenced, Identifying, Closing, Sweeping
<1>9. Kept
  BY <1>6, <1>7, <1>8 DEF Kept, Live
<1> QED
  BY <1>1, <1>2, <1>4, <1>5, <1>7, <1>9, AnswerTyped DEF Talks, Typed

LEMMA AnnounceTalks ==
  ASSUME Typed, Live, NEW i \in Object, Announce(i) \/ AnnounceFails(i)
  PROVE  /\ Talks
         /\ KeptUsers
         /\ \A j \in Object : j # i => announce'[j] = announce[j]
<1>1. /\ UNCHANGED <<handler, sess, identify, sweep, rows>>
      /\ announce[i] > 0
      /\ announce' = [announce EXCEPT ![i] = @ - 1]
      /\ Objects(object)
      /\ Forward(object[i].addr) \/ UNCHANGED active
  BY DEF Announce, AnnounceFails
<1>2. announce' \in [Object -> 0..MaxJoins] /\ \A j \in Object : j # i => announce'[j] = announce[j]
  BY <1>1, ProxyAssumption DEF Typed
<1>3. \A j \in Object : announce'[j] > 0 => Referenced(j)
  BY <1>1, <1>2 DEF Referenced
<1>4. Kept /\ \A j \in Object : Referenced(j)' => object'[j] = object[j]
  BY <1>1, <1>3, TaskKept DEF Typed
<1>5. active' \in [Addr -> BOOLEAN]
  BY <1>1, ForwardTyped
<1> QED
  BY <1>1, <1>2, <1>4, <1>5 DEF Talks, KeptUsers, Typed

LEMMA PendingMoves ==
  ASSUME Typed, NEW a \in Addr, NEW p \in JoinPacket \cup {None},
         FirstPacket(a, p)
  PROVE  Moves(a) /\ Waitless(a)
<1>1. /\ handler[a] = None
      /\ handler' = [handler EXCEPT ![a] = [phase |-> "lookup", packet |-> p]]
      /\ UNCHANGED <<sess, object, active, identify, announce, sweep, rows>>
  BY DEF FirstPacket
<1>2. [phase |-> "lookup", packet |-> p] \in Pending
  BY DEF Pending
<1>3. ~Waits(a) /\ ~Waits(a)'
  BY <1>1 DEF Waits, Typed
<1> QED
  BY <1>1, <1>2, <1>3 DEF Moves, Waitless

LEMMA EndMoves ==
  ASSUME Typed, NEW a \in Addr, TurnedAway(a) \/ SocketFails(a)
  PROVE  Moves(a) /\ Waitless(a)
<1>1. /\ handler' = [handler EXCEPT ![a] = None]
      /\ UNCHANGED <<sess, object, active, identify, announce, sweep, rows>>
      /\ handler[a].phase = "lookup" \/ MayFail
  BY DEF TurnedAway, SocketFails, LookedUp
<1>2. ~Waits(a)' /\ (Waits(a) => MayFail)
  BY <1>1 DEF Waits, Typed
<1> QED
  BY <1>1, <1>2 DEF Moves, Waitless

LEMMA LogMoves ==
  ASSUME Inv, Typed, NEW a \in Addr, LogConnection(a)
  PROVE  Moves(a) /\ Logs(a)
<1> DEFINE u == IF handler[a].packet = None THEN None ELSE handler[a].packet.user
<1>1. /\ handler[a] # None
      /\ handler[a].phase = "lookup"
      /\ \A i \in Closing : object[i].addr # a
      /\ handler' = [handler EXCEPT ![a] = [phase |-> "socket", user |-> u]]
      /\ rows[a] < MaxRows
      /\ rows' = [rows EXCEPT ![a] = @ + 1]
      /\ UNCHANGED <<sess, object, active, identify, announce, sweep>>
  BY DEF LogConnection, LookedUp
<1>2. handler[a] \in Pending
  BY <1>1 DEF Typed
<1>3. handler[a].packet \in JoinPacket \cup {None}
  BY <1>1, <1>2 DEF Pending
<1>4. u \in User \cup {None}
  BY <1>3 DEF JoinPacket
<1> HIDE DEF u
<1>5. [phase |-> "socket", user |-> u] \in Pending
  BY <1>4 DEF Pending
<1>6. ~Waits(a) /\ Waits(a)'
  BY <1>1, <1>5, NoneAssumption DEF Waits, Typed
<1>7. sess[a] = None
  BY <1>1 DEF Inv, Exclusive
<1> QED
  BY <1>1, <1>5, <1>6, <1>7 DEF Moves, Logs

LEMMA OpenedEffect ==
  ASSUME Typed, NEW a \in Addr, SocketOpened(a)
  PROVE  Opens(a, handler[a].user)
<1>1. handler[a] # None /\ handler[a].phase = "socket" /\ handler[a] \in Pending
  BY DEF SocketOpened, Typed
<1>2. handler[a].user \in User \cup {None}
  BY <1>1 DEF Pending
<1> QED
  BY <1>1, <1>2 DEF SocketOpened, Registered, Opens, Waits

Views ==
  \/ \E a \in Addr : Moves(a) /\ (Waitless(a) \/ Logs(a))
  \/ \E a \in Addr : \E u \in User \cup {None} : Opens(a, u)
  \/ Talks
  \/ \E k \in Sweeper : Sweeps(k) /\ (Begins(k) \/ Logged(k) \/ Fails(k))
  \/ UNCHANGED proxyVars

LEMMA NextViews ==
  ASSUME Inv, Typed, Live, [Next]_vars
  PROVE  Views
<1>1. CASE ClientStep
  <2>1. ASSUME NEW a \in Addr, NEW p \in Joins[a] \cup {None}, FirstPacket(a, p)
        PROVE  Views
    <3>1. p \in JoinPacket \cup {None}
      BY ProxyAssumption
    <3> QED
      BY <2>1, <3>1, PendingMoves DEF Views
  <2>2. ASSUME NEW a \in Addr, NEW p \in Joins[a], LateJoin(a, p) PROVE Views
    <3>1. p \in JoinPacket
      BY ProxyAssumption
    <3> QED
      BY <2>2, <3>1, LateJoinTalks DEF Views
  <2>3. ASSUME NEW a \in Addr, Packet(a) PROVE Views
    BY <2>3, PacketTalks DEF Views
  <2> QED
    BY <1>1, <2>1, <2>2, <2>3 DEF ClientStep
<1>2. CASE TaskStep
  <2>1. ASSUME NEW a \in Addr, TurnedAway(a) \/ SocketFails(a) PROVE Views
    BY <2>1, EndMoves DEF Views
  <2>2. ASSUME NEW a \in Addr, LogConnection(a) PROVE Views
    BY <2>2, LogMoves DEF Views
  <2>3. ASSUME NEW a \in Addr, SocketOpened(a) PROVE Views
    <3>1. Opens(a, handler[a].user) /\ handler[a].user \in User \cup {None}
      BY <2>3, OpenedEffect DEF Opens
    <3> QED
      BY <3>1 DEF Views
  <2>4. ASSUME NEW i \in Object, NEW p \in JoinPacket,
               IdentifyRefused(i, p) \/ IdentifyNobody(i, p) \/ IdentifyResolved(i, p)
        PROVE  Views
    BY <2>4, IdentifyRefusedTalks, IdentifyNobodyTalks, IdentifyResolvedTalks DEF Views
  <2>5. ASSUME NEW i \in Object, Announce(i) \/ AnnounceFails(i) PROVE Views
    BY <2>5, AnnounceTalks DEF Views
  <2>6. ASSUME NEW k \in Sweeper, Closed(k) \/ CloseFails(k) PROVE Views
    BY <2>6, ClosedEffect, CloseFailsEffect DEF Views
  <2>7. ASSUME NEW k \in Task, MatchEnd(k) PROVE Views
    BY <2>7, StartEffect DEF MatchEnd, Views, Sweeper
  <2>8. ASSUME NEW k \in Task, NEW u \in User, PlayerLeave(k, u) PROVE Views
    BY <2>8, StartEffect DEF PlayerLeave, SessionsOf, Views, Sweeper
  <2>9. CASE Cleanup
    BY <2>9, StartEffect DEF Cleanup, Views, Sweeper
  <2>10. ASSUME NEW a \in Addr, FallSilent(a) PROVE Views
    BY <2>10, PacketTalks DEF Views
  <2> QED
    BY <1>2, <2>1, <2>2, <2>3, <2>4, <2>5, <2>6, <2>7, <2>8, <2>9, <2>10 DEF TaskStep
<1>3. CASE GameReports
  BY <1>3 DEF GameReports, Views
<1>4. ASSUME NEW k \in Task, AdminKick(k) PROVE Views
  <2>1. PICK targets \in {SessionsOf(u) : u \in User}
                      \cup {{a \in Addr : sess[a] # None /\ IpOf[a] = h} : h \in Ip} :
          Start(k, targets, TRUE)
    BY <1>4 DEF AdminKick
  <2>2. targets \in SUBSET Addr
    BY <2>1 DEF SessionsOf
  <2> QED
    BY <1>4, <2>1, <2>2, StartEffect DEF AdminKick, Views, Sweeper
<1>5. CASE UNCHANGED vars
  BY <1>5 DEF vars, Views
<1> QED
  BY <1>1, <1>2, <1>3, <1>4, <1>5 DEF Next

-----------------------------------------------------------------------------
(* The invariants of sessions and objects *)

LEMMA TypedStep ==
  ASSUME Typed, Live, Views
  PROVE  Typed'
<1>1. ASSUME NEW a \in Addr, Moves(a) PROVE Typed'
  BY <1>1 DEF Typed, Moves
<1>2. ASSUME NEW a \in Addr, NEW u \in User \cup {None}, Opens(a, u) PROVE Typed'
  <2>1. [addr |-> a, user |-> u, kicked |-> FALSE] \in Session
    BY DEF Session
  <2> QED
    BY <1>2, <2>1 DEF Typed, Opens
<1>3. CASE Talks
  BY <1>3 DEF Typed, Talks, Kept
<1>4. ASSUME NEW k \in Sweeper, Sweeps(k) PROVE Typed'
  BY <1>4 DEF Typed, Sweeps, CloseTypes, Kept
<1>5. CASE UNCHANGED proxyVars
  BY <1>5 DEF Typed, proxyVars
<1> QED
  BY <1>1, <1>2, <1>3, <1>4, <1>5 DEF Views

\* Whoever keeps references only keeps the objects and their addresses.
LEMMA KeptLive ==
  ASSUME Typed, Live, Kept, sess' \in [Addr -> Object \cup {None}],
         \A a \in Addr : sess'[a] \in {sess[a], None}
  PROVE  Live'
<1>1. \A i \in Object : Referenced(i)' => object'[i] \in Session
  BY DEF Kept
<1>2. ASSUME NEW a \in Addr, sess'[a] # None
      PROVE  object'[sess'[a]].addr = a
  <2>1. PICK i \in Object : i = sess'[a] /\ i = sess[a]
    BY <1>2
  <2>2. Referenced(i)'
    BY <2>1 DEF Referenced
  <2>3. object'[i].addr = object[i].addr
    BY <2>2 DEF Kept
  <2> QED
    BY <1>2, <2>1, <2>3 DEF Live
<1> QED
  BY <1>1, <1>2 DEF Live

LEMMA OpensLive ==
  ASSUME Typed, Live, NEW a \in Addr, NEW u \in User \cup {None}, sess[a] = None, Opens(a, u)
  PROVE  /\ Live'
         /\ \A i \in Object : Referenced(i) => object'[i] = object[i]
<1>1. PICK i \in Object :
        /\ object[i] = None
        /\ sess' = [sess EXCEPT ![a] = i]
        /\ object' = [object EXCEPT ![i] = [addr |-> a, user |-> u, kicked |-> FALSE]]
  BY DEF Opens
<1>2. [addr |-> a, user |-> u, kicked |-> FALSE] \in Session
  BY DEF Session
<1>3. /\ object'[i] = [addr |-> a, user |-> u, kicked |-> FALSE]
      /\ \A j \in Object : j # i => object'[j] = object[j]
      /\ sess'[a] = i
      /\ \A x \in Addr : x # a => sess'[x] = sess[x]
  BY <1>1 DEF Typed
<1>4. ~Referenced(i)
  BY <1>1, NoneAssumption DEF Live
<1>5. ASSUME NEW j \in Object, Referenced(j)', j # i PROVE Referenced(j)
  BY <1>3, <1>5 DEF Opens, Referenced, Identifying, Closing, Sweeping
<1>6. \A j \in Object : Referenced(j)' => object'[j] \in Session
  BY <1>2, <1>3, <1>5 DEF Live
<1>7. ASSUME NEW x \in Addr, sess'[x] # None PROVE object'[sess'[x]].addr = x
  <2>1. CASE x = a
    BY <1>3, <2>1
  <2>2. CASE x # a
    <3>1. sess'[x] = sess[x] /\ sess[x] \in Object /\ Referenced(sess[x])
      BY <1>3, <1>7, <2>2 DEF Typed, Referenced
    <3>2. object'[sess[x]] = object[sess[x]]
      BY <1>3, <1>4, <3>1
    <3> QED
      BY <1>7, <3>1, <3>2 DEF Live
  <2> QED
    BY <2>1, <2>2
<1> QED
  BY <1>3, <1>4, <1>6, <1>7 DEF Live

LEMMA GoesNone ==
  ASSUME Typed, NEW k \in Sweeper, Goes(k) \/ Fails(k)
  PROVE  \A a \in Addr : sess'[a] \in {sess[a], None}
BY DEF Goes, Stops, Pops, Fails, Typed

LEMMA LiveStep ==
  ASSUME Inv, Typed, Live, Views
  PROVE  Live'
<1>1. CASE UNCHANGED <<sess, object, identify, announce, sweep>>
  BY <1>1, NothingKept, KeptLive DEF Typed
<1>2. ASSUME NEW a \in Addr, NEW u \in User \cup {None}, Opens(a, u) PROVE Live'
  <2>1. sess[a] = None
    BY <1>2 DEF Opens, Waits, Inv, Exclusive
  <2> QED
    BY <1>2, <2>1, OpensLive
<1>3. CASE Talks
  BY <1>3, KeptLive DEF Talks, Typed
<1>4. ASSUME NEW k \in Sweeper, Sweeps(k), Goes(k) \/ Fails(k) PROVE Live'
  BY <1>4, GoesNone, KeptLive DEF Sweeps, CloseTypes
<1> QED
  BY <1>1, <1>2, <1>3, <1>4 DEF Views, Moves, Begins, Logged, proxyVars

-----------------------------------------------------------------------------
(* The rows of the connection log *)

\* Task k is closing a session of address a.
Closes(k, a) == k \in Sweeping /\ object[sweep[k].closing].addr = a

\* An address has a session, or a handler that waits for the socket, or one task
\* that closes its former session: one of the three, or none.
OnceAt(a) ==
  /\ sess[a] = None \/ ~Waits(a)
  /\ \A k \in Sweeper : Closes(k, a) =>
       /\ sess[a] = None
       /\ ~Waits(a)
       /\ \A j \in Sweeper : Closes(j, a) => j = k

\* An address in one of the three has an open row, and, when nothing fails, no
\* more than that; a failure leaves rows open that nobody will close.
Due(a) == sess[a] # None \/ Waits(a) \/ \E k \in Sweeper : Closes(k, a)
CountedAt(a) ==
  /\ Due(a) => rows[a] > 0
  /\ ~MayFail => rows[a] = IF Due(a) THEN 1 ELSE 0

RowAt(a) == OnceAt(a) /\ CountedAt(a) /\ rows[a] \in 0..MaxRows

\* The three, and the rows, do not change.
Same(a) ==
  /\ (sess'[a] # None) <=> (sess[a] # None)
  /\ Waits(a)' <=> Waits(a)
  /\ \A k \in Sweeper : Closes(k, a)' <=> Closes(k, a)
  /\ rows'[a] = rows[a]

LEMMA SameRow ==
  ASSUME NEW a \in Addr, RowAt(a), Same(a)
  PROVE  RowAt(a)'
<1>1. OnceAt(a)'
  BY DEF RowAt, OnceAt, Same
<1>2. Due(a)' <=> Due(a)
  BY DEF Same, Due
<1>3. CountedAt(a)' /\ rows'[a] \in 0..MaxRows
  BY <1>2 DEF RowAt, CountedAt, Same
<1> QED
  BY <1>1, <1>3 DEF RowAt

\* A task that is where it was closes a session of the same address.
LEMMA SameCloses ==
  ASSUME Typed, Kept, NEW k \in Sweeper, sweep'[k] = sweep[k], NEW a \in Addr
  PROVE  Closes(k, a)' <=> Closes(k, a)
<1>1. (k \in Sweeping)' <=> k \in Sweeping
  BY DEF Sweeping
<1>2. ASSUME k \in Sweeping
      PROVE  object'[sweep'[k].closing].addr = object[sweep[k].closing].addr
  <2>1. sweep[k].closing \in Object
    BY <1>2, SweepSort
  <2>2. PICK i \in Object : i = sweep[k].closing
    BY <2>1
  <2>3. Referenced(i)'
    BY <1>1, <1>2, <2>2 DEF Referenced, Closing
  <2> QED
    BY <2>2, <2>3 DEF Kept
<1> QED
  BY <1>1, <1>2 DEF Closes

LEMMA TalksRows ==
  ASSUME Typed, Talks, NEW a \in Addr, RowAt(a)
  PROVE  RowAt(a)'
<1>1. \A k \in Sweeper : Closes(k, a)' <=> Closes(k, a)
  BY SameCloses DEF Talks
<1> QED
  BY <1>1, SameRow DEF Talks, Same, Waits

LEMMA RestsRows ==
  ASSUME UNCHANGED proxyVars, NEW a \in Addr, RowAt(a)
  PROVE  RowAt(a)'
<1>1. Same(a)
  BY DEF proxyVars, Same, Waits, Closes, Sweeping
<1> QED
  BY <1>1, SameRow

LEMMA MovesRows ==
  ASSUME Typed, RowsTyped, NEW b \in Addr, Moves(b), Waitless(b) \/ Logs(b),
         NEW a \in Addr, RowAt(a)
  PROVE  RowAt(a)'
<1>1. sess' = sess /\ \A k \in Sweeper : Closes(k, a)' <=> Closes(k, a)
  BY DEF Moves, Closes, Sweeping
<1>2. CASE a # b
  <2>1. Waits(a)' <=> Waits(a)
    BY <1>2 DEF Moves, Waits, Typed
  <2>2. rows'[a] = rows[a]
    BY <1>2 DEF Waitless, Logs, RowsTyped
  <2> QED
    BY <1>1, <2>1, <2>2, SameRow DEF Same
<1>3. CASE a = b /\ Waitless(b)
  <2>1. ~Waits(a)' /\ rows'[a] = rows[a] /\ (Waits(a) => MayFail)
    BY <1>3 DEF Waitless
  <2>2. OnceAt(a)'
    BY <1>1, <2>1 DEF RowAt, OnceAt
  <2>3. (Due(a)' => Due(a)) /\ (~MayFail => (Due(a)' <=> Due(a)))
    BY <1>1, <2>1 DEF Due
  <2> QED
    BY <2>1, <2>2, <2>3 DEF RowAt, CountedAt
<1>4. CASE a = b /\ Logs(b)
  <2>1. /\ ~Waits(a) /\ Waits(a)' /\ sess[a] = None
        /\ rows[a] < MaxRows
        /\ rows'[a] = rows[a] + 1
    BY <1>4 DEF Logs, RowsTyped
  <2>2. ASSUME NEW k \in Sweeper PROVE ~Closes(k, a)
    <3>1. k \in Sweeping => sweep[k].closing \in Closing
      BY DEF Closing
    <3> QED
      BY <1>4, <3>1 DEF Logs, Closes
  <2>3. OnceAt(a)'
    BY <1>1, <2>1, <2>2 DEF OnceAt
  <2>4. Due(a)' /\ ~Due(a)
    BY <1>1, <2>1, <2>2 DEF Due
  <2>5. rows[a] \in 0..MaxRows /\ (~MayFail => rows[a] = 0)
    BY <2>4 DEF RowAt, CountedAt
  <2>6. rows'[a] \in 0..MaxRows /\ rows'[a] > 0 /\ (~MayFail => rows'[a] = 1)
    BY <2>1, <2>5, ProxyAssumption
  <2> QED
    BY <2>3, <2>4, <2>6 DEF RowAt, CountedAt
<1> QED
  BY <1>2, <1>3, <1>4

LEMMA OpensRows ==
  ASSUME Inv, Typed, Live, NEW b \in Addr, NEW u \in User \cup {None}, Opens(b, u),
         NEW a \in Addr, RowAt(a)
  PROVE  RowAt(a)'
<1>1. sess[b] = None
  BY DEF Opens, Waits, Inv, Exclusive
<1>2. \A i \in Object : Referenced(i) => object'[i] = object[i]
  BY <1>1, OpensLive
<1>3. sweep' = sweep /\ rows' = rows
  BY DEF Opens
<1>4. ASSUME NEW k \in Sweeper PROVE Closes(k, a)' <=> Closes(k, a)
  <2>1. (k \in Sweeping)' <=> k \in Sweeping
    BY <1>3 DEF Sweeping
  <2>2. k \in Sweeping => object'[sweep[k].closing] = object[sweep[k].closing]
    BY <1>2, SweepSort DEF Referenced
  <2> QED
    BY <1>3, <2>1, <2>2 DEF Closes
<1>5. CASE a # b
  <2>1. (Waits(a)' <=> Waits(a)) /\ sess'[a] = sess[a]
    BY <1>5 DEF Opens, Waits, Typed
  <2> QED
    BY <1>3, <1>4, <2>1, SameRow DEF Same
<1>6. CASE a = b
  <2>1. Waits(a) /\ ~Waits(a)'
    BY <1>6 DEF Opens, Waits, Typed
  <2>2. sess'[a] # None
    BY <1>6, ProxyAssumption DEF Opens, Typed
  <2>3. OnceAt(a)'
    BY <1>4, <2>1 DEF RowAt, OnceAt
  <2>4. Due(a) /\ Due(a)'
    BY <2>1, <2>2 DEF Due
  <2> QED
    BY <1>3, <2>3, <2>4 DEF RowAt, CountedAt
<1> QED
  BY <1>5, <1>6

\* A closing task k leaves the address it was closing, and may come to another
\* whose session it takes.
LEMMA GoesCloses ==
  ASSUME Typed, Live, NEW k \in Sweeper, Sweeps(k), NEW a \in Addr
  PROVE  /\ \A j \in Sweeper : j # k => (Closes(j, a)' <=> Closes(j, a))
         /\ Stops(k) \/ Fails(k) => sess' = sess /\ ~Closes(k, a)'
         /\ \A b \in Addr : Pops(k, b) =>
              /\ Closes(k, a)' <=> a = b
              /\ sess[b] # None
              /\ sess'[a] = IF a = b THEN None ELSE sess[a]
<1>1. \A j \in Sweeper : j # k => (Closes(j, a)' <=> Closes(j, a))
  BY SameCloses DEF Sweeps, Alone
<1>2. Stops(k) \/ Fails(k) => sess' = sess /\ ~Closes(k, a)'
  BY DEF Stops, Fails, Closes, Sweeping
<1>3. ASSUME NEW b \in Addr, Pops(k, b)
      PROVE  /\ Closes(k, a)' <=> a = b
             /\ sess[b] # None
             /\ sess'[a] = IF a = b THEN None ELSE sess[a]
  <2>1. sess[b] # None /\ sess'[a] = IF a = b THEN None ELSE sess[a]
    BY <1>3 DEF Pops, Typed
  <2>2. PICK i \in Object : i = sess[b] /\ i = sweep'[k].closing
    BY <1>3 DEF Pops, Typed
  <2>3. (k \in Sweeping)'
    BY <1>3, NoneAssumption DEF Pops, Sweeping
  <2>4. Referenced(i)'
    BY <2>2, <2>3 DEF Referenced, Closing
  <2>5. object'[i].addr = b
    BY <2>1, <2>2, <2>4 DEF Sweeps, Kept, Live
  <2> QED
    BY <2>1, <2>2, <2>3, <2>5 DEF Closes
<1> QED
  BY <1>1, <1>2, <1>3

LEMMA SweepsRows ==
  ASSUME Typed, Live, RowsTyped, NEW k \in Sweeper, Sweeps(k),
         Begins(k) \/ Logged(k) \/ Fails(k), NEW a \in Addr, RowAt(a)
  PROVE  RowAt(a)'
<1>w. Waits(a)' <=> Waits(a)
  BY DEF Sweeps, Waits
<1>j. \A j \in Sweeper : j # k => (Closes(j, a)' <=> Closes(j, a))
  BY GoesCloses
<1>o. OnceAt(a) /\ CountedAt(a) /\ rows[a] \in 0..MaxRows
  BY DEF RowAt
<1>s. Stops(k) \/ Fails(k) => sess' = sess /\ ~Closes(k, a)'
  BY GoesCloses
<1>p. ASSUME NEW b \in Addr, Pops(k, b)
      PROVE  /\ Closes(k, a)' <=> a = b
             /\ sess[b] # None
             /\ sess'[a] = IF a = b THEN None ELSE sess[a]
  BY <1>p, GoesCloses
<1>g. (Stops(k) \/ Fails(k)) \/ \E b \in Addr : Pops(k, b)
  BY DEF Begins, Logged, Goes
<1>1. OnceAt(a)'
  <2>1. CASE Stops(k) \/ Fails(k)
    BY <1>w, <1>j, <1>o, <1>s, <2>1 DEF OnceAt
  <2>2. ASSUME NEW b \in Addr, Pops(k, b) PROVE OnceAt(a)'
    <3>1. CASE a = b
      BY <1>w, <1>j, <1>o, <1>p, <2>2, <3>1 DEF OnceAt
    <3>2. CASE a # b
      BY <1>w, <1>j, <1>o, <1>p, <2>2, <3>2 DEF OnceAt
    <3> QED
      BY <3>1, <3>2
  <2> QED
    BY <1>g, <2>1, <2>2
\* Address a is where task k was or comes to, or is not touched.
<1>2. CASE k \in Sweeping /\ object[sweep[k].closing].addr = a
  <2>1. Closes(k, a) /\ sess[a] = None /\ ~Waits(a) /\ \A j \in Sweeper : Closes(j, a) => j = k
    BY <1>2, <1>o DEF Closes, OnceAt
  <2>2. ~Closes(k, a)' /\ sess'[a] = None
    BY <1>g, <1>s, <1>p, <2>1
  <2>3. Due(a) /\ ~Due(a)'
    BY <1>w, <1>j, <2>1, <2>2 DEF Due
  <2>4. rows[a] \in 1..MaxRows /\ (~MayFail => rows[a] = 1)
    BY <1>o, <2>3 DEF CountedAt
  <2>5. CASE Fails(k)
    BY <1>1, <1>o, <2>3, <2>5 DEF RowAt, CountedAt, Fails
  <2>6. CASE Logged(k)
    <3>1. rows'[a] = rows[a] - 1
      BY <1>2, <2>6 DEF Logged, RowsTyped
    <3>2. rows'[a] \in 0..MaxRows /\ (~MayFail => rows'[a] = 0)
      BY <2>4, <3>1, ProxyAssumption
    <3> QED
      BY <1>1, <2>3, <3>2 DEF RowAt, CountedAt
  <2> QED
    BY <1>2, <2>5, <2>6 DEF Begins
<1>3. CASE ~(k \in Sweeping /\ object[sweep[k].closing].addr = a)
  <2>1. ~Closes(k, a)
    BY <1>3 DEF Closes
  <2>2. rows'[a] = rows[a]
    BY <1>3 DEF Begins, Logged, Fails, RowsTyped
  <2>3. Due(a)' <=> Due(a)
    <3>1. CASE Stops(k) \/ Fails(k)
      BY <1>w, <1>j, <1>s, <2>1, <3>1 DEF Due
    <3>2. ASSUME NEW b \in Addr, Pops(k, b) PROVE Due(a)' <=> Due(a)
      <4>1. CASE a = b
        BY <1>p, <3>2, <4>1 DEF Due
      <4>2. CASE a # b
        BY <1>w, <1>j, <1>p, <2>1, <3>2, <4>2 DEF Due
      <4> QED
        BY <4>1, <4>2
    <3> QED
      BY <1>g, <3>1, <3>2
  <2> QED
    BY <1>1, <1>o, <2>2, <2>3 DEF RowAt, CountedAt
<1> QED
  BY <1>2, <1>3

\* The log has one row or more for each address that is due, and RowAt holds.
Rows == \A a \in Addr : RowAt(a)

LEMMA RowsStep ==
  ASSUME Inv, Typed, Live, RowsTyped, Rows, Views
  PROVE  Rows' /\ RowsTyped'
<1>1. ASSUME NEW a \in Addr PROVE RowAt(a)'
  <2>1. RowAt(a)
    BY DEF Rows
  <2>2. ASSUME NEW b \in Addr, Moves(b), Waitless(b) \/ Logs(b) PROVE RowAt(a)'
    BY <2>1, <2>2, MovesRows
  <2>3. ASSUME NEW b \in Addr, NEW u \in User \cup {None}, Opens(b, u) PROVE RowAt(a)'
    BY <2>1, <2>3, OpensRows
  <2>4. CASE Talks
    BY <2>1, <2>4, TalksRows
  <2>5. ASSUME NEW k \in Sweeper, Sweeps(k), Begins(k) \/ Logged(k) \/ Fails(k) PROVE RowAt(a)'
    BY <2>1, <2>5, SweepsRows
  <2>6. CASE UNCHANGED proxyVars
    BY <2>1, <2>6, RestsRows
  <2> QED
    BY <2>2, <2>3, <2>4, <2>5, <2>6 DEF Views
<1>2. rows' = [a \in Addr |-> rows'[a]]
  <2>1. rows' = rows \/ \E a, n : rows' = [rows EXCEPT ![a] = n]
    BY DEF Views, Waitless, Logs, Opens, Talks, Begins, Logged, Fails, proxyVars
  <2> QED
    BY <2>1 DEF RowsTyped
<1>3. \A a \in Addr : rows'[a] \in 0..MaxRows
  BY <1>1 DEF RowAt
<1>4. RowsTyped'
  BY <1>2, <1>3 DEF RowsTyped
<1> QED
  BY <1>1, <1>4 DEF Rows

-----------------------------------------------------------------------------
(* The match state *)

LEMMA LeaveTyped ==
  ASSUME MatchTypeOK, NEW gone, Leave(gone)
  PROVE  leaving' \in [User -> 0..MaxTasks]
<1>1. ASSUME NEW u \in User
      PROVE  (IF u \in gone THEN leaving[u] + 1 ELSE leaving[u]) \in 0..MaxTasks
  BY MatchAssumption DEF MatchTypeOK, Leave
<1> QED
  BY <1>1 DEF Leave

LEMMA ConnectedTyped ==
  ASSUME MatchTypeOK, NEW u, PlayerConnected(u) \/ UNCHANGED matchVars
  PROVE  MatchTypeOK'
<1>1. CASE UNCHANGED matchVars
  BY <1>1 DEF MatchTypeOK, matchVars
<1>2. CASE UNCHANGED <<started, leaving, ending>> /\ players' = [players EXCEPT ![u] = "proxy"]
           /\ status' = IF status = "WaitingForServer" THEN "WaitingForPlayers" ELSE status
  BY <1>2 DEF MatchTypeOK, Status, Entry
<1> QED
  BY <1>1, <1>2 DEF PlayerConnected

LEMMA DisconnectedTyped ==
  ASSUME MatchTypeOK, NEW u, PlayerDisconnected(u) \/ UNCHANGED matchVars
  PROVE  MatchTypeOK'
<1>1. CASE UNCHANGED matchVars
  BY <1>1 DEF MatchTypeOK, matchVars
<1>2. CASE UNCHANGED <<status, started, ending>> /\ Leave({u})
           /\ players' = [players EXCEPT ![u] = "absent"]
  BY <1>2, LeaveTyped DEF MatchTypeOK, Entry
<1> QED
  BY <1>1, <1>2 DEF PlayerDisconnected

LEMMA ReportsTyped ==
  ASSUME MatchTypeOK, GameReports
  PROVE  MatchTypeOK'
<1>1. ASSUME NEW push \in TrackerPush, UpdateFromTracker(push) PROVE MatchTypeOK'
  <2>1. push.state \in Status \cup {""}
    BY MatchAssumption DEF Push
  <2>2. status' \in Status
    BY <1>1, <2>1 DEF UpdateFromTracker, MatchTypeOK
  <2>3. started' \in BOOLEAN
    BY <1>1, Zenon DEF UpdateFromTracker
  <2>4. players' \in [User -> Entry]
    BY <1>1 DEF UpdateFromTracker, MatchTypeOK, Entry
  <2>5. leaving' \in [User -> 0..MaxTasks]
    BY <1>1, LeaveTyped DEF UpdateFromTracker
  <2>6. ending' = ending
    BY <1>1 DEF UpdateFromTracker
  <2> QED
    BY <2>2, <2>3, <2>4, <2>5, <2>6 DEF MatchTypeOK
<1>2. CASE SetMatchStarted \/ SetServerReady
  BY <1>2 DEF SetMatchStarted, SetServerReady, MatchTypeOK, Status
<1>3. CASE SignalMatchEnd
  BY <1>3, MatchAssumption DEF SignalMatchEnd, MatchTypeOK, Status
<1>4. CASE SetOffline \/ ResetMatch
  BY <1>4 DEF SetOffline, ResetMatch, MatchTypeOK, Status, Entry
<1> QED
  BY <1>1, <1>2, <1>3, <1>4 DEF GameReports

LEMMA MatchStep ==
  ASSUME MatchTypeOK, [Next]_vars
  PROVE  MatchTypeOK'
<1>u. UNCHANGED matchVars => MatchTypeOK'
  BY ConnectedTyped
<1>1. CASE ClientStep
  BY <1>1, <1>u DEF ClientStep, FirstPacket, LateJoin, Packet
<1>2. CASE TaskStep
  <2>1. ASSUME NEW a \in Addr, TurnedAway(a) \/ LogConnection(a) \/ SocketFails(a) \/ FallSilent(a)
        PROVE  MatchTypeOK'
    BY <1>u, <2>1 DEF TurnedAway, LogConnection, SocketFails, FallSilent
  <2>2. ASSUME NEW a \in Addr, SocketOpened(a) PROVE MatchTypeOK'
    BY <2>2, ConnectedTyped DEF SocketOpened, Registered
  <2>3. ASSUME NEW i \in Object, NEW p \in JoinPacket,
               IdentifyRefused(i, p) \/ IdentifyNobody(i, p) \/ IdentifyResolved(i, p)
        PROVE  MatchTypeOK'
    BY <1>u, <2>3 DEF IdentifyRefused, IdentifyNobody, IdentifyResolved
  <2>4. ASSUME NEW i \in Object, Announce(i) \/ AnnounceFails(i) PROVE MatchTypeOK'
    BY <1>u, <2>4, ConnectedTyped DEF Announce, AnnounceFails
  <2>5. ASSUME NEW k \in Sweeper, Closed(k) \/ CloseFails(k) PROVE MatchTypeOK'
    BY <1>u, <2>5, DisconnectedTyped DEF Closed, CloseFails
  <2>6. ASSUME NEW k \in Task, MatchEnd(k) PROVE MatchTypeOK'
    <3>1. /\ ending > 0 /\ ending' = ending - 1
          /\ UNCHANGED <<status, started, players, leaving>>
      BY <2>6 DEF MatchEnd
    <3> QED
      BY <3>1, MatchAssumption DEF MatchTypeOK
  <2>7. ASSUME NEW k \in Task, NEW u \in User, PlayerLeave(k, u) PROVE MatchTypeOK'
    <3>1. /\ leaving[u] > 0 /\ leaving' = [leaving EXCEPT ![u] = @ - 1]
          /\ UNCHANGED <<status, started, players, ending>>
      BY <2>7 DEF PlayerLeave
    <3> QED
      BY <3>1, MatchAssumption DEF MatchTypeOK
  <2>8. CASE Cleanup
    BY <1>u, <2>8 DEF Cleanup
  <2> QED
    BY <1>2, <2>1, <2>2, <2>3, <2>4, <2>5, <2>6, <2>7, <2>8 DEF TaskStep
<1>3. CASE GameReports
  BY <1>3, ReportsTyped
<1>4. ASSUME NEW k \in Task, AdminKick(k) PROVE MatchTypeOK'
  BY <1>u, <1>4 DEF AdminKick
<1>5. CASE UNCHANGED vars
  BY <1>u, <1>5 DEF vars
<1> QED
  BY <1>1, <1>2, <1>3, <1>4, <1>5 DEF Next

-----------------------------------------------------------------------------
\* The inductive invariant of the sessions.
Sound == Inv /\ Typed /\ Live /\ RowsTyped /\ Rows /\ MatchTypeOK

LEMMA SoundInit == Init => Sound
<1> SUFFICES ASSUME Init PROVE Sound
  OBVIOUS
<1>1. Inv
  BY DEF Init, Inv, Tables, Exclusive
<1>2. Typed
  BY ProxyAssumption DEF Init, Typed
<1>3. \A i \in Object : ~Referenced(i)
  BY ProxyAssumption DEF Init, Referenced, Closing, Sweeping, Identifying
<1>4. Live
  BY <1>3 DEF Init, Live
<1>5. RowsTyped /\ \A a \in Addr : ~Due(a) /\ rows[a] = 0
  BY ProxyAssumption DEF Init, RowsTyped, Due, Waits, Closes, Sweeping
<1>6. Rows
  BY <1>5, ProxyAssumption DEF Rows, RowAt, OnceAt, CountedAt, Due
<1>7. MatchTypeOK
  <2>1. MatchInit
    BY DEF Init
  <2>2. status \in Status /\ started \in BOOLEAN /\ players \in [User -> Entry]
    BY <2>1 DEF MatchInit, Status, Entry
  <2>3. leaving \in [User -> 0..MaxTasks] /\ ending \in 0..MaxTasks
    BY <2>1, MatchAssumption DEF MatchInit
  <2> QED
    BY <2>2, <2>3 DEF MatchTypeOK
<1> QED
  BY <1>1, <1>2, <1>4, <1>5, <1>6, <1>7 DEF Sound

LEMMA SoundStep == Sound /\ [Next]_vars => Sound'
<1> SUFFICES ASSUME Sound, [Next]_vars PROVE Sound'
  OBVIOUS
<1>1. Views
  BY NextViews DEF Sound
<1>2. Inv'
  <2>1. CASE Next
    BY <2>1, StepKinds, NoneOpenedInv, HandlerMovesInv DEF Sound
  <2>2. CASE UNCHANGED vars
    BY <2>2 DEF vars, proxyVars, Sound, Inv, Tables, Exclusive
  <2> QED
    BY <2>1, <2>2
<1> QED
  BY <1>1, <1>2, TypedStep, LiveStep, RowsStep, MatchStep DEF Sound

LEMMA SoundHolds == Spec => []Sound
BY SoundInit, SoundStep, PTL DEF Spec

(***************************************************************************)
(* Whatever tasks close sessions and whatever fails, a session keeps an    *)
(* object of its own address as long as anybody refers to it, an address   *)
(* is never pending while it has a session, and no connection is logged    *)
(* off more often than it was logged (_close_session, the pop from         *)
(* _sessions before the first await).                                      *)
(***************************************************************************)
THEOREM ProxyTypeCorrect == Spec => []TypeOK
<1>1. Sound => TypeOK
  <2> SUFFICES ASSUME Sound PROVE TypeOK
    OBVIOUS
  <2>1. ASSUME NEW a \in Addr
        PROVE  /\ handler[a] \in Pending \cup {None}
               /\ sess[a] \in Object \cup {None}
               /\ sess[a] # None => object[sess[a]] # None /\ object[sess[a]].addr = a
               /\ ~(handler[a] # None /\ sess[a] # None)
    <3>1. handler[a] \in Pending \cup {None} /\ sess[a] \in Object \cup {None}
      BY DEF Sound, Typed
    <3>2. ASSUME sess[a] # None PROVE object[sess[a]] \in Session
      BY <3>1, <3>2 DEF Sound, Live, Referenced
    <3>3. sess[a] # None => object[sess[a]] # None /\ object[sess[a]].addr = a
      BY <3>2, NoneAssumption DEF Sound, Live
    <3>4. handler[a] = None \/ sess[a] = None
      BY DEF Sound, Inv, Exclusive
    <3> QED
      BY <3>1, <3>3, <3>4
  <2>2. /\ \A i \in Object : object[i] \in Session \cup {None}
        /\ active \in [Addr -> BOOLEAN]
        /\ identify \in [Object -> [JoinPacket -> 0..MaxJoins]]
        /\ announce \in [Object -> 0..MaxJoins]
        /\ \A k \in Sweeper : sweep[k] \in Sweep \cup {None, Dead}
    BY DEF Sound, Typed
  <2> QED
    BY <2>1, <2>2 DEF TypeOK, Sound, RowsTyped
<1> QED
  BY <1>1, SoundHolds, PTL

\* The closings of an address are those of its one closing task, if it has one.
LEMMA ClosingOf ==
  ASSUME Typed, NEW a \in Addr, OnceAt(a)
  PROVE  Cardinality({i \in Closing : object[i].addr = a})
           = IF \E k \in Sweeper : Closes(k, a) THEN 1 ELSE 0
<1> DEFINE C == {i \in Closing : object[i].addr = a}
<1>1. CASE \E k \in Sweeper : Closes(k, a)
  <2>1. PICK k \in Sweeper : Closes(k, a)
    BY <1>1
  <2>2. \A j \in Sweeper : Closes(j, a) => j = k
    BY <2>1 DEF OnceAt
  <2>3. C = {sweep[k].closing}
    BY <2>1, <2>2 DEF Closing, Closes, Sweeping
  <2> QED
    BY <1>1, <2>3, FS_Singleton
<1>2. CASE ~\E k \in Sweeper : Closes(k, a)
  <2>1. C = {}
    BY <1>2 DEF Closing, Closes, Sweeping
  <2> QED
    BY <1>2, <2>1, FS_EmptySet
<1> QED
  BY <1>1, <1>2

(***************************************************************************)
(* Without failures, the open rows of connection_log are the sessions,     *)
(* those about to be registered and those being closed, however kicks,     *)
(* bans, timeouts and the end of a match overlap: each connection is       *)
(* logged once and logged off once (_open_session, _close_session).        *)
(***************************************************************************)
THEOREM RowsExactHolds ==
  ASSUME ~MayFail
  PROVE  Spec => []RowsExact
<1>1. Sound => RowsExact
  <2> SUFFICES ASSUME Sound, NEW a \in Addr
               PROVE  rows[a] = (IF sess[a] # None THEN 1 ELSE 0)
                        + (IF handler[a] # None /\ handler[a].phase = "socket" THEN 1 ELSE 0)
                        + Cardinality({i \in Closing : object[i].addr = a})
    BY DEF RowsExact
  <2>1. OnceAt(a) /\ rows[a] = IF Due(a) THEN 1 ELSE 0
    BY DEF Sound, Rows, RowAt, CountedAt
  <2>2. Cardinality({i \in Closing : object[i].addr = a})
          = IF \E k \in Sweeper : Closes(k, a) THEN 1 ELSE 0
    BY <2>1, ClosingOf DEF Sound
  <2>3. CASE sess[a] # None
    BY <2>1, <2>2, <2>3 DEF OnceAt, Due, Waits
  <2>4. CASE sess[a] = None /\ Waits(a)
    BY <2>1, <2>2, <2>4 DEF OnceAt, Due, Waits
  <2>5. CASE sess[a] = None /\ ~Waits(a)
    BY <2>1, <2>2, <2>5 DEF OnceAt, Due, Waits
  <2> QED
    BY <2>3, <2>4, <2>5
<1> QED
  BY <1>1, SoundHolds, PTL

-----------------------------------------------------------------------------
(* Who is on the list *)

\* Every user plays from one address: no two addresses send joins of one user.
OwnAddresses ==
  \A a \in Addr, b \in Addr : a # b =>
    \A p \in Joins[a], q \in Joins[b] : p.user # q.user

\* Nobody but the proxy takes a player off the list: the DLL sends no full list,
\* and the game server neither goes offline nor starts anew.
OnlyProxyRemoves ==
  /\ \A push \in TrackerPush : ~push.full
  /\ "offline" \notin MatchEvents
  /\ "reset" \notin MatchEvents

\* A handler, a lookup and a session only have users that join from their address.
Of(a) == {p.user : p \in Joins[a]} \cup {None}
OwnHandlers ==
  \A a \in Addr : handler[a] # None =>
    /\ handler[a].phase = "lookup" => handler[a].packet \in Joins[a] \cup {None}
    /\ handler[a].phase = "socket" => handler[a].user \in Of(a)
OwnObjects ==
  \A i \in Object : Referenced(i) =>
    /\ object[i].user \in Of(object[i].addr)
    /\ \A p \in JoinPacket : identify[i][p] > 0 => p \in Joins[object[i].addr]
Own == OwnHandlers /\ OwnObjects

\* A step that gives no session another user, and starts no lookup.
Settled ==
  /\ Kept
  /\ KeptUsers
  /\ \A i \in Object, p \in JoinPacket : identify'[i][p] > 0 => identify[i][p] > 0

LEMMA SettledOwn ==
  ASSUME OwnObjects, Settled
  PROVE  OwnObjects'
BY DEF OwnObjects, Settled, Kept, KeptUsers

LEMMA HandlerOwn ==
  ASSUME Typed, OwnHandlers, NEW a \in Addr, NEW h \in Pending \cup {None},
         handler' = [handler EXCEPT ![a] = h],
         h # None =>
           /\ h.phase = "lookup" => h.packet \in Joins[a] \cup {None}
           /\ h.phase = "socket" => h.user \in Of(a)
  PROVE  OwnHandlers'
BY DEF OwnHandlers, Typed

LEMMA OpensOwn ==
  ASSUME Sound, OwnObjects, NEW a \in Addr, NEW u \in Of(a), u \in User \cup {None}, Opens(a, u)
  PROVE  OwnObjects'
<1>1. PICK i \in Object :
        /\ object[i] = None
        /\ sess' = [sess EXCEPT ![a] = i]
        /\ object' = [object EXCEPT ![i] = [addr |-> a, user |-> u, kicked |-> FALSE]]
  BY DEF Opens
<1>2. identify' = identify /\ announce' = announce /\ sweep' = sweep
  BY DEF Opens
<1>3. ~Referenced(i)
  BY <1>1, NoneAssumption DEF Sound, Live
<1>4. \A p \in JoinPacket : ~(identify[i][p] > 0)
  BY <1>3 DEF Referenced, Identifying
<1>5. ASSUME NEW j \in Object, Referenced(j)'
      PROVE  /\ object'[j].user \in Of(object'[j].addr)
             /\ \A p \in JoinPacket : identify'[j][p] > 0 => p \in Joins[object'[j].addr]
  <2>1. CASE j = i
    BY <1>1, <1>2, <1>4, <2>1 DEF Sound, Typed
  <2>2. CASE j # i
    <3>1. object'[j] = object[j]
      BY <1>1, <2>2 DEF Sound, Typed
    <3>2. Referenced(j)
      BY <1>1, <1>2, <1>5, <2>2 DEF Referenced, Identifying, Closing, Sweeping, Sound, Typed
    <3> QED
      BY <1>2, <3>1, <3>2 DEF OwnObjects
  <2> QED
    BY <2>1, <2>2
<1> QED
  BY <1>5 DEF OwnObjects

\* The steps of an address's first packet.
LEMMA FirstOwn ==
  ASSUME Sound, Own, NEW a \in Addr,
         \/ \E p \in Joins[a] \cup {None} : FirstPacket(a, p)
         \/ TurnedAway(a) \/ LogConnection(a) \/ SocketFails(a)
  PROVE  Own'
<1>1. UNCHANGED <<sess, object, active, identify, announce, sweep>>
  BY DEF FirstPacket, TurnedAway, LogConnection, SocketFails
<1>2. OwnObjects'
  BY <1>1 DEF Own, OwnObjects, Referenced, Identifying, Closing, Sweeping
<1>3. ASSUME NEW p \in Joins[a] \cup {None}, FirstPacket(a, p) PROVE OwnHandlers'
  <2>1. handler' = [handler EXCEPT ![a] = [phase |-> "lookup", packet |-> p]]
    BY <1>3 DEF FirstPacket
  <2>2. [phase |-> "lookup", packet |-> p] \in Pending
    BY ProxyAssumption DEF Pending
  <2> QED
    BY <2>1, <2>2, HandlerOwn DEF Own, Sound
<1>4. ASSUME TurnedAway(a) \/ SocketFails(a) PROVE OwnHandlers'
  BY <1>4, HandlerOwn DEF TurnedAway, SocketFails, Own, Sound
<1>5. ASSUME LogConnection(a) PROVE OwnHandlers'
  <2> DEFINE u == IF handler[a].packet = None THEN None ELSE handler[a].packet.user
  <2>1. /\ handler[a] # None
        /\ handler[a].phase = "lookup"
        /\ handler' = [handler EXCEPT ![a] = [phase |-> "socket", user |-> u]]
    BY <1>5 DEF LogConnection, LookedUp
  <2>2. handler[a].packet \in Joins[a] \cup {None}
    BY <2>1 DEF Own, OwnHandlers
  <2>3. u \in Of(a) /\ u \in User \cup {None}
    BY <2>2, ProxyAssumption DEF Of, JoinPacket
  <2> HIDE DEF u
  <2>4. [phase |-> "socket", user |-> u] \in Pending
    BY <2>3 DEF Pending
  <2> QED
    BY <2>1, <2>3, <2>4, HandlerOwn DEF Own, Sound
<1> QED
  BY <1>2, <1>3, <1>4, <1>5 DEF Own

LEMMA OpenedOwn ==
  ASSUME Sound, Own, NEW a \in Addr, SocketOpened(a)
  PROVE  Own' /\ handler[a].user \in Of(a)
<1>1. handler[a] # None /\ handler[a].phase = "socket" /\ handler' = [handler EXCEPT ![a] = None]
  BY DEF SocketOpened
<1>2. handler[a].user \in Of(a)
  BY <1>1 DEF Own, OwnHandlers
<1>3. Opens(a, handler[a].user) /\ handler[a].user \in User \cup {None}
  BY OpenedEffect DEF Sound, Opens
<1>4. OwnObjects'
  BY <1>2, <1>3, OpensOwn DEF Own
<1>5. OwnHandlers'
  BY <1>1, HandlerOwn DEF Own, Sound
<1> QED
  BY <1>2, <1>4, <1>5 DEF Own

LEMMA LateJoinOwn ==
  ASSUME Sound, Own, NEW a \in Addr, NEW p \in Joins[a], LateJoin(a, p)
  PROVE  Own'
<1>1. p \in JoinPacket
  BY ProxyAssumption
<1>2. /\ Talks
      /\ KeptUsers
      /\ object' = object
      /\ \A i \in Object, q \in JoinPacket : identify'[i][q] > 0 =>
           identify[i][q] > 0 \/ (i = sess[a] /\ q = p)
  BY <1>1, LateJoinTalks DEF Sound
<1>3. sess[a] # None /\ object[sess[a]].addr = a /\ handler' = handler
  BY DEF LateJoin, Sound, Live
<1>4. ASSUME NEW i \in Object, Referenced(i)'
      PROVE  /\ object'[i].user \in Of(object'[i].addr)
             /\ \A q \in JoinPacket : identify'[i][q] > 0 => q \in Joins[object'[i].addr]
  <2>1. Referenced(i)
    BY <1>2, <1>4 DEF Talks, Kept
  <2> QED
    BY <1>2, <1>3, <2>1 DEF Own, OwnObjects
<1>5. OwnObjects'
  BY <1>4 DEF OwnObjects
<1> QED
  BY <1>3, <1>5 DEF Own, OwnHandlers

LEMMA ResolvedOwn ==
  ASSUME Sound, Own, NEW i \in Object, NEW p \in JoinPacket, IdentifyResolved(i, p)
  PROVE  Own'
<1>1. /\ Talks
      /\ \A j \in Object : j # i => object'[j] = object[j]
      /\ object'[i].user = p.user
  BY IdentifyResolvedTalks DEF Sound
<1>2. identify[i][p] > 0 /\ identify' = [identify EXCEPT ![i][p] = @ - 1]
  BY DEF IdentifyResolved
<1>3. Referenced(i) /\ \A j \in Object, q \in JoinPacket : identify'[j][q] > 0 => identify[j][q] > 0
  BY <1>2, AnswerTyped DEF Sound
<1>4. p \in Joins[object[i].addr]
  BY <1>2, <1>3 DEF Own, OwnObjects
<1>5. ASSUME NEW j \in Object, Referenced(j)'
      PROVE  /\ object'[j].user \in Of(object'[j].addr)
             /\ \A q \in JoinPacket : identify'[j][q] > 0 => q \in Joins[object'[j].addr]
  <2>1. Referenced(j) /\ object'[j].addr = object[j].addr
    BY <1>1, <1>5 DEF Talks, Kept
  <2>2. CASE j = i
    BY <1>1, <1>3, <1>4, <2>1, <2>2 DEF Own, OwnObjects, Of
  <2>3. CASE j # i
    BY <1>1, <1>3, <2>1, <2>3 DEF Own, OwnObjects
  <2> QED
    BY <2>2, <2>3
<1>6. OwnObjects'
  BY <1>5 DEF OwnObjects
<1> QED
  BY <1>1, <1>6 DEF Own, OwnHandlers, Talks

\* Nobody leaves the list, and no session begins or gets another user.
Quiet ==
  /\ \A u \in User : players[u] # "absent" => players'[u] # "absent"
  /\ \A a \in Addr : sess'[a] \in {sess[a], None}
  /\ Kept
  /\ KeptUsers
  /\ announce' = announce

\* The session of an address whose object keeps its user.
LEMMA SameUser ==
  ASSUME Sound, Kept, KeptUsers, NEW a \in Addr, sess'[a] # None, sess'[a] \in {sess[a], None}
  PROVE  /\ sess[a] \in Object
         /\ sess'[a] = sess[a]
         /\ object'[sess[a]].user = object[sess[a]].user
         /\ object[sess[a]].addr = a
         /\ Referenced(sess[a])
<1>1. PICK i \in Object : i = sess[a] /\ i = sess'[a]
  BY DEF Sound, Typed
<1>2. Referenced(i)' /\ Referenced(i)
  BY <1>1 DEF Referenced
<1> QED
  BY <1>1, <1>2, ProxyAssumption DEF KeptUsers, Sound, Live

LEMMA UserSort ==
  ASSUME Sound, NEW i \in Object, Referenced(i)
  PROVE  object[i].user \in User \cup {None} /\ object[i].addr \in Addr
BY DEF Sound, Live, Session

LEMMA QuietListed ==
  ASSUME Sound, Listed, Quiet
  PROVE  Listed'
<1>1. ASSUME NEW a \in Addr, sess'[a] # None, object'[sess'[a]].user # None, announce'[sess'[a]] = 0
      PROVE  players'[object'[sess'[a]].user] # "absent"
  <2>1. /\ sess[a] \in Object
        /\ sess'[a] = sess[a]
        /\ object'[sess[a]].user = object[sess[a]].user
        /\ Referenced(sess[a])
    BY <1>1, SameUser DEF Quiet
  <2>2. players[object[sess[a]].user] # "absent"
    BY <1>1, <2>1 DEF Listed, Quiet
  <2>3. object[sess[a]].user \in User
    BY <1>1, <2>1, UserSort
  <2> QED
    BY <2>1, <2>2, <2>3 DEF Quiet
<1> QED
  BY <1>1 DEF Listed

\* The closing of a session takes its user off the list, who plays from the
\* address of that session and from no other.
LEMMA ClosedListed ==
  ASSUME Sound, Own, Listed, OwnAddresses, NEW k \in Sweeper, Closed(k)
  PROVE  Listed'
<1>1. Sweeps(k) /\ Logged(k)
  BY ClosedEffect DEF Sound
<1>2. \A a \in Addr : sess'[a] \in {sess[a], None}
  BY <1>1, GoesNone DEF Logged, Sound
<1> DEFINE s == object[sweep[k].closing]
<1>3. /\ sweep[k].closing \in Object
      /\ Referenced(sweep[k].closing)
      /\ k \in Sweeping
  BY <1>1, SweepSort DEF Logged, Referenced, Sound
<1>4. s.addr \in Addr /\ s.user \in User \cup {None} /\ s.user \in Of(s.addr)
  BY <1>3, UserSort DEF Own, OwnObjects
<1>5. sess[s.addr] = None
  <2>1. Closes(k, s.addr) /\ OnceAt(s.addr)
    BY <1>3, <1>4 DEF Closes, Sound, Rows, RowAt
  <2> QED
    BY <2>1 DEF OnceAt
<1>6. IF s.user = None THEN UNCHANGED matchVars ELSE PlayerDisconnected(s.user)
  BY DEF Closed
<1>7. \A u \in User : u # s.user => players'[u] = players[u]
  <2>1. players \in [User -> Entry]
    BY DEF Sound, MatchTypeOK
  <2> HIDE DEF s
  <2> QED
    BY <1>6, <2>1 DEF PlayerDisconnected, matchVars
<1>8. ASSUME NEW a \in Addr, sess'[a] # None, object'[sess'[a]].user # None, announce'[sess'[a]] = 0
      PROVE  players'[object'[sess'[a]].user] # "absent"
  <2>1. /\ sess[a] \in Object
        /\ sess'[a] = sess[a]
        /\ object'[sess[a]].user = object[sess[a]].user
        /\ object[sess[a]].addr = a
        /\ Referenced(sess[a])
    BY <1>1, <1>2, <1>8, SameUser DEF Sweeps
  <2>2. sess[a] # None /\ announce[sess[a]] = 0
    BY <1>1, <1>8, <2>1 DEF Sweeps, CloseTypes
  <2>3. players[object[sess[a]].user] # "absent"
    BY <1>8, <2>1, <2>2 DEF Listed
  <2>4. object[sess[a]].user \in User /\ object[sess[a]].user \in Of(a)
    BY <1>8, <2>1, UserSort DEF Own, OwnObjects
  <2>5. s.addr # a
    BY <1>5, <2>2
  <2>6. object[sess[a]].user # s.user
    <3>1. object[sess[a]].user # None
      BY <1>8, <2>1
    <3>2. PICK p \in Joins[a] : p.user = object[sess[a]].user
      BY <2>4, <3>1 DEF Of
    <3>3. s.user # None => \E q \in Joins[s.addr] : q.user = s.user
      BY <1>4 DEF Of
    <3> QED
      BY <1>4, <2>5, <3>1, <3>2, <3>3 DEF OwnAddresses
  <2> QED
    BY <1>7, <2>1, <2>3, <2>4, <2>6
<1> QED
  BY <1>8 DEF Listed

\* A user who is put on the list is there, and the others stay.
LEMMA ConnectedListed ==
  ASSUME MatchTypeOK, NEW u \in User, PlayerConnected(u)
  PROVE  players'[u] # "absent" /\ \A x \in User : players[x] # "absent" => players'[x] # "absent"
<1>1. CASE UNCHANGED matchVars /\ players[u] # "absent"
  BY <1>1 DEF matchVars
<1>2. CASE players' = [players EXCEPT ![u] = "proxy"]
  BY <1>2 DEF MatchTypeOK
<1> QED
  BY <1>1, <1>2 DEF PlayerConnected

LEMMA OpenedListed ==
  ASSUME Sound, Own, Listed, NEW a \in Addr, SocketOpened(a)
  PROVE  Listed'
<1> DEFINE u == handler[a].user
<1>1. Opens(a, u) /\ u \in User \cup {None}
  BY OpenedEffect DEF Sound, Opens
<1>2. IF u = None THEN UNCHANGED matchVars ELSE PlayerConnected(u)
  BY DEF SocketOpened, Registered
<1>3. /\ u # None => players'[u] # "absent"
      /\ \A x \in User : players[x] # "absent" => players'[x] # "absent"
  BY <1>1, <1>2, ConnectedListed DEF Sound, matchVars
<1> HIDE DEF u
<1>4. PICK i \in Object :
        /\ object[i] = None
        /\ sess' = [sess EXCEPT ![a] = i]
        /\ object' = [object EXCEPT ![i] = [addr |-> a, user |-> u, kicked |-> FALSE]]
  BY <1>1 DEF Opens
<1>5. announce' = announce
  BY <1>1 DEF Opens
<1>6. ASSUME NEW x \in Addr, sess'[x] # None, object'[sess'[x]].user # None, announce'[sess'[x]] = 0
      PROVE  players'[object'[sess'[x]].user] # "absent"
  <2>1. CASE x = a
    <3>1. sess'[x] = i /\ object'[i].user = u
      BY <1>4, <2>1 DEF Sound, Typed
    <3> QED
      BY <1>3, <1>6, <3>1
  <2>2. CASE x # a
    <3>1. sess'[x] = sess[x] /\ sess[x] \in Object /\ Referenced(sess[x])
      BY <1>4, <1>6, <2>2 DEF Sound, Typed, Referenced
    <3>2. sess[x] # i
      BY <1>4, <3>1, NoneAssumption DEF Sound, Live
    <3>3. object'[sess[x]] = object[sess[x]]
      BY <1>4, <3>1, <3>2 DEF Sound, Typed
    <3>4. object[sess[x]].user \in User
      BY <1>6, <3>1, <3>3, UserSort
    <3>5. players[object[sess[x]].user] # "absent"
      BY <1>5, <1>6, <3>1, <3>3 DEF Listed
    <3> QED
      BY <1>3, <3>1, <3>3, <3>4, <3>5
  <2> QED
    BY <2>1, <2>2
<1> QED
  BY <1>6 DEF Listed

\* A session that is being announced is not asked for.
LEMMA ResolvedListed ==
  ASSUME Sound, Listed, NEW i \in Object, NEW p \in JoinPacket, IdentifyResolved(i, p)
  PROVE  Listed'
<1>1. /\ announce'[i] > 0
      /\ \A j \in Object : j # i => object'[j] = object[j] /\ announce'[j] = announce[j]
  BY IdentifyResolvedTalks DEF Sound
<1>2. sess' = sess /\ players' = players
  BY DEF IdentifyResolved, matchVars
<1>3. \A a \in Addr : sess[a] # None => sess[a] \in Object
  BY DEF Sound, Typed
<1> QED
  BY <1>1, <1>2, <1>3 DEF Listed

LEMMA AnnouncedListed ==
  ASSUME Sound, Listed, NEW i \in Object, Announce(i)
  PROVE  Listed'
<1>1. Talks /\ KeptUsers /\ \A j \in Object : j # i => announce'[j] = announce[j]
  BY AnnounceTalks DEF Sound
<1>2. PlayerConnected(object[i].user) /\ announce[i] > 0
  BY DEF Announce
<1>3. ASSUME NEW a \in Addr, sess'[a] # None, object'[sess'[a]].user # None, announce'[sess'[a]] = 0
      PROVE  players'[object'[sess'[a]].user] # "absent"
  <2>1. /\ sess[a] \in Object
        /\ sess'[a] = sess[a]
        /\ object'[sess[a]].user = object[sess[a]].user
        /\ Referenced(sess[a])
    BY <1>1, <1>3, SameUser DEF Talks
  <2>2. object[sess[a]].user \in User
    BY <1>3, <2>1, UserSort
  <2>3. CASE sess[a] = i
    BY <1>2, <2>1, <2>2, <2>3, ConnectedListed DEF Sound
  <2>4. CASE sess[a] # i
    <3>1. players[object[sess[a]].user] # "absent"
      BY <1>1, <1>3, <2>1, <2>4 DEF Listed
    <3>2. \A x \in User : players[x] # "absent" => players'[x] # "absent"
      <4>1. CASE object[i].user \in User
        BY <1>2, <4>1, ConnectedListed DEF Sound
      <4>2. CASE object[i].user \notin User
        BY <1>2, <4>2 DEF PlayerConnected, matchVars, Sound, MatchTypeOK
      <4> QED
        BY <4>1, <4>2
    <3> QED
      BY <2>1, <2>2, <3>1, <3>2
  <2> QED
    BY <2>3, <2>4
<1> QED
  BY <1>3 DEF Listed

\* The game server's reports that leave the list to the proxy.
LEMMA ReportsStay ==
  ASSUME MatchTypeOK, OnlyProxyRemoves, GameReports
  PROVE  \A u \in User : players[u] # "absent" => players'[u] # "absent"
<1>1. ASSUME NEW push \in TrackerPush, UpdateFromTracker(push)
      PROVE  \A u \in User : players[u] # "absent" => players'[u] # "absent"
  <2>1. Departed(push) = {}
    BY DEF Departed, OnlyProxyRemoves
  <2> QED
    BY <1>1, <2>1 DEF UpdateFromTracker
<1>2. CASE SetMatchStarted \/ SetServerReady \/ SignalMatchEnd
  BY <1>2 DEF SetMatchStarted, SetServerReady, SignalMatchEnd
<1> QED
  BY <1>1, <1>2 DEF GameReports, OnlyProxyRemoves

\* The invariant of the list.
ListedInv == Sound /\ Own /\ Listed

\* A step that talks, closes or reports, and tells the match state of nobody.
LEMMA QuietStep ==
  ASSUME ListedInv, handler' = handler, Quiet, Settled
  PROVE  Own' /\ Listed'
<1>1. OwnObjects' /\ Listed'
  BY SettledOwn, QuietListed DEF ListedInv, Own
<1> QED
  BY <1>1 DEF ListedInv, Own, OwnHandlers

LEMMA SweepsQuiet ==
  ASSUME ListedInv, NEW k \in Sweeper, Sweeps(k), Begins(k) \/ Fails(k), players' = players
  PROVE  Own' /\ Listed'
<1>1. \A a \in Addr : sess'[a] \in {sess[a], None}
  BY GoesNone DEF Begins, ListedInv, Sound
<1>2. Quiet /\ Settled /\ handler' = handler
  BY <1>1 DEF Quiet, Settled, Sweeps, CloseTypes
<1> QED
  BY <1>2, QuietStep

LEMMA RestsQuiet ==
  ASSUME ListedInv, UNCHANGED proxyVars,
         \A u \in User : players[u] # "absent" => players'[u] # "absent"
  PROVE  Own' /\ Listed'
<1>1. Kept /\ KeptUsers
  BY NothingKept DEF ListedInv, Sound, proxyVars
<1>2. Quiet /\ Settled /\ handler' = handler
  BY <1>1 DEF Quiet, Settled, proxyVars
<1> QED
  BY <1>2, QuietStep

LEMMA StartQuiet ==
  ASSUME ListedInv, NEW k \in Sweeper, NEW targets \in SUBSET Addr, NEW kick \in BOOLEAN,
         UNCHANGED <<handler, rows, players>>, Start(k, targets, kick)
  PROVE  Own' /\ Listed'
<1>1. UNCHANGED proxyVars \/ (Sweeps(k) /\ Begins(k))
  BY StartEffect DEF ListedInv, Sound
<1> QED
  BY <1>1, RestsQuiet, SweepsQuiet

LEMMA TalksQuiet ==
  ASSUME ListedInv, Talks, KeptUsers, UNCHANGED <<announce, players>>,
         \A i \in Object, p \in JoinPacket : identify'[i][p] > 0 => identify[i][p] > 0
  PROVE  Own' /\ Listed'
<1>1. Quiet /\ Settled /\ handler' = handler
  BY DEF Talks, Quiet, Settled
<1> QED
  BY <1>1, QuietStep

LEMMA LookupQuiet ==
  ASSUME ListedInv, NEW i \in Object, NEW p \in JoinPacket,
         IdentifyRefused(i, p) \/ IdentifyNobody(i, p)
  PROVE  Own' /\ Listed'
<1>1. Talks /\ KeptUsers
  BY IdentifyRefusedTalks, IdentifyNobodyTalks DEF ListedInv, Sound
<1>2. /\ identify[i][p] > 0
      /\ identify' = [identify EXCEPT ![i][p] = @ - 1]
      /\ UNCHANGED <<announce, players>>
  BY DEF IdentifyRefused, IdentifyNobody, matchVars
<1>3. \A j \in Object, q \in JoinPacket : identify'[j][q] > 0 => identify[j][q] > 0
  BY <1>2, AnswerTyped DEF ListedInv, Sound
<1> QED
  BY <1>1, <1>2, <1>3, TalksQuiet

LEMMA ListedStep ==
  ASSUME ListedInv, OwnAddresses, OnlyProxyRemoves, ~MayFail, [Next]_vars
  PROVE  Own' /\ Listed'
<1>s. Sound /\ Own /\ Listed /\ MatchTypeOK
  BY DEF ListedInv, Sound
<1>f. ASSUME NEW a \in Addr,
             \/ \E p \in Joins[a] \cup {None} : FirstPacket(a, p)
             \/ TurnedAway(a) \/ LogConnection(a) \/ SocketFails(a)
      PROVE  Own' /\ Listed'
  <2>1. UNCHANGED <<sess, object, announce, players>>
    BY <1>f DEF FirstPacket, TurnedAway, LogConnection, SocketFails, matchVars
  <2>2. Listed'
    BY <1>s, <2>1 DEF Listed
  <2> QED
    BY <1>f, <1>s, <2>2, FirstOwn
<1>1. CASE ClientStep
  <2>1. ASSUME NEW a \in Addr, NEW p \in Joins[a] \cup {None}, FirstPacket(a, p)
        PROVE  Own' /\ Listed'
    BY <1>f, <2>1
  <2>2. ASSUME NEW a \in Addr, NEW p \in Joins[a], LateJoin(a, p) PROVE Own' /\ Listed'
    <3>1. UNCHANGED <<sess, object, announce, players>>
      BY <2>2 DEF LateJoin, matchVars
    <3>2. Listed'
      BY <1>s, <3>1 DEF Listed
    <3> QED
      BY <1>s, <2>2, <3>2, LateJoinOwn
  <2>3. ASSUME NEW a \in Addr, Packet(a) PROVE Own' /\ Listed'
    BY <1>s, <2>3, PacketTalks, TalksQuiet DEF Packet, matchVars, Sound
  <2> QED
    BY <1>1, <2>1, <2>2, <2>3 DEF ClientStep
<1>2. CASE TaskStep
  <2>1. ASSUME NEW a \in Addr, TurnedAway(a) \/ LogConnection(a) \/ SocketFails(a)
        PROVE  Own' /\ Listed'
    BY <1>f, <2>1
  <2>2. ASSUME NEW a \in Addr, SocketOpened(a) PROVE Own' /\ Listed'
    BY <1>s, <2>2, OpenedOwn, OpenedListed
  <2>3. ASSUME NEW i \in Object, NEW p \in JoinPacket,
               IdentifyRefused(i, p) \/ IdentifyNobody(i, p) \/ IdentifyResolved(i, p)
        PROVE  Own' /\ Listed'
    BY <1>s, <2>3, LookupQuiet, ResolvedOwn, ResolvedListed
  <2>4. ASSUME NEW i \in Object, Announce(i) \/ AnnounceFails(i) PROVE Own' /\ Listed'
    <3>1. Announce(i)
      BY <2>4 DEF AnnounceFails
    <3>2. Talks /\ KeptUsers /\ identify' = identify
      BY <1>s, <3>1, AnnounceTalks DEF Sound, Announce
    <3>3. OwnObjects'
      BY <1>s, <3>2, SettledOwn DEF Settled, Talks, Own
    <3>4. Own'
      BY <1>s, <3>2, <3>3 DEF Own, OwnHandlers, Talks
    <3> QED
      BY <1>s, <3>1, <3>4, AnnouncedListed
  <2>5. ASSUME NEW k \in Sweeper, Closed(k) \/ CloseFails(k) PROVE Own' /\ Listed'
    <3>1. Closed(k)
      BY <2>5 DEF CloseFails
    <3>2. Sweeps(k)
      BY <1>s, <3>1, ClosedEffect DEF Sound
    <3>3. OwnObjects'
      BY <1>s, <3>2, SettledOwn DEF Settled, Sweeps, CloseTypes, Own
    <3>4. Own'
      BY <1>s, <3>2, <3>3 DEF Own, OwnHandlers, Sweeps
    <3> QED
      BY <1>s, <3>1, <3>4, ClosedListed
  <2>6. ASSUME NEW k \in Task, MatchEnd(k) PROVE Own' /\ Listed'
    BY <2>6, StartQuiet DEF MatchEnd, Sweeper
  <2>7. ASSUME NEW k \in Task, NEW u \in User, PlayerLeave(k, u) PROVE Own' /\ Listed'
    BY <2>7, StartQuiet DEF PlayerLeave, SessionsOf, Sweeper
  <2>8. CASE Cleanup
    BY <2>8, StartQuiet DEF Cleanup, matchVars, Sweeper
  <2>9. ASSUME NEW a \in Addr, FallSilent(a) PROVE Own' /\ Listed'
    BY <1>s, <2>9, PacketTalks, TalksQuiet DEF FallSilent, matchVars, Sound
  <2> QED
    BY <1>2, <2>1, <2>2, <2>3, <2>4, <2>5, <2>6, <2>7, <2>8, <2>9 DEF TaskStep
<1>3. CASE GameReports
  BY <1>3, <1>s, ReportsStay, RestsQuiet DEF GameReports
<1>4. ASSUME NEW k \in Task, AdminKick(k) PROVE Own' /\ Listed'
  <2>1. PICK targets \in {SessionsOf(u) : u \in User}
                      \cup {{a \in Addr : sess[a] # None /\ IpOf[a] = h} : h \in Ip} :
          Start(k, targets, TRUE)
    BY <1>4 DEF AdminKick
  <2>2. targets \in SUBSET Addr
    BY <2>1 DEF SessionsOf
  <2>3. UNCHANGED <<handler, rows, players>>
    BY <1>4 DEF AdminKick, matchVars
  <2> QED
    BY <2>1, <2>2, <2>3, StartQuiet DEF Sweeper
<1>5. CASE UNCHANGED vars
  BY <1>5, RestsQuiet DEF vars, matchVars
<1> QED
  BY <1>1, <1>2, <1>3, <1>4, <1>5 DEF Next

(***************************************************************************)
(* When every user plays from one address, nothing fails and only the      *)
(* proxy takes players off the list, a player whose session is identified  *)
(* and announced is on it, whatever kicks, bans, timeouts and ends of a    *)
(* match close sessions meanwhile: the late end of his former session      *)
(* (_close_session, after its await) does not strike his new one.          *)
(***************************************************************************)
THEOREM ListedHolds ==
  ASSUME ~MayFail, OwnAddresses, OnlyProxyRemoves
  PROVE  Spec => []Listed
<1>1. Init => ListedInv
  <2> SUFFICES ASSUME Init PROVE ListedInv
    OBVIOUS
  <2>1. \A i \in Object : ~Referenced(i)
    BY ProxyAssumption DEF Init, Referenced, Closing, Sweeping, Identifying
  <2>2. Own /\ Listed
    BY <2>1 DEF Init, Own, OwnHandlers, OwnObjects, Listed
  <2> QED
    BY <2>2, SoundInit DEF ListedInv
<1>2. ListedInv /\ [Next]_vars => ListedInv'
  BY ListedStep, SoundStep DEF ListedInv
<1>3. ListedInv => Listed
  BY DEF ListedInv
<1> QED
  BY <1>1, <1>2, <1>3, PTL DEF Spec
=============================================================================
