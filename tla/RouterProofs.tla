---------------------------- MODULE RouterProofs ----------------------------
(***************************************************************************)
(* Proofs about Router, for every set of clients, modes and backends.      *)
(*                                                                         *)
(* TypeOK and SessionHasSocket are inductive together: a count of sockets  *)
(* goes down only where the session that has one ends, so that it never    *)
(* goes below zero.  What holds without redirects and failures rests on    *)
(* Plain: no redirect is under way, and an address whose first packet is   *)
(* being handled has no session.                                           *)
(***************************************************************************)
EXTENDS Router, FiniteSetTheorems, TLAPS

Inv == TypeOK /\ SessionHasSocket

-----------------------------------------------------------------------------
(* Types, and the socket of a session *)

\* A packet that joins the buffer keeps the type of the session.
LEMMA BufferedType ==
  ASSUME NEW buf \in Seq(Packet), NEW p \in Packet
  PROVE  Buffered(buf, p) \in Seq(Packet)
BY DEF Buffered

\* A notification within the bound keeps the type of closing.
LEMMA NotifyType ==
  ASSUME closing \in [Backend -> 0..MaxCalls], NEW b \in Backend, MayNotify(b), NotifyClose(b)
  PROVE  closing' \in [Backend -> 0..MaxCalls]
<1>1. closing[b] \in 0..MaxCalls /\ closing[b] < MaxCalls
  BY DEF MayNotify
<1>2. closing[b] + 1 \in 0..MaxCalls
  BY <1>1, RouterAssumption
<1> QED
  BY <1>2 DEF NotifyClose

\* So does the end of the session of an address for the sockets and sessions.
LEMMA EndedInv ==
  ASSUME Inv, NEW a \in Addr, sess[a] # None,
         sockets' = [sockets EXCEPT ![a][sess[a].backend] = @ - 1],
         sess' = [sess EXCEPT ![a] = None]
  PROVE  /\ sockets' \in [Addr -> [Backend -> 0..MaxCalls]]
         /\ sess' \in [Addr -> Session \cup {None}]
         /\ SessionHasSocket'
<1>1. sess[a] \in Session /\ sess[a].backend \in Backend
  BY DEF Inv, TypeOK, Session
<1>2. sockets[a][sess[a].backend] \in 0..MaxCalls /\ sockets[a][sess[a].backend] > 0
  BY <1>1 DEF Inv, TypeOK, SessionHasSocket
<1>3. sockets[a][sess[a].backend] - 1 \in 0..MaxCalls
  BY <1>2, RouterAssumption
<1>4. sockets' \in [Addr -> [Backend -> 0..MaxCalls]]
  BY <1>1, <1>3 DEF Inv, TypeOK
<1>5. sess'[a] = None /\ \A x \in Addr : x # a => sess'[x] = sess[x] /\ sockets'[x] = sockets[x]
  BY DEF Inv, TypeOK
<1>6. SessionHasSocket'
  BY <1>5 DEF Inv, SessionHasSocket
<1>7. sess' \in [Addr -> Session \cup {None}]
  BY DEF Inv, TypeOK
<1> QED
  BY <1>4, <1>6, <1>7

LEMMA InitInv == Init => Inv
<1> SUFFICES ASSUME Init PROVE Inv
  OBVIOUS
<1>1. 0 \in 0..MaxCalls /\ 0 \in 0..MaxCount
  BY RouterAssumption
<1> QED
  BY <1>1 DEF Init, Inv, TypeOK, SessionHasSocket

\* Packets of clients.
LEMMA ClientInv == Inv /\ ClientStep => Inv'
<1> SUFFICES ASSUME Inv, NEW a \in Addr,
                    \/ \E m \in Mode : EfmPacket(a, m)
                    \/ \E p \in Packet : FirstPacket(a, p)
                    \/ CommittedPacket(a)
                    \/ PlainPacket(a)
                    \/ \E m \in JoinModes : ConfirmingJoin(a, m) \/ RedirectingJoin(a, m)
             PROVE  Inv'
  BY DEF ClientStep
<1> USE DEF Inv, TypeOK, Refresh
<1>n. JoinModes \subseteq Mode /\ None \in Packet /\ JoinModes \subseteq Packet
  BY RouterAssumption DEF Packet
<1>1. ASSUME NEW m \in Mode, EfmPacket(a, m) PROVE Inv'
  BY <1>1, RouterAssumption DEF EfmPacket, SessionHasSocket
<1>2. ASSUME NEW p \in Packet, FirstPacket(a, p) PROVE Inv'
  <2>1. PreferredMode(a) \in Mode
    BY RouterAssumption DEF PreferredMode
  <2>2. handler'[a] \in Fetching \cup Opening
    BY <1>2, <2>1, RouterAssumption DEF FirstPacket, Fetching, Opening
  <2> QED
    BY <1>2, <2>2 DEF FirstPacket, SessionHasSocket
<1>3. CASE PlainPacket(a)
  <2>1. sess[a] \in Session
    BY <1>3 DEF PlainPacket
  <2>2. sess'[a] \in Session /\ sess'[a].backend = sess[a].backend
    BY <1>3, <2>1, <1>n, BufferedType DEF PlainPacket, Session
  <2>3. sess' \in [Addr -> Session \cup {None}]
    BY <1>3, <2>2 DEF PlainPacket
  <2>4. \A x \in Addr : x # a => sess'[x] = sess[x]
    BY <1>3 DEF PlainPacket
  <2>5. SessionHasSocket'
    BY <1>3, <2>2, <2>4 DEF PlainPacket, SessionHasSocket
  <2>6. TypeOK'
    BY <1>3, <2>3 DEF PlainPacket
  <2> QED
    BY <2>5, <2>6
<1>4. ASSUME NEW m \in JoinModes, ConfirmingJoin(a, m) PROVE Inv'
  <2>1. sess[a] \in Session
    BY <1>4 DEF ConfirmingJoin
  <2>2. sess'[a] \in Session /\ sess'[a].backend = sess[a].backend
    <3>1. sess'[a] = [backend |-> sess[a].backend, committed |-> TRUE, buf |-> <<>>]
      BY <1>4 DEF ConfirmingJoin
    <3>2. sess[a].backend \in Backend /\ TRUE \in BOOLEAN /\ <<>> \in Seq(Packet)
      BY <2>1 DEF Session
    <3> QED
      BY <3>1, <3>2 DEF Session
  <2>3. sess' \in [Addr -> Session \cup {None}]
    BY <1>4, <2>2 DEF ConfirmingJoin
  <2>4. \A x \in Addr : x # a => sess'[x] = sess[x]
    BY <1>4 DEF ConfirmingJoin
  <2>5. SessionHasSocket'
    BY <1>4, <2>2, <2>4 DEF ConfirmingJoin, SessionHasSocket
  <2>6. TypeOK'
    BY <1>4, <2>3 DEF ConfirmingJoin
  <2> QED
    BY <2>5, <2>6
<1>5. ASSUME NEW m \in JoinModes, RedirectingJoin(a, m) PROVE Inv'
  <2>1. sess[a] \in Session /\ sess[a].backend \in Backend
    BY <1>5 DEF RedirectingJoin, Session
  <2>2. redirect'[a] \in Redirect
    BY <1>5, <2>1, <1>n, BufferedType, RouterAssumption DEF RedirectingJoin, Session, Redirect
  <2>3. /\ sockets' \in [Addr -> [Backend -> 0..MaxCalls]]
        /\ sess' \in [Addr -> Session \cup {None}]
        /\ SessionHasSocket'
    BY <1>5, EndedInv DEF RedirectingJoin
  <2>4. closing' \in [Backend -> 0..MaxCalls]
    BY <1>5, <2>1, NotifyType DEF RedirectingJoin
  <2> QED
    BY <1>5, <2>2, <2>3, <2>4 DEF RedirectingJoin
<1>6. CASE CommittedPacket(a)
  BY <1>6 DEF CommittedPacket, SessionHasSocket
<1> QED
  BY <1>1, <1>2, <1>3, <1>4, <1>5, <1>6

\* What time and the backends do to last_seen.
LEMMA SilenceInv == Inv /\ (TimePasses \/ \E a \in Addr : BackendPacket(a)) => Inv'
<1> SUFFICES ASSUME Inv, NEW a \in Addr, FallsSilent(a) \/ BackendPacket(a) PROVE Inv'
  BY DEF TimePasses
<1> QED
  BY DEF FallsSilent, BackendPacket, Refresh, Inv, TypeOK, SessionHasSocket

\* A session that is installed has its socket.
LEMMA InstalledInv ==
  ASSUME Inv, NEW a \in Addr, NEW b \in Backend, NEW packets \in Seq(Packet),
         Installed(a, b, packets)
  PROVE  /\ sockets' \in [Addr -> [Backend -> 0..MaxCalls]]
         /\ sess' \in [Addr -> Session \cup {None}]
         /\ SessionHasSocket'
         /\ silent' \subseteq Addr
<1> USE DEF Inv, TypeOK, Refresh
<1>1. sess'[a] \in Session /\ sess'[a].backend = b
  BY DEF Installed, Session
<1>2. sockets' \in [Addr -> [Backend -> 0..MaxCalls]] /\ sockets'[a][b] > 0
  BY RouterAssumption DEF Installed
<1>3. \A x \in Addr : x # a => sess'[x] = sess[x] /\ sockets'[x] = sockets[x]
  BY DEF Installed
<1>4. sess' \in [Addr -> Session \cup {None}]
  BY <1>1 DEF Installed
<1>5. silent' \subseteq Addr
  BY DEF Installed
<1> QED
  BY <1>1, <1>2, <1>3, <1>4, <1>5 DEF SessionHasSocket

\* What the router and the manager do.
LEMMA RouterInv == Inv /\ RouterStep => Inv'
<1> SUFFICES ASSUME Inv, RouterStep PROVE Inv'
  OBVIOUS
<1> USE DEF Inv, TypeOK, Refresh
<1>1. ASSUME NEW i \in Ip, PrefExpires(i) PROVE Inv'
  BY <1>1 DEF PrefExpires, SessionHasSocket
<1>2. ASSUME NEW a \in Addr, FetchAnswered(a) \/ FetchFails(a) PROVE Inv'
  <2>1. handler[a] \in Fetching
    BY <1>2 DEF FetchAnswered, FetchFails, Fetching, Opening
  <2>2. handler'[a] \in Opening
    <3>1. CASE FetchAnswered(a)
      BY <2>1, <3>1, RouterAssumption DEF FetchAnswered, Fetching, Opening
    <3>2. CASE FetchFails(a)
      BY <2>1, <3>2, RouterAssumption DEF FetchFails, Fetching, Opening
    <3> QED
      BY <1>2, <3>1, <3>2
  <2>3. ledger' \in [Backend -> 0..MaxCount]
    <3>1. Serves[handler[a].mode] \subseteq Backend
      BY <2>1, RouterAssumption DEF Fetching
    <3> QED
      BY <1>2, <3>1, RouterAssumption DEF FetchAnswered, FetchFails
  <2> QED
    BY <1>2, <2>2, <2>3 DEF FetchAnswered, FetchFails, SessionHasSocket
<1>3. ASSUME NEW a \in Addr, FirstOpened(a) \/ RedirectOpened(a) PROVE Inv'
  <2>1. CASE FirstOpened(a)
    <3>1. handler[a] \in Opening /\ handler[a].backend \in Backend /\ <<handler[a].first>> \in Seq(Packet)
      BY <2>1 DEF FirstOpened, Fetching, Opening
    <3> QED
      BY <2>1, <3>1, InstalledInv DEF FirstOpened
  <2>2. CASE RedirectOpened(a)
    <3>1. redirect[a].target \in Backend /\ redirect[a].buf \in Seq(Packet)
      BY <2>2 DEF RedirectOpened, Redirect
    <3> QED
      BY <2>2, <3>1, InstalledInv DEF RedirectOpened
  <2> QED
    BY <1>3, <2>1, <2>2
<1>4. ASSUME NEW a \in Addr, FirstOpenFails(a) \/ RedirectOpenFails(a) PROVE Inv'
  BY <1>4 DEF FirstOpenFails, RedirectOpenFails, SessionHasSocket
<1>5. ASSUME NEW a \in Addr, Expire(a) PROVE Inv'
  <2>1. sess[a] \in Session /\ sess[a].backend \in Backend
    BY <1>5 DEF Expire, Session
  <2>2. /\ sockets' \in [Addr -> [Backend -> 0..MaxCalls]]
        /\ sess' \in [Addr -> Session \cup {None}]
        /\ SessionHasSocket'
    BY <1>5, EndedInv DEF Expire
  <2>3. closing' \in [Backend -> 0..MaxCalls]
    BY <1>5, <2>1, NotifyType DEF Expire
  <2> QED
    BY <1>5, <2>2, <2>3 DEF Expire
<1>6. ASSUME NEW b \in Backend, CloseArrives(b) \/ CloseLost(b) PROVE Inv'
  <2>1. closing[b] \in 1..MaxCalls /\ ledger[b] \in 0..MaxCount
    BY <1>6, RouterAssumption DEF CloseArrives, CloseLost
  <2>2. closing' \in [Backend -> 0..MaxCalls]
    BY <1>6, <2>1, RouterAssumption DEF CloseArrives, CloseLost
  <2>3. ledger' \in [Backend -> 0..MaxCount]
    BY <1>6, <2>1, RouterAssumption DEF CloseArrives, CloseLost, Uncount
  <2> QED
    BY <1>6, <2>2, <2>3 DEF CloseArrives, CloseLost, SessionHasSocket
<1> QED
  BY <1>1, <1>2, <1>3, <1>4, <1>5, <1>6 DEF RouterStep

LEMMA Invariance == Spec => []Inv
<1>1. Inv /\ [Next]_vars => Inv'
  <2>1. Inv /\ UNCHANGED vars => Inv'
    BY DEF Inv, TypeOK, SessionHasSocket, vars
  <2> QED
    BY <2>1, ClientInv, RouterInv, SilenceInv DEF Next
<1> QED
  BY <1>1, InitInv, PTL DEF Spec

(***************************************************************************)
(* The variables of the router keep their types (udp_router.py:173).       *)
(***************************************************************************)
THEOREM RouterTypeCorrect == Spec => []TypeOK
BY Invariance, PTL DEF Inv

(***************************************************************************)
(* No redirect, expiry or replacement closes the socket of a session that  *)
(* is in use (udp_router.py:239, 274, 308).                                *)
(***************************************************************************)
THEOREM SessionHasSocketHolds == Spec => []SessionHasSocket
BY Invariance, PTL DEF Inv

-----------------------------------------------------------------------------
(* Without redirects: one socket a client *)

\* No redirect is under way, and an address whose first packet is being handled
\* has no session.
Plain ==
  /\ \A a \in Addr : redirect[a] = None
  /\ \A a \in Addr : handler[a] # None => sess[a] = None

PInv == Inv /\ Plain /\ OneSocket

\* The session of address a becomes s, and its socket to backend b is counted
\* up or down with it.
LEMMA SocketFollows ==
  ASSUME Inv, OneSocket, NEW a \in Addr, NEW b \in Backend, NEW n \in Nat, NEW s,
         sockets' = [sockets EXCEPT ![a][b] = n],
         sess' = [sess EXCEPT ![a] = s],
         \A x \in Backend : x # b => (sess[a] # None /\ sess[a].backend = x)
                                       = (s # None /\ s.backend = x),
         n = IF s # None /\ s.backend = b THEN 1 ELSE 0
  PROVE  OneSocket'
<1> SUFFICES ASSUME NEW x \in Addr, NEW y \in Backend
             PROVE  sockets'[x][y] = IF sess'[x] # None /\ sess'[x].backend = y THEN 1 ELSE 0
  BY DEF OneSocket, On
<1>1. sockets[x][y] = IF sess[x] # None /\ sess[x].backend = y THEN 1 ELSE 0
  BY DEF OneSocket, On
<1>2. CASE x # a
  BY <1>1, <1>2 DEF Inv, TypeOK
<1>3. CASE x = a
  <2>1. sess'[x] = s
    BY <1>3 DEF Inv, TypeOK
  <2>2. sockets'[x][y] = IF y = b THEN n ELSE sockets[x][y]
    BY <1>3 DEF Inv, TypeOK
  <2> QED
    BY <1>1, <1>3, <2>1, <2>2
<1> QED
  BY <1>2, <1>3

LEMMA PlainStep ==
  ASSUME JoinModes = {}, PInv, Next PROVE Plain' /\ OneSocket'
<1> USE DEF PInv
<1>t. Inv /\ Plain /\ OneSocket /\ TypeOK
  BY DEF Inv
<1>0. ASSUME UNCHANGED <<sess, sockets>> PROVE OneSocket'
  BY <1>0, <1>t DEF OneSocket, On
<1>1. ASSUME NEW a \in Addr, NEW m \in Mode, EfmPacket(a, m) PROVE Plain' /\ OneSocket'
  BY <1>0, <1>1, <1>t DEF EfmPacket, Plain
<1>2. ASSUME NEW a \in Addr, NEW p \in Packet, FirstPacket(a, p) PROVE Plain' /\ OneSocket'
  BY <1>0, <1>2, <1>t DEF FirstPacket, Plain, TypeOK
<1>3. ASSUME NEW a \in Addr, PlainPacket(a) PROVE Plain' /\ OneSocket'
  <2>1. sess[a] \in Session /\ sess'[a].backend = sess[a].backend /\ sess'[a] # None
    <3>1. sess[a] \in Session
      BY <1>3, <1>t DEF PlainPacket, TypeOK
    <3>2. sess'[a] \in Session /\ sess'[a].backend = sess[a].backend
      BY <1>3, <1>t, <3>1, BufferedType DEF PlainPacket, Session, Packet, TypeOK
    <3> QED
      BY <3>1, <3>2, NoneAssumption
  <2>2. \A x \in Addr : x # a => sess'[x] = sess[x]
    BY <1>3, <1>t DEF PlainPacket, TypeOK
  <2>3. OneSocket'
    BY <1>3, <1>t, <2>1, <2>2 DEF PlainPacket, OneSocket, On
  <2>4. Plain'
    BY <1>3, <1>t, <2>2 DEF PlainPacket, Plain
  <2> QED
    BY <2>3, <2>4
<1>4. ASSUME NEW a \in Addr, FetchAnswered(a) \/ FetchFails(a) PROVE Plain' /\ OneSocket'
  <2>1. sess' = sess /\ sockets' = sockets /\ redirect' = redirect /\ handler[a] # None
    BY <1>4 DEF FetchAnswered, FetchFails
  <2>2. \A x \in Addr : x # a => handler'[x] = handler[x]
    BY <1>4, <1>t DEF FetchAnswered, FetchFails, TypeOK
  <2> QED
    BY <1>0, <1>t, <2>1, <2>2 DEF Plain
<1>5. ASSUME NEW a \in Addr, FirstOpened(a) PROVE Plain' /\ OneSocket'
  <2>1. handler[a].backend \in Backend /\ <<handler[a].first>> \in Seq(Packet)
    BY <1>5, <1>t DEF FirstOpened, TypeOK, Fetching, Opening
  <2> DEFINE b == handler[a].backend
             s == [backend |-> b, committed |-> FALSE, buf |-> <<handler[a].first>>]
  <2>2. sess[a] = None /\ s \in Session /\ s # None
    <3>1. sess[a] = None
      BY <1>5, <1>t DEF FirstOpened, Plain
    <3>2. s \in Session
      BY <2>1 DEF Session
    <3>3. s # None
      BY <3>2, NoneAssumption
    <3> QED
      BY <3>1, <3>2, <3>3
  <2>3. sockets[a][b] = 0
    BY <1>t, <2>1, <2>2 DEF OneSocket, On
  <2>4. sess' = [sess EXCEPT ![a] = s] /\ sockets' = [sockets EXCEPT ![a][b] = 1]
    BY <1>5, <2>3 DEF FirstOpened, Installed
  <2>5. OneSocket'
    <3> HIDE DEF b
    <3>1. b \in Backend /\ s.backend = b
      BY <2>1 DEF b
    <3> HIDE DEF s
    <3> QED
      BY <1>t, <2>2, <2>4, <3>1, SocketFollows
  <2>6. Plain'
    BY <1>5, <1>t, <2>4 DEF FirstOpened, Plain, TypeOK
  <2> QED
    BY <2>5, <2>6
<1>6. ASSUME NEW a \in Addr, FirstOpenFails(a) PROVE Plain' /\ OneSocket'
  BY <1>0, <1>6, <1>t DEF FirstOpenFails, Plain, TypeOK
<1>7. ASSUME NEW a \in Addr, Expire(a) PROVE Plain' /\ OneSocket'
  <2> DEFINE b == sess[a].backend
  <2>1. sess[a] # None /\ b \in Backend
    BY <1>7, <1>t DEF Expire, TypeOK, Session
  <2>2. sockets[a][b] = 1
    BY <1>t, <2>1 DEF OneSocket, On
  <2>3. sess' = [sess EXCEPT ![a] = None] /\ sockets' = [sockets EXCEPT ![a][b] = 0]
    BY <1>7, <2>2 DEF Expire
  <2>4. OneSocket'
    BY <1>t, <2>1, <2>3, SocketFollows
  <2>5. Plain'
    BY <1>7, <1>t, <2>3 DEF Expire, Plain, TypeOK
  <2> QED
    BY <2>4, <2>5
<1>8. ASSUME NEW i \in Ip, PrefExpires(i) PROVE Plain' /\ OneSocket'
  BY <1>0, <1>8, <1>t DEF PrefExpires, Plain
<1>9. ASSUME NEW b \in Backend, CloseArrives(b) \/ CloseLost(b) PROVE Plain' /\ OneSocket'
  BY <1>0, <1>9, <1>t DEF CloseArrives, CloseLost, Plain
<1>10. ASSUME NEW a \in Addr, RedirectOpened(a) \/ RedirectOpenFails(a) PROVE FALSE
  BY <1>10, <1>t DEF RedirectOpened, RedirectOpenFails, Plain
<1>11. ASSUME NEW a \in Addr, CommittedPacket(a) \/ BackendPacket(a) \/ FallsSilent(a)
       PROVE  Plain' /\ OneSocket'
  BY <1>0, <1>11, <1>t DEF CommittedPacket, BackendPacket, FallsSilent, Plain
<1> QED
  BY <1>1, <1>2, <1>3, <1>4, <1>5, <1>6, <1>7, <1>8, <1>9, <1>10, <1>11
     DEF Next, ClientStep, TimePasses, RouterStep

LEMMA PlainInvariance == ASSUME JoinModes = {} PROVE Spec => []PInv
<1>1. Init => PInv
  BY InitInv DEF Init, PInv, Plain, OneSocket, On
<1>2. PInv /\ [Next]_vars => PInv'
  <2> SUFFICES ASSUME PInv, [Next]_vars PROVE PInv'
    OBVIOUS
  <2>1. CASE Next
    BY <2>1, PlainStep, ClientInv, RouterInv, SilenceInv DEF Next, PInv
  <2>2. CASE UNCHANGED vars
    BY <2>2 DEF vars, PInv, Inv, TypeOK, SessionHasSocket, Plain, OneSocket, On
  <2> QED
    BY <2>1, <2>2
<1> QED
  BY <1>1, <1>2, PTL DEF Spec

(***************************************************************************)
(* As long as no client is redirected, whatever fails, a client has the    *)
(* socket of its session and no other (udp_router.py:265-283, 303-314).    *)
(***************************************************************************)
THEOREM OneSocketHolds == ASSUME JoinModes = {} PROVE Spec => []OneSocket
BY PlainInvariance, PTL DEF PInv

-----------------------------------------------------------------------------
(* Without redirects and failures: what the manager counts *)

AInv == PInv /\ AccountingExact

\* One address more or less on a backend.
LEMMA Counted ==
  ASSUME NEW S \in SUBSET Addr, NEW a \in Addr
  PROVE  /\ Cardinality(S) \in Nat
         /\ a \notin S => Cardinality(S \cup {a}) = Cardinality(S) + 1
         /\ a \in S => Cardinality(S \ {a}) = Cardinality(S) - 1
<1>1. IsFiniteSet(S)
  BY FS_Subset, RouterAssumption
<1> QED
  BY <1>1, FS_AddElement, FS_RemoveElement, FS_CardinalityType

LEMMA CountType == ASSUME NEW S \in SUBSET Addr PROVE Cardinality(S) \in Nat
BY FS_Subset, FS_CardinalityType, RouterAssumption

\* The step of a client's address a changes only where a itself counts.
LEMMA OthersStay ==
  ASSUME NEW a \in Addr, NEW b \in Backend,
         \A x \in Addr : x # a => sess'[x] = sess[x] /\ handler'[x] = handler[x]
  PROVE  /\ On(b)' = IF sess'[a] # None /\ sess'[a].backend = b
                       THEN On(b) \cup {a} ELSE On(b) \ {a}
         /\ HeadedTo(b)' = IF handler'[a] # None /\ handler'[a].phase = "open"
                                /\ handler'[a].backend = b
                             THEN HeadedTo(b) \cup {a} ELSE HeadedTo(b) \ {a}
BY DEF On, HeadedTo

LEMMA AccountingStep ==
  ASSUME JoinModes = {}, UseManager, ~MayFail, AInv, Next PROVE AccountingExact'
<1>t. TypeOK /\ Plain /\ AccountingExact
  BY DEF AInv, PInv, Inv
<1> SUFFICES ASSUME NEW b \in Backend
             PROVE  ledger'[b] = Cardinality(On(b)') + Cardinality(HeadedTo(b)') + closing'[b]
  BY DEF AccountingExact
<1>c. /\ ledger[b] = Cardinality(On(b)) + Cardinality(HeadedTo(b)) + closing[b]
      /\ On(b) \in SUBSET Addr /\ HeadedTo(b) \in SUBSET Addr
      /\ ledger[b] \in Nat /\ closing[b] \in Nat
  BY <1>t, RouterAssumption DEF AccountingExact, TypeOK, On, HeadedTo
<1>n. Cardinality(On(b)) \in Nat /\ Cardinality(HeadedTo(b)) \in Nat
  BY <1>c, CountType
<1>0. ASSUME UNCHANGED <<sess, handler, closing, ledger>>
      PROVE  ledger'[b] = Cardinality(On(b)') + Cardinality(HeadedTo(b)') + closing'[b]
  BY <1>0, <1>c DEF On, HeadedTo
<1>1. CASE \E a \in Addr, m \in Mode : EfmPacket(a, m)
  BY <1>0, <1>1 DEF EfmPacket
<1>2. ASSUME NEW a \in Addr, NEW p \in Packet, FirstPacket(a, p)
      PROVE  ledger'[b] = Cardinality(On(b)') + Cardinality(HeadedTo(b)') + closing'[b]
  <2>1. handler'[a].phase = "fetch" /\ handler[a] = None
    BY <1>2, <1>t DEF FirstPacket, TypeOK
  <2>2. \A x \in Addr : x # a => sess'[x] = sess[x] /\ handler'[x] = handler[x]
    BY <1>2, <1>t DEF FirstPacket, TypeOK
  <2>3. HeadedTo(b)' = HeadedTo(b)
    BY <2>1, <2>2, OthersStay DEF HeadedTo
  <2> QED
    BY <1>2, <1>c, <2>3 DEF FirstPacket, On
<1>3. ASSUME NEW a \in Addr, PlainPacket(a)
      PROVE  ledger'[b] = Cardinality(On(b)') + Cardinality(HeadedTo(b)') + closing'[b]
  <2>1. sess[a] \in Session /\ sess[a] # None
    BY <1>3, <1>t DEF PlainPacket, TypeOK
  <2>2. sess'[a] \in Session /\ sess'[a].backend = sess[a].backend
    BY <1>3, <1>t, <2>1, BufferedType DEF PlainPacket, Session, Packet, TypeOK
  <2>3. \A x \in Addr : x # a => sess'[x] = sess[x]
    BY <1>3, <1>t DEF PlainPacket, TypeOK
  <2>4. On(b)' = On(b)
    BY <2>1, <2>2, <2>3, NoneAssumption DEF On
  <2> QED
    BY <1>3, <1>c, <2>4 DEF PlainPacket, HeadedTo
<1>4. ASSUME NEW a \in Addr, FetchAnswered(a)
      PROVE  ledger'[b] = Cardinality(On(b)') + Cardinality(HeadedTo(b)') + closing'[b]
  <2>1. handler[a] \in Fetching /\ handler[a] # None /\ handler[a].phase = "fetch"
    BY <1>4, <1>t DEF FetchAnswered, TypeOK, Fetching, Opening
  <2>2. PICK g \in Serves[handler[a].mode] :
          /\ ledger' = [ledger EXCEPT ![g] = @ + 1]
          /\ handler' = [handler EXCEPT ![a] =
               [phase |-> "open", backend |-> g, first |-> @.first]]
    BY <1>4 DEF FetchAnswered
  <2>3. g \in Backend
    BY <2>1, RouterAssumption DEF Fetching
  <2>4. handler'[a] = [phase |-> "open", backend |-> g, first |-> handler[a].first]
    BY <2>2, <1>t DEF TypeOK
  <2>5. handler'[a] # None
    <3>1. handler'[a] \in Opening
      BY <2>1, <2>3, <2>4 DEF Fetching, Opening
    <3> QED
      BY <3>1, NoneAssumption
  <2>6. \A x \in Addr : x # a => sess'[x] = sess[x] /\ handler'[x] = handler[x]
    BY <1>4, <2>2, <1>t DEF FetchAnswered, TypeOK
  <2>7. a \notin HeadedTo(b)
    BY <2>1 DEF HeadedTo
  <2>8. HeadedTo(b)' = IF g = b THEN HeadedTo(b) \cup {a} ELSE HeadedTo(b)
    <3>1. HeadedTo(b)' = IF handler'[a] # None /\ handler'[a].phase = "open"
                              /\ handler'[a].backend = b
                           THEN HeadedTo(b) \cup {a} ELSE HeadedTo(b) \ {a}
      BY <2>6, OthersStay
    <3>2. handler'[a].phase = "open" /\ handler'[a].backend = g
      BY <2>4
    <3>3. HeadedTo(b) \ {a} = HeadedTo(b)
      BY <2>7
    <3> QED
      BY <2>5, <3>1, <3>2, <3>3
  <2>9. On(b)' = On(b) /\ closing' = closing
    BY <1>4 DEF FetchAnswered, On
  <2>10. ledger'[b] = IF g = b THEN ledger[b] + 1 ELSE ledger[b]
    BY <2>2, <2>3, <1>t DEF TypeOK
  <2>11. Cardinality(HeadedTo(b)') = IF g = b THEN Cardinality(HeadedTo(b)) + 1
                                            ELSE Cardinality(HeadedTo(b))
    BY <2>7, <2>8, <1>c, Counted
  <2> QED
    BY <1>c, <1>n, <2>9, <2>10, <2>11
<1>5. ASSUME NEW a \in Addr, FirstOpened(a)
      PROVE  ledger'[b] = Cardinality(On(b)') + Cardinality(HeadedTo(b)') + closing'[b]
  <2> DEFINE g == handler[a].backend
             s == [backend |-> g, committed |-> FALSE, buf |-> <<handler[a].first>>]
  <2>1. g \in Backend /\ <<handler[a].first>> \in Seq(Packet)
    BY <1>5, <1>t DEF FirstOpened, TypeOK, Fetching, Opening
  <2>2. s \in Session
    BY <2>1 DEF Session
  <2>3. s # None /\ s.backend = g
    BY <2>2, NoneAssumption
  <2>4. sess'[a] = s /\ handler'[a] = None
    BY <1>5, <1>t DEF FirstOpened, Installed, TypeOK
  <2>5. \A x \in Addr : x # a => sess'[x] = sess[x] /\ handler'[x] = handler[x]
    BY <1>5, <1>t DEF FirstOpened, Installed, TypeOK
  <2>6. a \notin On(b) /\ (a \in HeadedTo(b)) = (g = b)
    BY <1>5, <1>t DEF FirstOpened, Plain, On, HeadedTo
  <2> HIDE DEF g, s
  <2>7. /\ On(b)' = IF g = b THEN On(b) \cup {a} ELSE On(b)
        /\ HeadedTo(b)' = IF g = b THEN HeadedTo(b) \ {a} ELSE HeadedTo(b)
    <3>1. /\ On(b)' = IF sess'[a] # None /\ sess'[a].backend = b
                       THEN On(b) \cup {a} ELSE On(b) \ {a}
          /\ HeadedTo(b)' = IF handler'[a] # None /\ handler'[a].phase = "open"
                                 /\ handler'[a].backend = b
                              THEN HeadedTo(b) \cup {a} ELSE HeadedTo(b) \ {a}
      BY <2>5, OthersStay
    <3>2. On(b) \ {a} = On(b) /\ (g # b => HeadedTo(b) \ {a} = HeadedTo(b))
      BY <2>6
    <3> QED
      BY <2>3, <2>4, <3>1, <3>2
  <2>8. Cardinality(On(b)') + Cardinality(HeadedTo(b)')
          = Cardinality(On(b)) + Cardinality(HeadedTo(b))
    BY <1>c, <2>6, <2>7, Counted
  <2> QED
    BY <1>5, <1>c, <2>8 DEF FirstOpened
<1>6. ASSUME NEW a \in Addr, Expire(a)
      PROVE  ledger'[b] = Cardinality(On(b)') + Cardinality(HeadedTo(b)') + closing'[b]
  <2> DEFINE g == sess[a].backend
  <2>1. sess[a] # None /\ g \in Backend
    BY <1>6, <1>t DEF Expire, TypeOK, Session
  <2>2. closing' = [closing EXCEPT ![g] = @ + 1] /\ ledger' = ledger
    BY <1>6 DEF Expire, NotifyClose
  <2>3. sess'[a] = None /\ \A x \in Addr : x # a => sess'[x] = sess[x]
    BY <1>6, <1>t DEF Expire, TypeOK
  <2>4. (a \in On(b)) = (g = b) /\ HeadedTo(b)' = HeadedTo(b)
    BY <1>6, <2>1 DEF On, HeadedTo, Expire
  <2>5. On(b)' = IF g = b THEN On(b) \ {a} ELSE On(b)
    BY <2>3, <2>4 DEF On
  <2>6. Cardinality(On(b)') = IF g = b THEN Cardinality(On(b)) - 1 ELSE Cardinality(On(b))
    BY <1>c, <2>4, <2>5, Counted
  <2>7. closing'[b] = IF g = b THEN closing[b] + 1 ELSE closing[b]
    BY <2>1, <2>2, <1>t DEF TypeOK
  <2> QED
    BY <1>c, <1>n, <2>2, <2>4, <2>6, <2>7
<1>7. CASE \E i \in Ip : PrefExpires(i)
  BY <1>0, <1>7 DEF PrefExpires
<1>8. ASSUME NEW g \in Backend, CloseArrives(g)
      PROVE  ledger'[b] = Cardinality(On(b)') + Cardinality(HeadedTo(b)') + closing'[b]
  <2>1. On(b)' = On(b) /\ HeadedTo(b)' = HeadedTo(b)
    BY <1>8 DEF CloseArrives, On, HeadedTo
  <2>2. closing[g] > 0 /\ closing'[b] = IF g = b THEN closing[b] - 1 ELSE closing[b]
    BY <1>8, <1>t DEF CloseArrives, TypeOK
  <2>4. ledger'[b] = IF g = b THEN ledger[b] - 1 ELSE ledger[b]
    <3>1. CASE g = b
      <4>1. ledger[g] > 0
        BY <3>1, <2>2, <1>n, <1>c
      <4> QED
        BY <3>1, <4>1, <1>8, <1>t DEF CloseArrives, Uncount, TypeOK
    <3>2. CASE g # b
      BY <3>2, <1>8, <1>t DEF CloseArrives, Uncount, TypeOK
    <3> QED
      BY <3>1, <3>2
  <2> QED
    BY <1>c, <1>n, <2>1, <2>2, <2>4
<1>9. ASSUME NEW a \in Addr, \/ RedirectOpened(a) \/ RedirectOpenFails(a)
                             \/ FetchFails(a) \/ FirstOpenFails(a)
      PROVE  FALSE
  BY <1>9, <1>t DEF RedirectOpened, RedirectOpenFails, FetchFails, FirstOpenFails, Plain
<1>10. ASSUME NEW g \in Backend, CloseLost(g) PROVE FALSE
  BY <1>10 DEF CloseLost
<1>11. CASE \E a \in Addr : CommittedPacket(a) \/ BackendPacket(a) \/ FallsSilent(a)
  BY <1>0, <1>11 DEF CommittedPacket, BackendPacket, FallsSilent
<1> QED
  BY <1>1, <1>2, <1>3, <1>4, <1>5, <1>6, <1>7, <1>8, <1>9, <1>10, <1>11
     DEF Next, ClientStep, TimePasses, RouterStep

LEMMA AccountingInvariance ==
  ASSUME JoinModes = {}, UseManager, ~MayFail PROVE Spec => []AInv
<1>1. ASSUME Init PROVE AInv
  <2>1. PInv
    BY <1>1, InitInv DEF Init, PInv, Plain, OneSocket, On
  <2>2. ASSUME NEW b \in Backend PROVE On(b) = {} /\ HeadedTo(b) = {}
    BY <1>1 DEF Init, On, HeadedTo
  <2>3. AccountingExact
    BY <1>1, <2>2, FS_EmptySet DEF Init, AccountingExact
  <2> QED
    BY <2>1, <2>3 DEF AInv
<1>2. AInv /\ [Next]_vars => AInv'
  <2> SUFFICES ASSUME AInv, [Next]_vars PROVE AInv'
    OBVIOUS
  <2>1. CASE Next
    BY <2>1, PlainStep, AccountingStep, ClientInv, RouterInv, SilenceInv DEF Next, PInv, AInv
  <2>2. CASE UNCHANGED vars
    BY <2>2 DEF vars, AInv, PInv, Inv, TypeOK, SessionHasSocket, Plain, OneSocket,
                AccountingExact, On, HeadedTo
  <2> QED
    BY <2>1, <2>2
<1> QED
  BY <1>1, <1>2, PTL DEF Spec

(***************************************************************************)
(* When nothing fails and nobody is redirected, the sessions the manager   *)
(* counts on a backend are those of the router, those it is opening and    *)
(* those whose end it is reporting (udp_router.py:60-85, 265-314).         *)
(***************************************************************************)
THEOREM AccountingExactHolds ==
  ASSUME JoinModes = {}, UseManager, ~MayFail PROVE Spec => []AccountingExact
BY AccountingInvariance, PTL DEF AInv

=============================================================================
