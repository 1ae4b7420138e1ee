---------------------------- MODULE IdentityProofs ----------------------------
(***************************************************************************)
(* Proofs about Identity, for every set of users, tokens and packets: what *)
(* the game server reads in the name field once a name was written there,  *)
(* and whom require_auth lets through to it.                               *)
(*                                                                         *)
(* Most of it is about packets.  A byte that stops a name field is looked  *)
(* for from the end of a marker, and a name has no byte a marker begins    *)
(* with, so writing one moves no marker (PlacesSame), leaves the empty     *)
(* fields before it empty (EmptyStays), and is read back (WrittenRead).    *)
(***************************************************************************)
EXTENDS Identity, SequenceTheorems, WellFoundedInduction, TLAPS

\* The session is a record, and with require_auth whoever it is known for has
\* given a token.
Shape ==
  session = [open |-> session.open, kicked |-> session.kicked, user |-> session.user,
             auth |-> session.auth, uid |-> session.uid]
Known ==
  requireAuth /\ session.user # Nobody => session.auth \in {"name", "uid"} /\ session.user \in User

\* A name that was shown instead of its token is a user's.
Named == session.auth = "name" => session.user \in User

Sound == Shape /\ Known /\ Named

\* What a join packet leads to.
Passed(o) == o.ok /\ o.session.auth \in {"name", "uid"} /\ o.session.user \in User

LEMMA OutcomesPassed ==
  ASSUME requireAuth, NEW data, NEW o \in Outcomes(data)
  PROVE  o = Refused \/ Passed(o)
<1>1. ASSUME NEW u \in User, NEW uid, NEW d, NEW auth \in {"name", "uid"}
      PROVE  Passed(Accepted(u, auth, uid, d))
  BY DEF Passed, Accepted
<1>2. o \in ByUid(data) => o = Refused \/ Passed(o)
  BY <1>1 DEF ByUid, Owners
<1>3. o \in ByName(data) => o = Refused \/ Passed(o)
  BY <1>1 DEF ByName, Owners
<1>4. ByNone(data) = {Refused}
  BY DEF ByNone
<1>5. o \in ByUid(data) \/ o = Refused \/ o \in ByName(data) \/ o \in ByNone(data)
  BY DEF Outcomes
<1> QED
  BY <1>2, <1>3, <1>4, <1>5

-----------------------------------------------------------------------------
(* Least elements, and the places of a marker *)

LEMMA LeastOf ==
  ASSUME NEW S \in SUBSET Nat, S # {}
  PROVE  /\ (CHOOSE i \in S : \A j \in S : i <= j) \in S
         /\ \A j \in S : (CHOOSE i \in S : \A k \in S : i <= k) <= j
<1>1. \E i \in S : \A j \in S : ~(<<j, i>> \in OpToRel(<, Nat))
  BY NatLessThanWellFounded, WFMin
<1>2. \E i \in S : \A j \in S : i <= j
  <2>1. PICK i \in S : \A j \in S : ~(<<j, i>> \in OpToRel(<, Nat))
    BY <1>1
  <2>2. \A j \in S : ~(j < i)
    BY <2>1 DEF OpToRel
  <2> QED
    BY <2>2
<1> QED
  BY <1>2

LEMMA LeastIs ==
  ASSUME NEW S \in SUBSET Nat, NEW i \in S, \A j \in S : i <= j
  PROVE  (CHOOSE k \in S : \A j \in S : k <= j) = i
<1> DEFINE c == CHOOSE k \in S : \A j \in S : k <= j
<1>1. c \in S /\ \A j \in S : c <= j
  BY LeastOf
<1> HIDE DEF c
<1>2. c <= i /\ i <= c /\ c \in Nat /\ i \in Nat
  BY <1>1
<1> QED
  BY <1>2 DEF c

LEMMA MarkerSort ==
  ASSUME NEW m \in Markers
  PROVE  /\ m \in Seq(Byte)
         /\ Len(m) \in Nat \ {0}
         /\ m[1] \in Delims
         /\ \A k \in 2..Len(m) : m[k] \notin Delims
<1>1. m \in Seq(Byte) /\ m # <<>> /\ m[1] \in Delims
  <2>1. CASE m = EncodedMarker
    BY <2>1, ParserAssumption, MarkerAssumption DEF Delims
  <2>2. ASSUME NEW i \in DOMAIN PlainMarkers, m = PlainMarkers[i]
        PROVE  m \in Seq(Byte) /\ m # <<>> /\ m[1] \in Delims
    <3>1. m \in Seq(Byte)
      BY <2>2, ParserAssumption
    <3> QED
      BY <2>2, <3>1, MarkerAssumption DEF Delims
  <2> QED
    BY <2>1, <2>2 DEF Markers
<1>2. Len(m) \in Nat \ {0}
  BY <1>1, EmptySeq
<1> QED
  BY <1>1, <1>2, MarkerAssumption

LEMMA PlacesAre ==
  ASSUME NEW data \in Seq(Byte), NEW m \in Markers
  PROVE  /\ Places(data, m) = {p \in 0..Len(data) - Len(m) : \A k \in 1..Len(m) : data[p + k] = m[k]}
         /\ Places(data, m) \subseteq Nat
<1>1. m \in Seq(Byte) /\ Len(m) \in Nat \ {0} /\ Len(data) \in Nat
  BY MarkerSort, LenProperties
<1>2. ASSUME NEW p \in 0..Len(data) - Len(m)
      PROVE  SubSeq(data, p + 1, p + Len(m)) = m <=> \A k \in 1..Len(m) : data[p + k] = m[k]
  <2> DEFINE q == SubSeq(data, p + 1, p + Len(m))
  <2>0. p \in Nat /\ p + 1 \in Int /\ p + Len(m) \in Int /\ p + Len(m) <= Len(data)
    BY <1>1
  <2>1. \A i \in p + 1..p + Len(m) : data[i] \in Byte
    BY <1>1, <2>0, ElementOfSeq
  <2>2. /\ q \in Seq(Byte)
        /\ Len(q) = IF p + 1 <= p + Len(m) THEN p + Len(m) - (p + 1) + 1 ELSE 0
        /\ \A i \in 1..p + Len(m) - (p + 1) + 1 : q[i] = data[p + 1 + i - 1]
    BY <2>0, <2>1, SubSeqProperties
  <2> HIDE DEF q
  <2>3. Len(q) = Len(m) /\ \A i \in 1..Len(m) : q[i] = data[p + i]
    <3>1. p + Len(m) - (p + 1) + 1 = Len(m) /\ p + 1 <= p + Len(m)
      BY <1>1, <2>0
    <3>2. \A i \in 1..Len(m) : p + 1 + i - 1 = p + i
      BY <1>1, <2>0
    <3> QED
      BY <2>2, <3>1, <3>2
  <2>4. q = m <=> \A k \in 1..Len(m) : q[k] = m[k]
    BY <1>1, <2>2, <2>3, SeqEqual
  <2> QED
    BY <2>3, <2>4 DEF q
<1>3. Places(data, m) = {p \in 0..Len(data) - Len(m) : \A k \in 1..Len(m) : data[p + k] = m[k]}
  <2>1. Places(data, m) = {p \in 0..Len(data) - Len(m) : SubSeq(data, p + 1, p + Len(m)) = m}
    BY DEF Places
  <2> QED
    BY <1>2, <2>1
<1>4. 0..Len(data) - Len(m) \subseteq Nat
  BY <1>1
<1> QED
  BY <1>3, <1>4

LEMMA FindIs ==
  ASSUME NEW data \in Seq(Byte), NEW m \in Markers, Contains(data, m)
  PROVE  Find(data, m) \in Places(data, m)
BY PlacesAre, LeastOf DEF Contains, Find

-----------------------------------------------------------------------------
(* The slot of a name, and what writing to it cannot move *)

\* A slot of bytes that are no delimiters lies from s to e, after marker m.
Slot(data, m, s, e) ==
  /\ s \in Len(m)..Len(data)
  /\ e \in s + 1..Len(data)
  /\ \A k \in 1..Len(m) : data[s - Len(m) + k] = m[k]
  /\ \A i \in s + 1..e : data[i] \notin Delims

\* No marker overlaps the slot, and only its own ends where it begins.
LEMMA MarkersOutside ==
  ASSUME NEW data \in Seq(Byte), NEW m \in Markers, NEW s, NEW e, Slot(data, m, s, e),
         NEW o \in Markers, NEW p \in Places(data, o)
  PROVE  /\ p + Len(o) <= s \/ e <= p
         /\ p + Len(o) = s => o = m
<1>1. /\ Len(m) \in Nat \ {0} /\ Len(o) \in Nat \ {0} /\ Len(data) \in Nat
      /\ m \in Seq(Byte) /\ o \in Seq(Byte)
  BY MarkerSort, LenProperties
<1>2. /\ p \in Nat /\ p + Len(o) <= Len(data)
      /\ \A k \in 1..Len(o) : data[p + k] = o[k]
  BY <1>1, PlacesAre
<1>3. /\ s \in Nat /\ e \in Nat /\ Len(m) <= s /\ s < e /\ e <= Len(data)
      /\ \A k \in 1..Len(m) : data[s - Len(m) + k] = m[k]
      /\ \A i \in s + 1..e : data[i] \notin Delims
  BY <1>1 DEF Slot
\* The one delimiter of each of the two.
<1>4. data[p + 1] \in Delims /\ \A i \in p + 2..p + Len(o) : data[i] \notin Delims
  <2>1. data[p + 1] = o[1] /\ o[1] \in Delims
    BY <1>1, <1>2, MarkerSort
  <2>2. ASSUME NEW i \in p + 2..p + Len(o) PROVE data[i] \notin Delims
    <3>1. i - p \in 2..Len(o) /\ i - p \in 1..Len(o) /\ p + (i - p) = i
      BY <1>1, <1>2
    <3>2. data[i] = o[i - p]
      BY <1>2, <3>1
    <3> QED
      BY <3>1, <3>2, MarkerSort
  <2> QED
    BY <2>1, <2>2
<1> DEFINE b == s - Len(m)
<1>5. b \in Nat /\ b + Len(m) = s /\ data[b + 1] \in Delims
      /\ \A i \in b + 2..s : data[i] \notin Delims
  <2>1. data[b + 1] = m[1] /\ m[1] \in Delims
    BY <1>1, <1>3, MarkerSort
  <2>2. ASSUME NEW i \in b + 2..s PROVE data[i] \notin Delims
    <3>1. i - b \in 2..Len(m) /\ i - b \in 1..Len(m) /\ b + (i - b) = i
      BY <1>1, <1>3
    <3>2. data[i] = m[i - b]
      BY <1>3, <3>1
    <3> QED
      BY <3>1, <3>2, MarkerSort
  <2> QED
    BY <1>1, <1>3, <2>1, <2>2
<1> HIDE DEF b
\* If o begins before the slot and reaches its beginning, it begins where m does.
<1>6. ASSUME p + Len(o) >= s, p < e PROVE p = b
  <2>1. ~(p + 1 \in s + 1..e)
    BY <1>3, <1>4
  <2>2. p < s
    BY <1>2, <1>3, <1>6, <2>1
  <2>3. ~(p + 1 \in b + 2..s)
    BY <1>4, <1>5
  <2>4. p <= b
    BY <1>2, <1>3, <1>5, <2>2, <2>3
  <2>5. ~(b + 1 \in p + 2..p + Len(o))
    BY <1>4, <1>5
  <2>6. b + 1 <= p + Len(o)
    BY <1>1, <1>2, <1>3, <1>5, <1>6
  <2> QED
    BY <1>1, <1>2, <1>5, <2>4, <2>5, <2>6
<1>7. ASSUME p = b, Len(o) >= Len(m) PROVE o = m
  <2>1. ASSUME NEW k \in 1..Len(m) PROVE k \in 1..Len(o) /\ o[k] = m[k]
    <3>1. k \in 1..Len(o)
      BY <1>1, <1>7
    <3>2. data[p + k] = o[k]
      BY <1>2, <3>1
    <3>3. data[b + k] = m[k]
      BY <1>3 DEF b
    <3> QED
      BY <1>7, <3>1, <3>2, <3>3
  <2>2. DOMAIN m = 1..Len(m) /\ DOMAIN o = 1..Len(o)
    BY <1>1, LenProperties
  <2> QED
    BY <2>1, <2>2, MarkerAssumption
<1>8. ASSUME p + Len(o) > s, p < e PROVE FALSE
  <2>1. p = b
    BY <1>1, <1>2, <1>3, <1>6, <1>8
  <2>2. Len(o) > Len(m)
    BY <1>1, <1>2, <1>5, <1>8, <2>1
  <2>3. o = m
    BY <1>1, <1>7, <2>1, <2>2
  <2> QED
    BY <1>1, <2>2, <2>3
<1>9. ASSUME p + Len(o) = s PROVE o = m
  <2>1. p < e /\ p + Len(o) >= s
    BY <1>1, <1>2, <1>3, <1>9
  <2>2. p = b
    BY <1>6, <2>1
  <2>3. Len(o) >= Len(m)
    BY <1>1, <1>2, <1>5, <1>9, <2>2
  <2> QED
    BY <1>7, <2>2, <2>3
<1> QED
  BY <1>1, <1>2, <1>3, <1>8, <1>9

\* other is data with something else in the slot that has no delimiters either.
Written(data, other, m, s, e) ==
  /\ other \in Seq(Byte)
  /\ Len(other) = Len(data)
  /\ Slot(data, m, s, e)
  /\ \A i \in 1..Len(data) : i \notin s + 1..e => other[i] = data[i]
  /\ \A i \in s + 1..e : other[i] \notin Delims

LEMMA WrittenSlot ==
  ASSUME NEW data \in Seq(Byte), NEW other, NEW m \in Markers, NEW s, NEW e,
         Written(data, other, m, s, e)
  PROVE  Slot(other, m, s, e) /\ Written(other, data, m, s, e)
<1>1. Len(m) \in Nat \ {0} /\ Len(data) \in Nat /\ s \in Nat /\ Len(m) <= s /\ s <= Len(data)
  BY MarkerSort, LenProperties DEF Written, Slot
<1>2. ASSUME NEW k \in 1..Len(m) PROVE other[s - Len(m) + k] = m[k]
  <2>1. s - Len(m) + k \in 1..Len(data) /\ s - Len(m) + k \notin s + 1..e
    BY <1>1
  <2>2. other[s - Len(m) + k] = data[s - Len(m) + k]
    BY <2>1 DEF Written
  <2> QED
    BY <2>2 DEF Written, Slot
<1>3. Slot(other, m, s, e)
  BY <1>2 DEF Written, Slot
<1> QED
  BY <1>3 DEF Written, Slot

LEMMA PlacesKept ==
  ASSUME NEW data \in Seq(Byte), NEW other, NEW m \in Markers, NEW s, NEW e,
         Written(data, other, m, s, e), NEW o \in Markers, NEW p \in Places(data, o)
  PROVE  p \in Places(other, o)
<1>1. p + Len(o) <= s \/ e <= p
  BY MarkersOutside DEF Written
<1>2. /\ Len(o) \in Nat \ {0} /\ Len(data) \in Nat /\ Len(other) = Len(data)
      /\ other \in Seq(Byte) /\ s \in Nat /\ e \in Nat
  BY MarkerSort, LenProperties DEF Written, Slot
<1>3. p \in 0..Len(data) - Len(o) /\ \A k \in 1..Len(o) : data[p + k] = o[k]
  BY PlacesAre
<1>4. ASSUME NEW k \in 1..Len(o) PROVE other[p + k] = o[k]
  <2>1. p + k \in 1..Len(data) /\ p + k \notin s + 1..e
    BY <1>1, <1>2, <1>3
  <2> QED
    BY <1>3, <2>1 DEF Written
<1>5. p \in {x \in 0..Len(other) - Len(o) : \A k \in 1..Len(o) : other[x + k] = o[k]}
  BY <1>2, <1>3, <1>4
<1> QED
  BY <1>2, <1>5, PlacesAre

LEMMA PlacesSame ==
  ASSUME NEW data \in Seq(Byte), NEW other, NEW m \in Markers, NEW s, NEW e,
         Written(data, other, m, s, e), NEW o \in Markers
  PROVE  /\ Places(other, o) = Places(data, o)
         /\ Contains(other, o) <=> Contains(data, o)
         /\ Find(other, o) = Find(data, o)
<1>1. other \in Seq(Byte) /\ Written(other, data, m, s, e)
  BY WrittenSlot DEF Written
<1>2. Places(other, o) \subseteq Places(data, o)
  <2> SUFFICES ASSUME NEW p \in Places(other, o) PROVE p \in Places(data, o)
    OBVIOUS
  <2> QED
    BY <1>1, PlacesKept
<1>3. Places(data, o) \subseteq Places(other, o)
  <2> SUFFICES ASSUME NEW p \in Places(data, o) PROVE p \in Places(other, o)
    OBVIOUS
  <2> QED
    BY PlacesKept
<1> QED
  BY <1>2, <1>3 DEF Contains, Find

-----------------------------------------------------------------------------
(* The field of a marker *)

Begin(data, m)    == Find(data, m) + Len(m)
Content(data, s, e, encoded) ==
  IF encoded THEN Decode(SubSeq(data, s + 1, e)) ELSE SubSeq(data, s + 1, e)

\* The field ends at the first byte that stops it.
EndsAt(data, s, e, encoded) ==
  /\ e \in s..Len(data)
  /\ \A i \in s + 1..e : ~Stops(data[i], encoded)
  /\ e = Len(data) \/ Stops(data[e + 1], encoded)

LEMMA BeginSort ==
  ASSUME NEW data \in Seq(Byte), NEW m \in Markers, Contains(data, m)
  PROVE  /\ Begin(data, m) \in Len(m)..Len(data)
         /\ Len(data) \in Nat
         /\ \A k \in 1..Len(m) : data[Begin(data, m) - Len(m) + k] = m[k]
<1>1. Len(m) \in Nat \ {0} /\ Len(data) \in Nat
  BY MarkerSort, LenProperties
<1>2. /\ Find(data, m) \in 0..Len(data) - Len(m)
      /\ \A k \in 1..Len(m) : data[Find(data, m) + k] = m[k]
  BY FindIs, PlacesAre
<1> DEFINE f == Find(data, m)
<1> HIDE DEF f
<1>3. f \in Nat /\ f + Len(m) <= Len(data) /\ f + Len(m) - Len(m) = f
  BY <1>1, <1>2 DEF f
<1>4. Begin(data, m) = f + Len(m)
  BY DEF Begin, f
<1> QED
  BY <1>1, <1>2, <1>3, <1>4 DEF f

LEMMA FieldEnd ==
  ASSUME NEW data \in Seq(Byte), NEW m \in Markers, Contains(data, m), NEW encoded \in BOOLEAN,
         NEW e, EndsAt(data, Begin(data, m), e, encoded)
  PROVE  Field(data, m, encoded)
           = [name |-> Content(data, Begin(data, m), e, encoded), start |-> Begin(data, m),
              end |-> e, encoded |-> encoded]
<1> DEFINE s == Begin(data, m)
           stops == {i \in s..Len(data) : i = Len(data) \/ Stops(data[i + 1], encoded)}
           end == CHOOSE i \in stops : \A j \in stops : i <= j
<1>1. s \in Nat /\ Len(data) \in Nat
  BY BeginSort, MarkerSort
<1>2. Field(data, m, encoded)
        = [name |-> Content(data, s, end, encoded), start |-> s, end |-> end, encoded |-> encoded]
  BY DEF Field, Content, Begin
<1> HIDE DEF s
<1>3. e \in s..Len(data) /\ e \in stops /\ stops \in SUBSET Nat
  BY <1>1 DEF EndsAt, s
<1>4. ASSUME NEW j \in stops PROVE e <= j
  <2>1. j \in s..Len(data) /\ (j = Len(data) \/ Stops(data[j + 1], encoded))
    OBVIOUS
  <2>2. ASSUME j < e PROVE FALSE
    <3>1. j + 1 \in s + 1..e /\ j # Len(data)
      BY <1>1, <1>3, <2>1, <2>2
    <3> QED
      BY <2>1, <3>1 DEF EndsAt, s
  <2> QED
    BY <1>1, <1>3, <2>1, <2>2
<1>5. end = e
  BY <1>3, <1>4, LeastIs
<1> QED
  BY <1>2, <1>5 DEF s

LEMMA FieldIs ==
  ASSUME NEW data \in Seq(Byte), NEW m \in Markers, Contains(data, m), NEW encoded \in BOOLEAN
  PROVE  \E e : /\ EndsAt(data, Begin(data, m), e, encoded)
                /\ Field(data, m, encoded)
                     = [name |-> Content(data, Begin(data, m), e, encoded), start |-> Begin(data, m),
                        end |-> e, encoded |-> encoded]
<1> DEFINE s == Begin(data, m)
           stops == {i \in s..Len(data) : i = Len(data) \/ Stops(data[i + 1], encoded)}
           e == CHOOSE i \in stops : \A j \in stops : i <= j
<1>1. s \in 0..Len(data) /\ Len(data) \in Nat
  BY BeginSort, MarkerSort
<1> HIDE DEF s
<1>2. Len(data) \in stops /\ stops \in SUBSET Nat
  BY <1>1
<1>3. e \in stops /\ \A j \in stops : e <= j
  BY <1>2, LeastOf
<1> HIDE DEF e
<1>4. ASSUME NEW i \in s + 1..e PROVE ~Stops(data[i], encoded)
  <2>1. i - 1 \in s..Len(data) /\ ~(e <= i - 1) /\ i - 1 + 1 = i
    BY <1>1, <1>3
  <2>2. i - 1 \notin stops
    BY <1>3, <2>1
  <2> QED
    BY <2>1, <2>2
<1>5. EndsAt(data, s, e, encoded)
  BY <1>3, <1>4 DEF EndsAt
<1> QED
  BY <1>5, FieldEnd DEF s

\* A name is what lies between, and is empty where nothing does.
LEMMA ContentSort ==
  ASSUME NEW data \in Seq(Byte), NEW s \in Nat, NEW e \in s..Len(data), NEW encoded \in BOOLEAN
  PROVE  /\ Content(data, s, e, encoded) \in Seq(Byte)
         /\ Len(Content(data, s, e, encoded)) = e - s
         /\ \A i \in 1..e - s : Content(data, s, e, encoded)[i]
              = IF encoded THEN data[s + i] \div 2 ELSE data[s + i]
<1> DEFINE q == SubSeq(data, s + 1, e)
<1>1. Len(data) \in Nat /\ e \in Nat /\ s <= e
  BY LenProperties
<1>2. \A i \in s + 1..e : data[i] \in Byte
  BY <1>1, ElementOfSeq
<1>3. /\ q \in Seq(Byte)
      /\ Len(q) = IF s + 1 <= e THEN e - (s + 1) + 1 ELSE 0
      /\ \A i \in 1..e - (s + 1) + 1 : q[i] = data[s + 1 + i - 1]
  BY <1>1, <1>2, SubSeqProperties
<1> HIDE DEF q
<1>4. Len(q) = e - s
  BY <1>1, <1>3
<1>5. \A i \in 1..e - s : q[i] = data[s + i]
  <2>1. e - (s + 1) + 1 = e - s /\ \A i \in 1..e - s : s + 1 + i - 1 = s + i
    BY <1>1
  <2> QED
    BY <1>3, <2>1
<1>6. CASE ~encoded
  BY <1>3, <1>4, <1>5, <1>6 DEF Content, q
<1>7. CASE encoded
  <2>1. Content(data, s, e, encoded) = Decode(q)
    BY <1>7 DEF Content, q
  <2>2. Decode(q) = [i \in 1..Len(q) |-> q[i] \div 2]
    BY <1>3, LenProperties DEF Decode
  <2>3. \A i \in 1..Len(q) : q[i] \in 0..255
    BY <1>3, ElementOfSeq DEF Byte
  <2>4. \A b \in 0..255 : b \div 2 \in 0..255
    OBVIOUS
  <2> DEFINE n == Len(q)
             d == Decode(q)
  <2>5. n \in Nat /\ d = [i \in 1..n |-> q[i] \div 2] /\ d \in [1..n -> Byte]
    <3>1. \A i \in 1..n : q[i] \div 2 \in Byte
      BY <2>3, <2>4 DEF Byte
    <3>2. n \in Nat
      BY <1>3, LenProperties
    <3> HIDE DEF n
    <3> QED
      BY <2>2, <3>1, <3>2 DEF n
  <2>6. d \in Seq(Byte)
    BY <2>5, SeqDef
  <2>7. Len(d) = n
    BY <2>5, <2>6, LenProperties
  <2> QED
    BY <1>4, <1>5, <1>7, <2>1, <2>2, <2>6, <2>7
<1> QED
  BY <1>6, <1>7

-----------------------------------------------------------------------------
(* What is written in a slot *)

\* The texts that may be written: those of usernames.
Letter == {c \in Byte : Printable(c)} \ Delims
Letters(encoded, c) == IF encoded THEN 2 * c ELSE c

LEMMA LetterSort ==
  ASSUME NEW c \in Letter, NEW encoded \in BOOLEAN
  PROVE  /\ Letters(encoded, c) \in Byte
         /\ Letters(encoded, c) \notin Delims
         /\ ~Stops(Letters(encoded, c), encoded)
         /\ (2 * c) \div 2 = c
<1>1. c \in 32..126 /\ c # 63 /\ c # 126
  BY DEF Letter, Printable, Delims, Question, EncodedDelim
<1>2. (2 * c) \div 2 = c /\ 2 * c \in 0..255 /\ 2 * c # 63 /\ 2 * c # 126
  BY ONLY <1>1
<1>3. CASE encoded
  BY <1>1, <1>2, <1>3 DEF Letters, Stops, Printable, Byte, Delims, Question, EncodedDelim
<1>4. CASE ~encoded
  BY <1>1, <1>2, <1>4 DEF Letters, Stops, Printable, Byte, Delims, Question, EncodedDelim
<1> QED
  BY <1>3, <1>4

LEMMA StopsSort ==
  ASSUME NEW b \in Byte, NEW encoded \in BOOLEAN, b \in Delims
  PROVE  Stops(b, encoded)
<1>1. b = 63 \/ b = 126
  BY DEF Delims, Question, EncodedDelim
<1>2. 63 \div 2 = 31
  OBVIOUS
<1> QED
  BY <1>1, <1>2 DEF Stops, Printable, Delims, Question, EncodedDelim

Filler(encoded) == IF encoded THEN 2 ELSE 32

LEMMA FillerSort ==
  ASSUME NEW encoded \in BOOLEAN
  PROVE  /\ Filler(encoded) \in Byte
         /\ Filler(encoded) \notin Delims
         /\ Stops(Filler(encoded), encoded) <=> encoded
<1>1. 2 \div 2 = 1
  OBVIOUS
<1> QED
  BY <1>1 DEF Filler, Stops, Printable, Byte, Delims, Question, EncodedDelim

LEMMA FittedIs ==
  ASSUME NEW u \in Seq(Letter), NEW n \in Nat, NEW encoded \in BOOLEAN
  PROVE  /\ Fitted(u, n, encoded) \in Seq(Byte)
         /\ Len(Fitted(u, n, encoded)) = n
         /\ \A i \in 1..n : Fitted(u, n, encoded)[i]
              = IF i <= Len(u) THEN Letters(encoded, u[i]) ELSE Filler(encoded)
<1> DEFINE f == Fitted(u, n, encoded)
           x(i) == IF i <= Len(u) THEN Letters(encoded, u[i]) ELSE Filler(encoded)
<1>1. Len(u) \in Nat /\ DOMAIN u = 1..Len(u)
  BY LenProperties
<1>2. ASSUME NEW i \in 1..n PROVE x(i) \in Byte
  <2>1. i <= Len(u) => u[i] \in Letter
    BY <1>1, ElementOfSeq
  <2> QED
    BY <2>1, LetterSort, FillerSort
<1>3. f = [i \in 1..n |-> x(i)]
  <2>1. CASE encoded
    <3>1. Len(Encode(u)) = Len(u) /\ \A i \in 1..Len(u) : Encode(u)[i] = 2 * u[i]
      <4>1. Encode(u) = [i \in 1..Len(u) |-> 2 * u[i]]
        BY <1>1 DEF Encode
      <4>2. \A i \in 1..Len(u) : 2 * u[i] \in Int
        <5>1. \A i \in 1..Len(u) : u[i] \in Letter
          BY ElementOfSeq
        <5>2. ASSUME NEW c \in Letter PROVE 2 * c \in Int
          <6>1. c \in 0..255
            BY DEF Letter, Byte
          <6> QED
            BY ONLY <6>1
        <5> QED
          BY <5>1, <5>2
      <4>3. Encode(u) \in [1..Len(u) -> Int]
        BY <4>1, <4>2
      <4>4. Encode(u) \in Seq(Int)
        BY <1>1, <4>3, SeqDef
      <4>5. DOMAIN Encode(u) = 1..Len(Encode(u)) /\ Len(Encode(u)) \in Nat
        BY <4>4, LenProperties
      <4>6. 1..Len(Encode(u)) = 1..Len(u)
        BY <4>3, <4>5
      <4> QED
        BY <1>1, <4>1, <4>5, <4>6
    <3> QED
      BY <1>1, <2>1, <3>1 DEF Fitted, Letters, Filler
  <2>2. CASE ~encoded
    BY <2>2 DEF Fitted, Letters, Filler
  <2> QED
    BY <2>1, <2>2
<1> HIDE DEF x
<1>4. f \in [1..n -> Byte] /\ \A i \in 1..n : f[i] = x(i)
  BY <1>2, <1>3
<1> HIDE DEF f
<1>5. f \in Seq(Byte)
  BY <1>4, SeqDef
<1>6. Len(f) = n
  BY <1>4, <1>5, LenProperties
<1> QED
  BY <1>4, <1>5, <1>6 DEF x, f

LEMMA FittedClear ==
  ASSUME NEW u \in Seq(Letter), NEW n \in Nat, NEW encoded \in BOOLEAN, NEW i \in 1..n
  PROVE  /\ Fitted(u, n, encoded)[i] \notin Delims
         /\ Stops(Fitted(u, n, encoded)[i], encoded) <=> encoded /\ i > Len(u)
<1>1. Fitted(u, n, encoded)[i] = IF i <= Len(u) THEN Letters(encoded, u[i]) ELSE Filler(encoded)
  BY FittedIs
<1>2. Len(u) \in Nat
  BY LenProperties
<1>3. CASE i <= Len(u)
  <2>1. u[i] \in Letter
    BY <1>2, <1>3, ElementOfSeq
  <2> QED
    BY <1>1, <1>2, <1>3, <2>1, LetterSort
<1>4. CASE i > Len(u)
  BY <1>1, <1>2, <1>4, FillerSort
<1> QED
  BY <1>2, <1>3, <1>4

(***************************************************************************)
(* Writing a name moves no byte of the packet and changes none outside the *)
(* slot of the name.                                                       *)
(***************************************************************************)
LEMMA RewriteNameIs ==
  ASSUME NEW data \in Seq(Byte), NEW u \in Seq(Letter), NEW encoded \in BOOLEAN,
         NEW s \in Nat, NEW e \in s..Len(data),
         NEW field, field.start = s, field.end = e, field.encoded = encoded
  PROVE  /\ RewriteName(data, field, u) \in Seq(Byte)
         /\ Len(RewriteName(data, field, u)) = Len(data)
         /\ \A i \in 1..Len(data) : RewriteName(data, field, u)[i]
              = IF i \in s + 1..e THEN Fitted(u, e - s, encoded)[i - s] ELSE data[i]
<1> DEFINE n == Len(data)
           a == SubSeq(data, 1, s)
           b == Fitted(u, e - s, encoded)
           c == SubSeq(data, e + 1, n)
<1>1. n \in Nat /\ e \in Nat /\ s <= e /\ e <= n /\ e - s \in Nat
  BY LenProperties
<1>2. \A i \in 1..n : data[i] \in Byte
  BY ElementOfSeq
<1>3. RewriteName(data, field, u) = (a \o b) \o c
  BY DEF RewriteName
<1>4. b \in Seq(Byte) /\ Len(b) = e - s
  BY <1>1, FittedIs
<1>5. /\ a \in Seq(Byte)
      /\ Len(a) = IF 1 <= s THEN s - 1 + 1 ELSE 0
      /\ \A i \in 1..s - 1 + 1 : a[i] = data[1 + i - 1]
  <2>1. \A i \in 1..s : data[i] \in Byte
    BY <1>1, <1>2
  <2> QED
    BY <2>1, SubSeqProperties
<1>6. /\ c \in Seq(Byte)
      /\ Len(c) = IF e + 1 <= n THEN n - (e + 1) + 1 ELSE 0
      /\ \A i \in 1..n - (e + 1) + 1 : c[i] = data[e + 1 + i - 1]
  <2>1. \A i \in e + 1..n : data[i] \in Byte
    BY <1>1, <1>2
  <2> QED
    BY <1>1, <2>1, SubSeqProperties
<1> HIDE DEF n, a, b, c
<1>7. Len(a) = s /\ \A i \in 1..s : a[i] = data[i]
  BY <1>5
<1>8. Len(c) = n - e /\ \A i \in 1..n - e : c[i] = data[e + i]
  BY <1>1, <1>6
<1> DEFINE d == a \o b
<1>9. /\ d \in Seq(Byte)
      /\ Len(d) = e
      /\ \A i \in 1..e : d[i] = IF i <= s THEN a[i] ELSE b[i - s]
  <2>1. /\ d \in Seq(Byte)
        /\ Len(d) = Len(a) + Len(b)
        /\ \A i \in 1..Len(a) + Len(b) : d[i] = IF i <= Len(a) THEN a[i] ELSE b[i - Len(a)]
    BY <1>4, <1>5, ConcatProperties
  <2> QED
    BY <1>1, <1>4, <1>7, <2>1
<1> HIDE DEF d
<1> DEFINE r == d \o c
<1>10. /\ r \in Seq(Byte)
       /\ Len(r) = n
       /\ \A i \in 1..n : r[i] = IF i <= e THEN d[i] ELSE c[i - e]
  <2>1. /\ r \in Seq(Byte)
        /\ Len(r) = Len(d) + Len(c)
        /\ \A i \in 1..Len(d) + Len(c) : r[i] = IF i <= Len(d) THEN d[i] ELSE c[i - Len(d)]
    BY <1>6, <1>9, ConcatProperties
  <2> QED
    BY <1>1, <1>8, <1>9, <2>1
<1> HIDE DEF r
<1>11. ASSUME NEW i \in 1..n PROVE r[i] = IF i \in s + 1..e THEN b[i - s] ELSE data[i]
  <2>1. CASE i <= s
    BY <1>1, <1>7, <1>9, <1>10, <2>1
  <2>2. CASE i \in s + 1..e
    <3>1. i \in 1..e /\ ~(i <= s)
      BY <1>1, <2>2
    <3> QED
      BY <1>1, <1>9, <1>10, <2>2, <3>1
  <2>3. CASE i > e
    <3>1. i - e \in 1..n - e /\ e + (i - e) = i /\ i \notin s + 1..e /\ ~(i <= e)
      BY <1>1, <2>3
    <3>2. c[i - e] = data[e + (i - e)]
      BY <1>8, <3>1
    <3>3. r[i] = c[i - e]
      BY <1>10, <3>1
    <3> QED
      BY <3>1, <3>2, <3>3
  <2> QED
    BY <1>1, <2>1, <2>2, <2>3
<1> QED
  BY <1>3, <1>10, <1>11 DEF r, d, n, b

-----------------------------------------------------------------------------
(* Which field of a packet is the name *)

\* The fields extract_name looks at, in their order; the encoded one only where
\* its marker is found.
Encodeds(data) == IF Contains(data, EncodedMarker) THEN 1 ELSE 0
Fields(data) ==
  (IF Contains(data, EncodedMarker) THEN <<Field(data, EncodedMarker, TRUE)>> ELSE <<>>)
  \o [i \in DOMAIN PlainMarkers |->
        IF Contains(data, PlainMarkers[i]) THEN Field(data, PlainMarkers[i], FALSE) ELSE NoName]
Found(data) == {i \in DOMAIN Fields(data) : Fields(data)[i].name # <<>>}

\* The marker of each, and whether it is the encoded one, where z fields are.
MarkerAt(z, i)  == IF i <= z THEN EncodedMarker ELSE PlainMarkers[i - z]
EncodedAt(z, i) == i <= z

LEMMA ExtractNameIs ==
  ASSUME NEW data
  PROVE  ExtractName(data)
           = IF Found(data) = {} THEN NoName
             ELSE Fields(data)[CHOOSE i \in Found(data) : \A j \in Found(data) : i <= j]
BY DEF ExtractName, Found, Fields

LEMMA FieldsAre ==
  ASSUME NEW data, NEW z, z = Encodeds(data)
  PROVE  /\ z \in {0, 1}
         /\ Len(PlainMarkers) \in Nat
         /\ DOMAIN Fields(data) = 1..z + Len(PlainMarkers)
         /\ \A i \in 1..z + Len(PlainMarkers) :
              /\ MarkerAt(z, i) \in Markers
              /\ Fields(data)[i] = IF Contains(data, MarkerAt(z, i))
                                   THEN Field(data, MarkerAt(z, i), EncodedAt(z, i)) ELSE NoName
<1> DEFINE F(i) == IF Contains(data, PlainMarkers[i]) THEN Field(data, PlainMarkers[i], FALSE) ELSE NoName
           S == {Field(data, EncodedMarker, TRUE)} \cup {F(i) : i \in DOMAIN PlainMarkers}
           a == IF Contains(data, EncodedMarker) THEN <<Field(data, EncodedMarker, TRUE)>> ELSE <<>>
           b == [i \in DOMAIN PlainMarkers |-> F(i)]
           n == Len(PlainMarkers)
<1>1. z \in {0, 1} /\ (z = 1 <=> Contains(data, EncodedMarker))
  BY DEF Encodeds
<1>2. n \in Nat /\ DOMAIN PlainMarkers = 1..n
  BY ParserAssumption, LenProperties
<1>3. b \in [1..n -> S] /\ \A i \in 1..n : b[i] = F(i)
  BY <1>2
<1>4. a \in Seq(S) /\ Len(a) = z /\ (z = 1 => a[1] = Field(data, EncodedMarker, TRUE))
  <2> DEFINE x == Field(data, EncodedMarker, TRUE)
  <2>1. x \in S
    OBVIOUS
  <2>2. CASE Contains(data, EncodedMarker)
    <3>1. a = <<x>> /\ z = 1
      BY <1>1, <2>2
    <3> HIDE DEF x, a, S
    <3>2. <<x>> \in Seq(S) /\ Len(<<x>>) = 1 /\ <<x>>[1] = x
      BY <2>1
    <3> QED
      BY <3>1, <3>2 DEF x
  <2>3. CASE ~Contains(data, EncodedMarker)
    <3>1. a = <<>> /\ z = 0
      BY <1>1, <2>3
    <3> HIDE DEF a, S
    <3> QED
      BY <3>1, EmptySeq
  <2> QED
    BY <2>2, <2>3
<1>5. Fields(data) = a \o b
  BY DEF Fields
<1>6. \A i \in 1..n : PlainMarkers[i] \in Markers
  BY <1>2 DEF Markers
<1> HIDE DEF S, a, b, n, F
<1>7. b \in Seq(S)
  BY <1>2, <1>3, SeqDef
<1>8. Len(b) = n
  BY <1>2, <1>3, <1>7, LenProperties
<1> DEFINE c == a \o b
<1>9. /\ c \in Seq(S)
      /\ Len(c) = z + n
      /\ \A i \in 1..z + n : c[i] = IF i <= z THEN a[i] ELSE b[i - z]
  <2>1. /\ c \in Seq(S)
        /\ Len(c) = Len(a) + Len(b)
        /\ \A i \in 1..Len(a) + Len(b) : c[i] = IF i <= Len(a) THEN a[i] ELSE b[i - Len(a)]
    BY <1>4, <1>7, ConcatProperties
  <2> QED
    BY <1>4, <1>8, <2>1
<1> HIDE DEF c
<1>10. DOMAIN c = 1..z + n
  BY <1>9, LenProperties
<1>11. ASSUME NEW i \in 1..z + n
       PROVE  /\ MarkerAt(z, i) \in Markers
              /\ c[i] = IF Contains(data, MarkerAt(z, i))
                        THEN Field(data, MarkerAt(z, i), EncodedAt(z, i)) ELSE NoName
  <2>1. CASE i <= z
    <3>1. i = 1 /\ z = 1
      BY <1>1, <1>2, <2>1
    <3>2. c[i] = Field(data, EncodedMarker, TRUE)
      <4>1. c[i] = a[1]
        BY <1>9, <2>1, <3>1
      <4> QED
        BY <1>4, <3>1, <4>1
    <3>3. MarkerAt(z, i) = EncodedMarker /\ EncodedAt(z, i) = TRUE
      BY <2>1 DEF MarkerAt, EncodedAt
    <3> QED
      BY <1>1, <3>1, <3>2, <3>3 DEF Markers
  <2>2. CASE ~(i <= z)
    <3>1. i - z \in 1..n
      BY <1>1, <1>2, <2>2
    <3>2. c[i] = F(i - z)
      BY <1>3, <1>9, <2>2, <3>1
    <3>3. MarkerAt(z, i) = PlainMarkers[i - z] /\ EncodedAt(z, i) = FALSE
      BY <2>2 DEF MarkerAt, EncodedAt
    <3> QED
      BY <1>6, <3>1, <3>2, <3>3 DEF F
  <2> QED
    BY <2>1, <2>2
<1>12. Fields(data) = c
  BY <1>5 DEF c
<1> QED
  BY <1>1, <1>2, <1>10, <1>11, <1>12 DEF n

\* The field that counts: the first that is not empty.
LEMMA Chosen ==
  ASSUME NEW data \in Seq(Byte), ExtractName(data) # NoName, NEW z, z = Encodeds(data)
  PROVE  \E c \in 1..z + Len(PlainMarkers) :
           /\ \A i \in 1..c - 1 : Fields(data)[i].name = <<>>
           /\ Contains(data, MarkerAt(z, c))
           /\ ExtractName(data) = Field(data, MarkerAt(z, c), EncodedAt(z, c))
           /\ ExtractName(data).name # <<>>
<1> DEFINE N == z + Len(PlainMarkers)
           c == CHOOSE i \in Found(data) : \A j \in Found(data) : i <= j
<1>1. /\ Len(PlainMarkers) \in Nat /\ z \in {0, 1}
      /\ Found(data) = {i \in 1..N : Fields(data)[i].name # <<>>}
      /\ Found(data) # {}
      /\ ExtractName(data) = Fields(data)[c]
  BY FieldsAre, ExtractNameIs DEF Found
<1>2. N \in Nat /\ Found(data) \in SUBSET Nat
  BY <1>1
<1>3. c \in Found(data) /\ \A j \in Found(data) : c <= j
  BY <1>1, <1>2, LeastOf
<1> HIDE DEF c
<1>4. c \in 1..N /\ Fields(data)[c].name # <<>>
  BY <1>1, <1>3
<1>5. ASSUME NEW i \in 1..c - 1 PROVE Fields(data)[i].name = <<>>
  <2>1. i \in 1..N /\ ~(c <= i)
    BY <1>2, <1>4
  <2> QED
    BY <1>1, <1>3, <2>1
<1>6. Contains(data, MarkerAt(z, c)) /\ Fields(data)[c] = Field(data, MarkerAt(z, c), EncodedAt(z, c))
  BY <1>4, FieldsAre DEF NoName
<1> QED
  BY <1>1, <1>4, <1>5, <1>6

LEMMA ChosenIs ==
  ASSUME NEW data, NEW z, z = Encodeds(data), NEW c \in 1..z + Len(PlainMarkers),
         \A i \in 1..c - 1 : Fields(data)[i].name = <<>>,
         Fields(data)[c].name # <<>>
  PROVE  ExtractName(data) = Fields(data)[c]
<1> DEFINE N == z + Len(PlainMarkers)
<1>1. /\ Len(PlainMarkers) \in Nat /\ z \in {0, 1}
      /\ Found(data) = {i \in 1..N : Fields(data)[i].name # <<>>}
  BY FieldsAre DEF Found
<1>2. N \in Nat /\ Found(data) \in SUBSET Nat /\ c \in Found(data)
  BY <1>1
<1>3. ASSUME NEW j \in Found(data) PROVE c <= j
  <2>1. j \in 1..N /\ ~(j \in 1..c - 1)
    BY <1>1
  <2> QED
    BY <1>2, <2>1
<1>4. (CHOOSE i \in Found(data) : \A j \in Found(data) : i <= j) = c
  BY <1>2, <1>3, LeastIs
<1> QED
  BY <1>2, <1>4, ExtractNameIs

-----------------------------------------------------------------------------
(* What is read where a name was written *)

\* The text u in a slot of n bytes, as extract_name reads it.
Shown(u, n, encoded) ==
  IF encoded THEN (IF n < Len(u) THEN SubSeq(u, 1, n) ELSE u) ELSE Fitted(u, n, FALSE)

\* The chosen field of data lies in a slot.
LEMMA ChosenSlot ==
  ASSUME NEW data \in Seq(Byte), NEW m \in Markers, Contains(data, m), NEW encoded \in BOOLEAN,
         Field(data, m, encoded).name # <<>>
  PROVE  \E e : /\ Slot(data, m, Begin(data, m), e)
                /\ EndsAt(data, Begin(data, m), e, encoded)
                /\ Field(data, m, encoded)
                     = [name |-> Content(data, Begin(data, m), e, encoded), start |-> Begin(data, m),
                        end |-> e, encoded |-> encoded]
<1> DEFINE s == Begin(data, m)
<1>1. PICK e : /\ EndsAt(data, s, e, encoded)
               /\ Field(data, m, encoded)
                    = [name |-> Content(data, s, e, encoded), start |-> s,
                       end |-> e, encoded |-> encoded]
  BY FieldIs
<1>2. /\ s \in Len(m)..Len(data) /\ Len(data) \in Nat /\ Len(m) \in Nat
      /\ \A k \in 1..Len(m) : data[s - Len(m) + k] = m[k]
  BY BeginSort, MarkerSort
<1> HIDE DEF s
<1>3. e \in s..Len(data) /\ s \in Nat
  BY <1>1, <1>2 DEF EndsAt
<1>4. e # s
  <2>1. SUFFICES ASSUME e = s PROVE FALSE
    OBVIOUS
  <2>2. /\ Content(data, s, e, encoded) \in Seq(Byte)
        /\ Len(Content(data, s, e, encoded)) = 0
    BY <1>3, <2>1, ContentSort
  <2>3. Content(data, s, e, encoded) = <<>>
    BY <2>2, EmptySeq
  <2> QED
    BY <1>1, <2>3
<1>5. ASSUME NEW i \in s + 1..e PROVE data[i] \notin Delims
  <2>1. data[i] \in Byte
    BY <1>2, <1>3, ElementOfSeq
  <2> QED
    BY <1>1, <2>1, StopsSort DEF EndsAt
<1>6. Slot(data, m, s, e)
  BY <1>2, <1>3, <1>4, <1>5 DEF Slot
<1> QED
  BY <1>1, <1>6 DEF s

\* A field before it that was empty stays empty.
LEMMA EmptyStays ==
  ASSUME NEW data \in Seq(Byte), NEW other, NEW m \in Markers, NEW s, NEW e,
         Written(data, other, m, s, e), s = Begin(data, m),
         NEW o \in Markers, o # m, NEW encoded \in BOOLEAN,
         Contains(data, o), Field(data, o, encoded).name = <<>>
  PROVE  Field(other, o, encoded).name = <<>>
<1> DEFINE t == Begin(data, o)
<1>1. /\ Contains(other, o) /\ Begin(other, o) = t
      /\ other \in Seq(Byte) /\ Len(other) = Len(data) /\ Len(data) \in Nat
  BY PlacesSame, LenProperties DEF Begin, Written
<1>2. t \in Nat /\ t <= Len(data) /\ Len(o) \in Nat \ {0}
  BY BeginSort, MarkerSort
<1>3. PICK x : /\ EndsAt(data, t, x, encoded)
               /\ Field(data, o, encoded)
                    = [name |-> Content(data, t, x, encoded), start |-> t,
                       end |-> x, encoded |-> encoded]
  BY FieldIs
<1>4. t < s \/ e < t
  <2>1. Find(data, o) \in Places(data, o) /\ Find(data, o) \in Nat
    BY FindIs, PlacesAre
  <2>2. Find(data, o) + Len(o) <= s \/ e <= Find(data, o)
    BY <2>1, MarkersOutside DEF Written
  <2>3. Find(data, o) + Len(o) # s
    BY <2>1, MarkersOutside DEF Written
  <2>4. s \in Nat /\ e \in Nat
    BY <1>1, MarkerSort DEF Written, Slot
  <2> DEFINE p == Find(data, o)
  <2>5. t = p + Len(o)
    BY DEF Begin
  <2> HIDE DEF p, t
  <2> QED
    BY <1>2, <2>1, <2>2, <2>3, <2>4, <2>5 DEF p
<1> HIDE DEF t
<1>5. x = t
  <2>1. x \in t..Len(data)
    BY <1>3 DEF EndsAt
  <2>2. Len(Content(data, t, x, encoded)) = x - t
    BY <1>2, <2>1, ContentSort
  <2>3. Content(data, t, x, encoded) = <<>>
    BY <1>3
  <2> QED
    BY <1>2, <2>1, <2>2, <2>3, EmptySeq
<1>6. EndsAt(other, t, t, encoded)
  <2>1. t = Len(data) \/ Stops(data[t + 1], encoded)
    BY <1>3, <1>5 DEF EndsAt
  <2>2. t # Len(data) => other[t + 1] = data[t + 1]
    <3>1. t # Len(data) => t + 1 \in 1..Len(data)
      BY <1>1, <1>2
    <3>2. t + 1 \notin s + 1..e
      <4>1. s \in Nat /\ e \in Nat
        BY <1>1, MarkerSort DEF Written, Slot
      <4> QED
        BY <1>2, <1>4, <4>1
    <3> QED
      BY <3>1, <3>2 DEF Written
  <2>3. t \in t..Len(other) /\ \A i \in t + 1..t : FALSE
    BY <1>1, <1>2
  <2> QED
    BY <1>1, <2>1, <2>2, <2>3 DEF EndsAt
<1>7. Field(other, o, encoded)
        = [name |-> Content(other, t, t, encoded), start |-> t, end |-> t, encoded |-> encoded]
  BY <1>1, <1>6, FieldEnd
<1>8. Content(other, t, t, encoded) = <<>>
  <2>1. t \in t..Len(other)
    BY <1>1, <1>2
  <2>2. Content(other, t, t, encoded) \in Seq(Byte) /\ Len(Content(other, t, t, encoded)) = 0
    BY <1>1, <1>2, <2>1, ContentSort
  <2> QED
    BY <2>2, EmptySeq
<1> QED
  BY <1>7, <1>8

\* What is read in a slot that text u was written to.
LEMMA WrittenRead ==
  ASSUME NEW r \in Seq(Byte), NEW u \in Seq(Letter), u # <<>>, NEW encoded \in BOOLEAN,
         NEW s \in Nat, NEW e \in s + 1..Len(r),
         \A i \in s + 1..e : r[i] = Fitted(u, e - s, encoded)[i - s],
         e = Len(r) \/ Stops(r[e + 1], encoded)
  PROVE  \E x : /\ EndsAt(r, s, x, encoded)
                /\ Content(r, s, x, encoded) = Shown(u, e - s, encoded)
                /\ Content(r, s, x, encoded) # <<>>
<1>1. /\ Len(r) \in Nat /\ e \in Nat /\ s < e /\ e <= Len(r)
      /\ e - s \in Nat \ {0} /\ Len(u) \in Nat \ {0}
  BY LenProperties, EmptySeq
<1> DEFINE n == e - s
<1>2. \A i \in 1..n : s + i \in s + 1..e /\ s + i - s = i
  BY <1>1
<1>3. \A i \in 1..n : r[s + i] = Fitted(u, n, encoded)[i]
  <2> SUFFICES ASSUME NEW i \in 1..n PROVE r[s + i] = Fitted(u, n, encoded)[i]
    OBVIOUS
  <2>1. s + i \in s + 1..e /\ s + i - s = i
    BY <1>2
  <2>2. r[s + i] = Fitted(u, e - s, encoded)[s + i - s]
    BY <2>1
  <2> QED
    BY <2>1, <2>2
<1>4. n \in Nat /\ s + n = e /\ n >= 1
  BY <1>1
<1> HIDE DEF n
<1>5. ASSUME NEW i \in 1..n
      PROVE  Stops(r[s + i], encoded) <=> encoded /\ i > Len(u)
  BY <1>3, <1>4, <1>5, FittedClear
<1> DEFINE l == IF encoded /\ Len(u) < n THEN Len(u) ELSE n
<1>6. l \in 1..n /\ (encoded => l <= Len(u)) /\ (l < n => encoded /\ l = Len(u)) /\ (~encoded => l = n)
  BY <1>1, <1>4
<1>l. encoded => (IF n < Len(u) THEN l = n ELSE l = Len(u))
  BY <1>1, <1>4
<1> HIDE DEF l
<1>7. s + l \in s + 1..Len(r) /\ s + l \in s..Len(r) /\ s + l - s = l
  BY <1>1, <1>4, <1>6
<1>8. EndsAt(r, s, s + l, encoded)
  <2>1. ASSUME NEW i \in s + 1..s + l PROVE ~Stops(r[i], encoded)
    <3>1. i - s \in 1..n /\ s + (i - s) = i /\ i - s <= l
      BY <1>4, <1>6
    <3>2. ~(encoded /\ i - s > Len(u))
      BY <1>1, <1>6, <3>1
    <3> QED
      BY <1>5, <3>1, <3>2
  <2>2. CASE l = n
    BY <1>4, <1>7, <2>1, <2>2 DEF EndsAt
  <2>3. CASE l # n
    <3>1. encoded /\ l = Len(u) /\ l + 1 \in 1..n /\ s + (l + 1) = s + l + 1 /\ l + 1 > Len(u)
      BY <1>1, <1>4, <1>6, <2>3
    <3>2. Stops(r[s + (l + 1)], encoded)
      BY <1>5, <3>1
    <3> QED
      BY <1>7, <2>1, <3>1, <3>2 DEF EndsAt
  <2> QED
    BY <2>2, <2>3
<1> DEFINE w == Content(r, s, s + l, encoded)
<1>9. /\ w \in Seq(Byte)
      /\ Len(w) = l
      /\ \A i \in 1..l : w[i] = IF encoded THEN r[s + i] \div 2 ELSE r[s + i]
  <2>1. PICK x \in s..Len(r) : x = s + l
    BY <1>7
  <2>2. /\ Content(r, s, x, encoded) \in Seq(Byte)
        /\ Len(Content(r, s, x, encoded)) = x - s
        /\ \A i \in 1..x - s : Content(r, s, x, encoded)[i]
             = IF encoded THEN r[s + i] \div 2 ELSE r[s + i]
    BY ContentSort
  <2>3. w = Content(r, s, x, encoded)
    BY <2>1
  <2>4. x - s = l
    BY <1>4, <1>6, <2>1
  <2> HIDE DEF w
  <2> QED
    BY <2>2, <2>3, <2>4
<1> HIDE DEF w
<1>10. w = Shown(u, n, encoded)
  <2>1. CASE ~encoded
    <3>1. l = n /\ Fitted(u, n, FALSE) \in Seq(Byte) /\ Len(Fitted(u, n, FALSE)) = n
      BY <1>4, <1>6, <2>1, FittedIs
    <3>2. \A i \in 1..n : w[i] = Fitted(u, n, FALSE)[i]
      BY <1>3, <1>9, <2>1, <3>1
    <3>3. w = Fitted(u, n, FALSE)
      BY <1>9, <3>1, <3>2, SeqEqual
    <3> QED
      BY <2>1, <3>3 DEF Shown
  <2>2. CASE encoded
    <3>1. ASSUME NEW i \in 1..l PROVE w[i] = u[i]
      <4>1. i \in 1..n /\ i <= Len(u) /\ i \in 1..Len(u)
        BY <1>1, <1>4, <1>6, <2>2
      <4>2. r[s + i] = Letters(TRUE, u[i])
        BY <1>3, <1>4, <2>2, <4>1, FittedIs
      <4>3. u[i] \in Letter
        BY <4>1, ElementOfSeq
      <4>4. (2 * u[i]) \div 2 = u[i]
        BY <4>3, LetterSort
      <4> QED
        BY <1>9, <2>2, <4>2, <4>4 DEF Letters
    <3>2. \A i \in 1..Len(u) : u[i] \in Byte
      BY ElementOfSeq DEF Letter
    <3>3. u \in Seq(Byte)
      BY <3>2, SeqMonotonic DEF Letter
    <3>4. CASE n < Len(u)
      <4>1. l = n
        BY <1>l, <2>2, <3>4
      <4>2. /\ SubSeq(u, 1, n) \in Seq(Byte)
            /\ Len(SubSeq(u, 1, n)) = n
            /\ \A i \in 1..n : SubSeq(u, 1, n)[i] = u[i]
        <5>1. \A i \in 1..n : u[i] \in Byte
          BY <1>1, <1>4, <3>2, <3>4
        <5>2. /\ SubSeq(u, 1, n) \in Seq(Byte)
              /\ Len(SubSeq(u, 1, n)) = IF 1 <= n THEN n - 1 + 1 ELSE 0
              /\ \A i \in 1..n - 1 + 1 : SubSeq(u, 1, n)[i] = u[1 + i - 1]
          BY <1>4, <5>1, SubSeqProperties
        <5>3. n - 1 + 1 = n /\ \A i \in 1..n : 1 + i - 1 = i
          BY <1>4
        <5> QED
          BY <1>4, <5>2, <5>3
      <4>3. w = SubSeq(u, 1, n)
        BY <1>9, <3>1, <4>1, <4>2, SeqEqual
      <4> QED
        BY <2>2, <3>4, <4>3 DEF Shown
    <3>5. CASE ~(n < Len(u))
      <4>1. l = Len(u)
        BY <1>l, <2>2, <3>5
      <4>2. w = u
        BY <1>9, <3>1, <3>3, <4>1, SeqEqual
      <4> QED
        BY <2>2, <3>5, <4>2 DEF Shown
    <3> QED
      BY <3>4, <3>5
  <2> QED
    BY <2>1, <2>2
<1>11. w # <<>>
  BY <1>6, <1>9, EmptySeq
<1> QED
  BY <1>8, <1>10, <1>11 DEF w, n

(***************************************************************************)
(* A name that is written to the name field of a packet is what is read    *)
(* there afterwards: the field that counts is the same one, and holds as   *)
(* much of the name as fits.                                               *)
(***************************************************************************)
LEMMA Reparse ==
  ASSUME NEW data \in Seq(Byte), ExtractName(data) # NoName, NEW u \in Seq(Letter), u # <<>>,
         NEW field, field = ExtractName(data), NEW r, r = RewriteName(data, field, u)
  PROVE  /\ r \in Seq(Byte)
         /\ Len(r) = Len(data)
         /\ ExtractName(r).encoded = field.encoded
         /\ ExtractName(r).name = Shown(u, field.end - field.start, field.encoded)
<1> DEFINE z == Encodeds(data)
<1>1. PICK c \in 1..z + Len(PlainMarkers) :
        /\ \A i \in 1..c - 1 : Fields(data)[i].name = <<>>
        /\ Contains(data, MarkerAt(z, c))
        /\ field = Field(data, MarkerAt(z, c), EncodedAt(z, c))
        /\ field.name # <<>>
  BY Chosen
<1> DEFINE m == MarkerAt(z, c)
           enc == EncodedAt(z, c)
           s == Begin(data, m)
<1>2. /\ z \in {0, 1} /\ Len(PlainMarkers) \in Nat /\ m \in Markers /\ enc \in BOOLEAN
      /\ c \in Nat \ {0} /\ c <= z + Len(PlainMarkers)
  BY FieldsAre DEF EncodedAt
<1>3. PICK e : /\ Slot(data, m, s, e)
               /\ EndsAt(data, s, e, enc)
               /\ field = [name |-> Content(data, s, e, enc), start |-> s, end |-> e, encoded |-> enc]
  BY <1>1, <1>2, ChosenSlot
<1>4. /\ s \in Nat /\ e \in Nat /\ s < e /\ e <= Len(data) /\ Len(data) \in Nat /\ e - s \in Nat
      /\ e \in s..Len(data) /\ e \in s + 1..Len(data)
  <2>1. s \in Len(m)..Len(data) /\ e \in s + 1..Len(data) /\ Len(data) \in Nat /\ Len(m) \in Nat
    BY <1>2, <1>3, MarkerSort, LenProperties DEF Slot
  <2> HIDE DEF s
  <2> QED
    BY <2>1
<1>5. Encodeds(data) = z
  OBVIOUS
<1> HIDE DEF z, m, enc, s
<1>6. field.start = s /\ field.end = e /\ field.encoded = enc
  BY <1>3
<1>7. /\ r \in Seq(Byte)
      /\ Len(r) = Len(data)
      /\ \A i \in 1..Len(data) : r[i] = IF i \in s + 1..e THEN Fitted(u, e - s, enc)[i - s] ELSE data[i]
  BY <1>2, <1>4, <1>6, RewriteNameIs
<1>8. \A i \in s + 1..e : r[i] = Fitted(u, e - s, enc)[i - s] /\ i - s \in 1..e - s
  <2> SUFFICES ASSUME NEW i \in s + 1..e
               PROVE  r[i] = Fitted(u, e - s, enc)[i - s] /\ i - s \in 1..e - s
    OBVIOUS
  <2>1. i \in 1..Len(data) /\ i - s \in 1..e - s
    BY <1>4
  <2> QED
    BY <1>7, <2>1
<1>9. Written(data, r, m, s, e)
  <2>1. ASSUME NEW i \in s + 1..e PROVE r[i] \notin Delims
    BY <1>2, <1>4, <1>8, FittedClear
  <2>2. ASSUME NEW i \in 1..Len(data), i \notin s + 1..e PROVE r[i] = data[i]
    BY <1>7, <2>2
  <2> QED
    BY <1>3, <1>7, <2>1, <2>2 DEF Written
<1>10. ASSUME NEW o \in Markers
       PROVE  (Contains(r, o) <=> Contains(data, o)) /\ Begin(r, o) = Begin(data, o)
  BY <1>2, <1>9, PlacesSame DEF Begin
<1>11. z = Encodeds(r)
  <2>1. EncodedMarker \in Markers
    BY DEF Markers
  <2> QED
    BY <1>5, <1>10, <2>1 DEF Encodeds
\* The fields before the chosen one stay empty.
<1>12. ASSUME NEW i \in 1..c - 1 PROVE Fields(r)[i].name = <<>>
  <2> DEFINE o == MarkerAt(z, i)
  <2>1. i \in 1..z + Len(PlainMarkers) /\ i < c /\ i \in Nat \ {0}
    BY <1>2
  <2>2. /\ o \in Markers /\ EncodedAt(z, i) \in BOOLEAN
        /\ Fields(data)[i] = IF Contains(data, o) THEN Field(data, o, EncodedAt(z, i)) ELSE NoName
        /\ Fields(r)[i] = IF Contains(r, o) THEN Field(r, o, EncodedAt(z, i)) ELSE NoName
    BY <1>5, <1>11, <2>1, FieldsAre DEF EncodedAt
  <2>3. Fields(data)[i].name = <<>>
    BY <1>1
  <2> HIDE DEF o
  <2>4. CASE ~Contains(data, o)
    BY <1>10, <2>2, <2>4 DEF NoName
  <2>5. CASE Contains(data, o)
    <3>1. Field(data, o, EncodedAt(z, i)).name = <<>>
      BY <2>2, <2>3, <2>5
    <3>2. ASSUME o = m PROVE FALSE
      <4>1. CASE i <= z
        <5>1. o = EncodedMarker /\ ~(c <= z)
          BY <1>2, <2>1, <4>1 DEF o, MarkerAt
        <5>2. m = PlainMarkers[c - z] /\ c - z \in 1..Len(PlainMarkers)
          BY <1>2, <5>1 DEF m, MarkerAt
        <5>3. DOMAIN PlainMarkers = 1..Len(PlainMarkers)
          BY ParserAssumption, LenProperties
        <5>4. m[1] = Question /\ o[1] = EncodedDelim
          BY <5>1, <5>2, <5>3, MarkerAssumption
        <5> QED
          BY <3>2, <5>4 DEF Question, EncodedDelim
      <4>2. CASE ~(i <= z)
        <5>1. EncodedAt(z, i) = FALSE /\ enc = FALSE
          BY <1>2, <2>1, <4>2 DEF EncodedAt, enc
        <5>2. field = Field(data, m, enc)
          BY <1>1 DEF m, enc
        <5> QED
          BY <1>1, <3>1, <3>2, <5>1, <5>2
      <4> QED
        BY <4>1, <4>2
    <3>3. s = Begin(data, m)
      BY DEF s
    <3>4. Field(r, o, EncodedAt(z, i)).name = <<>>
      BY <1>2, <1>9, <2>2, <2>5, <3>1, <3>2, <3>3, EmptyStays
    <3> QED
      BY <1>10, <2>2, <2>5, <3>4
  <2> QED
    BY <2>4, <2>5
\* The chosen one holds what was written.
<1>13. PICK x : /\ EndsAt(r, s, x, enc)
                /\ Content(r, s, x, enc) = Shown(u, e - s, enc)
                /\ Content(r, s, x, enc) # <<>>
  <2>1. e = Len(r) \/ Stops(r[e + 1], enc)
    <3>1. e # Len(data) => e + 1 \in 1..Len(data) /\ e + 1 \notin s + 1..e
      BY <1>4
    <3> QED
      BY <1>3, <1>7, <3>1 DEF EndsAt
  <2>2. r \in Seq(Byte) /\ e \in s + 1..Len(r) /\ s \in Nat /\ enc \in BOOLEAN
    BY <1>2, <1>4, <1>7
  <2>3. \A i \in s + 1..e : r[i] = Fitted(u, e - s, enc)[i - s]
    BY <1>8
  <2> QED
    BY <2>1, <2>2, <2>3, WrittenRead
<1>14. Fields(r)[c] = [name |-> Content(r, s, x, enc), start |-> s, end |-> x, encoded |-> enc]
  <2>1. Contains(r, m) /\ Begin(r, m) = s
    BY <1>1, <1>2, <1>10 DEF m, s
  <2>2. Fields(r)[c] = Field(r, m, enc)
    BY <1>11, <2>1, FieldsAre DEF m, enc
  <2> QED
    BY <1>2, <1>7, <1>13, <2>1, <2>2, FieldEnd
<1>15. ExtractName(r) = Fields(r)[c]
  <2>1. Fields(r)[c].name # <<>>
    BY <1>13, <1>14
  <2> QED
    BY <1>11, <1>12, <2>1, ChosenIs
<1> QED
  BY <1>6, <1>7, <1>13, <1>14, <1>15

\* A name that stands in its slot is shown there.
LEMMA AlreadyShown ==
  ASSUME NEW data \in Seq(Byte), ExtractName(data) # NoName, NEW u \in Seq(Letter),
         NEW field, field = ExtractName(data), field.name = u
  PROVE  /\ field.encoded \in BOOLEAN
         /\ u = Shown(u, field.end - field.start, field.encoded)
<1> DEFINE z == Encodeds(data)
<1>1. PICK c \in 1..z + Len(PlainMarkers) :
        /\ Contains(data, MarkerAt(z, c))
        /\ field = Field(data, MarkerAt(z, c), EncodedAt(z, c))
        /\ field.name # <<>>
  BY Chosen
<1> DEFINE m == MarkerAt(z, c)
           enc == EncodedAt(z, c)
           s == Begin(data, m)
<1>2. m \in Markers /\ enc \in BOOLEAN
  BY FieldsAre DEF EncodedAt
<1>3. PICK e : /\ Slot(data, m, s, e)
               /\ field = [name |-> Content(data, s, e, enc), start |-> s, end |-> e, encoded |-> enc]
  BY <1>1, <1>2, ChosenSlot
<1>4. s \in Nat /\ e \in s..Len(data) /\ e - s \in Nat
  <2>1. s \in Len(m)..Len(data) /\ e \in s + 1..Len(data) /\ Len(data) \in Nat /\ Len(m) \in Nat
    BY <1>2, <1>3, MarkerSort, LenProperties DEF Slot
  <2> HIDE DEF s
  <2> QED
    BY <2>1
<1> HIDE DEF z, m, enc, s
<1>5. u = Content(data, s, e, enc) /\ field.start = s /\ field.end = e /\ field.encoded = enc
  BY <1>3
<1>6. Len(u) = e - s
  BY <1>2, <1>4, <1>5, ContentSort
<1>7. CASE enc
  <2>1. ~(e - s < Len(u))
    BY <1>4, <1>6
  <2> QED
    BY <1>2, <1>5, <1>7, <2>1 DEF Shown
<1>8. CASE ~enc
  <2>1. Fitted(u, e - s, FALSE) \in Seq(Byte) /\ Len(Fitted(u, e - s, FALSE)) = e - s
    BY <1>4, FittedIs
  <2>2. u \in Seq(Byte)
    BY <1>2, <1>4, <1>5, ContentSort
  <2>3. ASSUME NEW i \in 1..Len(u) PROVE u[i] = Fitted(u, e - s, FALSE)[i]
    <3>1. i \in 1..e - s /\ i <= Len(u)
      BY <1>4, <1>6
    <3> QED
      BY <1>4, <3>1, FittedIs DEF Letters
  <2>4. u = Fitted(u, e - s, FALSE)
    BY <1>6, <2>1, <2>2, <2>3, SeqEqual
  <2> QED
    BY <1>2, <1>5, <1>8, <2>4 DEF Shown
<1> QED
  BY <1>7, <1>8

-----------------------------------------------------------------------------
(* The steps *)

LEMMA UserSort ==
  ASSUME NEW u \in User
  PROVE  u \in Seq(Letter) /\ u # <<>> /\ u # Nobody
BY IdentityAssumption DEF Letter, Delims

\* An empty packet is no join packet.
LEMMA NothingIsNoJoin == ~IsJoinPacket(<<>>)
<1>1. ASSUME NEW m \in Seq(Byte), m # <<>> PROVE ~Contains(<<>>, m)
  <2>1. Len(m) \in Nat /\ Len(m) # 0 /\ Len(<<>>) = 0
    BY <1>1, EmptySeq, LenProperties
  <2> QED
    BY <2>1 DEF Contains, Places
<1>2. Header \in Seq(Byte) /\ Header # <<>>
  BY ParserAssumption
<1>3. \A i \in DOMAIN PlainMarkers : PlainMarkers[i] \in Seq(Byte) /\ PlainMarkers[i] # <<>>
  <2>1. \A i \in DOMAIN PlainMarkers : PlainMarkers[i] \in Markers
    BY DEF Markers
  <2> QED
    BY <2>1, MarkerSort, EmptySeq
<1> QED
  BY <1>1, <1>2, <1>3 DEF IsJoinPacket

\* Where the token was in the name field, the user's name is written there.
LEMMA OutcomesNamed ==
  ASSUME NEW data, NEW o \in Outcomes(data)
  PROVE  /\ o.session = [open |-> o.session.open, kicked |-> o.session.kicked,
                         user |-> o.session.user, auth |-> o.session.auth, uid |-> o.session.uid]
         /\ o.session.auth = "name" =>
              /\ o.ok
              /\ ExtractName(data) # NoName
              /\ o.session.user \in User
              /\ o.data = RewriteName(data, ExtractName(data), o.session.user)
<1> DEFINE Goal(x) ==
      /\ x.session = [open |-> x.session.open, kicked |-> x.session.kicked,
                      user |-> x.session.user, auth |-> x.session.auth, uid |-> x.session.uid]
      /\ x.session.auth = "name" =>
           /\ x.ok
           /\ ExtractName(data) # NoName
           /\ x.session.user \in User
           /\ x.data = RewriteName(data, ExtractName(data), x.session.user)
<1>1. Goal(Refused)
  BY DEF Refused, NoSession
<1>2. ASSUME NEW user, NEW auth, auth # "name", NEW uid, NEW d PROVE Goal(Accepted(user, auth, uid, d))
  BY <1>2 DEF Accepted
<1>3. ASSUME NEW u \in User, NEW uid, ExtractName(data) # NoName
      PROVE  Goal(Accepted(u, "name", uid, RewriteName(data, ExtractName(data), u)))
  BY <1>3 DEF Accepted
<1> HIDE DEF Goal
<1>4. ASSUME o \in ByUid(data) PROVE Goal(o)
  BY <1>1, <1>2, <1>4 DEF ByUid
<1>5. ASSUME o \in ByName(data), ExtractName(data) # NoName PROVE Goal(o)
  <2>1. PICK u \in User : o = Accepted(u, "name", ExtractUid(RewriteName(data, ExtractName(data), u)),
                                       RewriteName(data, ExtractName(data), u))
    BY <1>5 DEF ByName, Owners
  <2> QED
    BY <1>3, <1>5, <2>1
<1>6. ASSUME o \in ByNone(data) PROVE Goal(o)
  BY <1>1, <1>2, <1>6 DEF ByNone
<1>7. \/ o \in ByUid(data) \/ o = Refused \/ o \in ByNone(data)
      \/ o \in ByName(data) /\ ExtractName(data) # NoName
  BY DEF Outcomes
<1>8. Goal(o)
  BY <1>1, <1>4, <1>5, <1>6, <1>7
<1> QED
  BY <1>8 DEF Goal

LEMMA SoundStep ==
  ASSUME Sound, [Next]_vars
  PROVE  Sound'
<1> USE DEF Sound
<1>1. ASSUME UNCHANGED <<session, requireAuth>> PROVE Sound'
  BY <1>1 DEF Shape, Known, Named
<1>2. ASSUME session' = NoSession \/ session' = Unidentified PROVE Sound'
  BY <1>2 DEF Shape, Known, Named, NoSession, Unidentified
<1>3. ASSUME NEW data, NEW o \in Outcomes(data), session' = o.session, UNCHANGED requireAuth
      PROVE  Sound'
  <2>1. Shape' /\ Named'
    BY <1>3, OutcomesNamed DEF Shape, Named
  <2>2. ASSUME requireAuth PROVE Known'
    <3>1. o = Refused \/ Passed(o)
      BY <2>2, OutcomesPassed
    <3> QED
      BY <1>3, <3>1 DEF Known, Passed, Refused, NoSession
  <2> QED
    BY <1>3, <2>1, <2>2 DEF Known
<1>4. ASSUME NEW data \in Packet, FirstPacket(data) PROVE Sound'
  BY <1>2, <1>4 DEF FirstPacket
<1>5. ASSUME NEW data \in Packet, FirstJoin(data) PROVE Sound'
  BY <1>3, <1>5 DEF FirstJoin, Sends
<1>6. ASSUME NEW data \in Packet, LateJoin(data) PROVE Sound'
  <2>1. PICK o \in Outcomes(data) :
          session' = IF ~o.ok THEN [session EXCEPT !.kicked = TRUE]
                     ELSE IF o.session.user = Nobody THEN session ELSE o.session
    BY <1>6 DEF LateJoin
  <2>2. CASE o.ok
    BY <1>1, <1>3, <1>6, <2>1, <2>2 DEF LateJoin, Sends
  <2>3. CASE ~o.ok
    <3>1. session' = [session EXCEPT !.kicked = TRUE] /\ UNCHANGED requireAuth
      BY <1>6, <2>1, <2>3 DEF LateJoin, Sends
    <3> QED
      BY <3>1 DEF Shape, Known, Named
  <2> QED
    BY <2>2, <2>3
<1>7. ASSUME NEW data \in Packet, JoinAgain(data) \/ GamePacket(data) \/ KickedPacket(data) PROVE Sound'
  BY <1>1, <1>7 DEF JoinAgain, GamePacket, KickedPacket, Sends
<1>8. ASSUME SessionEnds PROVE Sound'
  BY <1>2, <1>8 DEF SessionEnds
<1>9. ASSUME UNCHANGED vars PROVE Sound'
  BY <1>1, <1>9 DEF vars
<1> QED
  BY <1>4, <1>5, <1>6, <1>7, <1>8, <1>9 DEF Next

LEMMA SoundHolds == Spec => []Sound
<1>1. Init => Sound
  BY DEF Init, Sound, Shape, Known, Named, NoSession
<1> QED
  BY <1>1, SoundStep, PTL DEF Spec

\* What a step must have sent on to keep GameSeesUser.
LEMMA SeenRewritten ==
  ASSUME NEW data \in Packet, NEW u \in User, session'.user = u, sent' = data,
         ExtractName(data) # NoName, seen' = RewriteName(data, ExtractName(data), u)
  PROVE  GameSeesUser'
<1>1. data \in Seq(Byte)
  BY IdentityAssumption
<1> DEFINE field == ExtractName(data)
           n == field.end - field.start
<1>2. /\ Len(seen') = Len(data)
      /\ ExtractName(seen').encoded = field.encoded
      /\ ExtractName(seen').name = Shown(u, n, field.encoded)
  BY <1>1, UserSort, Reparse
<1> HIDE DEF field
<1>3. ExtractName(sent').end - ExtractName(sent').start = n
  BY DEF field
<1>4. Shown(u, n, field.encoded)
        = IF field.encoded THEN (IF n < Len(u) THEN SubSeq(u, 1, n) ELSE u) ELSE Fitted(u, n, FALSE)
  BY DEF Shown
<1> QED
  BY <1>2, <1>3, <1>4 DEF GameSeesUser

LEMMA SeenAsSent ==
  ASSUME NEW data \in Packet, sent' = data, seen' = data,
         session'.auth = "name" => session'.user \in User
           /\ (ExtractName(data) # NoName => ExtractName(data).name = session'.user)
  PROVE  GameSeesUser'
<1> DEFINE field == ExtractName(data)
           n == field.end - field.start
           u == session'.user
<1>1. CASE session'.auth = "name" /\ field # NoName
  <2>1. data \in Seq(Byte) /\ u \in User /\ field.name = u
    BY <1>1, IdentityAssumption
  <2>2. u = Shown(u, n, field.encoded)
    BY <1>1, <2>1, UserSort, AlreadyShown
  <2>3. ExtractName(seen').name = u /\ ExtractName(seen').encoded = field.encoded
        /\ ExtractName(sent').end - ExtractName(sent').start = n /\ Len(seen') = Len(sent')
    BY <2>1
  <2> HIDE DEF field, n
  <2>4. Shown(u, n, field.encoded)
          = IF field.encoded THEN (IF n < Len(u) THEN SubSeq(u, 1, n) ELSE u) ELSE Fitted(u, n, FALSE)
    BY DEF Shown
  <2> QED
    BY <2>2, <2>3, <2>4 DEF GameSeesUser
<1>2. CASE ~(session'.auth = "name" /\ field # NoName)
  BY <1>2 DEF GameSeesUser
<1> QED
  BY <1>1, <1>2

LEMMA GameSeesUserStep ==
  ASSUME Unknown \notin User, Sound, GameSeesUser, [Next]_vars
  PROVE  GameSeesUser'
<1>1. ASSUME session'.auth # "name" PROVE GameSeesUser'
  BY <1>1 DEF GameSeesUser
<1>2. ASSUME ~IsJoinPacket(seen') PROVE GameSeesUser'
  BY <1>2 DEF GameSeesUser
<1>3. ASSUME NEW data \in Packet, NEW o \in Outcomes(data),
             session' = o.session, seen' = o.data, sent' = data
      PROVE  GameSeesUser'
  <2>1. CASE session'.auth = "name"
    <3>1. /\ ExtractName(data) # NoName
          /\ session'.user \in User
          /\ seen' = RewriteName(data, ExtractName(data), session'.user)
      BY <1>3, <2>1, OutcomesNamed
    <3> QED
      BY <1>3, <3>1, SeenRewritten
  <2> QED
    BY <1>1, <2>1
<1>4. ASSUME NEW data \in Packet, FirstPacket(data) PROVE GameSeesUser'
  BY <1>1, <1>4 DEF FirstPacket, Unidentified, NoSession
<1>5. ASSUME NEW data \in Packet, FirstJoin(data) PROVE GameSeesUser'
  BY <1>3, <1>5 DEF FirstJoin, Sends
<1>6. ASSUME NEW data \in Packet, LateJoin(data) PROVE GameSeesUser'
  <2>1. PICK o \in Outcomes(data) :
          /\ session' = IF ~o.ok THEN [session EXCEPT !.kicked = TRUE]
                        ELSE IF o.session.user = Nobody THEN session ELSE o.session
          /\ seen' = o.data
    BY <1>6 DEF LateJoin
  <2>2. CASE o.ok /\ o.session.user # Nobody
    BY <1>3, <1>6, <2>1, <2>2 DEF LateJoin, Sends
  \* A client nobody is known for has shown no name.
  <2>3. CASE ~o.ok \/ o.session.user = Nobody
    <3>1. session.auth # "name"
      BY <1>6, UserSort DEF LateJoin, Sound, Named
    <3>2. session' = [session EXCEPT !.kicked = TRUE] \/ session' = session
      BY <2>1, <2>3
    <3>3. session'.auth # "name"
      BY <3>1, <3>2 DEF Sound, Shape
    <3> QED
      BY <1>1, <3>3
  <2> QED
    BY <2>2, <2>3
<1>7. ASSUME NEW data \in Packet, JoinAgain(data) PROVE GameSeesUser'
  <2> DEFINE field == ExtractName(data)
  <2>1. /\ sent' = data /\ session' = session
        /\ seen' = IF /\ session.auth = "name" /\ session.user # Unknown
                      /\ field # NoName /\ field.name # session.user
                   THEN RewriteName(data, field, session.user) ELSE data
    BY <1>7 DEF JoinAgain, Sends, Rewritten
  <2>2. session.auth = "name" => session.user \in User /\ session.user # Unknown
    BY DEF Sound, Named
  <2> HIDE DEF field
  <2>3. CASE session.auth = "name" /\ field # NoName /\ field.name # session.user
    <3>1. session.user \in User /\ session'.user = session.user
          /\ seen' = RewriteName(data, field, session.user)
      BY <2>1, <2>2, <2>3
    <3> QED
      BY <2>1, <2>3, <3>1, SeenRewritten DEF field
  <2>4. CASE ~(session.auth = "name" /\ field # NoName /\ field.name # session.user)
    <3>1. seen' = data
      BY <2>1, <2>4
    <3>2. session'.auth = "name" => session'.user \in User
            /\ (field # NoName => field.name = session'.user)
      BY <2>1, <2>2, <2>4
    <3> QED
      BY <2>1, <3>1, <3>2, SeenAsSent DEF field
  <2> QED
    BY <2>3, <2>4
<1>8. ASSUME NEW data \in Packet, GamePacket(data) PROVE GameSeesUser'
  BY <1>2, <1>8 DEF GamePacket
<1>9. ASSUME NEW data \in Packet, KickedPacket(data) PROVE GameSeesUser'
  BY <1>2, <1>9, NothingIsNoJoin DEF KickedPacket
<1>10. ASSUME SessionEnds PROVE GameSeesUser'
  BY <1>1, <1>10 DEF SessionEnds, NoSession
<1>11. ASSUME UNCHANGED vars PROVE GameSeesUser'
  BY <1>11 DEF vars, GameSeesUser
<1> QED
  BY <1>4, <1>5, <1>6, <1>7, <1>8, <1>9, <1>10, <1>11 DEF Next

(***************************************************************************)
(* Whatever join packets come, with whatever fields, from a client who     *)
(* gave the token for a name: the game server reads the name, never the    *)
(* token, for every packet there is and every user name the code           *)
(* registers but "unknown" (_open_session, _identify_session and the       *)
(* retransmission branch of _handle).                                      *)
(***************************************************************************)
THEOREM GameSeesUserHolds ==
  ASSUME Unknown \notin User
  PROVE  Spec => []GameSeesUser
<1>1. Init => GameSeesUser
  BY DEF Init, NoSession, GameSeesUser
<1>2. Sound /\ GameSeesUser /\ [Next]_vars => GameSeesUser'
  BY GameSeesUserStep
<1> QED
  BY <1>1, <1>2, SoundHolds, PTL DEF Spec

-----------------------------------------------------------------------------
(* Who gets past require_auth *)

\* Without a wildcard in it, a text is like the tokens it begins only.
LEMMA LikeBegins ==
  ASSUME NEW text, NEW token \in Seq(Byte), Like(text, token), ~HasWildcard(text)
  PROVE  Begins(text, token)
<1> DEFINE signs   == {j \in 1..Len(text) : text[j] = Percent}
           Sign(i) == CHOOSE j \in signs \cup {0} : j <= i /\ \A k \in signs : k <= i => k <= j
<1>1. PICK taken \in [signs \cup {0} -> 0..Len(token)] :
        /\ taken[0] = 0
        /\ \A i \in 1..Len(text) :
             IF i \in signs THEN taken[Sign(i - 1)] + (i - 1) - Sign(i - 1) <= taken[i]
             ELSE LET r == taken[Sign(i)] + i - Sign(i)
                  IN r <= Len(token) /\ (text[i] = Underscore \/ Lower(text[i]) = Lower(token[r]))
  BY DEF Like
<1>2. signs = {} /\ \A i \in 1..Len(text) : text[i] # Underscore
  BY DEF HasWildcard
<1>3. ASSUME NEW i \in 1..Len(text) PROVE i \in DOMAIN token /\ Lower(text[i]) = Lower(token[i])
  <2>1. i \in Int /\ 1 <= i
    OBVIOUS
  <2>2. Sign(i) = 0
    BY <1>2, <2>1
  <2> HIDE DEF Sign
  <2>3. taken[Sign(i)] + i - Sign(i) = i
    <3>1. taken[0] = 0
      BY <1>1
    <3>2. 0 + i - 0 = i
      BY <2>1
    <3> QED
      BY <2>2, <3>1, <3>2
  <2>4. i <= Len(token) /\ Lower(text[i]) = Lower(token[i])
    BY <1>1, <1>2, <2>3
  <2> QED
    BY <2>1, <2>4
<1> QED
  BY <1>3 DEF Begins

\* What a user is known by.
Vouched(text, u) ==
  text # <<>> /\ (HasWildcard(text) \/ \E t \in TokensOf[u] : Begins(text, t))

LEMMA OwnersVouched ==
  ASSUME NEW text, text # <<>>, NEW u \in Owners(text)
  PROVE  Vouched(text, u)
<1>1. PICK t \in TokensOf[u] : Like(text, t)
  BY DEF Owners
<1>2. t \in Seq(Byte)
  BY <1>1, IdentityAssumption DEF Owners
<1> QED
  BY <1>1, <1>2, LikeBegins DEF Vouched

\* Whoever a join packet is taken for is vouched for by the field in question.
LEMMA OutcomesVouched ==
  ASSUME requireAuth, NEW data \in Packet, NEW o \in Outcomes(data), o # Refused
  PROVE  Vouched(IF o.session.auth = "uid" THEN ExtractAuthUidToken(data)
                 ELSE ExtractName(data).name, o.session.user)
<1>1. CASE o \in ByUid(data) /\ ExtractAuthUidToken(data) # <<>>
  <2>1. PICK u \in Owners(ExtractAuthUidToken(data)) : o = Accepted(u, "uid", <<>>, data)
    BY <1>1 DEF ByUid
  <2>2. o.session.auth = "uid" /\ o.session.user = u
    BY <2>1 DEF Accepted
  <2> QED
    BY <1>1, <2>1, <2>2, OwnersVouched
<1>2. CASE o \in ByName(data) /\ ExtractName(data) # NoName
  <2>1. PICK u \in Owners(ExtractName(data).name) :
          o = Accepted(u, "name", ExtractUid(RewriteName(data, ExtractName(data), u)),
                       RewriteName(data, ExtractName(data), u))
    BY <1>2 DEF ByName
  <2>2. o.session.auth = "name" /\ o.session.user = u
    BY <2>1 DEF Accepted
  <2>3. ExtractName(data).name # <<>>
    BY <1>2, Chosen, IdentityAssumption
  <2> QED
    BY <2>1, <2>2, <2>3, OwnersVouched
<1>3. ByNone(data) = {Refused}
  BY DEF ByNone
<1>4. \/ o \in ByUid(data) /\ ExtractAuthUidToken(data) # <<>>
      \/ o \in ByName(data) /\ ExtractName(data) # NoName
      \/ o = Refused \/ o \in ByNone(data)
  BY DEF Outcomes
<1> QED
  BY <1>1, <1>2, <1>3, <1>4

LEMMA AuthGateStep ==
  ASSUME Sound, Next, requireAuth, seen' # <<>>, IsJoinPacket(seen')
  PROVE  /\ session'.auth \in {"name", "uid"} /\ session'.user \in User
         /\ session.user = Nobody =>
              Vouched(IF session'.auth = "uid" THEN ExtractAuthUidToken(sent')
                      ELSE ExtractName(sent').name, session'.user)
<1> DEFINE Goal == /\ session'.auth \in {"name", "uid"} /\ session'.user \in User
                   /\ session.user = Nobody =>
                        Vouched(IF session'.auth = "uid" THEN ExtractAuthUidToken(sent')
                                ELSE ExtractName(sent').name, session'.user)
<1>1. ASSUME NEW data \in Packet, NEW o \in Outcomes(data), seen' = o.data, sent' = data,
             o.ok => session' = IF o.session.user = Nobody THEN session ELSE o.session
      PROVE  Goal
  <2>1. o # Refused
    BY <1>1 DEF Refused
  <2>2. Passed(o)
    BY <2>1, OutcomesPassed
  <2>3. session' = o.session
    BY <1>1, <2>2, UserSort DEF Passed
  <2> QED
    BY <1>1, <2>1, <2>2, <2>3, OutcomesVouched DEF Passed
<1>2. ASSUME NEW data \in Packet, FirstPacket(data) PROVE Goal
  BY <1>2 DEF FirstPacket
<1>3. ASSUME NEW data \in Packet, FirstJoin(data) PROVE Goal
  <2>1. PICK o \in Outcomes(data) : session' = o.session /\ seen' = o.data
    BY <1>3 DEF FirstJoin
  <2>2. o # Refused
    BY <2>1 DEF Refused
  <2>3. Passed(o)
    BY <2>2, OutcomesPassed
  <2>4. sent' = data
    BY <1>3 DEF FirstJoin, Sends
  <2> QED
    BY <2>1, <2>2, <2>3, <2>4, OutcomesVouched DEF Passed
<1>4. ASSUME NEW data \in Packet, LateJoin(data) PROVE Goal
  <2>1. PICK o \in Outcomes(data) :
          /\ session' = IF ~o.ok THEN [session EXCEPT !.kicked = TRUE]
                        ELSE IF o.session.user = Nobody THEN session ELSE o.session
          /\ seen' = o.data
    BY <1>4 DEF LateJoin
  <2>2. sent' = data
    BY <1>4 DEF LateJoin, Sends
  <2> QED
    BY <1>1, <2>1, <2>2
<1>5. ASSUME NEW data \in Packet, JoinAgain(data) PROVE Goal
  BY <1>5 DEF JoinAgain, Sends, Sound, Known
<1>6. ASSUME NEW data \in Packet, GamePacket(data) PROVE Goal
  BY <1>6 DEF GamePacket
<1>7. ASSUME NEW data \in Packet, KickedPacket(data) PROVE Goal
  BY <1>7 DEF KickedPacket
<1>8. ASSUME SessionEnds PROVE Goal
  BY <1>8 DEF SessionEnds
<1> QED
  BY <1>2, <1>3, <1>4, <1>5, <1>6, <1>7, <1>8 DEF Next

(***************************************************************************)
(* With require_auth only users get a join packet to the game server, each *)
(* known by the beginning of a token of his or by a text with a wildcard,  *)
(* for all users, tokens and packets (_open_session, _identify_session,    *)
(* _handle, validate_token).                                               *)
(***************************************************************************)
THEOREM AuthGateHolds == Spec => AuthGate
<1>1. Sound /\ [Next]_vars
        => [requireAuth /\ seen' # <<>> /\ IsJoinPacket(seen') =>
              /\ session'.auth \in {"name", "uid"} /\ session'.user \in User
              /\ session.user = Nobody =>
                   LET text == IF session'.auth = "uid" THEN ExtractAuthUidToken(sent')
                               ELSE ExtractName(sent').name
                   IN /\ text # <<>>
                      /\ \/ HasWildcard(text)
                         \/ \E t \in TokensOf[session'.user] : Begins(text, t)]_vars
  BY AuthGateStep DEF Vouched
<1> QED
  BY <1>1, SoundHolds, PTL DEF Spec, AuthGate
=============================================================================
