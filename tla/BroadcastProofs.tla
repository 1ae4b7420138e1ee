--------------------------- MODULE BroadcastProofs ---------------------------
(***************************************************************************)
(* Proofs about Broadcast, for every set of clients and any number of      *)
(* changes.                                                                *)
(*                                                                         *)
(* EveryChangePushed is inductive with what the suspended pushes know of   *)
(* the client they wait for (Waits), what the tasks in the queue are for   *)
(* (Queued), and the fact that an open connection is listed (TypeOK).      *)
(***************************************************************************)
EXTENDS Broadcast, TLAPS

Task == [kind : {"push", "handler"}, version : Nat, client : Client \cup {None}]

\* What the event loop keeps.
QueueType ==
  /\ ready \in Seq(Task)
  /\ waiting \in [Client -> Seq(Version)]
  /\ since \in [Client -> Nat]

\* A handler is woken when its connection is lost, and a push has a version.
Queued ==
  \A i \in 1..Len(ready) :
    /\ ready[i].kind = "push" => ready[i].version \in Version
    /\ ready[i].kind = "handler" => ready[i].client \in Client /\ conn[ready[i].client] = "lost"

\* A push that yields has met a lost client, and one that drains has written to
\* the client it waits for.  The push that runs is in the middle of its list,
\* and one that is to come has not begun.
WaitsAt(v) ==
  /\ push[v].at = "yield" => push[v].on \in Client /\ conn[push[v].on] = "lost"
  /\ push[v].at = "drain" => /\ push[v].on \in Client /\ conn[push[v].on] # "new"
                             /\ conn[push[v].on] = "open" => v \in got[push[v].on]
  /\ v > version => push[v].at = "none"

Waits ==
  /\ \A v \in Version : WaitsAt(v)
  /\ running # 0 => running \in Version /\ push[running].at = "next"

Inv == TypeOK /\ QueueType /\ Queued /\ Waits /\ EveryChangePushed

LEMMA InitInv == Init => Inv
<1> SUFFICES ASSUME Init PROVE Inv
  OBVIOUS
<1> USE BroadcastAssumption DEF Init, NoPush, Version
<1>1. TypeOK
  BY DEF TypeOK, Pushes
<1>2. QueueType /\ Queued
  BY DEF QueueType, Queued
<1>3. Waits /\ EveryChangePushed
  BY DEF Waits, WaitsAt, EveryChangePushed
<1> QED
  BY <1>1, <1>2, <1>3 DEF Inv

-----------------------------------------------------------------------------
(* The queue of the loop                                                   *)

LEMMA TasksType ==
  ASSUME NEW vs \in Seq(Version)
  PROVE  /\ Tasks(vs) \in Seq(Task) /\ Len(Tasks(vs)) = Len(vs)
         /\ \A i \in 1..Len(vs) : /\ Tasks(vs)[i].kind = "push"
                                  /\ Tasks(vs)[i].version \in Version
<1>1. DOMAIN vs = 1..Len(vs) /\ Len(vs) \in Nat
  OBVIOUS
<1>2. \A i \in 1..Len(vs) : vs[i] \in Version /\ PushTask(vs[i]) \in Task
  BY <1>1, BroadcastAssumption DEF PushTask, Task, Version
<1>3. Tasks(vs) = [i \in 1..Len(vs) |-> PushTask(vs[i])]
  BY <1>1 DEF Tasks
<1>4. Tasks(vs) \in [1..Len(vs) -> Task]
  BY <1>2, <1>3
<1> QED
  BY <1>1, <1>2, <1>3, <1>4 DEF PushTask

\* Tasks that join the queue keep its type and what they are for.
LEMMA QueueGrows ==
  ASSUME QueueType, Queued, NEW ts \in Seq(Task), ready' = ready \o ts,
         \A c \in Client : conn[c] = "lost" => conn'[c] = "lost",
         \A i \in 1..Len(ts) :
           /\ ts[i].kind = "push" => ts[i].version \in Version
           /\ ts[i].kind = "handler" => ts[i].client \in Client /\ conn'[ts[i].client] = "lost"
  PROVE  ready' \in Seq(Task) /\ Queued'
<1>1. ready \in Seq(Task) /\ Len(ready) \in Nat /\ Len(ts) \in Nat
  BY DEF QueueType
<1>2. ready' \in Seq(Task) /\ Len(ready') = Len(ready) + Len(ts)
  BY <1>1
<1>3. \A i \in 1..Len(ready') :
        ready'[i] = IF i <= Len(ready) THEN ready[i] ELSE ts[i - Len(ready)]
  BY <1>1, <1>2
<1>4. Queued'
  <2> SUFFICES ASSUME NEW i \in 1..Len(ready')
               PROVE  /\ ready'[i].kind = "push" => ready'[i].version \in Version
                      /\ ready'[i].kind = "handler" =>
                           ready'[i].client \in Client /\ conn'[ready'[i].client] = "lost"
    BY DEF Queued
  <2>1. CASE i <= Len(ready)
    BY <1>1, <1>3, <2>1 DEF Queued
  <2>2. CASE ~(i <= Len(ready))
    <3>1. i - Len(ready) \in 1..Len(ts)
      BY <1>1, <1>2, <2>2
    <3> QED
      BY <1>3, <2>2, <3>1
  <2> QED
    BY <2>1, <2>2
<1> QED
  BY <1>2, <1>4

\* So does the head of the queue when it leaves.
LEMMA QueueShrinks ==
  ASSUME QueueType, Queued, ready # <<>>, ready' = Tail(ready), conn' = conn
  PROVE  ready' \in Seq(Task) /\ Queued'
<1>1. ready \in Seq(Task) /\ Len(ready) \in Nat \ {0}
  BY DEF QueueType
<1>2. ready' \in Seq(Task) /\ Len(ready') = Len(ready) - 1
  BY <1>1
<1>3. \A i \in 1..Len(ready') : i + 1 \in 1..Len(ready) /\ ready'[i] = ready[i + 1]
  BY <1>1, <1>2
<1> QED
  BY <1>2, <1>3 DEF Queued

\* A push joins the queue.
LEMMA PushJoins ==
  ASSUME QueueType, Queued, NEW v \in Version, ready' = Append(ready, PushTask(v)), conn' = conn
  PROVE  ready' \in Seq(Task) /\ Queued'
<1>1. PushTask(v) \in Task
  BY BroadcastAssumption DEF PushTask, Task, Version
<1> DEFINE ts == <<PushTask(v)>>
<1>2. ts \in Seq(Task) /\ Len(ts) = 1 /\ ts[1] = PushTask(v) /\ ready' = ready \o ts
  BY <1>1 DEF QueueType
<1>3. PushTask(v).kind = "push" /\ PushTask(v).version = v
  BY DEF PushTask
<1> HIDE DEF ts
<1>4. \A j \in 1..Len(ts) : ts[j].kind = "push" /\ ts[j].version \in Version
  BY <1>2, <1>3
<1> QED
  BY <1>2, <1>4, QueueGrows

-----------------------------------------------------------------------------
(* What the loop hears of                                                  *)

\* The type of a push that changes.
LEMMA PushType ==
  ASSUME TypeOK, NEW v \in Version, NEW p \in Pushes, push' = [push EXCEPT ![v] = p],
         p.stale \subseteq {c \in Client : conn[c] = "lost"}, conn' = conn
  PROVE  /\ push' \in [Version -> Pushes]
         /\ \A w \in Version : push'[w] = IF w = v THEN p ELSE push[w]
         /\ \A w \in Version : push'[w].stale \subseteq {c \in Client : conn'[c] = "lost"}
BY DEF TypeOK, Pushes

LEMMA ChangeInv == Inv /\ Change => Inv'
<1> SUFFICES ASSUME Inv, Change PROVE Inv'
  OBVIOUS
<1> USE BroadcastAssumption DEF Inv
<1>1. /\ version + 1 \in Version /\ version' = version + 1 /\ conn' = conn
      /\ version' \in 0..MaxVersion
  BY DEF Change, TypeOK, Version
<1> DEFINE p == [push[version + 1] EXCEPT !.at = "start"]
<1>2. push[version + 1] \in Pushes /\ push' = [push EXCEPT ![version + 1] = p]
  BY <1>1 DEF Change, TypeOK, Pushes
<1>3. p \in Pushes /\ p.stale = push[version + 1].stale /\ p.at = "start"
  BY <1>2 DEF Pushes
<1> HIDE DEF p
<1>4. p.stale \subseteq {c \in Client : conn[c] = "lost"}
  BY <1>1, <1>3 DEF TypeOK
<1>5. /\ push' \in [Version -> Pushes]
      /\ \A w \in Version : push'[w] = IF w = version + 1 THEN p ELSE push[w]
      /\ \A w \in Version : push'[w].stale \subseteq {c \in Client : conn'[c] = "lost"}
  BY <1>1, <1>2, <1>3, <1>4, PushType
<1>6. TypeOK'
  BY <1>1, <1>5 DEF Change, TypeOK
<1>7. QueueType' /\ Queued'
  <2>1. ready' \in Seq(Task) /\ Queued'
    BY <1>1, PushJoins DEF Change
  <2> QED
    BY <2>1 DEF Change, QueueType
<1>8. Waits'
  BY <1>1, <1>3, <1>5 DEF Change, TypeOK, Waits, WaitsAt, Version
<1>9. EveryChangePushed'
  BY <1>1, <1>3, <1>5 DEF Change, TypeOK, QueueType, EveryChangePushed, Version
<1> QED
  BY <1>6, <1>7, <1>8, <1>9

LEMMA ConnectInv == ASSUME Inv, NEW c \in Client, Connect(c) PROVE Inv'
<1> USE BroadcastAssumption DEF Inv
<1>1. /\ \A x \in Client : x # c => conn'[x] = conn[x] /\ since'[x] = since[x]
      /\ conn[c] = "new" /\ conn'[c] = "open" /\ since'[c] = version
      /\ conn' \in [Client -> {"new", "open", "lost"}] /\ since' \in [Client -> Nat]
  BY DEF Connect, TypeOK, QueueType
<1>2. TypeOK'
  BY <1>1 DEF Connect, TypeOK
<1>3. QueueType' /\ Queued'
  BY <1>1 DEF Connect, QueueType, Queued
<1>4. Waits'
  BY <1>1 DEF Connect, TypeOK, Waits, WaitsAt
<1>5. EveryChangePushed'
  BY <1>1 DEF Connect, TypeOK, EveryChangePushed
<1> QED
  BY <1>2, <1>3, <1>4, <1>5

LEMMA ResumeInv == ASSUME Inv, NEW c \in Client, Resume(c) PROVE Inv'
<1> USE BroadcastAssumption DEF Inv
<1>1. waiting[c] \in Seq(Version)
  BY DEF QueueType
<1>2. ready' \in Seq(Task) /\ Queued'
  <2>1. ready' = ready \o Tasks(waiting[c]) /\ conn' = conn
    BY DEF Resume
  <2>2. /\ Tasks(waiting[c]) \in Seq(Task) /\ Len(Tasks(waiting[c])) = Len(waiting[c])
        /\ \A i \in 1..Len(waiting[c]) : /\ Tasks(waiting[c])[i].kind = "push"
                                         /\ Tasks(waiting[c])[i].version \in Version
    BY <1>1, TasksType
  <2> QED
    BY <2>1, <2>2, QueueGrows
<1>3. /\ waiting' \in [Client -> Seq(Version)]
      /\ \A x \in Client : waiting'[x] # <<>> => x # c /\ waiting'[x] = waiting[x]
  BY DEF Resume, QueueType
<1>4. QueueType'
  BY <1>2, <1>3 DEF Resume, QueueType
<1>5. TypeOK'
  BY <1>3 DEF Resume, TypeOK
<1>6. Waits' /\ EveryChangePushed'
  BY DEF Resume, Waits, WaitsAt, EveryChangePushed
<1> QED
  BY <1>2, <1>4, <1>5, <1>6

LEMMA DisconnectInv == ASSUME Inv, NEW c \in Client, Disconnect(c) PROVE Inv'
<1> USE BroadcastAssumption DEF Inv
<1>1. /\ conn' \in [Client -> {"new", "open", "lost"}] /\ conn'[c] = "lost" /\ conn[c] = "open"
      /\ \A x \in Client : x # c => /\ conn'[x] = conn[x] /\ got'[x] = got[x]
                                    /\ since'[x] = since[x]
      /\ since' \in [Client -> Nat] /\ got' \in [Client -> SUBSET Version]
  BY DEF Disconnect, TypeOK, QueueType
<1>2. ready' \in Seq(Task) /\ Queued'
  <2> DEFINE ws == waiting[c]
             ts == <<HandlerTask(c)>> \o Tasks(ws)
  <2>1. ws \in Seq(Version)
    BY DEF QueueType
  <2>2. /\ Tasks(ws) \in Seq(Task) /\ Len(Tasks(ws)) = Len(ws)
        /\ \A i \in 1..Len(ws) : Tasks(ws)[i].kind = "push" /\ Tasks(ws)[i].version \in Version
    BY <2>1, TasksType
  <2>3. /\ HandlerTask(c) \in Task /\ HandlerTask(c).kind = "handler"
        /\ HandlerTask(c).client = c
    BY DEF HandlerTask, Task
  <2> HIDE DEF ws
  <2>4. /\ ts \in Seq(Task) /\ Len(ts) = Len(ws) + 1
        /\ \A i \in 1..Len(ts) : ts[i] = IF i = 1 THEN HandlerTask(c) ELSE Tasks(ws)[i - 1]
    BY <2>1, <2>2, <2>3
  <2>5. ready' = ready \o ts
    BY <2>2, <2>3 DEF Disconnect, QueueType, ws
  <2> HIDE DEF ts
  <2>6. \A i \in 1..Len(ts) :
           /\ ts[i].kind = "push" => ts[i].version \in Version
           /\ ts[i].kind = "handler" => ts[i].client \in Client /\ conn'[ts[i].client] = "lost"
    <3> SUFFICES ASSUME NEW i \in 1..Len(ts)
                 PROVE  /\ ts[i].kind = "push" => ts[i].version \in Version
                        /\ ts[i].kind = "handler" => ts[i].client \in Client /\ conn'[ts[i].client] = "lost"
      OBVIOUS
    <3>1. CASE i = 1
      BY <3>1, <1>1, <2>3, <2>4
    <3>2. CASE i # 1
      <4>1. i - 1 \in 1..Len(ws)
        BY <3>2, <2>1, <2>4
      <4> QED
        BY <3>2, <4>1, <2>2, <2>4
    <3> QED
      BY <3>1, <3>2
  <2> QED
    BY <1>1, <2>4, <2>5, <2>6, QueueGrows
<1>3. /\ waiting' \in [Client -> Seq(Version)]
      /\ \A x \in Client : waiting'[x] # <<>> => x # c /\ waiting'[x] = waiting[x]
  BY DEF Disconnect, QueueType
<1>4. QueueType'
  BY <1>1, <1>2, <1>3 DEF QueueType
<1>5. TypeOK'
  BY <1>1, <1>3 DEF Disconnect, TypeOK
<1>6. Waits' /\ EveryChangePushed'
  BY <1>1 DEF Disconnect, TypeOK, Waits, WaitsAt, EveryChangePushed
<1> QED
  BY <1>2, <1>4, <1>5, <1>6

-----------------------------------------------------------------------------
(* What the loop runs                                                      *)

LEMMA HandlerEndsInv == Inv /\ HandlerEnds => Inv'
<1> SUFFICES ASSUME Inv, HandlerEnds PROVE Inv'
  OBVIOUS
<1> USE BroadcastAssumption DEF Inv
<1>1. conn[Head(ready).client] = "lost"
  BY DEF HandlerEnds, QueueType, Queued
<1>2. QueueType' /\ Queued'
  BY QueueShrinks DEF HandlerEnds, QueueType
<1>3. TypeOK'
  BY <1>1 DEF HandlerEnds, TypeOK
<1>4. Waits' /\ EveryChangePushed'
  BY DEF HandlerEnds, Waits, WaitsAt, EveryChangePushed
<1> QED
  BY <1>2, <1>3, <1>4

\* The push at the head of the queue gets the loop, and leaves it at p.
LEMMA PushRuns ==
  ASSUME Inv, running = 0, ready # <<>>, Head(ready).kind = "push",
         ready' = Tail(ready),
         UNCHANGED <<version, clients, conn, full, waiting, since, got>>,
         running' = Head(ready).version, NEW p \in Pushes,
         push' = [push EXCEPT ![running'] = p], p.at = "next", running' <= version,
         p.stale \subseteq {c \in Client : conn[c] = "lost"},
         \A c \in Client : conn[c] = "open" /\ running' > since[c]
                             => running' \in got[c] \/ c \in p.left
  PROVE  Inv'
<1> USE BroadcastAssumption DEF Inv
<1> DEFINE v == Head(ready).version
<1>1. v \in Version /\ running' = v
  BY DEF QueueType, Queued
<1> HIDE DEF v
<1>2. /\ push' \in [Version -> Pushes]
      /\ \A w \in Version : push'[w] = IF w = v THEN p ELSE push[w]
      /\ \A w \in Version : push'[w].stale \subseteq {c \in Client : conn'[c] = "lost"}
  BY <1>1, PushType
<1>3. TypeOK'
  BY <1>1, <1>2 DEF TypeOK, Version, Pushes
<1>4. QueueType' /\ Queued'
  BY QueueShrinks DEF QueueType
<1>5. Waits'
  <2>1. running' # 0 => running' \in Version /\ push'[running'].at = "next"
    BY <1>1, <1>2
  <2>2. ASSUME NEW w \in Version PROVE WaitsAt(w)'
    <3>1. CASE w = v
      <4>1. push'[w] = p /\ ~(w > version') /\ p.at = "next"
        BY <1>1, <1>2, <3>1 DEF TypeOK, Version
      <4> QED
        BY <4>1 DEF WaitsAt
    <3>2. CASE w # v
      BY <1>2, <3>2 DEF Waits, WaitsAt
    <3> QED
      BY <3>1, <3>2
  <2> QED
    BY <2>1, <2>2 DEF Waits
<1>6. EveryChangePushed'
  BY <1>1, <1>2 DEF EveryChangePushed, TypeOK, QueueType, Version
<1> QED
  BY <1>3, <1>4, <1>5, <1>6

LEMMA PushStartsInv == Inv /\ PushStarts => Inv'
<1> SUFFICES ASSUME Inv, PushStarts PROVE Inv'
  OBVIOUS
<1> DEFINE p == [at |-> "next", on |-> None, left |-> clients, stale |-> {}]
<1>2. p \in Pushes /\ p.at = "next" /\ p.left = clients /\ p.stale = {}
  BY DEF Pushes, Inv, TypeOK
<1>3. Head(ready).version \in Version /\ Head(ready).version <= version
  <2>1. Head(ready).version \in Version
    BY DEF PushStarts, Inv, QueueType, Queued
  <2>2. push[Head(ready).version].at = "start"
    BY DEF PushStarts
  <2>3. ~(Head(ready).version > version)
    BY <2>1, <2>2 DEF Inv, Waits, WaitsAt
  <2> QED
    BY <2>1, <2>3, BroadcastAssumption DEF Version, Inv, TypeOK
<1>4. push' = [push EXCEPT ![running'] = p] /\ running' = Head(ready).version
  BY DEF PushStarts
<1>5. \A c \in Client : conn[c] = "open" => c \in clients
  BY DEF Inv, TypeOK
<1> HIDE DEF p
<1> QED
  BY <1>2, <1>3, <1>4, <1>5, PushRuns DEF PushStarts

LEMMA PushWakesInv == Inv /\ PushWakes => Inv'
<1> SUFFICES ASSUME Inv, PushWakes PROVE Inv'
  OBVIOUS
<1> DEFINE v == Head(ready).version
           c == push[v].on
<1>1. v \in Version /\ running' = v /\ push[v].at \in {"yield", "drain"}
  BY DEF PushWakes, Inv, QueueType, Queued
<1>2. PICK raises \in IF push[v].at = "yield" THEN {TRUE} ELSE {FALSE, (conn[c] = "lost")} :
        push' = [push EXCEPT ![v] = [at |-> "next", on |-> None, left |-> @.left \ {c},
                                     stale |-> IF raises THEN @.stale \cup {c} ELSE @.stale]]
  BY DEF PushWakes
<1> DEFINE p == [at |-> "next", on |-> None, left |-> push[v].left \ {c},
                 stale |-> IF raises THEN push[v].stale \cup {c} ELSE push[v].stale]
<1> HIDE DEF v, c
<1>3. /\ c \in Client
      /\ push[v].at = "yield" => conn[c] = "lost"
      /\ push[v].at = "drain" => (conn[c] = "open" => v \in got[c])
  BY <1>1 DEF Inv, Waits, WaitsAt, c
<1>4. raises => conn[c] = "lost"
  BY <1>1, <1>3
<1>5. push[v] \in Pushes /\ push[v].stale \subseteq {x \in Client : conn[x] = "lost"}
  BY <1>1 DEF Inv, TypeOK, Pushes
<1>6. p \in Pushes /\ p.at = "next" /\ p.left = push[v].left \ {c}
  BY <1>3, <1>5 DEF Pushes
<1>7. p.stale \subseteq {x \in Client : conn[x] = "lost"}
  BY <1>3, <1>4, <1>5
<1>8. push' = [push EXCEPT ![running'] = p]
  BY <1>1, <1>2 DEF Inv, TypeOK
<1> HIDE DEF p
<1>9. v <= version
  BY <1>1, BroadcastAssumption DEF Inv, Waits, WaitsAt, TypeOK, Version
<1>10. \A x \in Client : conn[x] = "open" /\ v > since[x] => v \in got[x] \/ x \in p.left
  <2> SUFFICES ASSUME NEW x \in Client, conn[x] = "open", v > since[x]
               PROVE  v \in got[x] \/ x \in p.left
    OBVIOUS
  <2>1. v \in since[x] + 1..version
    BY <1>1, <1>9, BroadcastAssumption DEF Inv, TypeOK, QueueType, Version
  <2>2. v \in got[x] \/ x \in push[v].left
    BY <1>1, <2>1 DEF Inv, EveryChangePushed
  <2>3. x = c => v \in got[x]
    BY <1>1, <1>3
  <2> QED
    BY <1>6, <2>2, <2>3
<1> QED
  BY <1>1, <1>6, <1>7, <1>8, <1>9, <1>10, PushRuns DEF PushWakes, v

\* The running push has written to c, and is at p.
LEMMA WrittenInv ==
  ASSUME Inv, running # 0, NEW c \in Client, Written(c), NEW p \in Pushes,
         push' = [push EXCEPT ![running] = p],
         UNCHANGED <<version, clients, conn, ready, since>>,
         full' \subseteq Slow, full \subseteq full',
         waiting' \in [Client -> Seq(Version)],
         \A x \in Client : waiting'[x] # <<>> => x \in full',
         p.stale = push[running].stale,
         \/ running' = running /\ p.at = "next" /\ p.left = push[running].left \ {c}
         \/ running' = 0 /\ p.at = "drain" /\ p.on = c /\ p.left = push[running].left
  PROVE  Inv'
<1> USE BroadcastAssumption DEF Inv
<1>1. running \in Version /\ push[running].at = "next"
  BY DEF Waits, WaitsAt
<1>2. /\ push' \in [Version -> Pushes]
      /\ \A w \in Version : push'[w] = IF w = running THEN p ELSE push[w]
      /\ \A w \in Version : push'[w].stale \subseteq {x \in Client : conn'[x] = "lost"}
  BY <1>1, PushType DEF TypeOK
<1>3. /\ got' \in [Client -> SUBSET Version] /\ running \in got'[c]
      /\ \A x \in Client : got[x] \subseteq got'[x]
  BY <1>1 DEF Written, TypeOK
<1>4. TypeOK'
  BY <1>1, <1>2, <1>3 DEF TypeOK, Version, Pushes
<1>5. QueueType' /\ Queued'
  BY DEF QueueType, Queued
<1>6. Waits'
  <2>n. running' # 0 => running' \in Version /\ push'[running'].at = "next"
    BY <1>1, <1>2
  <2> SUFFICES ASSUME NEW v \in Version PROVE WaitsAt(v)'
    BY <2>n DEF Waits
  <2>1. CASE v = running
    <3>1. push'[v] = p /\ conn[c] = "open" /\ conn' = conn /\ version' = version
      BY <1>1, <1>2, <2>1 DEF Written
    <3>2. ~(v > version)
      BY <1>1, <2>1 DEF Waits, WaitsAt
    <3> QED
      BY <1>3, <2>1, <3>1, <3>2 DEF WaitsAt
  <2>2. CASE v # running
    BY <1>2, <1>3, <2>2 DEF Waits, WaitsAt
  <2> QED
    BY <2>1, <2>2
<1>7. EveryChangePushed'
  <2> SUFFICES ASSUME NEW x \in Client, conn[x] = "open", NEW v \in since[x] + 1..version
               PROVE  v \in got'[x] \/ push'[v].at = "start" \/ x \in push'[v].left
    BY DEF EveryChangePushed
  <2>1. v \in Version
    BY DEF TypeOK, QueueType, Version
  <2>2. v \in got[x] \/ push[v].at = "start" \/ x \in push[v].left
    BY DEF EveryChangePushed
  <2>3. CASE v = running
    BY <1>1, <1>2, <1>3, <2>1, <2>2, <2>3
  <2>4. CASE v # running
    BY <1>2, <1>3, <2>1, <2>2, <2>4
  <2> QED
    BY <2>3, <2>4
<1> QED
  BY <1>4, <1>5, <1>6, <1>7

LEMMA WriteOnInv == ASSUME Inv, NEW c \in Client, WriteOn(c) PROVE Inv'
<1> DEFINE p == [push[running] EXCEPT !.left = @ \ {c}]
<1>1. running \in Version /\ push[running] \in Pushes /\ push[running].at = "next"
  BY DEF WriteOn, Inv, Waits, WaitsAt, TypeOK, Pushes
<1>2. /\ p \in Pushes /\ p.at = "next" /\ p.stale = push[running].stale
      /\ p.left = push[running].left \ {c}
  BY <1>1 DEF Pushes
<1>3. push' = [push EXCEPT ![running] = p]
  BY <1>1 DEF WriteOn, Inv, TypeOK
<1>4. /\ full \subseteq Slow /\ waiting \in [Client -> Seq(Version)]
      /\ \A x \in Client : waiting[x] # <<>> => x \in full
  BY DEF Inv, TypeOK, QueueType
<1> HIDE DEF p
<1> QED
  BY <1>2, <1>3, <1>4, WrittenInv DEF WriteOn

LEMMA WriteWaitsInv == ASSUME Inv, NEW c \in Client, WriteWaits(c) PROVE Inv'
<1> DEFINE p == Awaits(push[running], "drain", c)
<1>1. running \in Version /\ push[running] \in Pushes
  BY DEF WriteWaits, Inv, Waits, WaitsAt, TypeOK, Pushes
<1>2. p = [at |-> "drain", on |-> c, left |-> push[running].left, stale |-> push[running].stale]
  BY DEF Awaits
<1>3. /\ p \in Pushes /\ p.at = "drain" /\ p.on = c /\ p.stale = push[running].stale
      /\ p.left = push[running].left
  BY <1>1, <1>2 DEF Pushes
<1>4. push' = [push EXCEPT ![running] = p]
  BY <1>1 DEF WriteWaits, Inv, TypeOK
<1>5. /\ full' \subseteq Slow /\ full \subseteq full'
      /\ waiting' \in [Client -> Seq(Version)]
      /\ \A x \in Client : waiting'[x] # <<>> => x \in full'
  <2>1. waiting[c] \in Seq(Version) /\ Append(waiting[c], running) \in Seq(Version)
    BY <1>1 DEF Inv, QueueType
  <2>2. waiting' \in [Client -> Seq(Version)]
    BY <2>1 DEF WriteWaits, Inv, QueueType
  <2>3. \A x \in Client : x # c => waiting'[x] = waiting[x]
    BY DEF WriteWaits, Inv, QueueType
  <2> QED
    BY <2>2, <2>3 DEF WriteWaits, Inv, TypeOK
<1> HIDE DEF p
<1> QED
  BY <1>3, <1>4, <1>5, WrittenInv DEF WriteWaits

LEMMA WriteLostInv == ASSUME Inv, NEW c \in Client, WriteLost(c) PROVE Inv'
<1> USE BroadcastAssumption DEF Inv
<1> DEFINE p == Awaits(push[running], "yield", c)
<1>1. running \in Version /\ push[running] \in Pushes /\ push[running].at = "next"
      /\ push[running].stale \subseteq {x \in Client : conn[x] = "lost"}
  BY DEF WriteLost, Waits, WaitsAt, TypeOK, Pushes
<1>2. p = [at |-> "yield", on |-> c, left |-> push[running].left, stale |-> push[running].stale]
  BY DEF Awaits
<1>3. /\ p \in Pushes /\ p.at = "yield" /\ p.on = c /\ p.stale = push[running].stale
      /\ p.left = push[running].left
  BY <1>1, <1>2 DEF Pushes
<1>4. push' = [push EXCEPT ![running] = p]
  BY <1>1 DEF WriteLost, TypeOK
<1> HIDE DEF p
<1>5. /\ push' \in [Version -> Pushes]
      /\ \A w \in Version : push'[w] = IF w = running THEN p ELSE push[w]
      /\ \A w \in Version : push'[w].stale \subseteq {x \in Client : conn'[x] = "lost"}
  BY <1>1, <1>3, <1>4, PushType DEF WriteLost
<1>6. TypeOK'
  BY <1>5 DEF WriteLost, TypeOK, Pushes
<1>7. QueueType' /\ Queued'
  <2>1. ready' \in Seq(Task) /\ Queued'
    BY <1>1, PushJoins DEF WriteLost
  <2> QED
    BY <2>1 DEF WriteLost, QueueType
<1>8. Waits'
  BY <1>1, <1>3, <1>5 DEF WriteLost, Waits, WaitsAt
<1>9. EveryChangePushed'
  BY <1>1, <1>3, <1>5 DEF WriteLost, EveryChangePushed, TypeOK, QueueType, Version
<1> QED
  BY <1>6, <1>7, <1>8, <1>9

LEMMA PushEndsInv == Inv /\ PushEnds => Inv'
<1> SUFFICES ASSUME Inv, PushEnds PROVE Inv'
  OBVIOUS
<1> USE BroadcastAssumption DEF Inv
<1> DEFINE p == [NoPush EXCEPT !.at = "done"]
<1>1. /\ running \in Version /\ push[running].at = "next" /\ push[running].left = {}
      /\ push[running].stale \subseteq {x \in Client : conn[x] = "lost"}
  BY DEF PushEnds, Waits, WaitsAt, TypeOK
<1>2. p = [at |-> "done", on |-> None, left |-> {}, stale |-> {}]
  BY DEF NoPush
<1>3. p \in Pushes /\ p.at = "done" /\ p.stale = {}
  BY <1>2 DEF Pushes
<1>4. push' = [push EXCEPT ![running] = p] /\ conn' = conn
  BY DEF PushEnds
<1> HIDE DEF p
<1>5. /\ push' \in [Version -> Pushes]
      /\ \A w \in Version : push'[w] = IF w = running THEN p ELSE push[w]
      /\ \A w \in Version : push'[w].stale \subseteq {x \in Client : conn'[x] = "lost"}
  BY <1>1, <1>3, <1>4, PushType
<1>6. TypeOK'
  BY <1>1, <1>5 DEF PushEnds, TypeOK, Pushes
<1>7. QueueType' /\ Queued'
  BY DEF PushEnds, QueueType, Queued
<1>8. Waits'
  BY <1>1, <1>3, <1>5 DEF PushEnds, Waits, WaitsAt
<1>9. EveryChangePushed'
  BY <1>1, <1>3, <1>5 DEF PushEnds, EveryChangePushed, TypeOK, QueueType, Version
<1> QED
  BY <1>6, <1>7, <1>8, <1>9

LEMMA Invariance == Spec => []Inv
<1>1. Inv /\ [Next]_vars => Inv'
  <2>1. Inv /\ UNCHANGED vars => Inv'
    BY DEF Inv, TypeOK, QueueType, Queued, Waits, WaitsAt, EveryChangePushed, vars
  <2> QED
    BY <2>1, ChangeInv, ConnectInv, ResumeInv, DisconnectInv, HandlerEndsInv, PushStartsInv,
       PushWakesInv, WriteOnInv, WriteWaitsInv, WriteLostInv, PushEndsInv DEF Next, LoopStep
<1> QED
  BY <1>1, InitInv, PTL DEF Spec

(***************************************************************************)
(* The variables keep their types: an open connection is in _clients, and  *)
(* only a lost one is taken for stale (broadcast.py:39, 66).               *)
(***************************************************************************)
THEOREM BroadcastTypeCorrect == Spec => []TypeOK
BY Invariance, PTL DEF Inv

(***************************************************************************)
(* A connected client has or will be written every change since its        *)
(* greeting, for any number of clients and changes (broadcast.py:53-68).   *)
(***************************************************************************)
THEOREM EveryChangePushedHolds == Spec => []EveryChangePushed
BY Invariance, PTL DEF Inv
=============================================================================
