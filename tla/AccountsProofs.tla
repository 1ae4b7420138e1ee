--------------------------- MODULE AccountsProofs ---------------------------
(***************************************************************************)
(* Proofs about Accounts, for any commands, joins, users and crashes: the  *)
(* statements of a command that read a user earlier never reach the        *)
(* account of another.                                                     *)
(*                                                                         *)
(* What makes it so is that an id is given once (AUTOINCREMENT): the user  *)
(* a command is at is still the one it read, or is gone (Reading), and a   *)
(* token or a role that is left over has nobody it could pass to (Rows).   *)
(***************************************************************************)
EXTENDS Accounts, TLAPS

Ops == RoleCommands \cup
         {"none", "REGISTER", "ROTATE_TOKEN", "DELETE_REGISTRATION",
          "BAN_USER", "UNBAN_USER", "BAN_IP", "UNBAN_IP"}

Ats == {"none", "name", "insert user", "commit user", "purge", "insert token", "commit token",
        "delete user", "commit delete", "insert ban", "commit ban", "kicked", "delete ban",
        "update role", "commit"}

Command == [op : Ops, at : Ats, discord : Discord \cup {None}, name : Name \cup {None},
            of : Id \cup Ip \cup {None}, token : Token \cup {None}, left : SUBSET Client,
            found : SUBSET Token, crossed : BOOLEAN]

\* The tables, with bans of what a command may be at.
Stored == [users  : [Id -> User \cup {None}],
           last   : 0..MaxId,
           tokens : SUBSET TokenRow,
           bans   : SUBSET (Id \cup Ip \cup {None})]

\* What the tables hold, and the ids that were given.
Rows(t) ==
  /\ t \in Stored
  /\ \A id \in Users(t) : /\ id <= t.last
                          /\ {t.users[id].staff, t.users[id].dev} \subseteq {None, t.users[id].discord}
  /\ \A k \in t.tokens : /\ k.user <= t.last
                         /\ k.user \in Users(t) => t.users[k.user].discord = k.for

\* Where a command writes for the Discord user it read.
Using == {"commit user", "purge", "insert token", "update role"}

\* A command, as the tables are now.
Reading(k, t) ==
  /\ k.at \in {"name", "insert user"} => k.discord \in Discord /\ k.name \in Name
  /\ k.at \in Using =>
       /\ k.discord \in Discord /\ k.of \in Id /\ k.of <= t.last
       /\ k.of \in Users(t) => t.users[k.of].discord = k.discord

Inv ==
  /\ Rows(db) /\ Rows(disk)
  /\ cmd \in [Session -> Command]
  /\ \A c \in Session : Reading(cmd[c], db)
  /\ issued \in 0..MaxTokens

LEMMA IdType == /\ Id \subseteq Nat \ {0} /\ \A i \in Nat : i \in Id <=> 1 <= i /\ i <= MaxId
                /\ None \notin Discord
BY TablesAssumption DEF Id

LEMMA IdleType == Idle \in Command /\ Idle.at = "none"
<1>1. "none" \in Ops /\ "none" \in Ats
  BY DEF Ops, Ats
<1>2. FALSE \in BOOLEAN
  OBVIOUS
<1>3. {} \in SUBSET Client /\ {} \in SUBSET Token
  OBVIOUS
<1> QED
  BY <1>1, <1>2, <1>3 DEF Idle, Command

LEMMA InitInv == Init => Inv
<1> SUFFICES ASSUME Init PROVE Inv
  OBVIOUS
<1>1. Users(EmptyTables) = {} /\ EmptyTables.tokens = {}
  BY DEF Users, EmptyTables
<1>2. EmptyTables \in Stored
  BY TablesAssumption DEF EmptyTables, Stored
<1>3. Rows(db) /\ Rows(disk)
  BY <1>1, <1>2 DEF Init, Rows
<1>4. cmd \in [Session -> Command] /\ \A c \in Session : cmd[c].at = "none"
  BY IdleType DEF Init
<1>5. \A c \in Session : Reading(cmd[c], db)
  BY <1>4 DEF Reading, Using
<1>6. issued \in 0..MaxTokens
  BY TablesAssumption DEF Init
<1> QED
  BY <1>3, <1>4, <1>5, <1>6 DEF Inv

-----------------------------------------------------------------------------
(* Steps of a command that leave the tables alone, or write the disk.      *)

\* A command that reads, commits or is answered: only its own record changes
\* what it is at.
LEMMA Moves ==
  ASSUME Inv, NEW c \in Session, NEW k \in Command, cmd' = [cmd EXCEPT ![c] = k],
         Reading(k, db), db' = db, disk' \in {db, disk}, issued' = issued
  PROVE  Inv'
<1>1. cmd' \in [Session -> Command] /\ \A o \in Session : cmd'[o] = IF o = c THEN k ELSE cmd[o]
  BY DEF Inv
<1>2. \A o \in Session : Reading(cmd'[o], db)
  BY <1>1 DEF Inv
<1>3. Rows(disk')
  BY DEF Inv
<1> QED
  BY <1>1, <1>2, <1>3 DEF Inv

LEMMA Ends ==
  ASSUME Inv, NEW c \in Session, End(c), db' = db, disk' \in {db, disk}, issued' = issued
  PROVE  Inv'
<1>1. Idle \in Command /\ Reading(Idle, db)
  BY IdleType DEF Reading, Using
<1>2. cmd' = [cmd EXCEPT ![c] = Idle]
  BY DEF End, Become
<1> QED
  BY <1>1, <1>2, Moves

\* The record of a command that goes on to another statement.
Gone(c, at) == [cmd[c] EXCEPT !.at = at]

LEMMA GotoType ==
  ASSUME Inv, NEW c \in Session, NEW at \in Ats, Goto(c, at)
  PROVE  /\ cmd' = [cmd EXCEPT ![c] = Gone(c, at)] /\ Gone(c, at) \in Command
         /\ Gone(c, at).at = at /\ Gone(c, at).discord = cmd[c].discord
         /\ Gone(c, at).name = cmd[c].name /\ Gone(c, at).of = cmd[c].of
<1>1. cmd[c] \in Command
  BY DEF Inv
<1>2. /\ Gone(c, at) \in Command /\ Gone(c, at).at = at /\ Gone(c, at).discord = cmd[c].discord
      /\ Gone(c, at).name = cmd[c].name /\ Gone(c, at).of = cmd[c].of
  BY <1>1 DEF Command, Gone
<1>3. cmd' = [cmd EXCEPT ![c] = Gone(c, at)]
  BY DEF Goto, Become, Gone
<1> QED
  BY <1>2, <1>3

\* A statement that writes the tables to t.
LEMMA WritesInv ==
  ASSUME Inv, NEW c \in Session, NEW k \in Command, cmd' = [cmd EXCEPT ![c] = k],
         NEW t, Rows(t), db' = t, disk' = disk, issued' \in 0..MaxTokens,
         Reading(k, t), \A o \in Session : Reading(cmd[o], t)
  PROVE  Inv'
<1>1. cmd' \in [Session -> Command] /\ \A o \in Session : cmd'[o] = IF o = c THEN k ELSE cmd[o]
  BY DEF Inv
<1>2. \A o \in Session : Reading(cmd'[o], t)
  BY <1>1
<1> QED
  BY <1>1, <1>2 DEF Inv

\* A write that gives no id and takes no user's Discord id away from him.
LEMMA KeepsReading ==
  ASSUME NEW k, NEW t, Reading(k, t), NEW u, u.last = t.last, Users(u) \subseteq Users(t),
         \A id \in Users(u) : u.users[id].discord = t.users[id].discord
  PROVE  Reading(k, u)
BY DEF Reading

-----------------------------------------------------------------------------
(* The statements                                                          *)

LEMMA InsertUserRows ==
  ASSUME NEW t, Rows(t), MayInsertUser(t), NEW d \in Discord, NEW n \in Name
  PROVE  LET u == InsertUser(t, d, n) IN
         /\ Rows(u)
         /\ t.last + 1 \in Id /\ u.last = t.last + 1
         /\ t.last + 1 \in Users(u) => u.users[t.last + 1].discord = d
         /\ \A id \in Id : id # t.last + 1 => u.users[id] = t.users[id]
<1> DEFINE i == t.last + 1
           r == [discord |-> d, name |-> n, staff |-> None, dev |-> None]
           u == InsertUser(t, d, n)
<1>1. NextId(t) = i
  BY AccountsAssumption DEF NextId
<1>2. t.last \in 0..MaxId /\ i \in Id
  BY <1>1, TablesAssumption DEF Rows, Stored, MayInsertUser, Id
<1>3. r \in User
  BY DEF User
<1>4. u = [t EXCEPT !.users[i] = r, !.last = i]
  BY <1>1 DEF InsertUser
<1> HIDE DEF u, r
<1>5. /\ u.last = i /\ u.tokens = t.tokens /\ u.bans = t.bans
      /\ u.users = [t.users EXCEPT ![i] = r] /\ u \in Stored
  <2>1. t \in Stored
    BY DEF Rows
  <2>2. [t.users EXCEPT ![i] = r] \in [Id -> User \cup {None}]
    BY <1>2, <1>3, <2>1 DEF Stored
  <2>3. i \in 0..MaxId
    BY <1>2, IdType
  <2> QED
    BY <1>4, <2>1, <2>2, <2>3 DEF Stored
<1>6. u.users[i] = r /\ \A id \in Id : id # i => u.users[id] = t.users[id]
  BY <1>2, <1>5 DEF Rows, Stored
<1>7. r.discord = d /\ r.staff = None /\ r.dev = None
  BY DEF r
<1>8. \A id \in Id : id # i => (id \in Users(u)) = (id \in Users(t))
  BY <1>6 DEF Users
<1>9. \A k \in t.tokens : k.user \in Id /\ k.user <= t.last
  BY DEF Rows, Stored, TokenRow
<1>10. Rows(u)
  <2>1. ASSUME NEW id \in Users(u)
        PROVE  id <= u.last /\ {u.users[id].staff, u.users[id].dev} \subseteq {None, u.users[id].discord}
    <3>1. id \in Id
      BY DEF Users
    <3>2. CASE id = i
      BY <1>2, <1>5, <1>6, <1>7, <3>2, IdType
    <3>3. CASE id # i
      BY <1>2, <1>5, <1>6, <1>8, <3>1, <3>3, IdType DEF Rows
    <3> QED
      BY <3>2, <3>3
  <2>2. ASSUME NEW k \in u.tokens
        PROVE  k.user <= u.last /\ (k.user \in Users(u) => u.users[k.user].discord = k.for)
    <3>1. k \in t.tokens /\ k.user \in Id /\ k.user <= t.last /\ k.user # i
      BY <1>2, <1>5, <1>9, IdType
    <3>2. (k.user \in Users(u)) = (k.user \in Users(t)) /\ u.users[k.user] = t.users[k.user]
      BY <1>6, <1>8, <3>1
    <3>3. k.user \in Users(t) => t.users[k.user].discord = k.for
      BY <3>1 DEF Rows
    <3>4. k.user <= u.last
      <4>1. k.user \in Nat
        BY <3>1, IdType
      <4>2. t.last \in Nat
        BY <1>2
      <4>3. u.last = t.last + 1
        BY <1>5
      <4> QED
        BY <3>1, <4>1, <4>2, <4>3
    <3> QED
      BY <3>2, <3>3, <3>4
  <2> QED
    BY <1>5, <2>1, <2>2 DEF Rows
<1> QED
  BY <1>2, <1>5, <1>6, <1>7, <1>10 DEF u

\* Tokens and bans come and go.
LEMMA RestRows ==
  ASSUME NEW t, Rows(t), NEW u \in Stored, u.users = t.users, u.last = t.last,
         \A k \in u.tokens : \/ k \in t.tokens
                             \/ k.user \in Users(t) /\ t.users[k.user].discord = k.for
  PROVE  Rows(u) /\ \A k : Reading(k, t) => Reading(k, u)
<1>1. Users(u) = Users(t)
  BY DEF Users
<1> QED
  BY <1>1 DEF Rows, Reading

LEMMA DeleteTokensRows ==
  ASSUME NEW t, Rows(t), NEW id
  PROVE  LET u == DeleteTokens(t, id) IN Rows(u) /\ \A k : Reading(k, t) => Reading(k, u)
<1> DEFINE u == DeleteTokens(t, id)
<1>1. t \in Stored
  BY DEF Rows
<1>2. u \in Stored /\ u.users = t.users /\ u.last = t.last /\ u.tokens \subseteq t.tokens
  BY <1>1 DEF DeleteTokens, Stored
<1> QED
  BY <1>2, RestRows

LEMMA InsertTokenRows ==
  ASSUME NEW t, Rows(t), NEW id \in Users(t), NEW token \in Token, t.users[id].discord \in Discord
  PROVE  LET u == InsertToken(t, id, token, t.users[id].discord)
         IN  Rows(u) /\ \A k : Reading(k, t) => Reading(k, u)
<1> DEFINE d == t.users[id].discord
           r == [token |-> token, user |-> id, for |-> d]
           u == InsertToken(t, id, token, d)
<1>1. t \in Stored /\ id \in Id
  BY DEF Rows, Users
<1>2. r \in TokenRow /\ r.user = id /\ r.for = d
  BY <1>1 DEF TokenRow
<1>3. u.tokens = t.tokens \cup {r} /\ u.users = t.users /\ u.last = t.last /\ u.bans = t.bans
  BY <1>1 DEF InsertToken, Stored
<1>4. u \in Stored
  BY <1>1, <1>2, <1>3 DEF InsertToken, Stored
<1> HIDE DEF u, r, d
<1>5. Rows(u) /\ \A k : Reading(k, t) => Reading(k, u)
  BY <1>2, <1>3, <1>4, RestRows DEF d
<1> QED
  BY <1>5 DEF u, d

LEMMA BansRows ==
  ASSUME NEW t, Rows(t), NEW x \in Id \cup Ip \cup {None}, NEW u \in {InsertBan(t, x), DeleteBans(t, x)}
  PROVE  Rows(u) /\ \A k : Reading(k, t) => Reading(k, u)
<1>1. t \in Stored
  BY DEF Rows
<1>2. u \in Stored /\ u.users = t.users /\ u.last = t.last /\ u.tokens = t.tokens
  BY <1>1 DEF InsertBan, DeleteBans, Stored
<1> QED
  BY <1>2, RestRows

LEMMA DeleteUserRows ==
  ASSUME NEW t, Rows(t), NEW x
  PROVE  LET u == DeleteUser(t, x) IN Rows(u) /\ \A k : Reading(k, t) => Reading(k, u)
<1> DEFINE u == DeleteUser(t, x)
<1>1. t \in Stored
  BY DEF Rows
<1>2. /\ u \in Stored /\ u.last = t.last /\ u.tokens \subseteq t.tokens
      /\ u.users = [t.users EXCEPT ![x] = None]
  BY <1>1 DEF DeleteUser, Stored
<1> HIDE DEF u
<1>3. \A id \in Users(u) : id \in Users(t) /\ u.users[id] = t.users[id]
  BY <1>1, <1>2 DEF Users, Stored
<1>4. Rows(u)
  BY <1>2, <1>3 DEF Rows
<1>5. ASSUME NEW k, Reading(k, t) PROVE Reading(k, u)
  <2>1. u.last = t.last /\ Users(u) \subseteq Users(t)
    BY <1>2, <1>3
  <2> QED
    BY <1>3, <1>5, <2>1, KeepsReading
<1> QED
  BY <1>4, <1>5 DEF u

LEMMA SetRoleRows ==
  ASSUME NEW t, Rows(t), NEW id \in Id, NEW op, NEW d \in Discord,
         id \in Users(t) => t.users[id].discord = d
  PROVE  LET u == SetRole(t, id, op, d) IN Rows(u) /\ \A k : Reading(k, t) => Reading(k, u)
<1> DEFINE u == SetRole(t, id, op, d)
<1>1. t \in Stored
  BY DEF Rows
<1>2. CASE id \notin Users(t)
  BY <1>2 DEF SetRole
<1>3. CASE id \in Users(t)
  <2> DEFINE s == IF op \in {"GRANT_STAFF", "GRANT_DEV"} THEN d ELSE None
             e == CASE op = "GRANT_DEV" -> d [] op = "REVOKE_DEV" -> None
                    [] OTHER -> t.users[id].dev
             r == [t.users[id] EXCEPT !.staff = s, !.dev = e]
  <2>1. t.users[id] \in User /\ t.users[id].discord = d
    BY <1>1, <1>3 DEF Users, Stored
  <2>2. s \in {None, d} /\ e \in {None, d}
    BY <1>3, <2>1 DEF Rows
  <2> HIDE DEF s, e
  <2>3. r \in User /\ r.discord = d /\ r.staff = s /\ r.dev = e
    BY <2>1, <2>2 DEF User
  <2>4. u = [t EXCEPT !.users[id].staff = s, !.users[id].dev = e]
    BY <1>3 DEF SetRole, s, e
  <2> HIDE DEF u
  <2>5. u.last = t.last /\ u.tokens = t.tokens /\ u.bans = t.bans
    BY <1>1, <2>4 DEF Stored
  <2>6. u.users = [t.users EXCEPT ![id] = r] /\ u \in Stored
    BY <1>1, <2>1, <2>3, <2>4 DEF Stored
  <2> HIDE DEF r
  <2>7. /\ u.users[id] = r
        /\ \A i \in Users(u) : i \in Users(t) /\ (i # id => u.users[i] = t.users[i])
    BY <1>1, <1>3, <2>6 DEF Users, Stored
  <2>8. Rows(u)
    BY <2>1, <2>2, <2>3, <2>5, <2>6, <2>7 DEF Rows
  <2>9. \A i \in Users(u) : u.users[i].discord = t.users[i].discord
    BY <2>1, <2>3, <2>7
  <2>10. \A k : Reading(k, t) => Reading(k, u)
    BY <2>5, <2>7, <2>9, KeepsReading
  <2> QED
    BY <2>8, <2>10 DEF u
<1> QED
  BY <1>2, <1>3

-----------------------------------------------------------------------------
(* The steps                                                               *)

LEMMA Still ==
  ASSUME Inv, UNCHANGED <<db, cmd, issued>>, disk' \in {db, disk} PROVE Inv'
<1>1. Rows(disk')
  BY DEF Inv
<1> QED
  BY <1>1 DEF Inv

\* Another command may find out that it was crossed.
LEMMA StartedType ==
  ASSUME Inv, NEW c \in Session, NEW op \in Ops, NEW d \in Discord \cup {None},
         NEW n \in Name \cup {None}, NEW x \in Id \cup Ip
  PROVE  LET s == Started(c, op, d, n, x) IN
         /\ s \in [Session -> Command]
         /\ s[c].discord = d /\ s[c].of = x
         /\ \A o \in Session : o # c => /\ s[o].at = cmd[o].at /\ s[o].discord = cmd[o].discord
                                        /\ s[o].name = cmd[o].name /\ s[o].of = cmd[o].of
<1> DEFINE crossing == {o \in Session \ {c} : cmd[o].of = x /\ Topics(cmd[o].op) \cap Topics(op) # {}}
           found == {k.token : k \in TokensOf(db, x)}
           mine(q) == [Idle EXCEPT !.op = op, !.discord = d, !.name = n, !.of = x,
                                   !.found = found, !.crossed = q]
           s == Started(c, op, d, n, x)
<1>1. found \in SUBSET Token
  BY DEF Inv, Rows, Stored, TokensOf, TokenRow
<1>2. (crossing # {}) \in BOOLEAN
  OBVIOUS
<1> HIDE DEF found
<1>3. ASSUME NEW q \in BOOLEAN
      PROVE  mine(q) \in Command /\ mine(q).discord = d /\ mine(q).of = x
  BY <1>1, IdleType DEF Command
<1>4. ASSUME NEW o \in Session
      PROVE  LET k == [cmd[o] EXCEPT !.crossed = TRUE]
             IN  /\ k \in Command /\ k.at = cmd[o].at /\ k.discord = cmd[o].discord
                 /\ k.name = cmd[o].name /\ k.of = cmd[o].of
  <2>1. cmd[o] \in Command
    BY DEF Inv
  <2> QED
    BY <2>1 DEF Command
<1>5. s = [o \in Session |-> CASE o = c -> mine(crossing # {})
                               [] o \in crossing -> [cmd[o] EXCEPT !.crossed = TRUE]
                               [] OTHER -> cmd[o]]
  BY DEF Started, found
<1> HIDE DEF s, crossing, mine
<1>6. s[c] = mine(crossing # {}) /\ c \notin crossing
  BY <1>5 DEF crossing
<1>7. \A o \in Session : o # c => s[o] \in {cmd[o], [cmd[o] EXCEPT !.crossed = TRUE]}
  BY <1>5
<1>8. s[c] \in Command /\ s[c].discord = d /\ s[c].of = x
  BY <1>2, <1>3, <1>6
<1>9. ASSUME NEW o \in Session, o # c
      PROVE  /\ s[o] \in Command /\ s[o].at = cmd[o].at /\ s[o].discord = cmd[o].discord
             /\ s[o].name = cmd[o].name /\ s[o].of = cmd[o].of
  BY <1>4, <1>7, <1>9 DEF Inv
<1>10. s \in [Session -> Command]
  <2>1. \A o \in Session : s[o] \in Command
    BY <1>8, <1>9
  <2> QED
    BY <1>5, <2>1
<1> QED
  BY <1>8, <1>9, <1>10 DEF s

\* A command has read the user it works on, and goes on to at.
LEMMA StartsInv ==
  ASSUME Inv, NEW c \in Session, NEW op \in Ops, NEW d \in Discord \cup {None},
         NEW n \in Name \cup {None}, NEW x \in Id \cup Ip,
         NEW at \in Ats \ {"name", "insert user"}, NEW left \in SUBSET Client,
         at \in Using => d \in Discord /\ x \in WithDiscord(db, d),
         \/ cmd' = [Started(c, op, d, n, x) EXCEPT ![c].at = at]
         \/ cmd' = [Started(c, op, d, n, x) EXCEPT ![c].at = at, ![c].left = left],
         UNCHANGED <<db, issued>>, disk' \in {db, disk}
  PROVE  Inv'
<1> DEFINE s == Started(c, op, d, n, x)
<1>1. /\ s \in [Session -> Command] /\ s[c].discord = d /\ s[c].of = x
      /\ \A o \in Session : o # c => /\ s[o].at = cmd[o].at /\ s[o].discord = cmd[o].discord
                                     /\ s[o].name = cmd[o].name /\ s[o].of = cmd[o].of
  BY StartedType
<1> HIDE DEF s
<1>2. PICK k \in {[s[c] EXCEPT !.at = at], [s[c] EXCEPT !.at = at, !.left = left]} :
        cmd' = [s EXCEPT ![c] = k]
  BY <1>1 DEF s
<1>3. k \in Command /\ k.at = at /\ k.discord = d /\ k.of = x
  <2>1. s[c] \in Command
    BY <1>1
  <2>2. CASE k = [s[c] EXCEPT !.at = at]
    BY <1>1, <2>1, <2>2 DEF Command
  <2>3. CASE k = [s[c] EXCEPT !.at = at, !.left = left]
    BY <1>1, <2>1, <2>3 DEF Command
  <2> QED
    BY <1>2, <2>2, <2>3
<1>4. cmd' \in [Session -> Command] /\ cmd'[c] = k /\ \A o \in Session : o # c => cmd'[o] = s[o]
  BY <1>1, <1>2, <1>3
<1>5. Reading(k, db)
  <2>1. at \in Using => x \in Id /\ x <= db.last /\ db.users[x].discord = d
    BY DEF Inv, Rows, WithDiscord, Users
  <2> QED
    BY <1>3, <2>1 DEF Reading
<1>6. \A o \in Session : Reading(cmd'[o], db)
  <2>1. ASSUME NEW o \in Session, o # c PROVE Reading(cmd'[o], db)
    <3>1. Reading(cmd[o], db)
      BY DEF Inv
    <3>2. /\ cmd'[o].at = cmd[o].at /\ cmd'[o].discord = cmd[o].discord
          /\ cmd'[o].name = cmd[o].name /\ cmd'[o].of = cmd[o].of
      BY <1>1, <1>4, <2>1
    <3> QED
      BY <3>1, <3>2 DEF Reading
  <2> QED
    BY <1>4, <1>5, <2>1
<1>7. Rows(disk')
  BY DEF Inv
<1> QED
  BY <1>4, <1>6, <1>7 DEF Inv

LEMMA RegisterInv ==
  ASSUME Inv, NEW c \in Session,
         \/ \E d \in Discord, n \in Name : Register(c, d, n)
         \/ RegisterName(c) \/ RegisterRefused(c) \/ RegisterInsert(c) \/ RegisterCommit(c)
  PROVE  Inv'
<1>0. cmd[c] \in Command /\ Reading(cmd[c], db)
  BY DEF Inv
<1>1. ASSUME NEW d \in Discord, NEW n \in Name, Register(c, d, n) PROVE Inv'
  <2> DEFINE k == [Idle EXCEPT !.op = "REGISTER", !.at = "name", !.discord = d, !.name = n]
  <2>1. "REGISTER" \in Ops /\ "name" \in Ats
    BY DEF Ops, Ats
  <2>2. k \in Command /\ k.at = "name" /\ k.discord = d /\ k.name = n
    BY <2>1, IdleType DEF Command
  <2>3. Reading(k, db)
    BY <2>2 DEF Reading, Using
  <2>4. cmd' = [cmd EXCEPT ![c] = k]
    BY <1>1 DEF Register, Become
  <2> HIDE DEF k
  <2> QED
    BY <1>1, <2>2, <2>3, <2>4, Moves DEF Register, Reads
<1>2. CASE RegisterName(c)
  <2>1. CASE End(c)
    BY <1>2, <2>1, Ends DEF RegisterName, Reads
  <2>2. CASE Goto(c, "insert user")
    <3>1. "insert user" \in Ats
      BY DEF Ats
    <3> DEFINE k == Gone(c, "insert user")
    <3>2. /\ cmd' = [cmd EXCEPT ![c] = k] /\ k \in Command /\ k.at = "insert user"
          /\ k.discord = cmd[c].discord /\ k.name = cmd[c].name
      BY <2>2, <3>1, GotoType
    <3> HIDE DEF k
    <3>3. Reading(k, db)
      BY <1>0, <1>2, <3>2 DEF Reading, Using, RegisterName
    <3> QED
      BY <1>2, <3>2, <3>3, Moves DEF RegisterName, Reads
  <2> QED
    BY <1>2, <2>1, <2>2 DEF RegisterName
<1>3. CASE RegisterRefused(c)
  BY <1>3, Ends DEF RegisterRefused, Reads
<1>4. CASE RegisterInsert(c)
  <2> DEFINE d == cmd[c].discord
             n == cmd[c].name
             u == InsertUser(db, d, n)
             k == [cmd[c] EXCEPT !.at = "commit user", !.of = NextId(db)]
  <2>1. d \in Discord /\ n \in Name /\ MayInsertUser(db) /\ Rows(db)
    BY <1>0, <1>4 DEF RegisterInsert, Reading, Inv
  <2> HIDE DEF d, n
  <2>2. /\ Rows(u) /\ db.last + 1 \in Id /\ u.last = db.last + 1
        /\ db.last + 1 \in Users(u) => u.users[db.last + 1].discord = d
        /\ \A id \in Id : id # db.last + 1 => u.users[id] = db.users[id]
    BY <2>1, InsertUserRows
  <2>3. NextId(db) = db.last + 1
    BY AccountsAssumption DEF NextId
  <2>4. /\ k \in Command /\ k.at = "commit user" /\ k.discord = d
        /\ k.of = db.last + 1
    <3>1. "commit user" \in Ats
      BY DEF Ats
    <3> QED
      BY <1>0, <2>2, <2>3, <3>1 DEF Command, d
  <2>5. cmd' = [cmd EXCEPT ![c] = k] /\ db' = u /\ disk' = disk /\ issued' = issued
    BY <1>4 DEF RegisterInsert, Become, Writes, d, n
  <2> HIDE DEF u, k
  <2>6. db.last \in Nat
    BY <2>1, TablesAssumption DEF Rows, Stored
  <2>7. Reading(k, u)
    <3>1. k.of \in Id /\ k.of <= u.last /\ (k.of \in Users(u) => u.users[k.of].discord = k.discord)
      <4>1. k.of \in Id /\ k.of = u.last /\ u.last \in Nat
        <5>1. k.of = db.last + 1 /\ db.last + 1 \in Id /\ u.last = db.last + 1
          BY <2>2, <2>4
        <5>2. db.last + 1 \in Nat
          BY <2>6
        <5> QED
          BY <5>1, <5>2
      <4>2. k.of <= u.last
        BY <4>1
      <4> QED
        BY <2>2, <2>4, <4>1, <4>2
    <3> QED
      BY <2>1, <2>4, <3>1 DEF Reading
  <2>8. ASSUME NEW o \in Session PROVE Reading(cmd[o], u)
    <3>1. Reading(cmd[o], db)
      BY DEF Inv
    <3>2. ASSUME cmd[o].at \in Using
          PROVE  /\ cmd[o].discord \in Discord /\ cmd[o].of \in Id /\ cmd[o].of <= u.last
                 /\ cmd[o].of \in Users(u) => u.users[cmd[o].of].discord = cmd[o].discord
      <4>1. /\ cmd[o].discord \in Discord /\ cmd[o].of \in Id /\ cmd[o].of <= db.last
            /\ cmd[o].of \in Users(db) => db.users[cmd[o].of].discord = cmd[o].discord
        BY <3>1, <3>2 DEF Reading
      <4>2. cmd[o].of \in Nat
        BY <4>1, IdType
      <4>3. cmd[o].of # db.last + 1 /\ cmd[o].of <= u.last
        BY <2>2, <2>6, <4>1, <4>2
      <4> QED
        BY <2>2, <4>1, <4>3 DEF Users
    <3> QED
      BY <3>1, <3>2 DEF Reading
  <2>9. issued \in 0..MaxTokens
    BY DEF Inv
  <2> QED
    BY <2>2, <2>4, <2>5, <2>7, <2>8, <2>9, WritesInv
<1>5. CASE RegisterCommit(c)
  <2>1. "purge" \in Ats
    BY DEF Ats
  <2> DEFINE k == Gone(c, "purge")
  <2>2. /\ cmd' = [cmd EXCEPT ![c] = k] /\ k \in Command /\ k.at = "purge"
        /\ k.discord = cmd[c].discord /\ k.of = cmd[c].of
    BY <1>5, <2>1, GotoType DEF RegisterCommit
  <2> HIDE DEF k
  <2>3. Reading(k, db)
    BY <1>0, <1>5, <2>2 DEF Reading, Using, RegisterCommit
  <2> QED
    BY <1>5, <2>2, <2>3, Moves DEF RegisterCommit, Commits
<1> QED
  BY <1>1, <1>2, <1>3, <1>4, <1>5

\* A command writes the tables to t, which keeps what the commands know, and
\* goes on to at, where it uses the user no more than before.
LEMMA WritesAndGoes ==
  ASSUME Inv, NEW c \in Session, NEW t, Writes(t), Rows(t),
         \A o \in Session : Reading(cmd[o], db) => Reading(cmd[o], t),
         NEW at \in Ats \ {"name", "insert user"}, at \in Using => cmd[c].at \in Using, Goto(c, at)
  PROVE  Inv'
<1> DEFINE k == Gone(c, at)
<1>1. /\ cmd' = [cmd EXCEPT ![c] = k] /\ k \in Command
      /\ k.at = at /\ k.discord = cmd[c].discord /\ k.of = cmd[c].of
  BY GotoType
<1> HIDE DEF k
<1>2. \A o \in Session : Reading(cmd[o], t)
  BY DEF Inv
<1>3. Reading(k, t)
  BY <1>1, <1>2 DEF Reading
<1>4. db' = t /\ disk' = disk /\ issued' \in 0..MaxTokens
  BY DEF Writes, Inv
<1> QED
  BY <1>1, <1>2, <1>3, <1>4, WritesInv

LEMMA TokenInv ==
  ASSUME Inv, NEW c \in Session,
         \/ \E d \in Discord : Rotate(c, d)
         \/ Purge(c) \/ TokenRefused(c) \/ InsertsToken(c) \/ TokenAnswered(c)
  PROVE  Inv'
<1>0. cmd[c] \in Command /\ Reading(cmd[c], db) /\ Rows(db)
  BY DEF Inv
<1>1. ASSUME NEW d \in Discord, Rotate(c, d) PROVE Inv'
  <2>1. PICK id \in WithDiscord(db, d) :
          cmd' = [Started(c, "ROTATE_TOKEN", d, None, id) EXCEPT ![c].at = "purge"]
    BY <1>1 DEF Rotate
  <2>2. id \in Id /\ "ROTATE_TOKEN" \in Ops /\ "purge" \in Ats \ {"name", "insert user"}
    BY DEF WithDiscord, Users, Ops, Ats
  <2>3. {} \in SUBSET Client
    OBVIOUS
  <2> QED
    BY <1>1, <2>1, <2>2, <2>3, StartsInv DEF Rotate
<1>2. CASE Purge(c)
  <2>1. "insert token" \in Ats \ {"name", "insert user"} /\ cmd[c].at \in Using
    BY <1>2 DEF Ats, Using, Purge
  <2>2. /\ Rows(DeleteTokens(db, cmd[c].of))
        /\ \A k : Reading(k, db) => Reading(k, DeleteTokens(db, cmd[c].of))
    BY <1>0, DeleteTokensRows
  <2> QED
    BY <1>2, <2>1, <2>2, WritesAndGoes DEF Purge
<1>3. CASE TokenRefused(c)
  BY <1>3, Ends DEF TokenRefused, Reads
<1>4. CASE InsertsToken(c)
  <2> DEFINE d == cmd[c].discord
             id == cmd[c].of
             t == InsertToken(db, id, issued + 1, d)
             k == [cmd[c] EXCEPT !.at = "commit token", !.token = issued + 1]
  <2>1. cmd[c].at = "insert token" /\ id \in Users(db) /\ issued < MaxTokens /\ issued' = issued + 1
    BY <1>4, AccountsAssumption DEF InsertsToken, Referable
  <2>2. d \in Discord /\ db.users[id].discord = d
    BY <1>0, <2>1 DEF Reading, Using
  <2>3. issued \in Nat /\ issued + 1 \in Token /\ issued + 1 \in 0..MaxTokens
    <3>1. issued \in 0..MaxTokens /\ MaxTokens \in Nat
      BY TablesAssumption DEF Inv
    <3>2. issued < MaxTokens
      BY <2>1
    <3>3. issued \in Nat /\ issued + 1 \in 1..MaxTokens /\ issued + 1 \in 0..MaxTokens
      BY ONLY <3>1, <3>2
    <3> QED
      BY <3>3 DEF Token
  <2>4. Rows(t) /\ \A x : Reading(x, db) => Reading(x, t)
    BY <1>0, <2>1, <2>2, <2>3, InsertTokenRows
  <2>5. k \in Command /\ k.at = "commit token"
    <3>1. "commit token" \in Ats
      BY DEF Ats
    <3> QED
      BY <1>0, <2>3, <3>1 DEF Command
  <2>6. Reading(k, t)
    BY <2>5 DEF Reading, Using
  <2>7. cmd' = [cmd EXCEPT ![c] = k] /\ db' = t /\ disk' = disk
    BY <1>4, <2>1 DEF InsertsToken, Become
  <2>8. \A o \in Session : Reading(cmd[o], t)
    BY <2>4 DEF Inv
  <2> HIDE DEF k, t
  <2> QED
    BY <2>1, <2>3, <2>4, <2>5, <2>6, <2>7, <2>8, WritesInv
<1>5. CASE TokenAnswered(c)
  BY <1>5, Ends DEF TokenAnswered, Commits
<1> QED
  BY <1>1, <1>2, <1>3, <1>4, <1>5

\* Of a kick, the record of the command alone matters here.
LEMMA KickGoes ==
  ASSUME NEW c, NEW s, NEW targets \in SUBSET Client, NEW at, Kick(c, s, targets, at)
  PROVE  \E left \in SUBSET Client : \/ cmd' = [s EXCEPT ![c].at = at]
                                     \/ cmd' = [s EXCEPT ![c].at = at, ![c].left = left]
BY DEF Kick

LEMMA DeleteInv ==
  ASSUME Inv, NEW c \in Session,
         (\E d \in Discord : Delete(c, d)) \/ DeletesUser(c) \/ DeleteAnswered(c)
  PROVE  Inv'
<1>1. ASSUME NEW d \in Discord, Delete(c, d) PROVE Inv'
  <2>1. PICK id \in WithDiscord(db, d) :
          Kick(c, Started(c, "DELETE_REGISTRATION", d, None, id), Named(db.users[id].name), "delete user")
    BY <1>1 DEF Delete
  <2>2. /\ id \in Id /\ "DELETE_REGISTRATION" \in Ops
        /\ "delete user" \in Ats \ {"name", "insert user"} /\ "delete user" \notin Using
    BY DEF WithDiscord, Users, Ops, Ats, Using
  <2>3. Named(db.users[id].name) \in SUBSET Client
    BY DEF Named
  <2>4. PICK left \in SUBSET Client :
          \/ cmd' = [Started(c, "DELETE_REGISTRATION", d, None, id) EXCEPT ![c].at = "delete user"]
          \/ cmd' = [Started(c, "DELETE_REGISTRATION", d, None, id)
                       EXCEPT ![c].at = "delete user", ![c].left = left]
    BY <2>1, <2>3, KickGoes
  <2> QED
    BY <1>1, <2>2, <2>4, StartsInv DEF Delete
<1>2. CASE DeletesUser(c)
  <2>1. "commit delete" \in Ats \ {"name", "insert user"} /\ "commit delete" \notin Using
    BY DEF Ats, Using
  <2>2. /\ Rows(DeleteUser(db, cmd[c].of))
        /\ \A k : Reading(k, db) => Reading(k, DeleteUser(db, cmd[c].of))
    BY DeleteUserRows DEF Inv
  <2> QED
    BY <1>2, <2>1, <2>2, WritesAndGoes DEF DeletesUser
<1>3. CASE DeleteAnswered(c)
  BY <1>3, Ends DEF DeleteAnswered, Commits
<1> QED
  BY <1>1, <1>2, <1>3

LEMMA RoleInv ==
  ASSUME Inv, NEW c \in Session,
         (\E d \in Discord, op \in RoleCommands : ChangeRole(c, d, op)) \/ UpdatesRole(c)
  PROVE  Inv'
<1>1. ASSUME NEW d \in Discord, NEW op \in RoleCommands, ChangeRole(c, d, op) PROVE Inv'
  <2>1. PICK id \in WithDiscord(db, d) :
          cmd' = [Started(c, op, d, None, id) EXCEPT ![c].at = "update role"]
    BY <1>1 DEF ChangeRole
  <2>2. id \in Id /\ op \in Ops /\ "update role" \in Ats \ {"name", "insert user"}
    BY DEF WithDiscord, Users, Ops, Ats
  <2>3. {} \in SUBSET Client
    OBVIOUS
  <2> QED
    BY <1>1, <2>1, <2>2, <2>3, StartsInv DEF ChangeRole, Reads
<1>2. CASE UpdatesRole(c)
  <2>1. "commit" \in Ats \ {"name", "insert user"} /\ "commit" \notin Using
    BY DEF Ats, Using
  <2>2. /\ Rows(db) /\ cmd[c].of \in Id /\ cmd[c].discord \in Discord
        /\ cmd[c].of \in Users(db) => db.users[cmd[c].of].discord = cmd[c].discord
    BY <1>2 DEF UpdatesRole, Inv, Reading, Using
  <2>3. LET t == SetRole(db, cmd[c].of, cmd[c].op, cmd[c].discord)
        IN  Rows(t) /\ \A k : Reading(k, db) => Reading(k, t)
    BY <2>2, SetRoleRows
  <2> QED
    BY <1>2, <2>1, <2>3, WritesAndGoes DEF UpdatesRole
<1> QED
  BY <1>1, <1>2

LEMMA BanInv ==
  ASSUME Inv, NEW c \in Session, BanCommand(c) PROVE Inv'
<1>0. cmd[c] \in Command /\ Rows(db)
  BY DEF Inv
<1>o. /\ {"BAN_USER", "UNBAN_USER", "BAN_IP", "UNBAN_IP"} \subseteq Ops
      /\ {"insert ban", "delete ban", "commit ban", "kicked", "commit"}
           \subseteq Ats \ ({"name", "insert user"} \cup Using)
      /\ {} \in SUBSET Client
  BY DEF Ops, Ats, Using
<1>1. ASSUME NEW n \in Name, BanUser(c, n) \/ UnbanUser(c, n) PROVE Inv'
  <2>1. \A id \in WithName(db, n) : id \in Id
    BY DEF WithName, Users
  <2>2. CASE BanUser(c, n)
    <3>1. PICK id \in WithName(db, n) :
            cmd' = [Started(c, "BAN_USER", None, n, id) EXCEPT ![c].at = "insert ban"]
      BY <2>2 DEF BanUser
    <3> QED
      BY <1>o, <2>1, <2>2, <3>1, StartsInv DEF BanUser, Reads
  <2>3. CASE UnbanUser(c, n)
    <3>1. PICK id \in WithName(db, n) :
            cmd' = [Started(c, "UNBAN_USER", None, n, id) EXCEPT ![c].at = "delete ban"]
      BY <2>3 DEF UnbanUser
    <3> QED
      BY <1>o, <2>1, <2>3, <3>1, StartsInv DEF UnbanUser
  <2> QED
    BY <1>1, <2>2, <2>3
<1>2. ASSUME NEW ip \in Ip, BanIp(c, ip) \/ UnbanIp(c, ip) PROVE Inv'
  <2>1. CASE BanIp(c, ip)
    BY <1>o, <2>1, StartsInv DEF BanIp, Reads
  <2>2. CASE UnbanIp(c, ip)
    BY <1>o, <2>2, StartsInv DEF UnbanIp
  <2> QED
    BY <1>2, <2>1, <2>2
<1>3. CASE BanRefused(c)
  BY <1>3, Ends DEF BanRefused, Reads
<1>4. CASE InsertsBan(c)
  <2> DEFINE t == InsertBan(db, cmd[c].of)
             k == Gone(c, "commit ban")
  <2>1. cmd[c].of \in Id \cup Ip \cup {None}
    BY <1>0 DEF Command
  <2>2. Rows(t) /\ \A x : Reading(x, db) => Reading(x, t)
    BY <1>0, <2>1, BansRows
  <2>3. k \in Command /\ k.at = "commit ban" /\ cmd' = [cmd EXCEPT ![c] = k]
    BY <1>o, <1>4, GotoType DEF InsertsBan
  <2>4. Reading(k, t) /\ \A o \in Session : Reading(cmd[o], t)
    BY <1>o, <2>2, <2>3 DEF Reading, Using, Inv
  <2>5. db' = t /\ disk' = disk /\ issued' \in 0..MaxTokens
    BY <1>4 DEF InsertsBan, Inv
  <2> HIDE DEF t, k
  <2> QED
    BY <2>2, <2>3, <2>4, <2>5, WritesInv
<1>5. CASE BanCommitted(c)
  <2> DEFINE targets == IF cmd[c].op = "BAN_IP" THEN FromHost(cmd[c].of) ELSE Named(cmd[c].name)
  <2>1. targets \in SUBSET Client
    BY DEF FromHost, Named
  <2>2. Kick(c, cmd, targets, "kicked")
    BY <1>5 DEF BanCommitted
  <2> HIDE DEF targets
  <2>3. PICK left \in SUBSET Client : \/ cmd' = [cmd EXCEPT ![c].at = "kicked"]
                                      \/ cmd' = [cmd EXCEPT ![c].at = "kicked", ![c].left = left]
    BY <2>1, <2>2, KickGoes
  <2>4. PICK k \in {[cmd[c] EXCEPT !.at = "kicked"], [cmd[c] EXCEPT !.at = "kicked", !.left = left]} :
          cmd' = [cmd EXCEPT ![c] = k]
    BY <2>3 DEF Inv
  <2>5. k \in Command /\ k.at = "kicked"
    <3>1. CASE k = [cmd[c] EXCEPT !.at = "kicked"]
      BY <1>0, <1>o, <3>1 DEF Command
    <3>2. CASE k = [cmd[c] EXCEPT !.at = "kicked", !.left = left]
      BY <1>0, <1>o, <3>2 DEF Command
    <3> QED
      BY <2>4, <3>1, <3>2
  <2>6. Reading(k, db)
    BY <1>o, <2>5 DEF Reading, Using
  <2> QED
    BY <1>5, <2>4, <2>5, <2>6, Moves DEF BanCommitted
<1>6. CASE BanAnswered(c)
  BY <1>6, Ends DEF BanAnswered
<1>7. CASE DeletesBan(c)
  <2>1. cmd[c].of \in Id \cup Ip \cup {None}
    BY <1>0 DEF Command
  <2>2. /\ Rows(DeleteBans(db, cmd[c].of))
        /\ \A x : Reading(x, db) => Reading(x, DeleteBans(db, cmd[c].of))
    BY <1>0, <2>1, BansRows
  <2>3. "commit" \in Ats \ {"name", "insert user"} /\ "commit" \notin Using
    BY <1>o
  <2> QED
    BY <1>7, <2>2, <2>3, WritesAndGoes DEF DeletesBan
<1> QED
  BY <1>1, <1>2, <1>3, <1>4, <1>5, <1>6, <1>7 DEF BanCommand

\* What commands have in common.
LEMMA CommonInv == ASSUME Inv, NEW c \in Session, KickNext(c) \/ Committed(c) PROVE Inv'
<1>0. cmd[c] \in Command /\ Reading(cmd[c], db)
  BY DEF Inv
<1>1. CASE KickNext(c)
  <2>1. PICK j \in cmd[c].left : cmd' = [cmd EXCEPT ![c] = [cmd[c] EXCEPT !.left = @ \ {j}]]
    BY <1>1 DEF KickNext, Become
  <2> DEFINE k == [cmd[c] EXCEPT !.left = @ \ {j}]
  <2>2. /\ k \in Command /\ k.at = cmd[c].at /\ k.discord = cmd[c].discord
        /\ k.name = cmd[c].name /\ k.of = cmd[c].of
    BY <1>0 DEF Command
  <2>3. cmd' = [cmd EXCEPT ![c] = k]
    BY <2>1
  <2> HIDE DEF k
  <2>4. Reading(k, db)
    BY <1>0, <2>2 DEF Reading
  <2> QED
    BY <1>1, <2>2, <2>3, <2>4, Moves DEF KickNext
<1>2. CASE Committed(c)
  BY <1>2, Ends DEF Committed, Commits
<1> QED
  BY <1>1, <1>2

LEMMA ClientInv == ASSUME Inv, NEW j \in Client, ClientStep(j) PROVE Inv'
<1>1. UNCHANGED <<db, disk, cmd, issued>>
  BY DEF ClientStep, JoinOf, FirstPacket, Validate, CheckIp, CheckUser, UidTaken,
         LogConnection, OpenSession, SessionEnds
<1> QED
  BY <1>1, Still

LEMMA CrashInv == ASSUME Inv, Crash PROVE Inv'
<1>1. cmd' = [c \in Session |-> Idle] /\ db' = disk /\ disk' = disk /\ issued' = issued
  BY DEF Crash
<1>2. cmd' \in [Session -> Command] /\ \A c \in Session : Reading(cmd'[c], disk)
  BY <1>1, IdleType DEF Reading, Using
<1> QED
  BY <1>1, <1>2 DEF Inv

LEMMA Invariance == Spec => []Inv
<1>1. Inv /\ [Next]_vars => Inv'
  <2> SUFFICES ASSUME Inv, [Next]_vars PROVE Inv'
    OBVIOUS
  <2>1. ASSUME NEW c \in Session, AccountCommand(c) PROVE Inv'
    BY <2>1, RegisterInv, TokenInv, DeleteInv, RoleInv DEF AccountCommand
  <2>2. ASSUME NEW c \in Session, BanCommand(c) \/ KickNext(c) \/ Committed(c) PROVE Inv'
    BY <2>2, BanInv, CommonInv
  <2>3. ASSUME NEW j \in Client, ClientStep(j) PROVE Inv'
    BY <2>3, ClientInv
  <2>4. CASE LogCommit
    BY <2>4, Still DEF LogCommit, Commits
  <2>5. CASE Crash
    BY <2>5, CrashInv
  <2>6. CASE UNCHANGED vars
    BY <2>6, Still DEF vars
  <2> QED
    BY <2>1, <2>2, <2>3, <2>4, <2>5, <2>6 DEF Next
<1> QED
  BY <1>1, InitInv, PTL DEF Spec

(***************************************************************************)
(* Whatever commands interleave and wherever the process dies, a token     *)
(* logs in the account of the Discord id it was drawn for, and staff and   *)
(* dev are those who were granted it (database.py:310,                     *)
(* tcp_control.py:299): the AUTOINCREMENT of database.py:11 is what this   *)
(* rests on.                                                               *)
(***************************************************************************)
THEOREM RightAccountHolds == Spec => []RightAccount
<1>1. Inv => RightAccount
  BY DEF Inv, Rows, RightAccount, Valid
<1> QED
  BY <1>1, Invariance, PTL
=============================================================================
