---------------------------- MODULE AnswersProofs ----------------------------
(***************************************************************************)
(* Proofs about Accounts: what the answer of a command promises, for any   *)
(* commands, joins and crashes.  The types come first; on them rests that  *)
(* commands on the same user know of each other (Crossings); and on both   *)
(* what becomes of tokens and of bans.                                     *)
(***************************************************************************)
EXTENDS AccountsProofs

-----------------------------------------------------------------------------
(* What the steps do to the commands                                       *)

Others(c) == \A o \in Session \ {c} : cmd'[o] = cmd[o]

\* Two records of one command: what it is, and what it is about.
Same(k, l) == /\ k.op = l.op /\ k.of = l.of /\ k.name = l.name
              /\ k.found = l.found /\ k.crossed = l.crossed

Moved(c, at) == /\ Others(c)
                /\ cmd'[c].at = at /\ Same(cmd'[c], cmd[c]) /\ cmd'[c].token = cmd[c].token

Ended(c) == Others(c) /\ cmd'[c] = Idle

Crosses(o, op, x) == cmd[o].of = x /\ Topics(cmd[o].op) \cap Topics(op) # {}

Begun(c, op, n, x, at) ==
  /\ cmd'[c].op = op /\ cmd'[c].of = x /\ cmd'[c].name = n /\ cmd'[c].at = at
  /\ cmd'[c].found = {k.token : k \in TokensOf(db, x)}
  /\ \A o \in Session \ {c} :
       /\ cmd'[o].op = cmd[o].op /\ cmd'[o].of = cmd[o].of /\ cmd'[o].name = cmd[o].name
       /\ cmd'[o].found = cmd[o].found /\ cmd'[o].at = cmd[o].at
       /\ cmd'[o].token = cmd[o].token /\ cmd'[o].left = cmd[o].left
       /\ cmd[o].crossed => cmd'[o].crossed
       /\ Crosses(o, op, x) => cmd'[o].crossed /\ cmd'[c].crossed

LEMMA IdleFields ==
  /\ Idle.op = "none" /\ Idle.at = "none" /\ Idle.of = None /\ Idle.found = {} /\ Idle.left = {}
  /\ Idle.name = None /\ Idle.crossed = FALSE
BY DEF Idle

LEMMA EndView == ASSUME Inv, NEW c \in Session, End(c) PROVE Ended(c)
BY DEF Inv, End, Become, Ended, Others

\* A command goes on with another record.
LEMMA BecomeView ==
  ASSUME Inv, NEW c \in Session, NEW k, Become(c, k)
  PROVE  Others(c) /\ cmd'[c] = k
BY DEF Inv, Become, Others

LEMMA GotoView ==
  ASSUME Inv, NEW c \in Session, NEW at \in Ats, Goto(c, at)
  PROVE  Moved(c, at) /\ cmd'[c].left = cmd[c].left
<1>1. cmd[c] \in Command
  BY DEF Inv
<1>2. Others(c) /\ cmd'[c] = [cmd[c] EXCEPT !.at = at]
  BY BecomeView DEF Goto
<1> QED
  BY <1>1, <1>2 DEF Moved, Same, Command

LEMMA StartedView ==
  ASSUME Inv, NEW c \in Session, NEW op \in Ops, NEW d \in Discord \cup {None},
         NEW n \in Name \cup {None}, NEW x \in Id \cup Ip, NEW at \in Ats, NEW left \in SUBSET Client,
         \/ cmd' = [Started(c, op, d, n, x) EXCEPT ![c].at = at]
         \/ cmd' = [Started(c, op, d, n, x) EXCEPT ![c].at = at, ![c].left = left]
  PROVE  Begun(c, op, n, x, at)
<1> DEFINE crossing == {o \in Session \ {c} : cmd[o].of = x /\ Topics(cmd[o].op) \cap Topics(op) # {}}
           found == {k.token : k \in TokensOf(db, x)}
           as(f, q) == [Idle EXCEPT !.op = op, !.discord = d, !.name = n, !.of = x,
                                    !.found = f, !.crossed = q]
           mine == as(found, crossing # {})
           s == Started(c, op, d, n, x)
<1>1. s = [o \in Session |-> CASE o = c -> mine
                               [] o \in crossing -> [cmd[o] EXCEPT !.crossed = TRUE]
                               [] OTHER -> cmd[o]]
  BY DEF Started
<1>2. ASSUME NEW f \in SUBSET Token, NEW q \in BOOLEAN
      PROVE  /\ as(f, q) \in Command
             /\ as(f, q).op = op /\ as(f, q).of = x /\ as(f, q).name = n
             /\ as(f, q).found = f /\ as(f, q).crossed = q
  BY IdleType DEF Command
<1>3. ASSUME NEW o \in Session \ {c}
      PROVE  LET k == [cmd[o] EXCEPT !.crossed = TRUE]
             IN  /\ k.op = cmd[o].op /\ k.of = cmd[o].of /\ k.name = cmd[o].name
                 /\ k.found = cmd[o].found /\ k.at = cmd[o].at /\ k.token = cmd[o].token
                 /\ k.left = cmd[o].left /\ k.crossed
  <2>1. cmd[o] \in Command
    BY DEF Inv
  <2> QED
    BY <2>1 DEF Command
<1>f. found \in SUBSET Token
  BY DEF Inv, Rows, Stored, TokensOf, TokenRow
<1>q. (crossing # {}) \in BOOLEAN
  OBVIOUS
<1>m. /\ mine \in Command /\ mine.op = op /\ mine.of = x /\ mine.name = n
      /\ mine.found = found /\ mine.crossed = (crossing # {})
  <2> HIDE DEF as, found, crossing
  <2> QED
    BY <1>2, <1>f, <1>q
<1> HIDE DEF mine, as
<1>4. \A o \in Session \ {c} : s[o] = IF o \in crossing THEN [cmd[o] EXCEPT !.crossed = TRUE] ELSE cmd[o]
  BY <1>1
<1>5. s[c] = mine /\ s = [o \in Session |-> s[o]]
  BY <1>1
<1> HIDE DEF s
<1>6. \A o \in Session \ {c} : cmd'[o] = s[o]
  BY <1>5 DEF s
<1>7. cmd'[c] \in {[mine EXCEPT !.at = at], [mine EXCEPT !.at = at, !.left = left]}
  BY <1>5 DEF s
<1>8. /\ cmd'[c].op = op /\ cmd'[c].of = x /\ cmd'[c].name = n /\ cmd'[c].at = at
      /\ cmd'[c].found = found /\ cmd'[c].crossed = (crossing # {})
  <2> HIDE DEF found, crossing
  <2>1. CASE cmd'[c] = [mine EXCEPT !.at = at]
    BY <1>m, <2>1 DEF Command
  <2>2. CASE cmd'[c] = [mine EXCEPT !.at = at, !.left = left]
    BY <1>m, <2>2 DEF Command
  <2> QED
    BY <1>7, <2>1, <2>2
<1>9. ASSUME NEW o \in Session \ {c}
      PROVE  /\ cmd'[o].op = cmd[o].op /\ cmd'[o].of = cmd[o].of /\ cmd'[o].name = cmd[o].name
             /\ cmd'[o].found = cmd[o].found /\ cmd'[o].at = cmd[o].at
             /\ cmd'[o].token = cmd[o].token /\ cmd'[o].left = cmd[o].left
             /\ cmd[o].crossed => cmd'[o].crossed
             /\ o \in crossing => cmd'[o].crossed
  <2>1. cmd'[o] = IF o \in crossing THEN [cmd[o] EXCEPT !.crossed = TRUE] ELSE cmd[o]
    BY <1>4, <1>6
  <2> HIDE DEF crossing
  <2>2. CASE o \in crossing
    BY <1>3, <2>1, <2>2
  <2>3. CASE o \notin crossing
    BY <2>1, <2>3
  <2> QED
    BY <2>2, <2>3
<1> QED
  BY <1>8, <1>9 DEF Begun, Crosses

-----------------------------------------------------------------------------
(* What the statements do to the tables                                    *)

\* The tables, as SQLite keeps them: UNIQUE, and REFERENCES users.
Sound(t) ==
  /\ t \in Tables
  /\ \A id, other \in Users(t) :
       \/ t.users[id].discord = t.users[other].discord
       \/ t.users[id].name = t.users[other].name
       => id = other
  /\ \A k \in t.tokens : k.user \in Users(t)
  /\ t.bans \ Ip \subseteq Users(t)

\* No user is renamed, and whoever is new in u has a new id.
Follows(t, u) ==
  /\ t.last <= u.last
  /\ \A id \in Id : id <= t.last /\ id \in Users(u) =>
       id \in Users(t) /\ u.users[id].name = t.users[id].name

LEMMA FollowsItself == ASSUME NEW t, t \in Tables PROVE Follows(t, t)
BY TablesAssumption DEF Tables, Follows

LEMMA UserRow == \A r \in User : r # None /\ r.discord \in Discord /\ r.name \in Name
BY NoneAssumption DEF User

LEMMA UsersRows == ASSUME NEW t, t \in Tables, NEW id \in Users(t) PROVE id \in Id /\ t.users[id] \in User
BY DEF Users, Tables

LEMMA InsertUserEffect ==
  ASSUME NEW t, Sound(t), \A id \in Users(t) : id <= t.last, MayInsertUser(t),
         NEW d \in Discord, NEW n \in Name, UniqueUser(t, d, n)
  PROVE  LET u == InsertUser(t, d, n) IN
         /\ Sound(u) /\ Follows(t, u)
         /\ t.last + 1 \in Id /\ u.last = t.last + 1 /\ NextId(t) = t.last + 1
         /\ u.tokens = t.tokens /\ u.bans = t.bans
         /\ Users(u) = Users(t) \cup {t.last + 1}
<1> DEFINE i == t.last + 1
           r == [discord |-> d, name |-> n, staff |-> None, dev |-> None]
           u == InsertUser(t, d, n)
<1>1. NextId(t) = i
  BY AccountsAssumption DEF NextId
<1>2. t \in Tables /\ t.last \in 0..MaxId /\ i \in Id
  BY <1>1, TablesAssumption DEF Sound, Tables, MayInsertUser, Id
<1>3. r \in User /\ r.discord = d /\ r.name = n
  BY DEF User
<1>4. u = [t EXCEPT !.users[i] = r, !.last = i]
  BY <1>1 DEF InsertUser
<1> HIDE DEF u, r
<1>5. /\ u.last = i /\ u.tokens = t.tokens /\ u.bans = t.bans
      /\ u.users = [t.users EXCEPT ![i] = r] /\ u \in Tables
  <2>1. [t.users EXCEPT ![i] = r] \in [Id -> User \cup {None}]
    BY <1>2, <1>3 DEF Tables
  <2>2. i \in 0..MaxId
    BY <1>2, IdType
  <2> QED
    BY <1>2, <1>4, <2>1, <2>2 DEF Tables
<1>6. u.users[i] = r /\ \A id \in Id : id # i => u.users[id] = t.users[id]
  BY <1>2, <1>5 DEF Tables
<1>7. Users(u) = Users(t) \cup {i}
  BY <1>2, <1>3, <1>6, UserRow DEF Users
<1>8. t.last \in Nat /\ i > t.last /\ i \notin Users(t)
  <2>1. t.last \in Nat
    BY <1>2
  <2>2. i > t.last /\ ~(i <= t.last)
    BY <2>1
  <2> QED
    BY <2>1, <2>2
<1>9. Follows(t, u)
  <2>1. t.last <= u.last
    BY <1>5, <1>8
  <2>2. \A id \in Id : id <= t.last => id # i
    BY <1>8, IdType
  <2> QED
    BY <1>6, <1>7, <2>1, <2>2 DEF Follows
<1>10. ASSUME NEW id \in Users(u), NEW other \in Users(u),
              \/ u.users[id].discord = u.users[other].discord
              \/ u.users[id].name = u.users[other].name
       PROVE  id = other
  <2>0. \A x \in Users(t) : x \in Id /\ x # i /\ u.users[x] = t.users[x]
    BY <1>6, <1>8 DEF Users
  <2>1. \A x \in Users(t) : t.users[x].discord # d /\ t.users[x].name # n
    BY DEF UniqueUser, WithDiscord, WithName
  <2>2. CASE id # i /\ other # i
    <3>1. id \in Users(t) /\ other \in Users(t)
      BY <1>7, <2>2
    <3>2. \/ t.users[id].discord = t.users[other].discord
          \/ t.users[id].name = t.users[other].name
      BY <1>10, <2>0, <3>1
    <3> QED
      BY <3>1, <3>2 DEF Sound
  <2>3. CASE id = i \/ other = i
    BY <1>3, <1>6, <1>7, <1>10, <2>0, <2>1, <2>3
  <2> QED
    BY <2>2, <2>3
<1>11. Sound(u)
  BY <1>5, <1>7, <1>10 DEF Sound
<1> QED
  BY <1>1, <1>2, <1>5, <1>7, <1>9, <1>11 DEF u

\* Statements that leave the users alone.
LEMMA SameUsers ==
  ASSUME NEW t, Sound(t), NEW u, u \in Tables, u.users = t.users, u.last = t.last,
         \A k \in u.tokens : k \in t.tokens \/ k.user \in Users(t),
         u.bans \subseteq t.bans \cup Ip \cup Users(t)
  PROVE  Sound(u) /\ Follows(t, u) /\ Users(u) = Users(t)
<1>1. Users(u) = Users(t)
  BY DEF Users
<1>2. Sound(u)
  BY <1>1 DEF Sound
<1>3. t.last <= u.last
  BY TablesAssumption DEF Tables
<1> QED
  BY <1>1, <1>2, <1>3 DEF Follows

LEMMA DeleteTokensEffect ==
  ASSUME NEW t, Sound(t), NEW id
  PROVE  LET u == DeleteTokens(t, id) IN
         /\ Sound(u) /\ Follows(t, u) /\ Users(u) = Users(t)
         /\ u.tokens = {k \in t.tokens : k.user # id} /\ u.bans = t.bans
<1> DEFINE u == DeleteTokens(t, id)
<1>1. t \in Tables
  BY DEF Sound
<1>2. /\ u \in Tables /\ u.users = t.users /\ u.last = t.last /\ u.bans = t.bans
      /\ u.tokens = t.tokens \ TokensOf(t, id)
  BY <1>1 DEF DeleteTokens, Tables
<1> HIDE DEF u
<1>3. u.tokens = {k \in t.tokens : k.user # id}
  BY <1>2 DEF TokensOf
<1> QED
  BY <1>2, <1>3, SameUsers DEF u

LEMMA InsertTokenEffect ==
  ASSUME NEW t, Sound(t), NEW id \in Users(t), NEW token \in Token, NEW d \in Discord
  PROVE  LET u == InsertToken(t, id, token, d)
             r == [token |-> token, user |-> id, for |-> d] IN
         /\ Sound(u) /\ Follows(t, u) /\ Users(u) = Users(t)
         /\ r \in TokenRow /\ u.tokens = t.tokens \cup {r} /\ u.bans = t.bans
<1> DEFINE r == [token |-> token, user |-> id, for |-> d]
           u == InsertToken(t, id, token, d)
<1>1. t \in Tables /\ id \in Id
  BY DEF Sound, Users
<1>2. r \in TokenRow /\ r.user = id
  BY <1>1 DEF TokenRow
<1>3. /\ u.tokens = t.tokens \cup {r} /\ u.users = t.users /\ u.last = t.last
      /\ u.bans = t.bans /\ u \in Tables
  BY <1>1, <1>2 DEF InsertToken, Tables
<1> HIDE DEF u, r
<1>4. Sound(u) /\ Follows(t, u) /\ Users(u) = Users(t)
  BY <1>2, <1>3, SameUsers
<1> QED
  BY <1>2, <1>3, <1>4 DEF u, r

LEMMA BansEffect ==
  ASSUME NEW t, Sound(t), NEW x \in Id \cup Ip
  PROVE  /\ x \in Ip \cup Users(t) =>
              LET u == InsertBan(t, x) IN
              /\ Sound(u) /\ Follows(t, u) /\ Users(u) = Users(t)
              /\ u.tokens = t.tokens /\ u.bans = t.bans \cup {x}
         /\ LET u == DeleteBans(t, x) IN
              /\ Sound(u) /\ Follows(t, u) /\ Users(u) = Users(t)
              /\ u.tokens = t.tokens /\ u.bans = t.bans \ {x}
<1>0. t \in Tables
  BY DEF Sound
<1>1. ASSUME x \in Ip \cup Users(t)
      PROVE  LET u == InsertBan(t, x) IN
             /\ Sound(u) /\ Follows(t, u) /\ Users(u) = Users(t)
             /\ u.tokens = t.tokens /\ u.bans = t.bans \cup {x}
  <2> DEFINE u == InsertBan(t, x)
  <2>1. /\ u \in Tables /\ u.users = t.users /\ u.last = t.last /\ u.tokens = t.tokens
        /\ u.bans = t.bans \cup {x}
    BY <1>0 DEF InsertBan, Tables
  <2> HIDE DEF u
  <2>2. Sound(u) /\ Follows(t, u) /\ Users(u) = Users(t)
    BY <1>1, <2>1, SameUsers
  <2> QED
    BY <2>1, <2>2 DEF u
<1>2. LET u == DeleteBans(t, x) IN
      /\ Sound(u) /\ Follows(t, u) /\ Users(u) = Users(t)
      /\ u.tokens = t.tokens /\ u.bans = t.bans \ {x}
  <2> DEFINE u == DeleteBans(t, x)
  <2>1. /\ u \in Tables /\ u.users = t.users /\ u.last = t.last /\ u.tokens = t.tokens
        /\ u.bans = t.bans \ {x}
    BY <1>0 DEF DeleteBans, Tables
  <2> HIDE DEF u
  <2>2. Sound(u) /\ Follows(t, u) /\ Users(u) = Users(t)
    BY <2>1, SameUsers
  <2> QED
    BY <2>1, <2>2 DEF u
<1> QED
  BY <1>1, <1>2

\* The cascade: what refers to the user goes with him.
LEMMA DeleteUserEffect ==
  ASSUME NEW t, Sound(t), NEW x \in Id
  PROVE  LET u == DeleteUser(t, x) IN
         /\ Sound(u) /\ Follows(t, u) /\ Users(u) = Users(t) \ {x}
         /\ u.tokens = {k \in t.tokens : k.user # x} /\ u.bans = t.bans \ {x}
<1> DEFINE u == DeleteUser(t, x)
<1>1. t \in Tables
  BY DEF Sound
<1>2. /\ u \in Tables /\ u.last = t.last /\ u.users = [t.users EXCEPT ![x] = None]
      /\ u.tokens = t.tokens \ TokensOf(t, x) /\ u.bans = t.bans \ {x}
  BY <1>1, AccountsAssumption DEF DeleteUser, Tables
<1> HIDE DEF u
<1>3. u.tokens = {k \in t.tokens : k.user # x}
  BY <1>2 DEF TokensOf
<1>4. Users(u) = Users(t) \ {x} /\ \A id \in Users(u) : u.users[id] = t.users[id]
  BY <1>1, <1>2 DEF Users, Tables
<1>5. Sound(u)
  BY <1>2, <1>3, <1>4 DEF Sound
<1>6. t.last <= u.last
  BY <1>1, <1>2, TablesAssumption DEF Tables
<1>7. Follows(t, u)
  BY <1>4, <1>6 DEF Follows
<1> QED
  BY <1>2, <1>3, <1>4, <1>5, <1>7 DEF u

LEMMA SetRoleEffect ==
  ASSUME NEW t, Sound(t), NEW id, NEW op, NEW d \in Discord
  PROVE  LET u == SetRole(t, id, op, d) IN
         /\ Sound(u) /\ Follows(t, u) /\ Users(u) = Users(t)
         /\ u.tokens = t.tokens /\ u.bans = t.bans
<1> DEFINE u == SetRole(t, id, op, d)
<1>1. t \in Tables
  BY DEF Sound
<1>2. CASE id \notin Users(t)
  BY <1>1, <1>2, FollowsItself DEF SetRole
<1>3. CASE id \in Users(t)
  <2> DEFINE s == IF op \in {"GRANT_STAFF", "GRANT_DEV"} THEN d ELSE None
             e == CASE op = "GRANT_DEV" -> d [] op = "REVOKE_DEV" -> None
                    [] OTHER -> t.users[id].dev
             r == [t.users[id] EXCEPT !.staff = s, !.dev = e]
  <2>1. id \in Id /\ t.users[id] \in User
    BY <1>1, <1>3, UsersRows
  <2>2. s \in Discord \cup {None} /\ e \in Discord \cup {None}
    BY <2>1 DEF User
  <2>3. u = [t EXCEPT !.users[id].staff = s, !.users[id].dev = e]
    BY <1>3 DEF SetRole
  <2> HIDE DEF s, e, u
  <2>4. r \in User /\ r.discord = t.users[id].discord /\ r.name = t.users[id].name
    BY <2>1, <2>2 DEF User
  <2>5. u.last = t.last /\ u.tokens = t.tokens /\ u.bans = t.bans
    BY <1>1, <2>3 DEF Tables
  <2>6. u.users = [t.users EXCEPT ![id] = r] /\ u \in Tables
    BY <1>1, <2>1, <2>3, <2>4 DEF Tables
  <2> HIDE DEF r
  <2>7. u.users[id] = r /\ \A i \in Id : i # id => u.users[i] = t.users[i]
    BY <1>1, <2>1, <2>6 DEF Tables
  <2>8. Users(u) = Users(t)
    BY <1>3, <2>4, <2>7, UserRow DEF Users
  <2>9. \A i \in Users(t) : u.users[i].discord = t.users[i].discord /\ u.users[i].name = t.users[i].name
    BY <2>4, <2>7 DEF Users
  <2>10. Sound(u)
    BY <2>5, <2>6, <2>8, <2>9 DEF Sound
  <2>11. t.last <= u.last
    BY <1>1, <2>5, TablesAssumption DEF Tables
  <2>12. Follows(t, u)
    BY <2>8, <2>9, <2>11 DEF Follows
  <2> QED
    BY <2>5, <2>8, <2>10, <2>12 DEF u
<1> QED
  BY <1>2, <1>3

-----------------------------------------------------------------------------
(* The types, and what a command holds at each statement                   *)

OpsAt(at) ==
  CASE at = "none" -> {"none"}
    [] at \in {"name", "insert user", "commit user"} -> {"REGISTER"}
    [] at \in {"purge", "insert token", "commit token"} -> {"REGISTER", "ROTATE_TOKEN"}
    [] at \in {"delete user", "commit delete"} -> {"DELETE_REGISTRATION"}
    [] at \in {"insert ban", "commit ban", "kicked"} -> {"BAN_USER", "BAN_IP"}
    [] at = "delete ban" -> {"UNBAN_USER", "UNBAN_IP"}
    [] at = "update role" -> RoleCommands
    [] OTHER -> RoleCommands \cup {"UNBAN_USER", "UNBAN_IP"}

\* Statements before a command has a user.
Before == {"none", "name", "insert user"}

\* A command, with the tables t and the tokens 1..i drawn.
Placed(k, t, i) ==
  /\ k.op \in OpsAt(k.at)
  /\ IF k.at \in Before THEN k.of = None
     ELSE k.of \in IF k.op \in {"BAN_IP", "UNBAN_IP"} THEN Ip ELSE Id
  /\ k.of \in Id => k.of <= t.last
  /\ k.op = "BAN_USER" /\ k.of \in Users(t) => t.users[k.of].name = k.name
  /\ k.at \in Before \cup {"commit user"} => k.found = {}
  /\ k.found \subseteq 1..i
  /\ k.at = "commit token" => k.token \in 1..i

\* A join or a session: the user it is of, under his name.
Who(r, t) == /\ r.user \in Id => r.user <= t.last
             /\ r.user \in Users(t) => t.users[r.user].name = r.name

JoinAts == {"none", "validate", "ip ban", "user ban", "log", "open"}
JoinRec == [at : JoinAts, token : Token \cup {None}, user : Id \cup {None},
            name : Name \cup {None}, raced : SUBSET (Id \cup Ip)]
SessRec == [user : Id \cup {None}, name : Name \cup {None}, raced : SUBSET (Id \cup Ip)]

Joining(j) ==
  /\ Who(join[j], db) /\ Who(session[j], db)
  /\ join[j].at # "none" => session[j] = NoSession
  /\ join[j].at \notin {"none", "validate"} => join[j].user \in Id

Typed ==
  /\ Sound(db) /\ Sound(disk)
  /\ \A k \in db.tokens \cup disk.tokens : k.token <= issued
  /\ \A c \in Session : cmd[c].op \in Commands[c] \cup {"none"} /\ Placed(cmd[c], db, issued)
  /\ join \in [Client -> JoinRec] /\ session \in [Client -> SessRec]
  /\ \A j \in Client : Joining(j)
  /\ crashes \in 0..MaxCrashes
  /\ held \cup dead \subseteq 1..issued /\ banned \subseteq Id \cup Ip

-----------------------------------------------------------------------------
(* What the steps do, one view for the steps that are alike.               *)

\* Sessions only end.
Fewer == /\ session' \in [Client -> SessRec]
         /\ \A j \in Client : session'[j] \in {session[j], NoSession}

Writing(users, tokens, bans) ==
  /\ Sound(db') /\ Follows(db, db')
  /\ Users(db') = users /\ db'.tokens = tokens /\ db'.bans = bans

Rest == UNCHANGED <<join, session, issued, crashes, held, dead, banned>>

First(op) == CASE op = "ROTATE_TOKEN"             -> "purge"
               [] op = "DELETE_REGISTRATION"      -> "delete user"
               [] op \in {"BAN_USER", "BAN_IP"}     -> "insert ban"
               [] op \in {"UNBAN_USER", "UNBAN_IP"} -> "delete ban"
               [] OTHER                           -> "update role"

Begins(c) ==
  \E op \in Ops \ {"none", "REGISTER"}, n \in Name \cup {None}, x \in Id \cup Ip :
    /\ op \in Commands[c] /\ Begun(c, op, n, x, First(op))
    /\ IF op \in {"BAN_IP", "UNBAN_IP"} THEN x \in Ip ELSE x \in Users(db)
    /\ op = "BAN_USER" => db.users[x].name = n
    /\ Fewer /\ Question(op, x)
    /\ UNCHANGED <<db, disk, join, issued, crashes>>

\* It begins, or ends, or is on the way, without a user.
Unread(c) ==
  /\ Others(c)
  /\ cmd'[c].op \in Commands[c] \cup {"none"} /\ cmd'[c].op \in OpsAt(cmd'[c].at)
  /\ cmd'[c].at \in Before /\ cmd'[c].of = None /\ cmd'[c].found = {}
  /\ db' = db /\ disk' \in {disk, db} /\ Rest

Registers(c) ==
  /\ Others(c)
  /\ cmd[c].op = "REGISTER" /\ cmd'[c].op = "REGISTER" /\ cmd'[c].at = "commit user"
  /\ cmd'[c].of = db.last + 1 /\ cmd'[c].of \in Id /\ cmd'[c].found = {}
  /\ db'.last = db.last + 1
  /\ Writing(Users(db) \cup {db.last + 1}, db.tokens, db.bans)
  /\ disk' = disk /\ Rest

Advances(c) ==
  /\ \/ cmd[c].at = "commit user" /\ Moved(c, "purge")
     \/ cmd[c].at = "update role" /\ Moved(c, "commit")
  /\ Writing(Users(db), db.tokens, db.bans)
  /\ \/ disk' = disk
     \/ db' = db /\ disk' = db
  /\ Rest

Purges(c) ==
  /\ cmd[c].at = "purge" /\ Moved(c, "insert token")
  /\ Writing(Users(db), {k \in db.tokens : k.user # cmd[c].of}, db.bans)
  /\ disk' = disk /\ Rest

Draws(c) ==
  /\ cmd[c].at = "insert token" /\ cmd'[c].at = "commit token"
  /\ Others(c) /\ Same(cmd'[c], cmd[c]) /\ cmd'[c].token = issued + 1
  /\ \E r \in TokenRow : /\ r.token = issued + 1 /\ r.user = cmd[c].of
                         /\ Writing(Users(db), db.tokens \cup {r}, db.bans)
  /\ issued' = issued + 1 /\ issued' \in Token
  /\ disk' = disk /\ UNCHANGED <<join, session, crashes, held, dead, banned>>

Deletes(c) ==
  /\ cmd[c].at = "delete user" /\ Moved(c, "commit delete")
  /\ Writing(Users(db) \ {cmd[c].of}, {k \in db.tokens : k.user # cmd[c].of}, db.bans \ {cmd[c].of})
  /\ disk' = disk /\ Rest

Bans(c) ==
  /\ cmd[c].at = "insert ban" /\ Moved(c, "commit ban")
  /\ cmd[c].op = "BAN_USER" => cmd[c].of \in Users(db)
  /\ Writing(Users(db), db.tokens, db.bans \cup {cmd[c].of})
  /\ join' \in [Client -> JoinRec]
  /\ \A j \in Client :
       /\ join'[j].at = join[j].at /\ join'[j].user = join[j].user /\ join'[j].name = join[j].name
       /\ join[j].raced \subseteq join'[j].raced
       /\ j \in PastCheck(cmd[c].of) => cmd[c].of \in join'[j].raced
  /\ disk' = disk /\ UNCHANGED <<session, issued, crashes, held, dead, banned>>

Kicks(c) ==
  /\ cmd[c].at = "commit ban" /\ Moved(c, "kicked")
  /\ Fewer
  /\ \A j \in IF cmd[c].op = "BAN_IP" THEN FromHost(cmd[c].of) ELSE Named(cmd[c].name) :
       j \in cmd'[c].left \/ session'[j] = NoSession
  /\ db' = db /\ disk' = db /\ UNCHANGED <<join, issued, crashes, held, dead, banned>>

KicksNext(c) ==
  /\ Moved(c, cmd[c].at)
  /\ Fewer
  /\ \A j \in cmd[c].left : j \in cmd'[c].left \/ session'[j] = NoSession
  /\ UNCHANGED <<db, disk, join, issued, crashes, held, dead, banned>>

Unbans(c) ==
  /\ cmd[c].at = "delete ban" /\ Moved(c, "commit")
  /\ Writing(Users(db), db.tokens, db.bans \ {cmd[c].of})
  /\ disk' = disk /\ Rest

AnswersToken(c) ==
  /\ cmd[c].at = "commit token" /\ Ended(c)
  /\ held' = IF cmd[c].crossed THEN held ELSE held \cup {cmd[c].token}
  /\ dead' = dead \cup cmd[c].found
  /\ db' = db /\ disk' = db /\ UNCHANGED <<join, session, issued, crashes, banned>>

AnswersDelete(c) ==
  /\ cmd[c].at = "commit delete" /\ Ended(c)
  /\ dead' = dead \cup cmd[c].found
  /\ db' = db /\ disk' = db /\ UNCHANGED <<join, session, issued, crashes, held, banned>>

AnswersBan(c) ==
  /\ cmd[c].at = "kicked" /\ cmd[c].left = {} /\ Ended(c)
  /\ banned' = IF cmd[c].crossed THEN banned ELSE banned \cup {cmd[c].of}
  /\ UNCHANGED <<db, disk, join, session, issued, crashes, held, dead>>

\* A client, or the log of connections.
Elsewhere ==
  /\ cmd' = cmd /\ db' = db /\ disk' \in {disk, db}
  /\ UNCHANGED <<issued, crashes, held, dead, banned>>

View(c) ==
  \/ Begins(c) \/ Unread(c) \/ Registers(c) \/ Advances(c)
  \/ Purges(c) \/ Draws(c) \/ Deletes(c)
  \/ Bans(c) \/ Kicks(c) \/ KicksNext(c) \/ Unbans(c)
  \/ AnswersToken(c) \/ AnswersDelete(c) \/ AnswersBan(c)

LEMMA Quiet ==
  ASSUME NEW op \in Ops \ {"ROTATE_TOKEN", "DELETE_REGISTRATION", "UNBAN_USER", "UNBAN_IP"}, NEW x,
         UNCHANGED history
  PROVE  Question(op, x)
BY DEF history, Question

\* The command c of s goes on to at, with left to close of the targets.
Leaving(c, s, targets, at, left) ==
  /\ \/ cmd' = [s EXCEPT ![c].at = at] /\ targets = {}
     \/ cmd' = [s EXCEPT ![c].at = at, ![c].left = left]
  /\ \A j \in targets : j \in left \/ session'[j] = NoSession

LEMMA NoSessionType == NoSession \in SessRec /\ NoJoin \in JoinRec
BY DEF NoJoin, NoSession, JoinRec, SessRec, JoinAts

LEMMA KickFewer ==
  ASSUME Typed, NEW c, NEW s, NEW targets \in SUBSET Client, NEW at, Kick(c, s, targets, at)
  PROVE  Fewer /\ \E left \in SUBSET Client : Leaving(c, s, targets, at, left)
<1>1. CASE targets = {} /\ session' = session /\ cmd' = [s EXCEPT ![c].at = at]
  <2>1. Fewer
    BY <1>1 DEF Fewer, Typed
  <2>2. Leaving(c, s, targets, at, {}) /\ {} \in SUBSET Client
    BY <1>1 DEF Leaving
  <2> QED
    BY <2>1, <2>2
<1>2. ASSUME NEW j \in targets, session' = [session EXCEPT ![j] = NoSession],
             cmd' = [s EXCEPT ![c].at = at, ![c].left = targets \ {j}]
      PROVE  Fewer /\ \E left \in SUBSET Client : Leaving(c, s, targets, at, left)
  <2>1. session'[j] = NoSession /\ Fewer
    BY <1>2, NoSessionType DEF Fewer, Typed
  <2>2. Leaving(c, s, targets, at, targets \ {j}) /\ targets \ {j} \in SUBSET Client
    BY <1>2, <2>1 DEF Leaving
  <2> QED
    BY <2>1, <2>2
<1>3. \/ targets = {} /\ session' = session /\ cmd' = [s EXCEPT ![c].at = at]
      \/ \E j \in targets : /\ session' = [session EXCEPT ![j] = NoSession]
                            /\ cmd' = [s EXCEPT ![c].at = at, ![c].left = targets \ {j}]
  BY DEF Kick
<1>4. CASE targets = {} /\ session' = session /\ cmd' = [s EXCEPT ![c].at = at]
  BY <1>1, <1>4
<1>5. CASE \E j \in targets : /\ session' = [session EXCEPT ![j] = NoSession]
                              /\ cmd' = [s EXCEPT ![c].at = at, ![c].left = targets \ {j}]
  <2>1. PICK j \in targets : /\ session' = [session EXCEPT ![j] = NoSession]
                             /\ cmd' = [s EXCEPT ![c].at = at, ![c].left = targets \ {j}]
    BY <1>5
  <2> QED
    BY <1>2, <2>1
<1> QED
  BY <1>3, <1>4, <1>5

LEMMA BeginsView ==
  ASSUME Inv, Typed, NEW c \in Session,
         \/ \E d \in Discord : Rotate(c, d) \/ Delete(c, d)
         \/ \E d \in Discord, op \in RoleCommands : ChangeRole(c, d, op)
         \/ \E n \in Name : BanUser(c, n) \/ UnbanUser(c, n)
         \/ \E ip \in Ip : BanIp(c, ip) \/ UnbanIp(c, ip)
  PROVE  Begins(c)
<1>0. /\ \A op \in RoleCommands : op \in Ops \ {"none", "REGISTER"} /\ First(op) = "update role"
      /\ {"ROTATE_TOKEN", "DELETE_REGISTRATION", "BAN_USER", "UNBAN_USER", "BAN_IP", "UNBAN_IP"}
           \subseteq Ops \ {"none", "REGISTER"}
      /\ First("ROTATE_TOKEN") = "purge" /\ First("DELETE_REGISTRATION") = "delete user"
      /\ First("BAN_USER") = "insert ban" /\ First("BAN_IP") = "insert ban"
      /\ First("UNBAN_USER") = "delete ban" /\ First("UNBAN_IP") = "delete ban"
      /\ {"purge", "delete user", "insert ban", "delete ban", "update role"} \subseteq Ats
  BY DEF RoleCommands, Ops, Ats, First
<1>f. UNCHANGED session => Fewer
  BY DEF Fewer, Typed
<1>w. /\ \A d, id : id \in WithDiscord(db, d) => id \in Users(db) /\ id \in Id
      /\ \A n, id : id \in WithName(db, n) => id \in Users(db) /\ id \in Id /\ db.users[id].name = n
      /\ {} \in SUBSET Client
  BY DEF WithDiscord, WithName, Users
\* What a command on x with the answers of StartedView amounts to.
<1>s. ASSUME NEW op \in Ops \ {"none", "REGISTER"}, NEW d \in Discord \cup {None},
             NEW n \in Name \cup {None}, NEW x \in Id \cup Ip, NEW left \in SUBSET Client,
             \/ cmd' = [Started(c, op, d, n, x) EXCEPT ![c].at = First(op)]
             \/ cmd' = [Started(c, op, d, n, x) EXCEPT ![c].at = First(op), ![c].left = left],
             First(op) \in Ats,
             op \in Commands[c], Question(op, x), Fewer,
             IF op \in {"BAN_IP", "UNBAN_IP"} THEN x \in Ip ELSE x \in Users(db),
             op = "BAN_USER" => db.users[x].name = n,
             UNCHANGED <<db, disk, join, issued, crashes>>
      PROVE  Begins(c)
  <2>1. Begun(c, op, n, x, First(op))
    BY <1>s, StartedView
  <2> QED
    BY <1>s, <2>1 DEF Begins
<1>1. ASSUME NEW d \in Discord, Rotate(c, d) PROVE Begins(c)
  <2>1. PICK id \in WithDiscord(db, d) :
          /\ cmd' = [Started(c, "ROTATE_TOKEN", d, None, id) EXCEPT ![c].at = "purge"]
          /\ Question("ROTATE_TOKEN", id)
    BY <1>1 DEF Rotate
  <2>2. /\ "ROTATE_TOKEN" \in Commands[c] /\ Fewer /\ UNCHANGED <<db, disk, join, issued, crashes>>
    BY <1>1, <1>f DEF Rotate
  <2> QED
    BY <1>0, <1>w, <1>s, <2>1, <2>2
<1>2. ASSUME NEW d \in Discord, Delete(c, d) PROVE Begins(c)
  <2>1. PICK id \in WithDiscord(db, d) :
          /\ Kick(c, Started(c, "DELETE_REGISTRATION", d, None, id), Named(db.users[id].name), "delete user")
          /\ Question("DELETE_REGISTRATION", id)
    BY <1>2 DEF Delete
  <2>2. Named(db.users[id].name) \in SUBSET Client
    BY DEF Named
  <2> DEFINE s == Started(c, "DELETE_REGISTRATION", d, None, id)
  <2>k. Kick(c, s, Named(db.users[id].name), "delete user")
    BY <2>1
  <2> HIDE DEF s
  <2>5. Fewer
    BY <2>k, <2>2, KickFewer
  <2>3. PICK left \in SUBSET Client :
          Leaving(c, s, Named(db.users[id].name), "delete user", left)
    BY <2>k, <2>2, KickFewer
  <2>6. \/ cmd' = [s EXCEPT ![c].at = "delete user"]
        \/ cmd' = [s EXCEPT ![c].at = "delete user", ![c].left = left]
    BY <2>3 DEF Leaving
  <2>4. "DELETE_REGISTRATION" \in Commands[c] /\ UNCHANGED <<db, disk, join, issued, crashes>>
    BY <1>2 DEF Delete
  <2> QED
    <3>1. /\ id \in Users(db) /\ id \in Id /\ First("DELETE_REGISTRATION") = "delete user"
          /\ "DELETE_REGISTRATION" \in Ops \ {"none", "REGISTER"} /\ "delete user" \in Ats
      BY <1>0, <1>w
    <3>2. \/ cmd' = [s EXCEPT ![c].at = First("DELETE_REGISTRATION")]
          \/ cmd' = [s EXCEPT ![c].at = First("DELETE_REGISTRATION"), ![c].left = left]
      BY <2>6, <3>1
    <3>3. Begun(c, "DELETE_REGISTRATION", None, id, First("DELETE_REGISTRATION"))
      BY <3>1, <3>2, StartedView DEF s
    <3> QED
      BY <2>1, <2>4, <2>5, <3>1, <3>3 DEF Begins
<1>3. ASSUME NEW d \in Discord, NEW op \in RoleCommands, ChangeRole(c, d, op) PROVE Begins(c)
  <2>1. PICK id \in WithDiscord(db, d) :
          cmd' = [Started(c, op, d, None, id) EXCEPT ![c].at = "update role"]
    BY <1>3 DEF ChangeRole
  <2>2. /\ op \in Commands[c] /\ Fewer /\ UNCHANGED <<db, disk, join, issued, crashes>>
        /\ UNCHANGED history
    BY <1>3, <1>f DEF ChangeRole, Reads
  <2>3. /\ op \in Ops \ {"ROTATE_TOKEN", "DELETE_REGISTRATION", "UNBAN_USER", "UNBAN_IP"}
        /\ op \notin {"BAN_IP", "UNBAN_IP", "BAN_USER"}
    BY DEF RoleCommands, Ops
  <2>4. Question(op, id)
    BY <2>2, <2>3, Quiet
  <2> QED
    BY <1>0, <1>w, <1>s, <2>1, <2>2, <2>3, <2>4
<1>4. ASSUME NEW n \in Name, BanUser(c, n) PROVE Begins(c)
  <2>1. PICK id \in WithName(db, n) :
          cmd' = [Started(c, "BAN_USER", None, n, id) EXCEPT ![c].at = "insert ban"]
    BY <1>4 DEF BanUser
  <2>2. /\ "BAN_USER" \in Commands[c] /\ Fewer /\ UNCHANGED <<db, disk, join, issued, crashes>>
        /\ UNCHANGED history
    BY <1>4, <1>f DEF BanUser, Reads
  <2>3. Question("BAN_USER", id)
    BY <1>0, <2>2, Quiet
  <2> QED
    BY <1>0, <1>w, <1>s, <2>1, <2>2, <2>3
<1>5. ASSUME NEW n \in Name, UnbanUser(c, n) PROVE Begins(c)
  <2>1. PICK id \in WithName(db, n) :
          /\ cmd' = [Started(c, "UNBAN_USER", None, n, id) EXCEPT ![c].at = "delete ban"]
          /\ Question("UNBAN_USER", id)
    BY <1>5 DEF UnbanUser
  <2>2. /\ "UNBAN_USER" \in Commands[c] /\ Fewer /\ UNCHANGED <<db, disk, join, issued, crashes>>
    BY <1>5, <1>f DEF UnbanUser
  <2> QED
    BY <1>0, <1>w, <1>s, <2>1, <2>2
<1>6. ASSUME NEW ip \in Ip, BanIp(c, ip) PROVE Begins(c)
  <2>1. cmd' = [Started(c, "BAN_IP", None, None, ip) EXCEPT ![c].at = "insert ban"]
    BY <1>6 DEF BanIp
  <2>2. /\ "BAN_IP" \in Commands[c] /\ Fewer /\ UNCHANGED <<db, disk, join, issued, crashes>>
        /\ UNCHANGED history
    BY <1>6, <1>f DEF BanIp, Reads
  <2>3. Question("BAN_IP", ip)
    BY <1>0, <2>2, Quiet
  <2> QED
    BY <1>0, <1>w, <1>s, <2>1, <2>2, <2>3
<1>7. ASSUME NEW ip \in Ip, UnbanIp(c, ip) PROVE Begins(c)
  <2>1. /\ cmd' = [Started(c, "UNBAN_IP", None, None, ip) EXCEPT ![c].at = "delete ban"]
        /\ Question("UNBAN_IP", ip)
    BY <1>7 DEF UnbanIp
  <2>2. /\ "UNBAN_IP" \in Commands[c] /\ Fewer /\ UNCHANGED <<db, disk, join, issued, crashes>>
    BY <1>7, <1>f DEF UnbanIp
  <2> QED
    BY <1>0, <1>w, <1>s, <2>1, <2>2
<1> QED
  BY <1>1, <1>2, <1>3, <1>4, <1>5, <1>6, <1>7

LEMMA UnreadView ==
  ASSUME Inv, Typed, NEW c \in Session,
         \/ \E d \in Discord, n \in Name : Register(c, d, n)
         \/ RegisterName(c) \/ RegisterRefused(c) \/ TokenRefused(c) \/ BanRefused(c) \/ Committed(c)
  PROVE  Unread(c)
<1>a. /\ OpsAt("none") = {"none"} /\ OpsAt("name") = {"REGISTER"} /\ OpsAt("insert user") = {"REGISTER"}
      /\ {"none", "name", "insert user"} \subseteq Before \cap Ats
  BY DEF OpsAt, Before, Ats
<1>e. ASSUME End(c), db' = db, disk' \in {disk, db}, Rest PROVE Unread(c)
  BY <1>a, <1>e, EndView, IdleFields DEF Ended, Unread
<1>1. ASSUME NEW d \in Discord, NEW n \in Name, Register(c, d, n) PROVE Unread(c)
  <2> DEFINE k == [Idle EXCEPT !.op = "REGISTER", !.at = "name", !.discord = d, !.name = n]
  <2>1. Others(c) /\ cmd'[c] = k
    BY <1>1, BecomeView DEF Register
  <2>2. k.op = "REGISTER" /\ k.at = "name" /\ k.of = None /\ k.found = {}
    BY IdleType, IdleFields DEF Command
  <2>3. "REGISTER" \in Commands[c] /\ db' = db /\ disk' = disk /\ Rest
    BY <1>1 DEF Register, Reads, history, Rest
  <2> QED
    BY <1>a, <2>1, <2>2, <2>3 DEF Unread
<1>2. CASE RegisterName(c)
  <2>1. db' = db /\ disk' = disk /\ Rest
    BY <1>2 DEF RegisterName, Reads, history, Rest
  <2>2. CASE End(c)
    BY <2>1, <2>2, <1>e
  <2>3. CASE Goto(c, "insert user")
    <3>1. Moved(c, "insert user")
      BY <1>a, <2>3, GotoView
    <3>2. /\ cmd[c].op \in {"REGISTER"} /\ cmd[c].of = None /\ cmd[c].found = {}
          /\ cmd[c].op \in Commands[c] \cup {"none"}
      BY <1>2, <1>a DEF RegisterName, Typed, Placed, Before
    <3> QED
      BY <1>a, <2>1, <3>1, <3>2 DEF Unread, Moved, Same
  <2> QED
    BY <1>2, <2>2, <2>3 DEF RegisterName
<1>3. CASE RegisterRefused(c) \/ TokenRefused(c) \/ BanRefused(c) \/ Committed(c)
  <2>1. End(c) /\ db' = db /\ disk' \in {disk, db} /\ Rest
    BY <1>3 DEF RegisterRefused, TokenRefused, BanRefused, Committed, Reads, Commits, history, Rest
  <2> QED
    BY <2>1, <1>e
<1> QED
  BY <1>1, <1>2, <1>3

\* Where a command is at a statement with a user or an address.
LEMMA OfType ==
  ASSUME Typed, NEW c \in Session
  PROVE  /\ cmd[c].at \notin Before => cmd[c].of \in Id \cup Ip
         /\ cmd[c].at \in {"commit user", "purge", "insert token", "commit token", "delete user",
                           "commit delete", "update role"} => cmd[c].of \in Id
         /\ cmd[c].op = "BAN_USER" =>
              cmd[c].at \in {"insert ban", "commit ban", "kicked"} /\ cmd[c].of \in Id
<1>1. Placed(cmd[c], db, issued)
  BY DEF Typed
<1>2. cmd[c].op \in OpsAt(cmd[c].at)
  BY <1>1 DEF Placed
<1>3. cmd[c].op = "BAN_USER" => cmd[c].at \in {"insert ban", "commit ban", "kicked"}
  BY <1>2 DEF OpsAt, RoleCommands
<1>4. cmd[c].at \in {"commit user", "purge", "insert token", "commit token", "delete user",
                     "commit delete", "update role"} => cmd[c].op \notin {"BAN_IP", "UNBAN_IP"}
  BY <1>2 DEF OpsAt, RoleCommands
<1> QED
  BY <1>1, <1>3, <1>4 DEF Placed, Before

LEMMA RegistersView ==
  ASSUME Inv, Typed, NEW c \in Session, RegisterInsert(c)
  PROVE  Registers(c)
<1> DEFINE k == cmd[c]
<1>1. /\ k.at = "insert user" /\ UniqueUser(db, k.discord, k.name) /\ MayInsertUser(db)
      /\ cmd' = [cmd EXCEPT ![c] = [k EXCEPT !.at = "commit user", !.of = NextId(db)]]
      /\ db' = InsertUser(db, k.discord, k.name) /\ disk' = disk /\ Rest
  BY DEF RegisterInsert, Become, Writes, history, Rest
<1>2. k \in Command /\ k.discord \in Discord /\ k.name \in Name
  BY <1>1 DEF Inv, Reading
<1>3. Sound(db) /\ \A id \in Users(db) : id <= db.last
  BY DEF Inv, Rows, Typed
<1>4. /\ Sound(db') /\ Follows(db, db')
      /\ db.last + 1 \in Id /\ db'.last = db.last + 1 /\ NextId(db) = db.last + 1
      /\ db'.tokens = db.tokens /\ db'.bans = db.bans
      /\ Users(db') = Users(db) \cup {db.last + 1}
  BY <1>1, <1>2, <1>3, InsertUserEffect
<1>5. k.op \in {"REGISTER"} /\ k.found = {}
  <2>1. Placed(k, db, issued) /\ OpsAt("insert user") = {"REGISTER"}
    BY DEF Typed, OpsAt
  <2> QED
    BY <1>1, <2>1 DEF Placed, Before
<1>6. Others(c) /\ cmd'[c] = [k EXCEPT !.at = "commit user", !.of = NextId(db)]
  BY <1>1 DEF Others, Inv
<1>7. cmd'[c].op = k.op /\ cmd'[c].at = "commit user" /\ cmd'[c].of = NextId(db) /\ cmd'[c].found = k.found
  BY <1>2, <1>6 DEF Command
<1> QED
  BY <1>1, <1>4, <1>5, <1>6, <1>7 DEF Registers, Writing

LEMMA AdvancesView ==
  ASSUME Inv, Typed, NEW c \in Session, RegisterCommit(c) \/ UpdatesRole(c)
  PROVE  Advances(c)
<1>0. Sound(db) /\ Follows(db, db) /\ {"purge", "commit"} \subseteq Ats
  BY FollowsItself DEF Typed, Sound, Ats
<1>1. CASE RegisterCommit(c)
  <2>1. cmd[c].at = "commit user" /\ Goto(c, "purge") /\ db' = db /\ disk' = db /\ Rest
    BY <1>1 DEF RegisterCommit, Commits, history, Rest
  <2>2. Moved(c, "purge")
    BY <1>0, <2>1, GotoView
  <2>3. Writing(Users(db), db.tokens, db.bans)
    BY <1>0, <2>1 DEF Writing
  <2> QED
    BY <2>1, <2>2, <2>3 DEF Advances
<1>2. CASE UpdatesRole(c)
  <2>1. /\ cmd[c].at = "update role" /\ Goto(c, "commit") /\ disk' = disk /\ Rest
        /\ db' = SetRole(db, cmd[c].of, cmd[c].op, cmd[c].discord)
    BY <1>2 DEF UpdatesRole, Writes, history, Rest
  <2>2. Moved(c, "commit")
    BY <1>0, <2>1, GotoView
  <2>3. cmd[c].discord \in Discord
    BY <2>1 DEF Inv, Reading, Using
  <2>4. Writing(Users(db), db.tokens, db.bans)
    BY <1>0, <2>1, <2>3, SetRoleEffect DEF Writing
  <2> QED
    BY <2>1, <2>2, <2>4 DEF Advances
<1> QED
  BY <1>1, <1>2

LEMMA TokensView ==
  ASSUME Inv, Typed, NEW c \in Session
  PROVE  /\ Purge(c) => Purges(c)
         /\ InsertsToken(c) => Draws(c)
         /\ TokenAnswered(c) => AnswersToken(c)
<1>0. Sound(db) /\ cmd[c] \in Command /\ {"insert token"} \subseteq Ats
  BY DEF Typed, Inv, Ats
<1>1. ASSUME Purge(c) PROVE Purges(c)
  <2>1. /\ cmd[c].at = "purge" /\ Goto(c, "insert token") /\ disk' = disk /\ Rest
        /\ db' = DeleteTokens(db, cmd[c].of)
    BY <1>1 DEF Purge, Writes, history, Rest
  <2>2. Moved(c, "insert token")
    BY <1>0, <2>1, GotoView
  <2>3. Writing(Users(db), {k \in db.tokens : k.user # cmd[c].of}, db.bans)
    BY <1>0, <2>1, DeleteTokensEffect DEF Writing
  <2> QED
    BY <2>1, <2>2, <2>3 DEF Purges
<1>2. ASSUME InsertsToken(c) PROVE Draws(c)
  <2> DEFINE k == cmd[c]
  <2>1. /\ k.at = "insert token" /\ Referable(db, k.of) /\ issued < MaxTokens /\ issued' = issued + 1
        /\ db' = InsertToken(db, k.of, issued', k.discord)
        /\ Become(c, [k EXCEPT !.at = "commit token", !.token = issued'])
        /\ disk' = disk /\ UNCHANGED <<join, session, crashes, held, dead, banned>>
    BY <1>2 DEF InsertsToken, history
  <2>2. issued + 1 \in Token
    <3>1. issued \in 0..MaxTokens /\ MaxTokens \in Nat
      BY TablesAssumption DEF Inv
    <3>2. issued < MaxTokens
      BY <2>1
    <3>3. issued + 1 \in 1..MaxTokens
      BY ONLY <3>1, <3>2
    <3> QED
      BY <3>3 DEF Token
  <2>3. k.of \in Users(db) /\ k.discord \in Discord
    BY <2>1, AccountsAssumption DEF Referable, Inv, Reading, Using
  <2>4. \E r \in TokenRow : /\ r.token = issued + 1 /\ r.user = k.of
                            /\ Writing(Users(db), db.tokens \cup {r}, db.bans)
    <3>1. db' = InsertToken(db, k.of, issued + 1, k.discord)
      BY <2>1
    <3> DEFINE r == [token |-> issued + 1, user |-> k.of, for |-> k.discord]
    <3>2. /\ Sound(db') /\ Follows(db, db') /\ Users(db') = Users(db) /\ db'.bans = db.bans
          /\ r \in TokenRow /\ db'.tokens = db.tokens \cup {r}
      <4>1. Sound(db) /\ k.of \in Users(db) /\ issued + 1 \in Token /\ k.discord \in Discord
        BY <1>0, <2>2, <2>3
      <4>2. LET u == InsertToken(db, k.of, issued + 1, k.discord) IN
            /\ Sound(u) /\ Follows(db, u) /\ Users(u) = Users(db)
            /\ r \in TokenRow /\ u.tokens = db.tokens \cup {r} /\ u.bans = db.bans
        <5> HIDE DEF k
        <5> QED
          BY <4>1, InsertTokenEffect
      <4> QED
        BY <3>1, <4>2
    <3>3. r.token = issued + 1 /\ r.user = k.of
      OBVIOUS
    <3> HIDE DEF r
    <3>4. Writing(Users(db), db.tokens \cup {r}, db.bans)
      BY <3>2 DEF Writing
    <3> QED
      BY <3>2, <3>3, <3>4
  <2>5. Others(c) /\ cmd'[c] = [k EXCEPT !.at = "commit token", !.token = issued + 1]
    BY <2>1, BecomeView
  <2>6. cmd'[c].at = "commit token" /\ Same(cmd'[c], k) /\ cmd'[c].token = issued + 1
    BY <1>0, <2>5 DEF Command, Same
  <2> QED
    BY <2>1, <2>2, <2>4, <2>5, <2>6 DEF Draws
<1>3. ASSUME TokenAnswered(c) PROVE AnswersToken(c)
  <2>1. Ended(c)
    BY <1>3, EndView DEF TokenAnswered
  <2> QED
    BY <1>3, <2>1 DEF TokenAnswered, Commits, AnswersToken
<1> QED
  BY <1>1, <1>2, <1>3

LEMMA DeletesView ==
  ASSUME Inv, Typed, NEW c \in Session
  PROVE  /\ DeletesUser(c) => Deletes(c)
         /\ DeleteAnswered(c) => AnswersDelete(c)
<1>1. ASSUME DeletesUser(c) PROVE Deletes(c)
  <2>1. /\ cmd[c].at = "delete user" /\ Goto(c, "commit delete") /\ disk' = disk /\ Rest
        /\ db' = DeleteUser(db, cmd[c].of)
    BY <1>1 DEF DeletesUser, Writes, history, Rest
  <2>2. "commit delete" \in Ats /\ Sound(db) /\ cmd[c].of \in Id
    BY <2>1, OfType DEF Ats, Typed
  <2>3. Moved(c, "commit delete")
    BY <2>1, <2>2, GotoView
  <2>4. Writing(Users(db) \ {cmd[c].of}, {k \in db.tokens : k.user # cmd[c].of}, db.bans \ {cmd[c].of})
    BY <2>1, <2>2, DeleteUserEffect DEF Writing
  <2> QED
    BY <2>1, <2>3, <2>4 DEF Deletes
<1>2. ASSUME DeleteAnswered(c) PROVE AnswersDelete(c)
  <2>1. Ended(c)
    BY <1>2, EndView DEF DeleteAnswered
  <2> QED
    BY <1>2, <2>1 DEF DeleteAnswered, Commits, AnswersDelete
<1> QED
  BY <1>1, <1>2

\* What the join of a client has missed, once a ban is inserted.
LEMMA RacedView ==
  ASSUME Typed, NEW x \in Id \cup Ip,
         join' = [j \in Client |-> IF j \in PastCheck(x)
                                   THEN [join[j] EXCEPT !.raced = @ \cup {x}] ELSE join[j]]
  PROVE  /\ join' \in [Client -> JoinRec]
         /\ \A j \in Client :
              /\ join'[j].at = join[j].at /\ join'[j].user = join[j].user /\ join'[j].name = join[j].name
              /\ join[j].raced \subseteq join'[j].raced
              /\ j \in PastCheck(x) => x \in join'[j].raced
<1>1. ASSUME NEW j \in Client
      PROVE  /\ join'[j] \in JoinRec
             /\ join'[j].at = join[j].at /\ join'[j].user = join[j].user /\ join'[j].name = join[j].name
             /\ join[j].raced \subseteq join'[j].raced
             /\ j \in PastCheck(x) => x \in join'[j].raced
  <2>1. join[j] \in JoinRec
    BY DEF Typed
  <2>2. CASE j \in PastCheck(x)
    <3>1. join'[j] = [join[j] EXCEPT !.raced = @ \cup {x}]
      BY <2>2
    <3> QED
      BY <2>1, <3>1 DEF JoinRec
  <2>3. CASE j \notin PastCheck(x)
    BY <2>1, <2>3
  <2> QED
    BY <2>2, <2>3
<1> QED
  BY <1>1

LEMMA BansView ==
  ASSUME Inv, Typed, NEW c \in Session
  PROVE  /\ InsertsBan(c) => Bans(c)
         /\ BanCommitted(c) => Kicks(c)
         /\ KickNext(c) => KicksNext(c)
         /\ BanAnswered(c) => AnswersBan(c)
         /\ DeletesBan(c) => Unbans(c)
<1>0. Sound(db) /\ cmd[c] \in Command /\ {"commit ban", "kicked", "commit"} \subseteq Ats
  BY DEF Typed, Inv, Ats
<1>1. ASSUME InsertsBan(c) PROVE Bans(c)
  <2>1. /\ cmd[c].at = "insert ban" /\ Goto(c, "commit ban")
        /\ cmd[c].op = "BAN_USER" => Referable(db, cmd[c].of)
        /\ db' = InsertBan(db, cmd[c].of)
        /\ disk' = disk /\ UNCHANGED <<session, issued, crashes, held, dead, banned>>
        /\ join' = [j \in Client |-> IF j \in PastCheck(cmd[c].of)
                                     THEN [join[j] EXCEPT !.raced = @ \cup {cmd[c].of}] ELSE join[j]]
    BY <1>1 DEF InsertsBan, history
  <2>2. Moved(c, "commit ban")
    BY <1>0, <2>1, GotoView
  <2>3. cmd[c].of \in Ip \cup Users(db) /\ cmd[c].of \in Id \cup Ip
    <3>1. cmd[c].op \in {"BAN_USER", "BAN_IP"} /\ (cmd[c].op = "BAN_IP" => cmd[c].of \in Ip)
      <4>1. Placed(cmd[c], db, issued) /\ OpsAt("insert ban") = {"BAN_USER", "BAN_IP"}
        BY DEF Typed, OpsAt
      <4> QED
        BY <2>1, <4>1 DEF Placed, Before
    <3>2. cmd[c].op = "BAN_USER" => cmd[c].of \in Users(db)
      BY <2>1, AccountsAssumption DEF Referable
    <3> QED
      BY <3>1, <3>2 DEF Users
  <2>4. Writing(Users(db), db.tokens, db.bans \cup {cmd[c].of})
    BY <1>0, <2>1, <2>3, BansEffect DEF Writing
  <2>5. cmd[c].op = "BAN_USER" => cmd[c].of \in Users(db)
    BY <2>1, AccountsAssumption DEF Referable
  <2>6. /\ join' \in [Client -> JoinRec]
        /\ \A j \in Client :
             /\ join'[j].at = join[j].at /\ join'[j].user = join[j].user /\ join'[j].name = join[j].name
             /\ join[j].raced \subseteq join'[j].raced
             /\ j \in PastCheck(cmd[c].of) => cmd[c].of \in join'[j].raced
    BY <2>1, <2>3, RacedView
  <2> QED
    BY <2>1, <2>2, <2>4, <2>5, <2>6 DEF Bans
<1>2. ASSUME BanCommitted(c) PROVE Kicks(c)
  <2> DEFINE targets == IF cmd[c].op = "BAN_IP" THEN FromHost(cmd[c].of) ELSE Named(cmd[c].name)
  <2>1. /\ cmd[c].at = "commit ban" /\ Kick(c, cmd, targets, "kicked")
        /\ db' = db /\ disk' = db /\ UNCHANGED <<join, issued, crashes, held, dead, banned>>
    BY <1>2 DEF BanCommitted, history
  <2>2. targets \in SUBSET Client
    BY DEF FromHost, Named
  <2>3. Fewer /\ \E left \in SUBSET Client : Leaving(c, cmd, targets, "kicked", left)
    <3> HIDE DEF targets
    <3> QED
      BY <2>1, <2>2, KickFewer
  <2>4. PICK left \in SUBSET Client : Leaving(c, cmd, targets, "kicked", left)
    BY <2>3
  <2>5. /\ Moved(c, "kicked")
        /\ \A j \in targets : j \in cmd'[c].left \/ session'[j] = NoSession
    <3> HIDE DEF targets
    <3>1. CASE cmd' = [cmd EXCEPT ![c].at = "kicked"] /\ targets = {}
      <4>1. Others(c) /\ cmd'[c] = [cmd[c] EXCEPT !.at = "kicked"]
        BY <3>1 DEF Inv, Others
      <4> QED
        BY <1>0, <3>1, <4>1 DEF Moved, Same, Command
    <3>2. CASE cmd' = [cmd EXCEPT ![c].at = "kicked", ![c].left = left]
      <4>1. Others(c) /\ cmd'[c] = [cmd[c] EXCEPT !.at = "kicked", !.left = left]
        BY <3>2 DEF Inv, Others
      <4>2. Moved(c, "kicked") /\ cmd'[c].left = left
        BY <1>0, <4>1 DEF Moved, Same, Command
      <4> QED
        BY <2>4, <4>2 DEF Leaving
    <3> QED
      BY <2>4, <3>1, <3>2 DEF Leaving
  <2> QED
    BY <2>1, <2>3, <2>5 DEF Kicks
<1>3. ASSUME KickNext(c) PROVE KicksNext(c)
  <2>1. PICK j \in cmd[c].left :
          /\ session' = [session EXCEPT ![j] = NoSession]
          /\ Become(c, [cmd[c] EXCEPT !.left = @ \ {j}])
    BY <1>3 DEF KickNext
  <2>2. UNCHANGED <<db, disk, join, issued, crashes, held, dead, banned>>
    BY <1>3 DEF KickNext, history
  <2>3. Others(c) /\ cmd'[c] = [cmd[c] EXCEPT !.left = @ \ {j}]
    BY <2>1, BecomeView
  <2>4. Moved(c, cmd[c].at) /\ cmd'[c].left = cmd[c].left \ {j}
    BY <1>0, <2>3 DEF Moved, Same, Command
  <2>5. j \in Client /\ session'[j] = NoSession /\ Fewer
    BY <1>0, <2>1, NoSessionType DEF Command, Fewer, Typed
  <2> QED
    BY <2>2, <2>4, <2>5 DEF KicksNext
<1>4. ASSUME BanAnswered(c) PROVE AnswersBan(c)
  <2>1. Ended(c)
    BY <1>4, EndView DEF BanAnswered
  <2> QED
    BY <1>4, <2>1 DEF BanAnswered, AnswersBan
<1>5. ASSUME DeletesBan(c) PROVE Unbans(c)
  <2>1. /\ cmd[c].at = "delete ban" /\ Goto(c, "commit") /\ disk' = disk /\ Rest
        /\ db' = DeleteBans(db, cmd[c].of)
    BY <1>5 DEF DeletesBan, Writes, history, Rest
  <2>2. Moved(c, "commit")
    BY <1>0, <2>1, GotoView
  <2>3. cmd[c].of \in Id \cup Ip
    BY <2>1, OfType DEF Before
  <2>4. Writing(Users(db), db.tokens, db.bans \ {cmd[c].of})
    BY <1>0, <2>1, <2>3, BansEffect DEF Writing
  <2> QED
    BY <2>1, <2>2, <2>4 DEF Unbans
<1> QED
  BY <1>1, <1>2, <1>3, <1>4, <1>5

LEMMA CommandView ==
  ASSUME Inv, Typed, NEW c \in Session,
         AccountCommand(c) \/ BanCommand(c) \/ KickNext(c) \/ Committed(c)
  PROVE  View(c)
<1>1. CASE AccountCommand(c)
  BY <1>1, BeginsView, UnreadView, RegistersView, AdvancesView, TokensView, DeletesView
     DEF AccountCommand, View
<1>2. CASE BanCommand(c)
  BY <1>2, BeginsView, UnreadView, BansView DEF BanCommand, View
<1>3. CASE KickNext(c) \/ Committed(c)
  BY <1>3, UnreadView, BansView DEF View
<1> QED
  BY <1>1, <1>2, <1>3

-----------------------------------------------------------------------------
(* The types are invariant.                                                *)

LEMMA TypedInit == Init => Typed
<1> SUFFICES ASSUME Init PROVE Typed
  OBVIOUS
<1>1. /\ Users(EmptyTables) = {} /\ EmptyTables.tokens = {} /\ EmptyTables.bans = {}
      /\ EmptyTables \in Tables
  BY TablesAssumption DEF Users, EmptyTables, Tables
<1>2. Sound(EmptyTables)
  BY <1>1 DEF Sound
<1>3. db = EmptyTables /\ disk = EmptyTables
  BY DEF Init
<1>4. ASSUME NEW c \in Session PROVE cmd[c].op \in Commands[c] \cup {"none"} /\ Placed(cmd[c], db, issued)
  <2>1. cmd[c] = Idle
    BY DEF Init
  <2>2. None \notin Id
    BY TablesAssumption DEF Id
  <2> QED
    BY <2>1, <2>2, IdleFields DEF Placed, OpsAt, Before
<1>5. NoJoin \in JoinRec /\ NoSession \in SessRec
  BY NoSessionType
<1>6. ASSUME NEW j \in Client PROVE Joining(j)
  <2>1. join[j] = NoJoin /\ session[j] = NoSession /\ None \notin Id
    BY TablesAssumption DEF Init, Id
  <2> QED
    BY <1>1, <1>3, <2>1 DEF Joining, Who, NoJoin, NoSession
<1>7. crashes = 0 /\ held = {} /\ dead = {} /\ banned = {} /\ issued = 0 /\ 0 \in 0..MaxCrashes
  BY AccountsAssumption DEF Init
<1>8. join \in [Client -> JoinRec] /\ session \in [Client -> SessRec]
  BY <1>5 DEF Init
<1> QED
  BY <1>1, <1>2, <1>3, <1>4, <1>6, <1>7, <1>8 DEF Typed

\* What every step but a crash does.
Flows ==
  /\ Sound(db') /\ Follows(db, db') /\ disk' \in {disk, db}
  /\ \A k \in db'.tokens : k \in db.tokens \/ k.token = issued'
  /\ issued \in Nat /\ issued' \in {issued, issued + 1}
  /\ crashes' = crashes

LEMMA ElsewhereFlows == ASSUME Inv, Typed, Elsewhere PROVE Flows
<1>1. Sound(db) /\ Follows(db, db) /\ issued \in Nat
  BY FollowsItself DEF Typed, Sound, Inv
<1> QED
  BY <1>1 DEF Elsewhere, Flows

LEMMA WritingFlows ==
  ASSUME Inv, NEW us, NEW ts, NEW bs, Writing(us, ts, bs), disk' \in {disk, db},
         \A k \in ts : k \in db.tokens \/ k.token = issued',
         issued' \in {issued, issued + 1}, crashes' = crashes
  PROVE  Flows
BY DEF Inv, Writing, Flows

LEMMA ViewFlows == ASSUME Inv, Typed, NEW c \in Session, View(c) PROVE Flows
<1>1. Sound(db) /\ Follows(db, db) /\ issued \in Nat
  BY FollowsItself DEF Typed, Sound, Inv
<1>2. ASSUME UNCHANGED <<db, issued, crashes>>, disk' \in {disk, db} PROVE Flows
  BY <1>1, <1>2 DEF Flows
<1>3. CASE Begins(c)
  BY <1>2, <1>3 DEF Begins
<1>4. CASE Unread(c) \/ Kicks(c) \/ KicksNext(c) \/ AnswersToken(c) \/ AnswersDelete(c) \/ AnswersBan(c)
  BY <1>2, <1>4 DEF Unread, Kicks, KicksNext, AnswersToken, AnswersDelete, AnswersBan, Rest
<1>5. CASE Registers(c)
  <2>1. Writing(Users(db) \cup {db.last + 1}, db.tokens, db.bans) /\ disk' = disk /\ Rest
    BY <1>5 DEF Registers
  <2> QED
    BY <2>1, WritingFlows DEF Rest
<1>6. CASE Advances(c)
  <2>1. Writing(Users(db), db.tokens, db.bans) /\ disk' \in {disk, db} /\ Rest
    BY <1>6 DEF Advances
  <2> QED
    BY <2>1, WritingFlows DEF Rest
<1>7. CASE Purges(c)
  <2>1. /\ Writing(Users(db), {k \in db.tokens : k.user # cmd[c].of}, db.bans)
        /\ disk' = disk /\ Rest
    BY <1>7 DEF Purges
  <2> QED
    BY <2>1, WritingFlows DEF Rest
<1>8. CASE Draws(c)
  <2>1. PICK r \in TokenRow : r.token = issued + 1 /\ Writing(Users(db), db.tokens \cup {r}, db.bans)
    BY <1>8 DEF Draws
  <2>2. disk' = disk /\ issued' = issued + 1 /\ crashes' = crashes
    BY <1>8 DEF Draws
  <2> QED
    BY <2>1, <2>2, WritingFlows
<1>9. CASE Deletes(c)
  <2>1. /\ Writing(Users(db) \ {cmd[c].of}, {k \in db.tokens : k.user # cmd[c].of}, db.bans \ {cmd[c].of})
        /\ disk' = disk /\ Rest
    BY <1>9 DEF Deletes
  <2> QED
    BY <2>1, WritingFlows DEF Rest
<1>10. CASE Bans(c)
  <2>1. /\ Writing(Users(db), db.tokens, db.bans \cup {cmd[c].of})
        /\ disk' = disk /\ issued' = issued /\ crashes' = crashes
    BY <1>10 DEF Bans
  <2> QED
    BY <2>1, WritingFlows
<1>11. CASE Unbans(c)
  <2>1. /\ Writing(Users(db), db.tokens, db.bans \ {cmd[c].of})
        /\ disk' = disk /\ Rest
    BY <1>11 DEF Unbans
  <2> QED
    BY <2>1, WritingFlows DEF Rest
<1> QED
  BY <1>3, <1>4, <1>5, <1>6, <1>7, <1>8, <1>9, <1>10, <1>11 DEF View

LEMMA FlowsGrow ==
  ASSUME Flows, Typed
  PROVE  /\ \A id \in Id : id <= db.last => id <= db'.last
         /\ issued' \in Nat /\ 1..issued \subseteq 1..issued'
<1>1. db \in Tables /\ db' \in Tables /\ db.last <= db'.last
  BY DEF Flows, Typed, Sound, Follows
<1>2. db.last \in 0..MaxId /\ db'.last \in 0..MaxId /\ Id \subseteq Nat
  BY <1>1, IdType DEF Tables
<1>3. \A id \in Id : id <= db.last => id <= db'.last
  BY ONLY <1>1, <1>2
<1>4. issued \in Nat /\ issued' \in {issued, issued + 1}
  BY DEF Flows
<1>5. issued' \in Nat /\ 1..issued \subseteq 1..issued'
  BY ONLY <1>4
<1> QED
  BY <1>3, <1>5

LEMMA FlowsWho ==
  ASSUME Flows, NEW r, r.user \in Id \cup {None}, Who(r, db), Typed
  PROVE  Who(r, db')
<1>1. None \notin Id
  BY TablesAssumption DEF Id
<1>2. r.user \in Id => r.user <= db'.last
  BY FlowsGrow DEF Who
<1>3. r.user \in Users(db') => r.user \in Users(db) /\ db'.users[r.user].name = db.users[r.user].name
  BY DEF Flows, Follows, Who, Users
<1> QED
  BY <1>2, <1>3 DEF Who

\* A record of a command that stays what it is, or is at a later statement.
LEMMA FlowsPlaced ==
  ASSUME Flows, Typed, NEW k \in Command, NEW l \in Command, Placed(k, db, issued),
         l.op = k.op, l.of = k.of, l.name = k.name, l.found = k.found,
         \/ l.at = k.at /\ l.token = k.token
         \/ /\ OpsAt(k.at) \subseteq OpsAt(l.at) /\ k.at \notin Before
            /\ l.at \notin Before \cup {"commit user"}
            /\ l.at = "commit token" => l.token = issued' /\ issued' = issued + 1
  PROVE  Placed(l, db', issued')
<1>3. issued \in Nat /\ issued' \in Nat /\ issued' \in {issued, issued + 1}
  BY FlowsGrow DEF Flows
<1>4. 1..issued \subseteq 1..issued'
  BY FlowsGrow
<1>5. l.of \in Id => l.of <= db'.last
  BY FlowsGrow DEF Placed
<1>6. l.op = "BAN_USER" /\ l.of \in Users(db') => db'.users[l.of].name = l.name
  BY DEF Flows, Follows, Placed, Users
<1>7. l.found \subseteq 1..issued'
  BY <1>4 DEF Placed
<1>8. l.op \in OpsAt(l.at)
  BY DEF Placed
<1>9. IF l.at \in Before THEN l.of = None
      ELSE l.of \in IF l.op \in {"BAN_IP", "UNBAN_IP"} THEN Ip ELSE Id
  BY DEF Placed
<1>10. l.at \in Before \cup {"commit user"} => l.found = {}
  BY DEF Placed
<1>11. l.at = "commit token" => l.token \in 1..issued'
  <2>1. CASE l.at = k.at /\ l.token = k.token
    BY <1>4, <2>1 DEF Placed
  <2>2. CASE l.at = "commit token" => l.token = issued' /\ issued' = issued + 1
    <3>1. issued' = issued + 1 => issued' \in 1..issued'
      BY ONLY <1>3
    <3> QED
      BY <2>2, <3>1
  <2> QED
    BY <2>1, <2>2
<1> QED
  BY <1>5, <1>6, <1>7, <1>8, <1>9, <1>10, <1>11 DEF Placed

\* The commands are where they were, but for c.
LEMMA OthersPlaced ==
  ASSUME Inv, Inv', Typed, NEW c \in Session, View(c), NEW o \in Session \ {c}
  PROVE  cmd'[o].op \in Commands[o] \cup {"none"} /\ Placed(cmd'[o], db', issued')
<1>1. /\ cmd'[o].op = cmd[o].op /\ cmd'[o].of = cmd[o].of /\ cmd'[o].name = cmd[o].name
      /\ cmd'[o].found = cmd[o].found /\ cmd'[o].at = cmd[o].at /\ cmd'[o].token = cmd[o].token
  <2>1. CASE Begins(c)
    BY <2>1 DEF Begins, Begun
  <2>2. CASE Others(c)
    BY <2>2 DEF Others
  <2> QED
    BY <2>1, <2>2 DEF View, Unread, Registers, Advances, Purges, Draws, Deletes, Bans, Kicks,
       KicksNext, Unbans, AnswersToken, AnswersDelete, AnswersBan, Moved, Ended
<1>2. Flows /\ cmd[o] \in Command /\ cmd'[o] \in Command
  BY ViewFlows DEF Inv
<1>3. Placed(cmd[o], db, issued) /\ cmd[o].op \in Commands[o] \cup {"none"}
  BY DEF Typed
<1> QED
  BY <1>1, <1>2, <1>3, FlowsPlaced

LEMMA BegunPlaced ==
  ASSUME Inv, Inv', Typed, NEW c \in Session, Begins(c)
  PROVE  cmd'[c].op \in Commands[c] \cup {"none"} /\ Placed(cmd'[c], db', issued')
<1>1. PICK op \in Ops \ {"none", "REGISTER"}, n \in Name \cup {None}, x \in Id \cup Ip :
        /\ op \in Commands[c] /\ Begun(c, op, n, x, First(op))
        /\ IF op \in {"BAN_IP", "UNBAN_IP"} THEN x \in Ip ELSE x \in Users(db)
        /\ op = "BAN_USER" => db.users[x].name = n
        /\ db' = db /\ issued' = issued
  BY DEF Begins
<1>2. /\ cmd'[c].op = op /\ cmd'[c].of = x /\ cmd'[c].name = n /\ cmd'[c].at = First(op)
      /\ cmd'[c].found = {k.token : k \in TokensOf(db, x)}
  BY <1>1 DEF Begun
<1>3. op \in OpsAt(First(op)) /\ First(op) \notin Before \cup {"commit user", "commit token"}
  BY DEF First, OpsAt, Before, Ops, RoleCommands
<1>4. cmd'[c].found \subseteq 1..issued
  <2>1. \A k \in db.tokens : k.token \in Nat \ {0} /\ k.token <= issued
    BY DEF Typed, Sound, Tables, TokenRow, Token
  <2>2. issued \in Nat
    BY DEF Inv
  <2>3. \A k \in db.tokens : k.token \in 1..issued
    BY ONLY <2>1, <2>2
  <2> QED
    BY <1>2, <2>3 DEF TokensOf
<1>5. x \in Id => x <= db.last
  <2>1. x \in Id => x \in Users(db)
    BY <1>1, TablesAssumption DEF Id
  <2> QED
    BY <2>1 DEF Inv, Rows
<1>6. x \in IF op \in {"BAN_IP", "UNBAN_IP"} THEN Ip ELSE Id
  BY <1>1 DEF Users
<1> QED
  BY <1>1, <1>2, <1>3, <1>4, <1>5, <1>6 DEF Placed

LEMMA ViewPlaced ==
  ASSUME Inv, Inv', Typed, NEW c \in Session, View(c)
  PROVE  cmd'[c].op \in Commands[c] \cup {"none"} /\ Placed(cmd'[c], db', issued')
<1>0. /\ Flows /\ cmd[c] \in Command /\ cmd'[c] \in Command
      /\ Placed(cmd[c], db, issued) /\ cmd[c].op \in Commands[c] \cup {"none"}
  BY ViewFlows DEF Inv, Typed
<1>n. None \notin Id /\ \A i : {} \subseteq 1..i
  BY TablesAssumption DEF Id
<1>1. CASE Begins(c)
  BY <1>1, BegunPlaced
<1>2. CASE Unread(c)
  <2>1. /\ cmd'[c].op \in Commands[c] \cup {"none"} /\ cmd'[c].op \in OpsAt(cmd'[c].at)
        /\ cmd'[c].at \in Before /\ cmd'[c].of = None /\ cmd'[c].found = {}
    BY <1>2 DEF Unread
  <2>2. cmd'[c].op # "BAN_USER" /\ cmd'[c].at # "commit token"
    BY <2>1 DEF OpsAt, Before
  <2> QED
    BY <1>n, <2>1, <2>2 DEF Placed
<1>3. CASE Registers(c)
  <2>1. /\ cmd[c].op = "REGISTER" /\ cmd'[c].op = "REGISTER" /\ cmd'[c].at = "commit user"
        /\ cmd'[c].of = db.last + 1 /\ cmd'[c].of \in Id /\ cmd'[c].found = {}
        /\ db'.last = db.last + 1
    BY <1>3 DEF Registers
  <2>2. OpsAt("commit user") = {"REGISTER"} /\ "commit user" \notin Before
    BY DEF OpsAt, Before
  <2>3. cmd'[c].of <= db'.last
    <3>1. cmd'[c].of \in Nat /\ cmd'[c].of = db'.last
      BY <2>1, IdType
    <3> QED
      BY ONLY <3>1
  <2> QED
    BY <1>0, <1>n, <2>1, <2>2, <2>3 DEF Placed
<1>4. CASE Draws(c)
  <2>1. /\ cmd[c].at = "insert token" /\ cmd'[c].at = "commit token"
        /\ Same(cmd'[c], cmd[c]) /\ cmd'[c].token = issued' /\ issued' = issued + 1
    BY <1>4 DEF Draws
  <2>2. /\ OpsAt("insert token") \subseteq OpsAt("commit token")
        /\ "insert token" \notin Before /\ "commit token" \notin Before \cup {"commit user"}
    BY DEF OpsAt, Before
  <2> QED
    BY <1>0, <2>1, <2>2, FlowsPlaced DEF Same
<1>5. CASE KicksNext(c)
  <2>1. cmd'[c].at = cmd[c].at /\ Same(cmd'[c], cmd[c]) /\ cmd'[c].token = cmd[c].token
    BY <1>5 DEF KicksNext, Moved
  <2> QED
    BY <1>0, <2>1, FlowsPlaced DEF Same
<1>6. CASE Advances(c) \/ Purges(c) \/ Deletes(c) \/ Bans(c) \/ Kicks(c) \/ Unbans(c)
  <2>1. PICK from \in Ats, to \in Ats :
          /\ <<from, to>> \in {<<"commit user", "purge">>, <<"update role", "commit">>,
                <<"purge", "insert token">>, <<"delete user", "commit delete">>,
                <<"insert ban", "commit ban">>, <<"commit ban", "kicked">>, <<"delete ban", "commit">>}
          /\ cmd[c].at = from /\ cmd'[c].at = to /\ Same(cmd'[c], cmd[c])
    BY <1>6 DEF Advances, Purges, Deletes, Bans, Kicks, Unbans, Moved, Ats
  <2>2. /\ OpsAt(from) \subseteq OpsAt(to) /\ from \notin Before
        /\ to \notin Before \cup {"commit user", "commit token"}
    BY <2>1 DEF OpsAt, Before
  <2> QED
    BY <1>0, <2>1, <2>2, FlowsPlaced DEF Same
<1>7. CASE AnswersToken(c) \/ AnswersDelete(c) \/ AnswersBan(c)
  <2>1. cmd'[c] = Idle
    BY <1>7 DEF AnswersToken, AnswersDelete, AnswersBan, Ended
  <2> QED
    BY <1>n, <2>1, IdleFields DEF Placed, OpsAt, Before
<1> QED
  BY <1>1, <1>2, <1>3, <1>4, <1>5, <1>6, <1>7 DEF View

\* What the joins and the sessions of the clients are, after the step of a command.
LEMMA ViewJoins ==
  ASSUME Inv, Typed, NEW c \in Session, View(c)
  PROVE  /\ join' \in [Client -> JoinRec] /\ session' \in [Client -> SessRec]
         /\ \A j \in Client : Joining(j)'
<1>1. /\ join' \in [Client -> JoinRec]
      /\ \A j \in Client : /\ join'[j].at = join[j].at /\ join'[j].user = join[j].user
                           /\ join'[j].name = join[j].name
  <2>1. CASE join' = join
    BY <2>1 DEF Typed
  <2>2. CASE Bans(c)
    BY <2>2 DEF Bans
  <2> QED
    BY <2>1, <2>2 DEF View, Begins, Unread, Registers, Advances, Purges, Draws, Deletes, Kicks,
       KicksNext, Unbans, AnswersToken, AnswersDelete, AnswersBan, Rest
<1>2. Fewer
  <2>1. session' = session => Fewer
    BY DEF Typed, Fewer
  <2> QED
    BY <2>1 DEF View, Begins, Unread, Registers, Advances, Purges, Draws, Deletes, Bans, Kicks,
       KicksNext, Unbans, AnswersToken, AnswersDelete, AnswersBan, Rest
<1>3. ASSUME NEW j \in Client PROVE Joining(j)'
  <2>1. /\ join[j] \in JoinRec /\ session[j] \in SessRec /\ Joining(j)
        /\ session'[j] \in {session[j], NoSession}
    BY <1>2 DEF Typed, Fewer
  <2>2. /\ join'[j].at = join[j].at /\ join'[j].user = join[j].user
        /\ join'[j].name = join[j].name
    BY <1>1
  <2>3. Who(join[j], db') /\ Who(session[j], db')
    BY <2>1, ViewFlows, FlowsWho DEF Joining, JoinRec, SessRec
  <2>4. Who(join'[j], db')
    BY <2>2, <2>3 DEF Who
  <2>5. Who(NoSession, db')
    BY TablesAssumption DEF Who, NoSession, Users, Id
  <2> QED
    BY <2>1, <2>2, <2>3, <2>4, <2>5 DEF Joining
<1> QED
  BY <1>1, <1>2, <1>3 DEF Fewer

\* A join goes on.
Onward(j, from, to) ==
  /\ join[j].at = from /\ join'[j].at = to
  /\ join'[j].user = join[j].user /\ join'[j].name = join[j].name /\ join'[j].raced = join[j].raced
  /\ session'[j] = session[j]

Enters(j) ==
  /\ join[j].at = "none" /\ session[j] = NoSession /\ session'[j] = NoSession
  /\ join'[j].at = "validate" /\ join'[j].user = None
Validates(j) ==
  /\ join[j].at = "validate" /\ session'[j] = session[j]
  /\ join'[j].at = "ip ban"
  /\ join'[j].user \in Users(db) /\ join'[j].name = db.users[join'[j].user].name
PassesIp(j)   == Onward(j, "ip ban", "user ban") /\ IpOf[j] \notin db.bans
PassesUser(j) == Onward(j, "user ban", "log") /\ join[j].user \notin db.bans
Logs(j)       == Onward(j, "log", "open")
Drops(j)      == join[j].at # "none" /\ join'[j] = NoJoin /\ session'[j] = session[j]
Opens(j) ==
  /\ join[j].at = "open" /\ join'[j] = NoJoin
  /\ session'[j] = [user |-> join[j].user, name |-> join[j].name, raced |-> join[j].raced]
Closes(j) == join'[j] = join[j] /\ session[j] # NoSession /\ session'[j] = NoSession

ClientView(j) ==
  /\ Elsewhere /\ disk' = disk
  /\ join' \in [Client -> JoinRec] /\ session' \in [Client -> SessRec]
  /\ \A i \in Client \ {j} : join'[i] = join[i] /\ session'[i] = session[i]
  /\ \/ Enters(j) \/ Validates(j) \/ PassesIp(j) \/ PassesUser(j) \/ Logs(j)
     \/ Drops(j) \/ Opens(j) \/ Closes(j)

LEMMA JoinOfView ==
  ASSUME Typed, NEW j \in Client, NEW to \in JoinRec, JoinOf(j, to), session' = session
  PROVE  /\ Elsewhere /\ disk' = disk
         /\ join' \in [Client -> JoinRec] /\ session' \in [Client -> SessRec]
         /\ \A i \in Client \ {j} : join'[i] = join[i] /\ session'[i] = session[i]
         /\ join'[j] = to /\ session'[j] = session[j]
BY DEF Typed, JoinOf, history, Elsewhere

LEMMA ClientStepView ==
  ASSUME Inv, Typed, NEW j \in Client, ClientStep(j)
  PROVE  ClientView(j)
<1>0. /\ join[j] \in JoinRec /\ session[j] \in SessRec
      /\ NoJoin \in JoinRec /\ NoJoin.at = "none" /\ NoJoin.user = None
  BY NoSessionType DEF Typed, NoJoin
<1>a. {"validate", "ip ban", "user ban", "log", "open"} \subseteq JoinAts
  BY DEF JoinAts
\* The join of j becomes to.
<1>g. ASSUME NEW to \in JoinRec, JoinOf(j, to), session' = session,
             join'[j] = to /\ session'[j] = session[j] =>
               \/ Enters(j) \/ Validates(j) \/ PassesIp(j) \/ PassesUser(j) \/ Logs(j) \/ Drops(j)
      PROVE  ClientView(j)
  BY <1>g, JoinOfView DEF ClientView
<1>d. ASSUME JoinOf(j, NoJoin), session' = session, join[j].at # "none" PROVE ClientView(j)
  <2>1. join'[j] = NoJoin /\ session'[j] = session[j] => Drops(j)
    BY <1>d DEF Drops
  <2> QED
    BY <1>0, <1>d, <1>g, <2>1
\* It goes on to at.
<1>o. ASSUME NEW at \in JoinAts, JoinOf(j, [join[j] EXCEPT !.at = at]), session' = session,
             Onward(j, join[j].at, at) => PassesIp(j) \/ PassesUser(j) \/ Logs(j)
      PROVE  ClientView(j)
  <2> DEFINE to == [join[j] EXCEPT !.at = at]
  <2>1. /\ to \in JoinRec /\ to.at = at /\ to.user = join[j].user
        /\ to.name = join[j].name /\ to.raced = join[j].raced
    BY <1>0 DEF JoinRec
  <2>2. JoinOf(j, to)
    BY <1>o
  <2> HIDE DEF to
  <2>3. join'[j] = to /\ session'[j] = session[j] => Onward(j, join[j].at, at)
    BY <2>1 DEF Onward
  <2> QED
    BY <1>g, <1>o, <2>1, <2>2, <2>3
<1>1. ASSUME NEW token \in 1..issued, FirstPacket(j, token) PROVE ClientView(j)
  <2> DEFINE to == [NoJoin EXCEPT !.at = "validate", !.token = token]
  <2>1. token \in Token
    BY TablesAssumption DEF Inv, Token
  <2>2. to \in JoinRec /\ to.at = "validate" /\ to.user = None
    BY <1>0, <1>a, <2>1 DEF JoinRec
  <2>3. JoinOf(j, to) /\ session' = session /\ join[j] = NoJoin /\ session[j] = NoSession
    BY <1>1 DEF FirstPacket
  <2> HIDE DEF to
  <2>4. join'[j] = to /\ session'[j] = session[j] => Enters(j)
    BY <1>0, <2>2, <2>3 DEF Enters
  <2> QED
    BY <1>g, <2>2, <2>3, <2>4
<1>2. CASE Validate(j)
  <2>1. join[j].at = "validate" /\ session' = session
    BY <1>2 DEF Validate
  <2>2. CASE JoinOf(j, NoJoin)
    BY <1>d, <2>1, <2>2
  <2>3. ASSUME NEW k \in Valid(db, join[j].token),
               JoinOf(j, [join[j] EXCEPT !.at = "ip ban", !.user = k.user, !.name = db.users[k.user].name])
        PROVE  ClientView(j)
    <3> DEFINE to == [join[j] EXCEPT !.at = "ip ban", !.user = k.user, !.name = db.users[k.user].name]
    <3>1. k.user \in Users(db) /\ k.user \in Id
      BY DEF Valid, Users
    <3>2. db.users[k.user].name \in Name
      BY <3>1, UserRow, UsersRows DEF Typed, Sound
    <3>3. to \in JoinRec /\ to.at = "ip ban" /\ to.user = k.user /\ to.name = db.users[k.user].name
      BY <1>0, <1>a, <3>1, <3>2 DEF JoinRec
    <3>4. JoinOf(j, to)
      BY <2>3
    <3> HIDE DEF to
    <3>5. join'[j] = to /\ session'[j] = session[j] => Validates(j)
      BY <2>1, <3>1, <3>3 DEF Validates
    <3> QED
      BY <1>g, <2>1, <3>3, <3>4, <3>5
  <2> QED
    BY <1>2, <2>2, <2>3 DEF Validate
<1>3. CASE CheckIp(j)
  <2>1. join[j].at = "ip ban" /\ session' = session
    BY <1>3 DEF CheckIp
  <2>2. CASE IpOf[j] \in db.bans
    BY <1>3, <1>d, <2>1, <2>2 DEF CheckIp
  <2>3. CASE IpOf[j] \notin db.bans
    <3>1. JoinOf(j, [join[j] EXCEPT !.at = "user ban"])
      BY <1>3, <2>3 DEF CheckIp
    <3> QED
      BY <1>a, <1>o, <2>1, <2>3, <3>1 DEF PassesIp
  <2> QED
    BY <2>2, <2>3
<1>4. CASE CheckUser(j)
  <2>1. join[j].at = "user ban" /\ session' = session
    BY <1>4 DEF CheckUser
  <2>2. CASE join[j].user \in db.bans
    BY <1>4, <1>d, <2>1, <2>2 DEF CheckUser
  <2>3. CASE join[j].user \notin db.bans
    <3>1. JoinOf(j, [join[j] EXCEPT !.at = "log"])
      BY <1>4, <2>3 DEF CheckUser
    <3> QED
      BY <1>a, <1>o, <2>1, <2>3, <3>1 DEF PassesUser
  <2> QED
    BY <2>2, <2>3
<1>5. CASE UidTaken(j)
  BY <1>5, <1>d DEF UidTaken
<1>6. CASE LogConnection(j)
  <2>1. join[j].at = "log" /\ session' = session
    BY <1>6 DEF LogConnection
  <2>2. CASE ~Referable(db, join[j].user)
    BY <1>6, <1>d, <2>1, <2>2 DEF LogConnection
  <2>3. CASE Referable(db, join[j].user)
    <3>1. JoinOf(j, [join[j] EXCEPT !.at = "open"])
      BY <1>6, <2>3 DEF LogConnection
    <3> QED
      BY <1>a, <1>o, <2>1, <3>1 DEF Logs
  <2> QED
    BY <2>2, <2>3
<1>7. CASE OpenSession(j)
  <2> DEFINE s == [user |-> join[j].user, name |-> join[j].name, raced |-> join[j].raced]
  <2>1. s \in SessRec
    BY <1>0 DEF JoinRec, SessRec
  <2>2. /\ join[j].at = "open" /\ session' = [session EXCEPT ![j] = s]
        /\ join' = [join EXCEPT ![j] = NoJoin]
        /\ UNCHANGED <<db, disk, cmd, issued, crashes, held, dead, banned>>
    BY <1>7 DEF OpenSession, JoinOf, history
  <2>3. Opens(j)
    BY <2>2 DEF Opens, Typed
  <2> HIDE DEF s
  <2> QED
    BY <1>0, <2>1, <2>2, <2>3 DEF ClientView, Elsewhere, Typed
<1>8. CASE SessionEnds(j)
  <2>1. /\ session[j] # NoSession /\ session' = [session EXCEPT ![j] = NoSession]
        /\ UNCHANGED <<db, disk, cmd, join, issued, crashes, held, dead, banned>>
    BY <1>8 DEF SessionEnds, history
  <2>2. Closes(j)
    BY <2>1 DEF Closes, Typed
  <2> QED
    BY <2>1, <2>2, NoSessionType DEF ClientView, Elsewhere, Typed
<1> QED
  BY <1>1, <1>2, <1>3, <1>4, <1>5, <1>6, <1>7, <1>8 DEF ClientStep

LEMMA ClientJoins ==
  ASSUME Inv, Typed, NEW j \in Client, ClientView(j)
  PROVE  \A i \in Client : Joining(i)'
<1>0. /\ db' = db /\ db \in Tables /\ join[j] \in JoinRec /\ session[j] \in SessRec /\ Joining(j)
      /\ None \notin Id /\ NoJoin.at = "none" /\ NoJoin.user = None /\ NoSession.user = None
      /\ \A id \in Users(db) : id \in Id /\ id <= db.last
  BY TablesAssumption DEF ClientView, Elsewhere, Typed, Sound, NoJoin, NoSession, Users, Id, Inv, Rows
<1>1. ASSUME NEW i \in Client \ {j} PROVE Joining(i)'
  <2>1. join'[i] = join[i] /\ session'[i] = session[i] /\ Joining(i)
    BY DEF ClientView, Typed
  <2> QED
    BY <1>0, <2>1 DEF Joining
<1>h. /\ Who(join[j], db) /\ Who(session[j], db)
      /\ join[j].at # "none" => session[j] = NoSession
      /\ join[j].at \notin {"none", "validate"} => join[j].user \in Id
  BY <1>0 DEF Joining
<1>w. \A r : r.user = None => Who(r, db)
  BY <1>0 DEF Who, Users
<1>g. ASSUME Who(join'[j], db), Who(session'[j], db),
             join'[j].at # "none" => session'[j] = NoSession,
             join'[j].at \notin {"none", "validate"} => join'[j].user \in Id
      PROVE  Joining(j)'
  BY <1>0, <1>g DEF Joining
<1>2. ASSUME Enters(j) PROVE Joining(j)'
  <2>1. /\ join'[j].at = "validate" /\ join'[j].user = None
        /\ session[j] = NoSession /\ session'[j] = NoSession
    BY <1>2 DEF Enters
  <2> QED
    BY <1>0, <1>w, <1>g, <2>1
<1>3. ASSUME Validates(j) PROVE Joining(j)'
  <2>1. /\ join[j].at = "validate" /\ session'[j] = session[j] /\ join'[j].at = "ip ban"
        /\ join'[j].user \in Users(db) /\ join'[j].name = db.users[join'[j].user].name
    BY <1>3 DEF Validates
  <2>2. Who(join'[j], db)
    BY <1>0, <2>1 DEF Who
  <2> QED
    BY <1>0, <1>h, <1>g, <2>1, <2>2
<1>4. ASSUME PassesIp(j) \/ PassesUser(j) \/ Logs(j) PROVE Joining(j)'
  <2>1. /\ join[j].at \notin {"none", "validate"}
        /\ join'[j].user = join[j].user /\ join'[j].name = join[j].name /\ session'[j] = session[j]
    BY <1>4 DEF PassesIp, PassesUser, Logs, Onward
  <2>2. Who(join'[j], db)
    BY <1>h, <2>1 DEF Who
  <2> QED
    BY <1>h, <1>g, <2>1, <2>2
<1>5. ASSUME Drops(j) PROVE Joining(j)'
  BY <1>0, <1>5, <1>h, <1>w, <1>g DEF Drops
<1>6. ASSUME Opens(j) PROVE Joining(j)'
  <2>1. /\ join'[j] = NoJoin
        /\ session'[j].user = join[j].user /\ session'[j].name = join[j].name
    BY <1>6 DEF Opens
  <2>2. Who(session'[j], db)
    BY <1>h, <2>1 DEF Who
  <2> QED
    BY <1>0, <1>w, <1>g, <2>1, <2>2
<1>8. ASSUME Closes(j) PROVE Joining(j)'
  <2>1. join'[j] = join[j] /\ session'[j] = NoSession
    BY <1>8 DEF Closes
  <2> QED
    BY <1>0, <1>h, <1>w, <1>g, <2>1
<1>7. Joining(j)'
  BY <1>2, <1>3, <1>4, <1>5, <1>6, <1>8 DEF ClientView
<1> QED
  BY <1>1, <1>7

\* With the tables and the history, what the joins and the commands are.
LEMMA FlowsTyped ==
  ASSUME Inv, Inv', Typed, Flows,
         \A c \in Session : cmd'[c].op \in Commands[c] \cup {"none"} /\ Placed(cmd'[c], db', issued'),
         join' \in [Client -> JoinRec], session' \in [Client -> SessRec],
         \A j \in Client : Joining(j)',
         held' \cup dead' \subseteq 1..issued', banned' \subseteq Id \cup Ip
  PROVE  Typed'
<1>1. Sound(db') /\ Sound(disk') /\ crashes' \in 0..MaxCrashes
  BY DEF Flows, Typed
<1>2. ASSUME NEW k \in db'.tokens \cup disk'.tokens PROVE k.token <= issued'
  <2>1. k.token \in Nat
    BY <1>1 DEF Sound, Tables, TokenRow, Token
  <2>2. k.token <= issued \/ k.token = issued'
    BY DEF Flows, Typed
  <2>3. issued \in Nat /\ issued' \in {issued, issued + 1}
    BY DEF Flows
  <2> QED
    BY ONLY <2>1, <2>2, <2>3
<1> QED
  BY <1>1, <1>2 DEF Typed

LEMMA ElsewhereTyped ==
  ASSUME Inv, Inv', Typed, Elsewhere,
         join' \in [Client -> JoinRec], session' \in [Client -> SessRec],
         \A j \in Client : Joining(j)'
  PROVE  Typed'
<1>1. Flows
  BY ElsewhereFlows
<1>2. \A c \in Session : cmd'[c].op \in Commands[c] \cup {"none"} /\ Placed(cmd'[c], db', issued')
  BY DEF Elsewhere, Typed
<1>3. held' \cup dead' \subseteq 1..issued' /\ banned' \subseteq Id \cup Ip
  BY DEF Elsewhere, Typed
<1> QED
  BY <1>1, <1>2, <1>3, FlowsTyped

LEMMA CommandTyped == ASSUME Inv, Inv', Typed, NEW c \in Session, View(c) PROVE Typed'
<1>1. Flows
  BY ViewFlows
<1>2. \A o \in Session : cmd'[o].op \in Commands[o] \cup {"none"} /\ Placed(cmd'[o], db', issued')
  <2>1. cmd'[c].op \in Commands[c] \cup {"none"} /\ Placed(cmd'[c], db', issued')
    BY ViewPlaced
  <2>2. ASSUME NEW o \in Session \ {c}
        PROVE  cmd'[o].op \in Commands[o] \cup {"none"} /\ Placed(cmd'[o], db', issued')
    BY OthersPlaced
  <2> QED
    BY <2>1, <2>2
<1>3. /\ join' \in [Client -> JoinRec] /\ session' \in [Client -> SessRec]
      /\ \A j \in Client : Joining(j)'
  BY ViewJoins
<1>4. held' \cup dead' \subseteq 1..issued' /\ banned' \subseteq Id \cup Ip
  <2>0. /\ held \cup dead \subseteq 1..issued /\ banned \subseteq Id \cup Ip
        /\ 1..issued \subseteq 1..issued' /\ Placed(cmd[c], db, issued)
    BY <1>1, FlowsGrow DEF Typed
  <2>1. CASE Begins(c)
    BY <2>0, <2>1 DEF Begins, Question
  <2>2. CASE AnswersToken(c)
    <3>1. cmd[c].token \in 1..issued /\ cmd[c].found \subseteq 1..issued
      BY <2>0, <2>2 DEF AnswersToken, Placed
    <3> QED
      BY <2>0, <2>2, <3>1 DEF AnswersToken
  <2>3. CASE AnswersDelete(c)
    <3>1. cmd[c].found \subseteq 1..issued
      BY <2>0 DEF Placed
    <3> QED
      BY <2>0, <2>3, <3>1 DEF AnswersDelete
  <2>4. CASE AnswersBan(c)
    <3>1. cmd[c].of \in Id \cup Ip
      BY <2>4, OfType DEF AnswersBan, Before
    <3> QED
      BY <2>0, <2>4, <3>1 DEF AnswersBan
  <2>5. CASE UNCHANGED <<held, dead, banned>>
    BY <2>0, <2>5
  <2> QED
    BY <2>1, <2>2, <2>3, <2>4, <2>5 DEF View, Unread, Registers, Advances, Purges, Draws,
       Deletes, Bans, Kicks, KicksNext, Unbans, Rest
<1> QED
  BY <1>1, <1>2, <1>3, <1>4, FlowsTyped

LEMMA CrashTyped == ASSUME Inv, Inv', Typed, Crash PROVE Typed'
<1>1. /\ db' = disk /\ disk' = disk /\ issued' = issued /\ crashes' = crashes + 1 /\ crashes < MaxCrashes
      /\ cmd' = [c \in Session |-> Idle] /\ join' = [j \in Client |-> NoJoin]
      /\ session' = [j \in Client |-> NoSession] /\ UNCHANGED <<held, dead, banned>>
  BY DEF Crash, history
<1>2. Sound(disk) /\ None \notin Id
  BY TablesAssumption DEF Typed, Id
<1>3. \A c \in Session : cmd'[c].op \in Commands[c] \cup {"none"} /\ Placed(cmd'[c], db', issued')
  <2>1. \A i : {} \subseteq 1..i
    OBVIOUS
  <2> QED
    BY <1>1, <1>2, <2>1, IdleFields DEF Placed, OpsAt, Before
<1>4. ASSUME NEW j \in Client PROVE Joining(j)'
  <2>1. join'[j] = NoJoin /\ session'[j] = NoSession
    BY <1>1
  <2> QED
    BY <1>2, <2>1 DEF Joining, Who, NoJoin, NoSession, Users
<1>5. crashes' \in 0..MaxCrashes
  BY <1>1, AccountsAssumption DEF Typed
<1>6. join' \in [Client -> JoinRec] /\ session' \in [Client -> SessRec]
  BY <1>1, NoSessionType
<1> QED
  BY <1>1, <1>2, <1>3, <1>4, <1>5, <1>6 DEF Typed

\* A step, as the views have it.
Views == \/ \E c \in Session : View(c)
         \/ \E j \in Client : ClientView(j)
         \/ Elsewhere /\ UNCHANGED <<join, session>>
         \/ Crash

LEMMA NextView == ASSUME Inv, Typed, [Next]_vars PROVE Views
<1>1. ASSUME NEW c \in Session, AccountCommand(c) \/ BanCommand(c) \/ KickNext(c) \/ Committed(c)
      PROVE  Views
  BY <1>1, CommandView DEF Views
<1>2. ASSUME NEW j \in Client, ClientStep(j) PROVE Views
  BY <1>2, ClientStepView DEF Views
<1>3. CASE LogCommit
  BY <1>3 DEF LogCommit, Commits, history, Elsewhere, Views
<1>4. CASE UNCHANGED vars
  BY <1>4 DEF vars, Elsewhere, Views
<1> QED
  BY <1>1, <1>2, <1>3, <1>4 DEF Next, Views

LEMMA TypedStep == ASSUME Inv, Inv', Typed, [Next]_vars PROVE Typed'
<1>1. ASSUME NEW c \in Session, View(c) PROVE Typed'
  BY <1>1, CommandTyped
<1>2. ASSUME NEW j \in Client, ClientView(j) PROVE Typed'
  BY <1>2, ClientJoins, ElsewhereTyped DEF ClientView
<1>3. CASE Elsewhere /\ UNCHANGED <<join, session>>
  <2>1. /\ join' \in [Client -> JoinRec] /\ session' \in [Client -> SessRec]
        /\ \A j \in Client : Joining(j)'
    BY <1>3 DEF Typed, Elsewhere, Joining
  <2> QED
    BY <1>3, <2>1, ElsewhereTyped
<1>4. CASE Crash
  BY <1>4, CrashTyped
<1> QED
  BY <1>1, <1>2, <1>3, <1>4, NextView DEF Views

LEMMA TypedInvariance == Spec => []Typed
<1>1. Inv /\ Inv' /\ Typed /\ [Next]_vars => Typed'
  BY TypedStep
<1> QED
  BY <1>1, TypedInit, Invariance, PTL DEF Spec

(***************************************************************************)
(* The tables keep what the schema asks of them (UNIQUE, and REFERENCES    *)
(* users for tokens and bans; database.py:11), in what the connection sees *)
(* and on the disk, and a client has a session or a join but never both.   *)
(***************************************************************************)
THEOREM AccountsTypeCorrect == Spec => []TypeOK
<1>1. ASSUME Inv, Typed PROVE TypeOK
  <2>1. /\ db \in Tables /\ disk \in Tables
        /\ \A t \in {db, disk} : /\ \A id, other \in Users(t) :
                                       \/ t.users[id].discord = t.users[other].discord
                                       \/ t.users[id].name = t.users[other].name
                                       => id = other
                                 /\ \A k \in t.tokens : k.user \in Users(t)
                                 /\ t.bans \ Ip \subseteq Users(t)
    BY <1>1 DEF Typed, Sound
  <2>2. \A c \in Session : /\ cmd[c].op \in Commands[c] \cup {"none"}
                           /\ cmd[c].of \in Id \cup Ip \cup {None}
                           /\ cmd[c].left \subseteq Client
    BY <1>1 DEF Inv, Typed, Command
  <2>3. \A j \in Client : /\ join[j].token \in Token \cup {None}
                          /\ {join[j].user, session[j].user} \subseteq Id \cup {None}
                          /\ join[j].at # "none" => session[j] = NoSession
    BY <1>1 DEF Typed, Joining, JoinRec, SessRec
  <2>4. issued \in 0..MaxTokens /\ crashes \in 0..MaxCrashes
    BY <1>1 DEF Inv, Typed
  <2> QED
    BY <1>1, <2>1, <2>2, <2>3, <2>4 DEF TypeOK, Typed
<1> QED
  BY <1>1, Invariance, TypedInvariance, PTL

-----------------------------------------------------------------------------
(* Commands on the same user or address that could undo each other know it. *)

Crossing(c, o) == /\ cmd[c].of # None /\ cmd[c].of = cmd[o].of
                  /\ Topics(cmd[c].op) \cap Topics(cmd[o].op) # {}

Crossings == \A c, o \in Session : c # o /\ Crossing(c, o) => cmd[c].crossed

LEMMA CrossingBegins ==
  ASSUME Inv, Crossings, NEW c \in Session, Begins(c) PROVE Crossings'
<1>1. PICK op \in Ops \ {"none", "REGISTER"}, n \in Name \cup {None}, x \in Id \cup Ip :
        Begun(c, op, n, x, First(op))
  BY DEF Begins
<1>2. cmd'[c].op = op /\ cmd'[c].of = x
  BY <1>1 DEF Begun
<1>3. ASSUME NEW o \in Session \ {c}
      PROVE  /\ cmd'[o].op = cmd[o].op /\ cmd'[o].of = cmd[o].of
             /\ cmd[o].crossed => cmd'[o].crossed
             /\ cmd[o].of = x /\ Topics(cmd[o].op) \cap Topics(op) # {} => cmd'[o].crossed /\ cmd'[c].crossed
  BY <1>1 DEF Begun, Crosses
<1>4. ASSUME NEW a \in Session, NEW o \in Session, a # o, Crossing(a, o)' PROVE cmd'[a].crossed
  <2>1. CASE a # c /\ o # c
    BY <1>3, <1>4, <2>1 DEF Crossing, Crossings
  <2>2. CASE a = c
    BY <1>2, <1>3, <1>4, <2>2 DEF Crossing
  <2>3. CASE o = c
    BY <1>2, <1>3, <1>4, <2>3 DEF Crossing
  <2> QED
    BY <2>1, <2>2, <2>3
<1> QED
  BY <1>4 DEF Crossings

LEMMA CrossingStep == ASSUME Inv, Typed, Crossings, [Next]_vars PROVE Crossings'
<1>1. ASSUME NEW c \in Session, View(c) PROVE Crossings'
  <2>1. CASE Begins(c)
    BY <2>1, CrossingBegins
  <2>2. CASE Registers(c)
    <3>1. Others(c) /\ cmd'[c].of = db.last + 1 /\ cmd'[c].of \in Id
      BY <2>2 DEF Registers
    <3>2. \A o \in Session : cmd[o].of \in Id => cmd[o].of <= db.last
      BY DEF Typed, Placed
    <3>3. db.last + 1 \in Id /\ db.last \in Nat
      BY <3>1 DEF Typed, Sound, Tables
    <3>4. ~(db.last + 1 <= db.last)
      BY <3>3
    <3>5. \A o \in Session : cmd[o].of # db.last + 1
      BY <3>2, <3>3, <3>4
    <3> QED
      BY <3>1, <3>5 DEF Others, Crossings, Crossing
  <2>3. CASE Others(c) /\ cmd'[c].of = None
    BY <2>3 DEF Others, Crossings, Crossing
  <2>4. CASE Others(c) /\ Same(cmd'[c], cmd[c])
    BY <2>4 DEF Others, Same, Crossings, Crossing
  <2>5. Idle.of = None
    BY IdleFields
  <2> QED
    BY <1>1, <2>1, <2>2, <2>3, <2>4, <2>5 DEF View, Unread, Advances, Purges, Draws, Deletes, Bans,
       Kicks, KicksNext, Unbans, AnswersToken, AnswersDelete, AnswersBan, Moved, Ended
<1>2. CASE cmd' = cmd
  BY <1>2 DEF Crossings, Crossing
<1>3. CASE Crash
  <2>1. \A c \in Session : cmd'[c].of = None
    BY <1>3, IdleFields DEF Crash
  <2> QED
    BY <2>1 DEF Crossings, Crossing
<1> QED
  BY <1>1, <1>2, <1>3, NextView DEF Views, ClientView, Elsewhere

LEMMA CrossingInvariance == Spec => []Crossings
<1>1. Init => Crossings
  BY IdleFields DEF Init, Crossings, Crossing
<1>2. Inv /\ Typed /\ Crossings /\ [Next]_vars => Crossings'
  BY CrossingStep
<1> QED
  BY <1>1, <1>2, Invariance, TypedInvariance, PTL DEF Spec

-----------------------------------------------------------------------------
(* Tokens that a command was to end.                                       *)

\* No token of the tables t was to end, and no two rows are of one token.
Drawn(t) == /\ \A k \in t.tokens : k.token \notin dead
            /\ \A k, l \in t.tokens : k.token = l.token => k.user = l.user

\* What is left in the tables t of the tokens a command found.
Finds(k, t) ==
  /\ k.at \in {"purge", "delete user"} => \A r \in t.tokens : r.token \in k.found => r.user = k.of
  /\ k.at \in {"insert token", "commit token", "commit delete"} =>
       \A r \in t.tokens : r.token \notin k.found

Ending == Drawn(db) /\ Drawn(disk) /\ \A c \in Session : Finds(cmd[c], db)

\* A step of a command that draws no token and is not answered.
LEMMA EndingStays ==
  ASSUME Ending, dead' = dead, disk' \in {disk, db}, db'.tokens \subseteq db.tokens,
         NEW c \in Session, Others(c), Finds(cmd'[c], db')
  PROVE  Ending'
<1>1. Drawn(db)' /\ Drawn(disk)'
  BY DEF Ending, Drawn
<1>2. \A o \in Session \ {c} : Finds(cmd'[o], db')
  BY DEF Others, Ending, Finds
<1> QED
  BY <1>1, <1>2 DEF Ending

\* Where the step of c leaves its record as it was, or idle.
LEMMA FindsQuiet ==
  ASSUME Ending, NEW c \in Session, db'.tokens \subseteq db.tokens,
         \/ cmd'[c].at \notin {"purge", "delete user", "insert token", "commit token", "commit delete"}
         \/ Same(cmd'[c], cmd[c]) /\ cmd'[c].at = cmd[c].at
         \/ cmd'[c].found = {}
  PROVE  Finds(cmd'[c], db')
BY DEF Ending, Finds, Same

LEMMA EndingStep == ASSUME Inv, Inv', Typed, Ending, [Next]_vars PROVE Ending'
<1>1. ASSUME NEW c \in Session, View(c) PROVE Ending'
  <2>1. CASE Begins(c)
    <3>1. PICK op \in Ops \ {"none", "REGISTER"}, n \in Name \cup {None}, x \in Id \cup Ip :
            /\ Begun(c, op, n, x, First(op)) /\ Question(op, x)
            /\ UNCHANGED <<db, disk>>
      BY <2>1 DEF Begins
    <3>2. dead' = dead /\ db' = db /\ disk' = disk
      BY <3>1 DEF Question
    <3>3. \A o \in Session \ {c} : Finds(cmd'[o], db')
      BY <3>1, <3>2 DEF Begun, Ending, Finds
    <3>4. Finds(cmd'[c], db')
      <4>1. /\ cmd'[c].at = First(op) /\ cmd'[c].of = x
            /\ cmd'[c].found = {k.token : k \in TokensOf(db, x)}
        BY <3>1 DEF Begun
      <4>2. First(op) \notin {"insert token", "commit token", "commit delete"}
        BY DEF First
      <4>3. \A r \in db.tokens : r.token \in cmd'[c].found => r.user = x
        BY <4>1 DEF TokensOf, Ending, Drawn
      <4> QED
        BY <3>2, <4>1, <4>2, <4>3 DEF Finds
    <3> QED
      BY <3>2, <3>3, <3>4 DEF Ending, Drawn
  <2>2. CASE Unread(c) \/ Registers(c)
    <3>1. /\ Others(c) /\ cmd'[c].found = {} /\ dead' = dead /\ disk' \in {disk, db}
          /\ db'.tokens \subseteq db.tokens
      BY <2>2 DEF Unread, Registers, Writing, Rest
    <3> QED
      BY <3>1, FindsQuiet, EndingStays
  <2>3. CASE Advances(c)
    <3>1. /\ Others(c) /\ dead' = dead /\ disk' \in {disk, db} /\ db'.tokens \subseteq db.tokens
      BY <2>3 DEF Advances, Moved, Writing, Rest
    <3>2. CASE cmd[c].at = "commit user"
      <4>1. Placed(cmd[c], db, issued) /\ Same(cmd'[c], cmd[c])
        BY <2>3 DEF Typed, Advances, Moved
      <4>2. cmd'[c].found = {}
        BY <3>2, <4>1 DEF Placed, Same
      <4> QED
        BY <3>1, <4>2, FindsQuiet, EndingStays
    <3>3. CASE cmd'[c].at = "commit"
      BY <3>1, <3>3, FindsQuiet, EndingStays
    <3> QED
      BY <2>3, <3>2, <3>3 DEF Advances, Moved
  <2>4. CASE Purges(c)
    <3>1. /\ Others(c) /\ cmd[c].at = "purge" /\ cmd'[c].at = "insert token" /\ Same(cmd'[c], cmd[c])
          /\ db'.tokens = {k \in db.tokens : k.user # cmd[c].of} /\ disk' = disk /\ dead' = dead
      BY <2>4 DEF Purges, Moved, Writing, Rest
    <3>2. Finds(cmd'[c], db')
      BY <3>1 DEF Ending, Finds, Same
    <3> QED
      BY <3>1, <3>2, EndingStays
  <2>5. CASE Deletes(c)
    <3>1. /\ Others(c) /\ cmd[c].at = "delete user" /\ cmd'[c].at = "commit delete" /\ Same(cmd'[c], cmd[c])
          /\ db'.tokens = {k \in db.tokens : k.user # cmd[c].of} /\ disk' = disk /\ dead' = dead
      BY <2>5 DEF Deletes, Moved, Writing, Rest
    <3>2. Finds(cmd'[c], db')
      BY <3>1 DEF Ending, Finds, Same
    <3> QED
      BY <3>1, <3>2, EndingStays
  <2>6. CASE Draws(c)
    <3>1. /\ Others(c) /\ cmd[c].at = "insert token" /\ cmd'[c].at = "commit token" /\ Same(cmd'[c], cmd[c])
          /\ disk' = disk /\ dead' = dead
      BY <2>6 DEF Draws
    <3>2. PICK r \in TokenRow : r.token = issued + 1 /\ db'.tokens = db.tokens \cup {r}
      BY <2>6 DEF Draws, Writing
    <3>3. /\ \A k \in db.tokens : k.token \in Nat /\ k.token <= issued
          /\ \A t \in dead : t \in 1..issued
          /\ \A o \in Session : \A t \in cmd[o].found : t \in 1..issued
          /\ issued \in Nat
      <4>1. \A k \in db.tokens : k.token \in Nat /\ k.token <= issued
        BY DEF Typed, Sound, Tables, TokenRow, Token
      <4>2. \A t \in dead : t \in 1..issued
        BY DEF Typed
      <4>3. \A o \in Session : \A t \in cmd[o].found : t \in 1..issued
        BY DEF Typed, Placed
      <4> QED
        BY <4>1, <4>2, <4>3 DEF Inv
    <3>4. \A i \in Nat : i <= issued => i # issued + 1
      BY ONLY <3>3
    <3>5. /\ \A k \in db.tokens : k.token # r.token
          /\ r.token \notin dead
          /\ \A o \in Session : r.token \notin cmd[o].found
      BY <3>2, <3>3, <3>4
    <3>6. Drawn(db)'
      BY <3>1, <3>2, <3>5 DEF Ending, Drawn
    <3>7. Drawn(disk)'
      BY <3>1 DEF Ending, Drawn
    <3>8. ASSUME NEW o \in Session \ {c} PROVE Finds(cmd'[o], db')
      <4>1. cmd'[o] = cmd[o] /\ Finds(cmd[o], db)
        BY <3>1 DEF Others, Ending
      <4> QED
        BY <3>2, <3>5, <4>1 DEF Finds
    <3>9. Finds(cmd'[c], db')
      <4>1. Finds(cmd[c], db)
        BY DEF Ending
      <4> QED
        BY <3>1, <3>2, <3>5, <4>1 DEF Finds, Same
    <3> QED
      BY <3>6, <3>7, <3>8, <3>9 DEF Ending
  <2>7. CASE Bans(c) \/ Kicks(c) \/ Unbans(c)
    <3>1. /\ Others(c) /\ dead' = dead /\ disk' \in {disk, db} /\ db'.tokens \subseteq db.tokens
          /\ cmd'[c].at \in {"commit ban", "kicked", "commit"}
      BY <2>7 DEF Bans, Kicks, Unbans, Moved, Writing, Rest
    <3> QED
      BY <3>1, FindsQuiet, EndingStays
  <2>8. CASE KicksNext(c)
    <3>1. /\ Others(c) /\ dead' = dead /\ disk' \in {disk, db} /\ db'.tokens \subseteq db.tokens
          /\ Same(cmd'[c], cmd[c]) /\ cmd'[c].at = cmd[c].at
      BY <2>8 DEF KicksNext, Moved
    <3> QED
      BY <3>1, FindsQuiet, EndingStays
  <2>9. CASE AnswersToken(c) \/ AnswersDelete(c)
    <3>1. /\ Others(c) /\ cmd'[c].found = {} /\ db' = db /\ disk' = db
          /\ cmd[c].at \in {"commit token", "commit delete"} /\ dead' = dead \cup cmd[c].found
      BY <2>9, IdleFields DEF AnswersToken, AnswersDelete, Ended
    <3>2. \A r \in db.tokens : r.token \notin dead'
      BY <3>1 DEF Ending, Finds, Drawn
    <3>3. Drawn(db)' /\ Drawn(disk)'
      BY <3>1, <3>2 DEF Ending, Drawn
    <3>4. Finds(cmd'[c], db')
      BY <3>1, FindsQuiet
    <3>5. \A o \in Session \ {c} : Finds(cmd'[o], db')
      BY <3>1 DEF Others, Ending
    <3> QED
      BY <3>3, <3>4, <3>5 DEF Ending
  <2>10. CASE AnswersBan(c)
    <3>1. /\ Others(c) /\ dead' = dead /\ disk' \in {disk, db} /\ db'.tokens \subseteq db.tokens
          /\ cmd'[c].found = {}
      BY <2>10, IdleFields DEF AnswersBan, Ended
    <3> QED
      BY <3>1, FindsQuiet, EndingStays
  <2> QED
    BY <1>1, <2>1, <2>2, <2>3, <2>4, <2>5, <2>6, <2>7, <2>8, <2>9, <2>10 DEF View
<1>2. CASE Elsewhere
  BY <1>2 DEF Elsewhere, Ending, Drawn
<1>3. CASE Crash
  <2>1. db' = disk /\ disk' = disk /\ dead' = dead /\ \A c \in Session : cmd'[c].at = "none"
    BY <1>3, IdleFields DEF Crash, history
  <2> QED
    BY <2>1 DEF Ending, Drawn, Finds
<1> QED
  BY <1>1, <1>2, <1>3, NextView DEF Views, ClientView

LEMMA EndingInvariance == Spec => []Ending
<1>1. Init => Ending
  <2>1. Init => /\ db.tokens = {} /\ disk.tokens = {} /\ \A c \in Session : cmd[c].at = "none"
    BY IdleFields DEF Init, EmptyTables
  <2> QED
    BY <2>1 DEF Ending, Drawn, Finds
<1>2. Inv /\ Inv' /\ Typed /\ Ending /\ [Next]_vars => Ending'
  BY EndingStep
<1> QED
  BY <1>1, <1>2, Invariance, TypedInvariance, PTL DEF Spec

(***************************************************************************)
(* After the answer of a rotation or a deletion no token the user had when *)
(* it began logs anyone in, whatever other commands ran meanwhile and      *)
(* wherever the process dies.  No command inserts a token it has found, a  *)
(* command deletes those it found before it goes on, and its own commit    *)
(* makes that durable (database.py:310, tcp_control.py:299).               *)
(***************************************************************************)
THEOREM RevokedForGoodHolds == Spec => []RevokedForGood
<1>1. Ending => RevokedForGood
  BY DEF Ending, Drawn, RevokedForGood, Valid
<1> QED
  BY <1>1, EndingInvariance, PTL

-----------------------------------------------------------------------------
(* Tokens that were answered.                                              *)

Unbanning == {"UNBAN_USER", "UNBAN_IP", "DELETE_REGISTRATION"}

LEMMA TopicsOf ==
  /\ \A op \in {"REGISTER", "ROTATE_TOKEN", "DELETE_REGISTRATION"} : "token" \in Topics(op)
  /\ \A op \in Ops \ {"REGISTER", "ROTATE_TOKEN", "DELETE_REGISTRATION"} : "token" \notin Topics(op)
  /\ \A op \in Unbanning \cup {"BAN_USER", "BAN_IP"} : "ban" \in Topics(op)
BY DEF Ops, Topics, Unbanning, RoleCommands

\* The row r of an answered token, and no command that could take it away.
HeldAs(t, r) == /\ r.token = t /\ r \in db.tokens /\ r \in disk.tokens
                /\ \A o \in Session : cmd[o].of = r.user => "token" \notin Topics(cmd[o].op)

\* What c is about to answer is there.
Drew(c) == cmd[c].at = "commit token" /\ ~cmd[c].crossed =>
             \E r \in db.tokens : r.token = cmd[c].token /\ r.user = cmd[c].of

Keeping == /\ \A t \in held : \E r \in db.tokens : HeldAs(t, r)
           /\ \A c \in Session : Drew(c)

\* A step of a command that is not the start of one, nor the answer of a token.
LEMMA KeepingStays ==
  ASSUME Inv, Typed, Crossings, Keeping, NEW c \in Session, Others(c),
         held' = held, disk' \in {disk, db},
         \A r \in db.tokens : \/ r \in db'.tokens
                              \/ r.user = cmd[c].of /\ "token" \in Topics(cmd[c].op),
         \/ Same(cmd'[c], cmd[c])
         \/ \A r \in db.tokens : r.user # cmd'[c].of,
         Drew(c)'
  PROVE  Keeping'
<1>1. ASSUME NEW t \in held PROVE \E r \in db'.tokens : HeldAs(t, r)'
  <2>1. PICK r \in db.tokens : HeldAs(t, r)
    BY DEF Keeping
  <2>2. r \in db'.tokens /\ r \in disk'.tokens
    BY <2>1 DEF HeldAs
  <2>3. ASSUME NEW o \in Session, cmd'[o].of = r.user PROVE "token" \notin Topics(cmd'[o].op)
    BY <2>1, <2>3 DEF Others, Same, HeldAs
  <2> QED
    BY <2>1, <2>2, <2>3 DEF HeldAs
<1>2. ASSUME NEW o \in Session \ {c} PROVE Drew(o)'
  <2>1. cmd'[o] = cmd[o]
    BY DEF Others
  <2>2. CASE cmd[o].at = "commit token" /\ ~cmd[o].crossed
    <3>1. PICK r \in db.tokens : r.token = cmd[o].token /\ r.user = cmd[o].of
      BY <2>2 DEF Keeping, Drew
    <3>2. cmd[o].of \in Id /\ cmd[o].of # None
      BY <2>2, OfType, TablesAssumption DEF Id
    <3>3. "token" \in Topics(cmd[o].op)
      BY <2>2, TopicsOf DEF Typed, Placed, OpsAt
    <3>4. ~Crossing(o, c)
      BY <2>2 DEF Crossings
    <3>5. ~(r.user = cmd[c].of /\ "token" \in Topics(cmd[c].op))
      BY <3>1, <3>2, <3>3, <3>4 DEF Crossing
    <3> QED
      BY <2>1, <3>1, <3>5 DEF Drew
  <2> QED
    BY <2>1, <2>2 DEF Drew
<1> QED
  BY <1>1, <1>2 DEF Keeping

LEMMA KeepingBegins ==
  ASSUME Inv, Typed, Keeping, NEW c \in Session, Begins(c) PROVE Keeping'
<1>1. PICK op \in Ops \ {"none", "REGISTER"}, n \in Name \cup {None}, x \in Id \cup Ip :
        Begun(c, op, n, x, First(op)) /\ Question(op, x) /\ UNCHANGED <<db, disk>>
  BY DEF Begins
<1>2. /\ cmd'[c].op = op /\ cmd'[c].of = x /\ cmd'[c].at # "commit token"
      /\ \A o \in Session \ {c} :
           /\ cmd'[o].op = cmd[o].op /\ cmd'[o].of = cmd[o].of /\ cmd'[o].at = cmd[o].at
           /\ cmd'[o].token = cmd[o].token /\ (cmd[o].crossed => cmd'[o].crossed)
  BY <1>1 DEF Begun, First
<1>3. ASSUME NEW t \in held' PROVE \E r \in db'.tokens : HeldAs(t, r)'
  <2>1. t \in held
    BY <1>1 DEF Question
  <2>2. PICK r \in db.tokens : HeldAs(t, r)
    BY <2>1 DEF Keeping
  <2>3. r.user = x => "token" \notin Topics(op)
    <3>1. CASE op \in {"ROTATE_TOKEN", "DELETE_REGISTRATION"}
      <4>1. t \notin {k.token : k \in TokensOf(db, x)}
        BY <1>1, <1>3, <3>1 DEF Question
      <4> QED
        BY <2>2, <4>1 DEF TokensOf, HeldAs
    <3>2. CASE op \notin {"ROTATE_TOKEN", "DELETE_REGISTRATION"}
      BY <3>2, TopicsOf
    <3> QED
      BY <3>1, <3>2
  <2>4. \A o \in Session : cmd'[o].of = r.user => "token" \notin Topics(cmd'[o].op)
    BY <1>2, <2>2, <2>3 DEF HeldAs
  <2> QED
    BY <1>1, <2>2, <2>4 DEF HeldAs
<1>4. \A o \in Session : Drew(o)'
  BY <1>1, <1>2 DEF Keeping, Drew
<1> QED
  BY <1>3, <1>4 DEF Keeping

LEMMA KeepingAnswer ==
  ASSUME Inv, Typed, Crossings, Keeping, NEW c \in Session, AnswersToken(c) PROVE Keeping'
<1>1. /\ cmd[c].at = "commit token" /\ Others(c) /\ cmd'[c] = Idle /\ db' = db /\ disk' = db
      /\ held' = IF cmd[c].crossed THEN held ELSE held \cup {cmd[c].token}
  BY DEF AnswersToken, Ended
<1>2. \A o \in Session : cmd'[o].of \in {cmd[o].of, None} /\ cmd'[o].op \in {cmd[o].op, "none"}
  BY <1>1, IdleFields DEF Others
<1>3. "token" \notin Topics("none")
  BY TopicsOf DEF Ops
<1>4. ASSUME NEW t \in held PROVE \E r \in db'.tokens : HeldAs(t, r)'
  <2>1. PICK r \in db.tokens : HeldAs(t, r)
    BY DEF Keeping
  <2>2. \A o \in Session : cmd'[o].of = r.user => "token" \notin Topics(cmd'[o].op)
    BY <1>1, <1>3, <2>1, IdleFields DEF HeldAs, Others
  <2> QED
    BY <1>1, <2>1, <2>2 DEF HeldAs
<1>5. ASSUME ~cmd[c].crossed, NEW t, t = cmd[c].token
      PROVE  \E r \in db'.tokens : HeldAs(t, r)'
  <2>1. PICK r \in db.tokens : r.token = t /\ r.user = cmd[c].of
    BY <1>1, <1>5 DEF Keeping, Drew
  <2>2. "token" \in Topics(cmd[c].op) /\ cmd[c].of # None
    BY <1>1, OfType, TopicsOf, TablesAssumption DEF Typed, Placed, OpsAt, Id
  <2>3. \A o \in Session \ {c} : cmd[o].of = r.user => "token" \notin Topics(cmd[o].op)
    BY <1>5, <2>1, <2>2 DEF Crossings, Crossing
  <2>4. \A o \in Session : cmd'[o].of = r.user => "token" \notin Topics(cmd'[o].op)
    BY <1>1, <1>3, <2>3, IdleFields DEF Others
  <2> QED
    BY <1>1, <2>1, <2>4 DEF HeldAs
<1>6. \A t \in held' : \E r \in db'.tokens : HeldAs(t, r)'
  BY <1>1, <1>4, <1>5
<1>7. \A o \in Session : Drew(o)'
  BY <1>1, IdleFields DEF Keeping, Drew, Others
<1> QED
  BY <1>6, <1>7 DEF Keeping

LEMMA KeepingStep == ASSUME Inv, Typed, Crossings, Keeping, [Next]_vars PROVE Keeping'
<1>0. None \notin Id /\ \A r \in db.tokens : r.user \in Id
  BY TablesAssumption DEF Typed, Sound, Tables, TokenRow, Id
<1>1. ASSUME NEW c \in Session, View(c) PROVE Keeping'
  <2>1. CASE Begins(c)
    BY <2>1, KeepingBegins
  <2>2. CASE AnswersToken(c)
    BY <2>2, KeepingAnswer
  <2>3. CASE Unread(c) \/ AnswersDelete(c) \/ AnswersBan(c)
    <3>1. /\ Others(c) /\ cmd'[c].of = None /\ cmd'[c].at # "commit token"
          /\ held' = held /\ disk' \in {disk, db} /\ db' = db
      BY <2>3, IdleFields DEF Unread, AnswersDelete, AnswersBan, Ended, Rest, Before
    <3> QED
      BY <1>0, <3>1, KeepingStays DEF Drew
  <2>4. CASE Registers(c)
    <3>1. /\ Others(c) /\ cmd'[c].of = db.last + 1 /\ cmd'[c].at # "commit token"
          /\ held' = held /\ disk' = disk /\ db'.tokens = db.tokens
      BY <2>4 DEF Registers, Writing, Rest
    <3>2. \A r \in db.tokens : r.user # db.last + 1
      <4>1. \A r \in db.tokens : r.user \in Nat /\ r.user <= db.last
        BY <1>0, IdType DEF Inv, Rows
      <4>2. db.last \in Nat
        BY TablesAssumption DEF Typed, Sound, Tables
      <4> QED
        BY ONLY <4>1, <4>2
    <3> QED
      BY <3>1, <3>2, KeepingStays DEF Drew
  <2>5. CASE Draws(c)
    <3>1. /\ Others(c) /\ Same(cmd'[c], cmd[c]) /\ cmd'[c].token = issued + 1
          /\ held' = held /\ disk' = disk
      BY <2>5 DEF Draws
    <3>2. PICK r \in TokenRow : /\ r.token = issued + 1 /\ r.user = cmd[c].of
                                /\ db'.tokens = db.tokens \cup {r}
      BY <2>5 DEF Draws, Writing
    <3>3. Drew(c)'
      BY <3>1, <3>2 DEF Drew, Same
    <3> QED
      BY <3>1, <3>2, <3>3, KeepingStays
  <2>6. CASE Purges(c) \/ Deletes(c)
    <3>1. /\ Others(c) /\ Same(cmd'[c], cmd[c]) /\ cmd'[c].at # "commit token"
          /\ held' = held /\ disk' = disk
          /\ db'.tokens = {k \in db.tokens : k.user # cmd[c].of}
          /\ cmd[c].at \in {"purge", "delete user"}
      BY <2>6 DEF Purges, Deletes, Moved, Writing, Rest
    <3>2. "token" \in Topics(cmd[c].op)
      BY <3>1, TopicsOf DEF Typed, Placed, OpsAt
    <3> QED
      BY <3>1, <3>2, KeepingStays DEF Drew
  <2>7. CASE Advances(c) \/ Bans(c) \/ Kicks(c) \/ Unbans(c)
    <3>1. /\ Others(c) /\ Same(cmd'[c], cmd[c]) /\ cmd'[c].at # "commit token"
          /\ held' = held /\ disk' \in {disk, db} /\ db'.tokens = db.tokens
      BY <2>7 DEF Advances, Bans, Kicks, Unbans, Moved, Writing, Rest
    <3> QED
      BY <3>1, KeepingStays DEF Drew
  <2>8. CASE KicksNext(c)
    <3>1. /\ Others(c) /\ Same(cmd'[c], cmd[c])
          /\ cmd'[c].at = cmd[c].at /\ cmd'[c].token = cmd[c].token
          /\ held' = held /\ disk' = disk /\ db' = db
      BY <2>8 DEF KicksNext, Moved
    <3>2. Drew(c)'
      BY <3>1 DEF Keeping, Drew, Same
    <3> QED
      BY <3>1, <3>2, KeepingStays
  <2> QED
    BY <1>1, <2>1, <2>2, <2>3, <2>4, <2>5, <2>6, <2>7, <2>8 DEF View
<1>2. CASE Elsewhere
  BY <1>2 DEF Elsewhere, Keeping, HeldAs, Drew
<1>3. CASE Crash
  <2>1. db' = disk /\ disk' = disk /\ held' = held /\ cmd' = [c \in Session |-> Idle]
    BY <1>3 DEF Crash, history
  <2>2. ASSUME NEW t \in held PROVE \E r \in db'.tokens : HeldAs(t, r)'
    <3>1. PICK r \in db.tokens : HeldAs(t, r)
      BY DEF Keeping
    <3>2. \A o \in Session : cmd'[o].of # r.user
      BY <1>0, <2>1, IdleFields
    <3> QED
      BY <2>1, <3>1, <3>2 DEF HeldAs
  <2> QED
    BY <2>1, <2>2, IdleFields DEF Keeping, Drew
<1> QED
  BY <1>1, <1>2, <1>3, NextView DEF Views, ClientView

LEMMA KeepingInvariance == Spec => []Keeping
<1>1. Init => Keeping
  BY IdleFields DEF Init, Keeping, Drew
<1>2. Inv /\ Typed /\ Crossings /\ Keeping /\ [Next]_vars => Keeping'
  BY KeepingStep
<1> QED
  BY <1>1, <1>2, Invariance, TypedInvariance, CrossingInvariance, PTL DEF Spec

(***************************************************************************)
(* A token that was answered logs its user in, after a crash as well,      *)
(* until a command to replace it or to delete the account begins: its row  *)
(* is on the disk before the answer (database.py:318), and no command that *)
(* ran at the same time on the same account is left to delete it.          *)
(***************************************************************************)
THEOREM AnsweredTokenKeptHolds == Spec => []AnsweredTokenKept
<1>1. ASSUME Typed, Keeping PROVE AnsweredTokenKept
  <2>1. ASSUME NEW t \in held PROVE Valid(db, t) # {} /\ Valid(disk, t) # {}
    <3>1. PICK r \in db.tokens : HeldAs(t, r)
      BY <1>1 DEF Keeping
    <3>2. r \in Valid(db, t) /\ r \in Valid(disk, t)
      BY <1>1, <3>1 DEF HeldAs, Typed, Sound, Valid
    <3> QED
      BY <3>2
  <2> QED
    BY <2>1 DEF AnsweredTokenKept
<1> QED
  BY <1>1, TypedInvariance, KeepingInvariance, PTL

-----------------------------------------------------------------------------
(* Bans.                                                                   *)

\* The join of j has looked for a ban of x.
Behind(j, x) == \/ join[j].user = x /\ join[j].at \in {"log", "open"}
                \/ IpOf[j] = x /\ join[j].at \in {"user ban", "log", "open"}

\* The session of j is one of x.
Is(j, x) == session[j].user = x \/ (session[j].user # None /\ IpOf[j] = x)

\* No join gets past the ban of x but one that is listed.
Guarded(x) == x \in db.bans /\ \A j \in Client : Behind(j, x) => x \in join[j].raced

Clear(x, left) == \A j \in Client \ left : Is(j, x) => x \in session[j].raced

\* What a command to ban, which no other has crossed, has done.
Barring(c) ==
  ~cmd[c].crossed =>
    /\ cmd[c].at \in {"commit ban", "kicked"} => Guarded(cmd[c].of)
    /\ cmd[c].at = "kicked" => cmd[c].of \in disk.bans /\ Clear(cmd[c].of, cmd[c].left)
    /\ cmd[c].at = "commit ban" /\ cmd[c].op = "BAN_USER" => cmd[c].of \in Users(db)

Barred(x) ==
  /\ Guarded(x) /\ x \in disk.bans /\ Clear(x, {})
  /\ \A o \in Session : cmd[o].of = x => cmd[o].op \notin Unbanning

Banning == (\A c \in Session : Barring(c)) /\ (\A x \in banned : Barred(x))

LEMMA GuardedStays ==
  ASSUME NEW x, Guarded(x), join' = join, x \in db'.bans PROVE Guarded(x)'
BY DEF Guarded, Behind

LEMMA ClearStays ==
  ASSUME Typed, NEW x \in Id \cup Ip, NEW left, NEW less, Clear(x, left), Fewer,
         \A j \in left : j \in less \/ session'[j] = NoSession
  PROVE  Clear(x, less)'
<1>1. x # None /\ NoSession.user = None
  BY TablesAssumption DEF NoSession, Id
<1>2. ASSUME NEW j \in Client, j \notin less, Is(j, x)' PROVE x \in session'[j].raced
  <2>1. session'[j] # NoSession
    BY <1>1, <1>2 DEF Is
  <2>2. session'[j] = session[j] /\ j \notin left
    BY <1>2, <2>1 DEF Fewer
  <2> QED
    BY <1>2, <2>2 DEF Is, Clear
<1> QED
  BY <1>2 DEF Clear

\* A step of a command that is not the start of one, nor a ban or the answer of one.
LEMMA BanningStays ==
  ASSUME Inv, Typed, Crossings, Banning, NEW c \in Session, Others(c),
         banned' = banned, disk' \in {disk, db}, join' = join, Fewer,
         \A x \in db.bans \cup Users(db) :
           \/ (x \in db.bans => x \in db'.bans) /\ (x \in Users(db) => x \in Users(db'))
           \/ x = cmd[c].of /\ cmd[c].op \in Unbanning,
         Same(cmd'[c], cmd[c]) \/ cmd'[c].op \notin Unbanning,
         Barring(c)'
  PROVE  Banning'
<1>1. ASSUME NEW x \in banned PROVE Barred(x)'
  <2>1. Barred(x) /\ x \in Id \cup Ip
    BY DEF Banning, Typed
  <2>2. x \in db'.bans /\ x \in disk'.bans
    BY <2>1 DEF Barred, Guarded
  <2>3. Guarded(x)'
    BY <2>1, <2>2, GuardedStays DEF Barred
  <2>4. Clear(x, {})'
    BY <2>1, ClearStays DEF Barred
  <2>5. \A o \in Session : cmd'[o].of = x => cmd'[o].op \notin Unbanning
    BY <2>1 DEF Barred, Others, Same
  <2> QED
    BY <2>2, <2>3, <2>4, <2>5 DEF Barred
<1>2. ASSUME NEW o \in Session \ {c} PROVE Barring(o)'
  <2>1. cmd'[o] = cmd[o] /\ Barring(o)
    BY DEF Others, Banning
  <2> DEFINE x == cmd[o].of
  <2>2. CASE ~cmd[o].crossed /\ cmd[o].at \in {"commit ban", "kicked"}
    <3>1. x \in Id \cup Ip /\ x # None
      BY <2>2, OfType, TablesAssumption DEF Before, Id
    <3>2. "ban" \in Topics(cmd[o].op)
      BY <2>2, TopicsOf DEF Typed, Placed, OpsAt
    <3>3. ~(x = cmd[c].of /\ cmd[c].op \in Unbanning)
      BY <2>2, <3>1, <3>2, TopicsOf DEF Crossings, Crossing
    <3>4. Guarded(x)
      BY <2>1, <2>2 DEF Barring
    <3>5. x \in db'.bans /\ (x \in Users(db) => x \in Users(db'))
      BY <3>3, <3>4 DEF Guarded
    <3>6. Guarded(x)'
      BY <3>4, <3>5, GuardedStays, <2>1 DEF Others
    <3>7. cmd[o].at = "kicked" => x \in disk'.bans /\ Clear(x, cmd[o].left)'
      BY <2>1, <2>2, <3>1, <3>4, ClearStays DEF Barring, Guarded
    <3> QED
      BY <2>1, <2>2, <3>5, <3>6, <3>7 DEF Barring
  <2>3. CASE ~(~cmd[o].crossed /\ cmd[o].at \in {"commit ban", "kicked"})
    BY <2>1, <2>3 DEF Barring
  <2> QED
    BY <2>2, <2>3
<1> QED
  BY <1>1, <1>2 DEF Banning

LEMMA BanningBegins ==
  ASSUME Inv, Typed, Banning, NEW c \in Session, Begins(c) PROVE Banning'
<1>1. PICK op \in Ops \ {"none", "REGISTER"}, n \in Name \cup {None}, x \in Id \cup Ip :
        /\ Begun(c, op, n, x, First(op)) /\ Question(op, x) /\ Fewer
        /\ UNCHANGED <<db, disk, join>>
  BY DEF Begins
<1>2. /\ cmd'[c].op = op /\ cmd'[c].of = x /\ cmd'[c].at \notin {"commit ban", "kicked"}
      /\ \A o \in Session \ {c} :
           /\ cmd'[o].op = cmd[o].op /\ cmd'[o].of = cmd[o].of /\ cmd'[o].at = cmd[o].at
           /\ cmd'[o].left = cmd[o].left /\ (cmd[o].crossed => cmd'[o].crossed)
  BY <1>1 DEF Begun, First
<1>3. ASSUME NEW y \in banned' PROVE Barred(y)'
  <2>1. y \in banned /\ (y = x => op \notin Unbanning)
    BY <1>1 DEF Question, Unbanning
  <2>2. Barred(y) /\ y \in Id \cup Ip
    BY <2>1 DEF Banning, Typed
  <2>3. Guarded(y)'
    BY <1>1, <2>2, GuardedStays DEF Barred, Guarded
  <2>4. Clear(y, {})'
    BY <1>1, <2>2, ClearStays DEF Barred
  <2>5. \A o \in Session : cmd'[o].of = y => cmd'[o].op \notin Unbanning
    BY <1>2, <2>1, <2>2 DEF Barred
  <2> QED
    BY <1>1, <2>2, <2>3, <2>4, <2>5 DEF Barred
<1>4. ASSUME NEW o \in Session \ {c} PROVE Barring(o)'
  <2>1. CASE ~cmd'[o].crossed /\ cmd[o].at \in {"commit ban", "kicked"}
    <3>1. Barring(o) /\ ~cmd[o].crossed
      BY <1>2, <2>1 DEF Banning
    <3>2. cmd[o].of \in Id \cup Ip
      BY <2>1, OfType DEF Before
    <3>3. ASSUME NEW y, y = cmd[o].of, NEW left, left = cmd[o].left
          PROVE  /\ Guarded(y)' /\ (cmd[o].at = "kicked" => y \in disk.bans /\ Clear(y, left)')
                 /\ cmd[o].at = "commit ban" /\ cmd[o].op = "BAN_USER" => y \in Users(db)
      <4>1. Guarded(y) /\ y \in db.bans
        BY <2>1, <3>1, <3>3 DEF Barring, Guarded
      <4>2. Guarded(y)'
        BY <1>1, <4>1, GuardedStays
      <4>3. cmd[o].at = "kicked" => Clear(y, left)'
        BY <1>1, <3>1, <3>2, <3>3, ClearStays DEF Barring
      <4> QED
        BY <3>1, <3>3, <4>2, <4>3 DEF Barring
    <3> QED
      BY <1>1, <1>2, <3>3 DEF Barring
  <2>2. CASE cmd'[o].crossed \/ cmd[o].at \notin {"commit ban", "kicked"}
    BY <1>2, <2>2 DEF Barring
  <2> QED
    BY <2>1, <2>2
<1>5. Barring(c)'
  BY <1>2 DEF Barring
<1> QED
  BY <1>3, <1>4, <1>5 DEF Banning

\* The ban of x is inserted: the joins past their look at it are listed.
LEMMA GuardedBan ==
  ASSUME Typed, NEW c \in Session, Bans(c), NEW x \in Id \cup Ip, x = cmd[c].of \/ Guarded(x)
  PROVE  Guarded(x)'
<1>1. /\ db'.bans = db.bans \cup {cmd[c].of}
      /\ \A j \in Client : /\ join'[j].at = join[j].at /\ join'[j].user = join[j].user
                           /\ join[j].raced \subseteq join'[j].raced
                           /\ j \in PastCheck(cmd[c].of) => cmd[c].of \in join'[j].raced
  BY DEF Bans, Writing
<1>2. x \in db'.bans
  BY <1>1 DEF Guarded
<1>3. ASSUME NEW j \in Client, Behind(j, x)' PROVE x \in join'[j].raced
  <2>1. Behind(j, x)
    BY <1>1, <1>3 DEF Behind
  <2>2. CASE x = cmd[c].of
    <3>1. IpOf[j] \in Ip
      BY AccountsAssumption
    <3>2. j \in PastCheck(cmd[c].of)
      BY <2>1, <2>2, <3>1 DEF Behind, PastCheck
    <3> QED
      BY <1>1, <2>2, <3>2
  <2>3. CASE x # cmd[c].of
    BY <1>1, <2>1, <2>3 DEF Guarded
  <2> QED
    BY <2>2, <2>3
<1> QED
  BY <1>2, <1>3 DEF Guarded

LEMMA BanningBans ==
  ASSUME Inv, Typed, Crossings, Banning, NEW c \in Session, Bans(c) PROVE Banning'
<1>1. /\ cmd[c].at = "insert ban" /\ Others(c) /\ cmd'[c].at = "commit ban" /\ Same(cmd'[c], cmd[c])
      /\ cmd[c].op = "BAN_USER" => cmd[c].of \in Users(db)
      /\ Users(db') = Users(db) /\ disk' = disk /\ session' = session /\ banned' = banned
  BY DEF Bans, Moved, Writing
<1>2. cmd[c].of \in Id \cup Ip
  BY <1>1, OfType DEF Before
<1>3. Fewer
  BY <1>1 DEF Fewer, Typed
<1>4. ASSUME NEW x \in banned PROVE Barred(x)'
  <2>1. Barred(x) /\ x \in Id \cup Ip
    BY DEF Banning, Typed
  <2>2. Guarded(x)' /\ Clear(x, {})'
    BY <1>3, <2>1, GuardedBan, ClearStays DEF Barred
  <2> QED
    BY <1>1, <2>1, <2>2 DEF Barred, Others, Same
<1>5. ASSUME NEW o \in Session \ {c} PROVE Barring(o)'
  <2>1. cmd'[o] = cmd[o] /\ Barring(o)
    BY <1>1 DEF Others, Banning
  <2>2. CASE ~cmd[o].crossed /\ cmd[o].at \in {"commit ban", "kicked"}
    <3>1. cmd[o].of \in Id \cup Ip
      BY <2>2, OfType DEF Before
    <3>2. ASSUME NEW y, y = cmd[o].of, NEW left, left = cmd[o].left
          PROVE  Guarded(y)' /\ (cmd[o].at = "kicked" => Clear(y, left)')
      BY <1>3, <2>1, <2>2, <3>1, <3>2, GuardedBan, ClearStays DEF Barring
    <3> QED
      BY <1>1, <2>1, <2>2, <3>2 DEF Barring
  <2>3. CASE ~(~cmd[o].crossed /\ cmd[o].at \in {"commit ban", "kicked"})
    BY <2>1, <2>3 DEF Barring
  <2> QED
    BY <2>2, <2>3
<1>6. Barring(c)'
  <2>1. ASSUME NEW y, y = cmd[c].of PROVE Guarded(y)'
    BY <1>2, <2>1, GuardedBan
  <2> QED
    BY <1>1, <2>1 DEF Barring, Same
<1> QED
  BY <1>1, <1>4, <1>5, <1>6 DEF Banning

LEMMA BanningAnswer ==
  ASSUME Inv, Typed, Crossings, Banning, NEW c \in Session, AnswersBan(c) PROVE Banning'
<1>1. /\ cmd[c].at = "kicked" /\ cmd[c].left = {} /\ Others(c) /\ cmd'[c] = Idle
      /\ banned' = IF cmd[c].crossed THEN banned ELSE banned \cup {cmd[c].of}
      /\ UNCHANGED <<db, disk, join, session>>
  BY DEF AnswersBan, Ended
<1>2. "none" \notin Unbanning
  BY DEF Unbanning
<1>3. ASSUME NEW x, Barred(x) PROVE Barred(x)'
  <2>1. \A o \in Session : cmd'[o].of = x => cmd'[o].op \notin Unbanning
    BY <1>1, <1>2, <1>3, IdleFields DEF Barred, Others
  <2> QED
    BY <1>1, <1>3, <2>1 DEF Barred, Guarded, Behind, Clear, Is
<1>4. ASSUME ~cmd[c].crossed PROVE Barred(cmd[c].of)
  <2>1. Guarded(cmd[c].of) /\ cmd[c].of \in disk.bans /\ Clear(cmd[c].of, {})
    BY <1>1, <1>4 DEF Banning, Barring
  <2>2. "ban" \in Topics(cmd[c].op) /\ cmd[c].of # None /\ cmd[c].op \notin Unbanning
    BY <1>1, OfType, TopicsOf, TablesAssumption DEF Typed, Placed, OpsAt, Id, Before, Unbanning
  <2>3. \A o \in Session \ {c} : cmd[o].of = cmd[c].of => cmd[o].op \notin Unbanning
    BY <1>4, <2>2, TopicsOf DEF Crossings, Crossing
  <2> QED
    BY <2>1, <2>2, <2>3 DEF Barred
<1>5. \A x \in banned' : Barred(x)
  BY <1>1, <1>4 DEF Banning
<1>6. \A x \in banned' : Barred(x)'
  BY <1>3, <1>5
<1>7. Barring(c)'
  BY <1>1, IdleFields DEF Barring
<1>8. ASSUME NEW o \in Session \ {c} PROVE Barring(o)'
  <2>1. cmd'[o] = cmd[o] /\ Barring(o)
    BY <1>1 DEF Others, Banning
  <2> QED
    BY <1>1, <2>1 DEF Barring, Guarded, Behind, Clear, Is
<1> QED
  BY <1>6, <1>7, <1>8 DEF Banning

\* The sessions of the banned are listed, and those not closed yet are left.
LEMMA KicksBarring ==
  ASSUME Inv, Typed, Crossings, Banning, NEW c \in Session, Kicks(c) PROVE Barring(c)'
<1>1. /\ cmd[c].at = "commit ban" /\ cmd'[c].at = "kicked" /\ Same(cmd'[c], cmd[c])
      /\ db' = db /\ disk' = db /\ join' = join /\ Fewer
      /\ \A j \in IF cmd[c].op = "BAN_IP" THEN FromHost(cmd[c].of) ELSE Named(cmd[c].name) :
           j \in cmd'[c].left \/ session'[j] = NoSession
  BY DEF Kicks, Moved
<1>2. SUFFICES ASSUME ~cmd[c].crossed PROVE Barring(c)'
  BY <1>1 DEF Barring, Same
<1>3. Guarded(cmd[c].of) /\ (cmd[c].op = "BAN_USER" => cmd[c].of \in Users(db))
  BY <1>1, <1>2 DEF Banning, Barring
<1>4. Placed(cmd[c], db, issued) /\ cmd[c].op \in {"BAN_USER", "BAN_IP"}
  BY <1>1 DEF Typed, Placed, OpsAt
<1>5. ASSUME NEW x, x = cmd[c].of, NEW left, left = cmd'[c].left
      PROVE  Guarded(x)' /\ Clear(x, left)'
  <2>1. Guarded(x)'
    BY <1>1, <1>3, <1>5, GuardedStays DEF Guarded
  <2>2. ASSUME NEW j \in Client \ left, Is(j, x)' PROVE FALSE
    <3>1. session'[j] = session[j] /\ session'[j] # NoSession
      <4>1. x # None /\ NoSession.user = None
        BY <1>1, <1>5, OfType, TablesAssumption DEF NoSession, Before, Id
      <4>2. session'[j] # NoSession
        BY <2>2, <4>1 DEF Is
      <4> QED
        BY <1>1, <2>2, <4>2 DEF Fewer
    <3>2. Is(j, x)
      BY <2>2, <3>1 DEF Is
    <3>3. j \notin IF cmd[c].op = "BAN_IP" THEN FromHost(x) ELSE Named(cmd[c].name)
      BY <1>1, <1>5, <3>1, <2>2
    <3>4. CASE cmd[c].op = "BAN_IP"
      <4>1. x \in Ip /\ session[j] \in SessRec
        BY <1>1, <1>4, <1>5, <3>4 DEF Placed, Before, Typed
      <4>2. session[j].user \in Id \cup {None} /\ session[j].user # x
        BY <4>1, TablesAssumption DEF SessRec, Id
      <4> QED
        BY <3>2, <3>3, <3>4, <4>2, <2>2 DEF Is, FromHost
    <3>5. CASE cmd[c].op = "BAN_USER"
      <4>1. x \in Users(db) /\ x \in Id /\ db.users[x].name = cmd[c].name
        BY <1>3, <1>4, <1>5, <3>5 DEF Placed, Users
      <4>2. IpOf[j] # x
        BY <4>1, AccountsAssumption, TablesAssumption, <2>2 DEF Id
      <4>3. session[j].user = x
        BY <3>2, <4>2 DEF Is
      <4>4. session[j].name = cmd[c].name
        BY <4>1, <4>3, <2>2 DEF Typed, Joining, Who
      <4> QED
        BY <3>3, <3>5, <4>4, <2>2 DEF Named
    <3> QED
      BY <1>4, <3>4, <3>5
  <2> QED
    BY <2>1, <2>2 DEF Clear
<1>6. cmd[c].of \in db.bans
  BY <1>3 DEF Guarded
<1> QED
  BY <1>1, <1>5, <1>6 DEF Barring, Same

LEMMA ClientBanning ==
  ASSUME Inv, Typed, Banning, NEW j \in Client, ClientView(j) PROVE Banning'
<1>0. /\ cmd' = cmd /\ db' = db /\ disk' = disk /\ banned' = banned
      /\ \A i \in Client \ {j} : join'[i] = join[i] /\ session'[i] = session[i]
  BY DEF ClientView, Elsewhere
<1>n. NoJoin.at = "none" /\ NoSession.user = None
  BY DEF NoJoin, NoSession
<1>1. ASSUME NEW x \in Id \cup Ip, Guarded(x) PROVE Guarded(x)'
  <2>0. x \in db.bans /\ (Behind(j, x) => x \in join[j].raced)
    BY <1>1 DEF Guarded
  <2>1. Behind(j, x)' => x \in join'[j].raced
    <3>1. CASE Enters(j) \/ Validates(j) \/ Drops(j) \/ Opens(j)
      BY <1>n, <3>1 DEF Enters, Validates, Drops, Opens, Behind
    <3>2. CASE PassesIp(j)
      BY <2>0, <3>2 DEF PassesIp, Onward, Behind
    <3>3. CASE PassesUser(j)
      BY <2>0, <3>3 DEF PassesUser, Onward, Behind
    <3>4. CASE Logs(j)
      BY <2>0, <3>4 DEF Logs, Onward, Behind
    <3>5. CASE Closes(j)
      BY <2>0, <3>5 DEF Closes, Behind
    <3> QED
      BY <3>1, <3>2, <3>3, <3>4, <3>5 DEF ClientView
  <2>2. \A i \in Client \ {j} : Behind(i, x)' => x \in join'[i].raced
    BY <1>0, <1>1 DEF Guarded, Behind
  <2> QED
    BY <1>0, <2>0, <2>1, <2>2 DEF Guarded
<1>2. ASSUME NEW x \in Id \cup Ip, Guarded(x), NEW left, Clear(x, left) PROVE Clear(x, left)'
  <2>0. x # None
    BY TablesAssumption DEF Id
  <2>1. Is(j, x)' /\ j \notin left => x \in session'[j].raced
    <3>1. CASE session'[j] = session[j] \/ session'[j] = NoSession
      BY <1>2, <1>n, <2>0, <3>1 DEF Clear, Is
    <3>2. CASE Opens(j)
      <4>1. /\ join[j].at = "open" /\ session'[j].user = join[j].user
            /\ session'[j].raced = join[j].raced
        BY <3>2 DEF Opens
      <4>2. Is(j, x)' => Behind(j, x)
        BY <4>1 DEF Is, Behind
      <4> QED
        BY <1>2, <4>1, <4>2 DEF Guarded
    <3> QED
      BY <3>1, <3>2 DEF ClientView, Enters, Validates, PassesIp, PassesUser, Logs, Onward, Drops, Closes
  <2>2. \A i \in Client \ {j} : Is(i, x)' /\ i \notin left => x \in session'[i].raced
    BY <1>0, <1>2 DEF Clear, Is
  <2> QED
    BY <2>1, <2>2 DEF Clear
<1>3. ASSUME NEW x \in banned PROVE Barred(x)'
  <2>1. Barred(x) /\ x \in Id \cup Ip
    BY DEF Banning, Typed
  <2>2. Guarded(x)' /\ Clear(x, {})'
    BY <1>1, <1>2, <2>1 DEF Barred
  <2> QED
    BY <1>0, <2>1, <2>2 DEF Barred
<1>4. ASSUME NEW c \in Session PROVE Barring(c)'
  <2>1. Barring(c)
    BY DEF Banning
  <2>2. CASE ~cmd[c].crossed /\ cmd[c].at \in {"commit ban", "kicked"}
    <3>1. cmd[c].of \in Id \cup Ip
      BY <2>2, OfType DEF Before
    <3>2. ASSUME NEW y, y = cmd[c].of, NEW left, left = cmd[c].left
          PROVE  Guarded(y)' /\ (cmd[c].at = "kicked" => Clear(y, left)')
      BY <1>1, <1>2, <2>1, <2>2, <3>1, <3>2 DEF Barring
    <3> QED
      BY <1>0, <2>1, <2>2, <3>2 DEF Barring
  <2>3. CASE ~(~cmd[c].crossed /\ cmd[c].at \in {"commit ban", "kicked"})
    BY <1>0, <2>3 DEF Barring
  <2> QED
    BY <2>2, <2>3
<1> QED
  BY <1>0, <1>3, <1>4 DEF Banning

LEMMA BanningStep == ASSUME Inv, Typed, Crossings, Banning, [Next]_vars PROVE Banning'
<1>f. session' = session => Fewer
  BY DEF Fewer, Typed
<1>1. ASSUME NEW c \in Session, View(c) PROVE Banning'
  <2>1. CASE Begins(c)
    BY <2>1, BanningBegins
  <2>2. CASE Bans(c)
    BY <2>2, BanningBans
  <2>3. CASE AnswersBan(c)
    BY <2>3, BanningAnswer
  <2>4. CASE Unread(c)
    <3>1. /\ Others(c) /\ cmd'[c].at \in Before /\ cmd'[c].op \in OpsAt(cmd'[c].at)
          /\ banned' = banned /\ disk' \in {disk, db} /\ db' = db /\ join' = join /\ session' = session
      BY <2>4 DEF Unread, Rest
    <3>2. cmd'[c].at \notin {"commit ban", "kicked"} /\ cmd'[c].op \notin Unbanning
      BY <3>1 DEF Before, OpsAt, Unbanning
    <3> QED
      BY <1>f, <3>1, <3>2, BanningStays DEF Barring
  <2>5. CASE Registers(c)
    <3>1. /\ Others(c) /\ cmd'[c].at = "commit user" /\ cmd'[c].op = "REGISTER"
          /\ banned' = banned /\ disk' = disk /\ join' = join /\ session' = session
          /\ db'.bans = db.bans /\ Users(db) \subseteq Users(db')
      BY <2>5 DEF Registers, Writing, Rest
    <3>2. "REGISTER" \notin Unbanning
      BY DEF Unbanning
    <3> QED
      BY <1>f, <3>1, <3>2, BanningStays DEF Barring
  <2>6. CASE Advances(c) \/ Purges(c) \/ Draws(c)
    <3>1. /\ Others(c) /\ cmd'[c].at \notin {"commit ban", "kicked"} /\ Same(cmd'[c], cmd[c])
          /\ banned' = banned /\ disk' \in {disk, db} /\ join' = join /\ session' = session
          /\ db'.bans = db.bans /\ Users(db') = Users(db)
      BY <2>6 DEF Advances, Purges, Draws, Moved, Writing, Rest
    <3> QED
      BY <1>f, <3>1, BanningStays DEF Barring
  <2>7. CASE Deletes(c) \/ Unbans(c)
    <3>1. /\ Others(c) /\ cmd'[c].at \notin {"commit ban", "kicked"} /\ Same(cmd'[c], cmd[c])
          /\ banned' = banned /\ disk' = disk /\ join' = join /\ session' = session
          /\ db'.bans = db.bans \ {cmd[c].of} /\ Users(db) \ {cmd[c].of} \subseteq Users(db')
          /\ cmd[c].at \in {"delete user", "delete ban"}
      BY <2>7 DEF Deletes, Unbans, Moved, Writing, Rest
    <3>2. cmd[c].op \in Unbanning
      BY <3>1 DEF Typed, Placed, OpsAt, Unbanning
    <3> QED
      BY <1>f, <3>1, <3>2, BanningStays DEF Barring
  <2>8. CASE Kicks(c)
    <3>1. /\ Others(c) /\ Same(cmd'[c], cmd[c]) /\ banned' = banned /\ disk' = db
          /\ join' = join /\ db' = db /\ Fewer
      BY <2>8 DEF Kicks, Moved
    <3> QED
      BY <2>8, <3>1, KicksBarring, BanningStays
  <2>9. CASE KicksNext(c)
    <3>1. /\ Others(c) /\ Same(cmd'[c], cmd[c]) /\ cmd'[c].at = cmd[c].at /\ banned' = banned
          /\ disk' = disk /\ join' = join /\ db' = db /\ Fewer
          /\ \A j \in cmd[c].left : j \in cmd'[c].left \/ session'[j] = NoSession
      BY <2>9 DEF KicksNext, Moved
    <3>2. Barring(c)'
      <4>1. CASE ~cmd[c].crossed /\ cmd[c].at \in {"commit ban", "kicked"}
        <5>1. cmd[c].of \in Id \cup Ip /\ Barring(c)
          BY <4>1, OfType DEF Before, Banning
        <5>2. ASSUME NEW y, y = cmd[c].of, NEW left, left = cmd'[c].left
              PROVE  Guarded(y)' /\ (cmd[c].at = "kicked" => Clear(y, left)')
          BY <3>1, <4>1, <5>1, <5>2, GuardedStays, ClearStays DEF Barring, Guarded
        <5> QED
          BY <3>1, <4>1, <5>1, <5>2 DEF Barring, Same
      <4>2. CASE ~(~cmd[c].crossed /\ cmd[c].at \in {"commit ban", "kicked"})
        BY <3>1, <4>2 DEF Barring, Same
      <4> QED
        BY <4>1, <4>2
    <3> QED
      BY <3>1, <3>2, BanningStays
  <2>10. CASE AnswersToken(c) \/ AnswersDelete(c)
    <3>1. /\ Others(c) /\ cmd'[c].at = "none" /\ cmd'[c].op = "none" /\ banned' = banned
          /\ disk' = db /\ join' = join /\ session' = session /\ db' = db
      BY <2>10, IdleFields DEF AnswersToken, AnswersDelete, Ended
    <3>2. "none" \notin Unbanning
      BY DEF Unbanning
    <3> QED
      BY <1>f, <3>1, <3>2, BanningStays DEF Barring
  <2> QED
    BY <1>1, <2>1, <2>2, <2>3, <2>4, <2>5, <2>6, <2>7, <2>8, <2>9, <2>10 DEF View
<1>2. ASSUME NEW j \in Client, ClientView(j) PROVE Banning'
  BY <1>2, ClientBanning
<1>3. CASE Elsewhere /\ UNCHANGED <<join, session>>
  <2>1. /\ cmd' = cmd /\ db' = db /\ disk' \in {disk, db} /\ banned' = banned
        /\ join' = join /\ session' = session
    BY <1>3 DEF Elsewhere
  <2>2. \A x : Guarded(x)' = Guarded(x)
    BY <2>1 DEF Guarded, Behind
  <2>3. \A x, left : Clear(x, left)' = Clear(x, left)
    BY <2>1 DEF Clear, Is
  <2>4. \A x \in banned : Barred(x)'
    BY <2>1, <2>2, <2>3 DEF Banning, Barred, Guarded
  <2>5. ASSUME NEW c \in Session PROVE Barring(c)'
    <3>1. Barring(c)
      BY DEF Banning
    <3> QED
      BY <2>1, <3>1 DEF Barring, Guarded, Behind, Clear, Is
  <2> QED
    BY <2>1, <2>4, <2>5 DEF Banning
<1>4. CASE Crash
  <2>1. /\ db' = disk /\ disk' = disk /\ banned' = banned
        /\ cmd' = [c \in Session |-> Idle] /\ join' = [j \in Client |-> NoJoin]
        /\ session' = [j \in Client |-> NoSession]
    BY <1>4 DEF Crash, history
  <2>2. ASSUME NEW x \in banned PROVE Barred(x)'
    <3>1. x \in disk.bans /\ x # None
      BY TablesAssumption DEF Banning, Barred, Typed, Id
    <3>2. Guarded(x)'
      BY <2>1, <3>1 DEF Guarded, Behind, NoJoin
    <3>3. Clear(x, {})'
      BY <2>1, <3>1 DEF Clear, Is, NoSession
    <3> QED
      BY <2>1, <3>1, <3>2, <3>3, IdleFields DEF Barred
  <2> QED
    BY <2>1, <2>2, IdleFields DEF Banning, Barring
<1> QED
  BY <1>1, <1>2, <1>3, <1>4, NextView DEF Views

LEMMA BanningInvariance == Spec => []Banning
<1>1. Init => Banning
  BY IdleFields DEF Init, Banning, Barring
<1>2. Inv /\ Typed /\ Crossings /\ Banning /\ [Next]_vars => Banning'
  BY BanningStep
<1> QED
  BY <1>1, <1>2, Invariance, TypedInvariance, CrossingInvariance, PTL DEF Spec

(***************************************************************************)
(* After the answer of a ban, and until an unban or the deletion of the    *)
(* account begins, the ban outlives a crash, and a session of its subject  *)
(* can only be one whose join had looked for the ban before it was there   *)
(* (check at udp_proxy.py:335, kick at tcp_control.py:241).  That there    *)
(* may be such a session is the price of the look before the await.        *)
(***************************************************************************)
THEOREM BanHoldsAlways == Spec => []BanHolds
<1>1. Banning => BanHolds
  BY DEF Banning, Barred, Guarded, Clear, Is, BanHolds
<1> QED
  BY <1>1, BanningInvariance, PTL
====
