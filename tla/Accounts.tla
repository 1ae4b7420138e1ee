------------------------------ MODULE Accounts ------------------------------
(***************************************************************************)
(* The accounts of the proxy: the commands of the control server           *)
(* (elefrac/tcp_control.py) and the joins of the clients (_open_session of *)
(* elefrac/udp_proxy.py, elefrac/ban_handler.py) over one SQLite           *)
(* connection (elefrac/database.py).                                       *)
(*                                                                         *)
(* Every coroutine shares the one connection, so there is one transaction  *)
(* for all: a statement sees what the others have written and not          *)
(* committed, and any commit makes all of it durable.  A step is one       *)
(* statement with the code up to the next one; between two statements of a *)
(* task the others may run theirs.  Only a crash rolls anything back.      *)
(*                                                                         *)
(* Left out: commands that write nothing, joins without a valid token, and *)
(* what the log of connections and the address of a user hold.  Their      *)
(* commits count, and are LogCommit.                                       *)
(***************************************************************************)
EXTENDS AccountTables

CONSTANTS
  Session,    \* sessions of the control server
  Client,     \* addresses of game clients
  IpOf,       \* the host of each
  Commands,   \* the commands each of them may send
  MaxCrashes  \* bound: crashes

ASSUME AccountsAssumption ==
  /\ Strict
  /\ IpOf \in [Client -> Ip]
  /\ Commands \in [Session -> SUBSET (RoleCommands \cup
       {"REGISTER", "ROTATE_TOKEN", "DELETE_REGISTRATION",
        "BAN_USER", "UNBAN_USER", "BAN_IP", "UNBAN_IP"})]
  /\ MaxCrashes \in Nat

VARIABLES
  db,       \* the tables as the connection sees them
  disk,     \* the tables as of the last commit
  cmd,      \* the command each control session is at
  join,     \* the first packet of each client that is being handled
  session,  \* ProxyProtocol._sessions, by client
  issued,   \* the tokens drawn so far are 1..issued
  crashes,
  held,     \* history: tokens that were answered, and no command put in question
  dead,     \* history: tokens that an answered command was to end
  banned    \* history: subjects whose ban was answered, and none put in question

history == <<held, dead, banned>>
vars    == <<db, disk, cmd, join, session, issued, crashes, held, dead, banned>>

\* A command: the statement that comes next, its arguments, the user it read
\* (or the address it bans) and the clients it has yet to kick.  History: the
\* tokens it found, and whether another command on the same thing ran meanwhile.
Idle == [op |-> "none", at |-> "none", discord |-> None, name |-> None, of |-> None,
         token |-> None, left |-> {}, found |-> {}, crossed |-> FALSE]

\* The join of a client, or its session.  History: raced are the subjects whose
\* ban was inserted after the join had looked for it.
NoJoin    == [at |-> "none", token |-> None, user |-> None, name |-> None, raced |-> {}]
NoSession == [user |-> None, name |-> None, raced |-> {}]

Init ==
  /\ db = EmptyTables /\ disk = EmptyTables
  /\ cmd = [c \in Session |-> Idle]
  /\ join = [j \in Client |-> NoJoin]
  /\ session = [j \in Client |-> NoSession]
  /\ issued = 0 /\ crashes = 0
  /\ held = {} /\ dead = {} /\ banned = {}

-----------------------------------------------------------------------------
(* What the statements of a command have in common.                        *)

Become(c, to) == cmd' = [cmd EXCEPT ![c] = to]
Goto(c, at)   == Become(c, [cmd[c] EXCEPT !.at = at])
End(c)        == Become(c, Idle)

Reads     == UNCHANGED <<db, disk, join, session, issued, crashes, history>>
Writes(t) == db' = t /\ UNCHANGED <<disk, join, session, issued, crashes, history>>
Commits   == disk' = db /\ UNCHANGED <<db, join, session, issued, crashes>>

\* What a command may change or take away.
Topics(op) == CASE op \in {"REGISTER", "ROTATE_TOKEN"} -> {"token"}
                [] op = "DELETE_REGISTRATION"           -> {"token", "ban"}
                [] op \in {"BAN_USER", "UNBAN_USER", "BAN_IP", "UNBAN_IP"} -> {"ban"}
                [] OTHER -> {}

\* Session c has read the user (or was given the address) x for command op.
Started(c, op, d, n, x) ==
  LET crossing == {o \in Session \ {c} : cmd[o].of = x /\ Topics(cmd[o].op) \cap Topics(op) # {}}
  IN [o \in Session |->
        CASE o = c           -> [Idle EXCEPT !.op = op, !.discord = d, !.name = n, !.of = x,
                                             !.found = {k.token : k \in TokensOf(db, x)},
                                             !.crossed = (crossing # {})]
          [] o \in crossing  -> [cmd[o] EXCEPT !.crossed = TRUE]
          [] OTHER           -> cmd[o]]

\* Such a command puts the tokens of x and its ban in question.
Question(op, x) ==
  /\ held' = IF op \in {"ROTATE_TOKEN", "DELETE_REGISTRATION"}
             THEN held \ {k.token : k \in TokensOf(db, x)} ELSE held
  /\ banned' = IF op \in {"UNBAN_USER", "UNBAN_IP", "DELETE_REGISTRATION"}
               THEN banned \ {x} ELSE banned
  /\ UNCHANGED dead

-----------------------------------------------------------------------------
(* REGISTER <discord_id> <username>                                        *)

Register(c, d, n) ==
  /\ cmd[c] = Idle /\ "REGISTER" \in Commands[c]
  /\ WithDiscord(db, d) = {}
  /\ Become(c, [Idle EXCEPT !.op = "REGISTER", !.at = "name", !.discord = d, !.name = n])
  /\ Reads

RegisterName(c) ==
  /\ cmd[c].at = "name"
  /\ IF WithName(db, cmd[c].name) = {} THEN Goto(c, "insert user") ELSE End(c)
  /\ Reads

\* Another command took the Discord id or the name: IntegrityError.
RegisterRefused(c) ==
  /\ cmd[c].at = "insert user"
  /\ ~UniqueUser(db, cmd[c].discord, cmd[c].name)
  /\ End(c)
  /\ Reads

RegisterInsert(c) ==
  /\ cmd[c].at = "insert user"
  /\ UniqueUser(db, cmd[c].discord, cmd[c].name) /\ MayInsertUser(db)
  /\ Become(c, [cmd[c] EXCEPT !.at = "commit user", !.of = NextId(db)])
  /\ Writes(InsertUser(db, cmd[c].discord, cmd[c].name))

RegisterCommit(c) ==
  /\ cmd[c].at = "commit user"
  /\ Goto(c, "purge")
  /\ Commits
  /\ UNCHANGED history

-----------------------------------------------------------------------------
(* ROTATE_TOKEN <discord_id>, and the token of REGISTER                    *)

\* Variant: the old token stays.
RotateKeepsOld(c, d) ==
  /\ cmd[c] = Idle /\ "ROTATE_TOKEN" \in Commands[c]
  /\ \E id \in WithDiscord(db, d) :
       /\ cmd' = [Started(c, "ROTATE_TOKEN", d, None, id) EXCEPT ![c].at = "insert token"]
       /\ Question("ROTATE_TOKEN", id)
  /\ UNCHANGED <<db, disk, join, session, issued, crashes>>

Rotate(c, d) ==
  /\ cmd[c] = Idle /\ "ROTATE_TOKEN" \in Commands[c]
  /\ \E id \in WithDiscord(db, d) :
       /\ cmd' = [Started(c, "ROTATE_TOKEN", d, None, id) EXCEPT ![c].at = "purge"]
       /\ Question("ROTATE_TOKEN", id)
  /\ UNCHANGED <<db, disk, join, session, issued, crashes>>

Purge(c) ==
  /\ cmd[c].at = "purge"
  /\ Goto(c, "insert token")
  /\ Writes(DeleteTokens(db, cmd[c].of))

\* The user is gone: IntegrityError.
TokenRefused(c) ==
  /\ cmd[c].at = "insert token"
  /\ ~Referable(db, cmd[c].of)
  /\ End(c)
  /\ Reads

\* Bound: MaxTokens.
InsertsToken(c) ==
  /\ cmd[c].at = "insert token"
  /\ Referable(db, cmd[c].of) /\ issued < MaxTokens
  /\ issued' = issued + 1
  /\ db' = InsertToken(db, cmd[c].of, issued', cmd[c].discord)
  /\ Become(c, [cmd[c] EXCEPT !.at = "commit token", !.token = issued'])
  /\ UNCHANGED <<disk, join, session, crashes, history>>

\* Variant: the answer comes before the commit.
TokenAnsweredEarly(c) ==
  /\ cmd[c].at = "commit token"
  /\ End(c)
  /\ held' = IF cmd[c].crossed THEN held ELSE held \cup {cmd[c].token}
  /\ dead' = dead \cup cmd[c].found
  /\ UNCHANGED <<db, disk, join, session, issued, crashes, banned>>

\* The token is answered.
TokenAnswered(c) ==
  /\ cmd[c].at = "commit token"
  /\ End(c)
  /\ Commits
  /\ held' = IF cmd[c].crossed THEN held ELSE held \cup {cmd[c].token}
  /\ dead' = dead \cup cmd[c].found
  /\ UNCHANGED banned

-----------------------------------------------------------------------------
(* Kicks.  The targets are listed at once, and closed one after the other. *)

Named(n)     == {j \in Client : session[j].name = n}
FromHost(ip) == {j \in Client : session[j].user # None /\ IpOf[j] = ip}

\* Session c goes on to at, when it has closed the targets.
Kick(c, started, targets, at) ==
  IF targets = {}
  THEN /\ cmd' = [started EXCEPT ![c].at = at]
       /\ UNCHANGED session
  ELSE \E j \in targets :
         /\ session' = [session EXCEPT ![j] = NoSession]
         /\ cmd' = [started EXCEPT ![c].at = at, ![c].left = targets \ {j}]

KickNext(c) ==
  /\ \E j \in cmd[c].left :
       /\ session' = [session EXCEPT ![j] = NoSession]
       /\ Become(c, [cmd[c] EXCEPT !.left = @ \ {j}])
  /\ UNCHANGED <<db, disk, join, issued, crashes, history>>

-----------------------------------------------------------------------------
(* DELETE_REGISTRATION <discord_id>                                        *)

Delete(c, d) ==
  /\ cmd[c] = Idle /\ "DELETE_REGISTRATION" \in Commands[c]
  /\ \E id \in WithDiscord(db, d) :
       /\ Kick(c, Started(c, "DELETE_REGISTRATION", d, None, id), Named(db.users[id].name), "delete user")
       /\ Question("DELETE_REGISTRATION", id)
  /\ UNCHANGED <<db, disk, join, issued, crashes>>

DeletesUser(c) ==
  /\ cmd[c].at = "delete user" /\ cmd[c].left = {}
  /\ Goto(c, "commit delete")
  /\ Writes(DeleteUser(db, cmd[c].of))

DeleteAnswered(c) ==
  /\ cmd[c].at = "commit delete"
  /\ End(c)
  /\ Commits
  /\ dead' = dead \cup cmd[c].found
  /\ UNCHANGED <<held, banned>>

-----------------------------------------------------------------------------
(* BAN_USER, BAN_IP, UNBAN_USER, UNBAN_IP                                  *)

BanUser(c, n) ==
  /\ cmd[c] = Idle /\ "BAN_USER" \in Commands[c]
  /\ \E id \in WithName(db, n) : cmd' = [Started(c, "BAN_USER", None, n, id) EXCEPT ![c].at = "insert ban"]
  /\ Reads

BanIp(c, ip) ==
  /\ cmd[c] = Idle /\ "BAN_IP" \in Commands[c]
  /\ cmd' = [Started(c, "BAN_IP", None, None, ip) EXCEPT ![c].at = "insert ban"]
  /\ Reads

\* The user is gone: IntegrityError, which ends the control session.
BanRefused(c) ==
  /\ cmd[c].at = "insert ban"
  /\ cmd[c].op = "BAN_USER" /\ ~Referable(db, cmd[c].of)
  /\ End(c)
  /\ Reads

\* The joins that have looked for a ban of x, and will not look again.
PastCheck(x) == {j \in Client : \/ join[j].at \in {"log", "open"}
                                \/ join[j].at = "user ban" /\ x \in Ip}

InsertsBan(c) ==
  /\ cmd[c].at = "insert ban"
  /\ cmd[c].op = "BAN_USER" => Referable(db, cmd[c].of)
  /\ Goto(c, "commit ban")
  /\ db' = InsertBan(db, cmd[c].of)
  /\ join' = [j \in Client |-> IF j \in PastCheck(cmd[c].of)
                               THEN [join[j] EXCEPT !.raced = @ \cup {cmd[c].of}] ELSE join[j]]
  /\ UNCHANGED <<disk, session, issued, crashes, history>>

\* Variant: only sessions from a banned address are kicked.
BanCommittedKicksHost(c) ==
  /\ cmd[c].at = "commit ban"
  /\ disk' = db
  /\ Kick(c, cmd, IF cmd[c].op = "BAN_IP" THEN FromHost(cmd[c].of) ELSE {}, "kicked")
  /\ UNCHANGED <<db, join, issued, crashes, history>>

BanCommitted(c) ==
  /\ cmd[c].at = "commit ban"
  /\ disk' = db
  /\ Kick(c, cmd, IF cmd[c].op = "BAN_IP" THEN FromHost(cmd[c].of) ELSE Named(cmd[c].name), "kicked")
  /\ UNCHANGED <<db, join, issued, crashes, history>>

BanAnswered(c) ==
  /\ cmd[c].at = "kicked" /\ cmd[c].left = {}
  /\ End(c)
  /\ banned' = IF cmd[c].crossed THEN banned ELSE banned \cup {cmd[c].of}
  /\ UNCHANGED <<db, disk, join, session, issued, crashes, held, dead>>

UnbanUser(c, n) ==
  /\ cmd[c] = Idle /\ "UNBAN_USER" \in Commands[c]
  /\ \E id \in WithName(db, n) :
       /\ cmd' = [Started(c, "UNBAN_USER", None, n, id) EXCEPT ![c].at = "delete ban"]
       /\ Question("UNBAN_USER", id)
  /\ UNCHANGED <<db, disk, join, session, issued, crashes>>

UnbanIp(c, ip) ==
  /\ cmd[c] = Idle /\ "UNBAN_IP" \in Commands[c]
  /\ cmd' = [Started(c, "UNBAN_IP", None, None, ip) EXCEPT ![c].at = "delete ban"]
  /\ Question("UNBAN_IP", ip)
  /\ UNCHANGED <<db, disk, join, session, issued, crashes>>

DeletesBan(c) ==
  /\ cmd[c].at = "delete ban"
  /\ Goto(c, "commit")
  /\ Writes(DeleteBans(db, cmd[c].of))

-----------------------------------------------------------------------------
(* GRANT_STAFF, REVOKE_STAFF, GRANT_DEV, REVOKE_DEV                        *)

ChangeRole(c, d, op) ==
  /\ cmd[c] = Idle /\ op \in Commands[c]
  /\ \E id \in WithDiscord(db, d) : cmd' = [Started(c, op, d, None, id) EXCEPT ![c].at = "update role"]
  /\ Reads

UpdatesRole(c) ==
  /\ cmd[c].at = "update role"
  /\ Goto(c, "commit")
  /\ Writes(SetRole(db, cmd[c].of, cmd[c].op, cmd[c].discord))

\* The last statement of a command that has nothing more to do.
Committed(c) ==
  /\ cmd[c].at = "commit"
  /\ End(c)
  /\ Commits
  /\ UNCHANGED history

-----------------------------------------------------------------------------
(* A join with a token                                                     *)

JoinOf(j, to) ==
  /\ join' = [join EXCEPT ![j] = to]
  /\ UNCHANGED <<db, disk, cmd, issued, crashes, history>>

FirstPacket(j, token) ==
  /\ join[j] = NoJoin /\ session[j] = NoSession
  /\ IpOf[j] \notin db.bans
  /\ JoinOf(j, [NoJoin EXCEPT !.at = "validate", !.token = token])
  /\ UNCHANGED session

Validate(j) ==
  /\ join[j].at = "validate"
  /\ IF Valid(db, join[j].token) = {} THEN JoinOf(j, NoJoin)
     ELSE \E k \in Valid(db, join[j].token) :
            JoinOf(j, [join[j] EXCEPT !.at = "ip ban", !.user = k.user, !.name = db.users[k.user].name])
  /\ UNCHANGED session

\* BanHandler.is_banned: the address, then the account.
CheckIp(j) ==
  /\ join[j].at = "ip ban"
  /\ JoinOf(j, IF IpOf[j] \in db.bans THEN NoJoin ELSE [join[j] EXCEPT !.at = "user ban"])
  /\ UNCHANGED session

CheckUser(j) ==
  /\ join[j].at = "user ban"
  /\ JoinOf(j, IF join[j].user \in db.bans THEN NoJoin ELSE [join[j] EXCEPT !.at = "log"])
  /\ UNCHANGED session

\* Another user has the hardware id of the packet: IntegrityError.
UidTaken(j) ==
  /\ join[j].at = "log"
  /\ JoinOf(j, NoJoin)
  /\ UNCHANGED session

\* The row of the log refers to the user.
LogConnection(j) ==
  /\ join[j].at = "log"
  /\ JoinOf(j, IF Referable(db, join[j].user) THEN [join[j] EXCEPT !.at = "open"] ELSE NoJoin)
  /\ UNCHANGED session

OpenSession(j) ==
  /\ join[j].at = "open"
  /\ session' = [session EXCEPT ![j] = [user |-> join[j].user, name |-> join[j].name, raced |-> join[j].raced]]
  /\ JoinOf(j, NoJoin)

-----------------------------------------------------------------------------
\* The session expires, or the match is over.
SessionEnds(j) ==
  /\ session[j] # NoSession
  /\ session' = [session EXCEPT ![j] = NoSession]
  /\ UNCHANGED <<db, disk, cmd, join, issued, crashes, history>>

\* Some client is logged as it comes or goes, or its address noted.
LogCommit ==
  /\ disk # db
  /\ Commits
  /\ UNCHANGED <<cmd, history>>

\* The process dies and starts again.  Bound: MaxCrashes.
Crash ==
  /\ crashes < MaxCrashes
  /\ crashes' = crashes + 1
  /\ db' = disk
  /\ cmd' = [c \in Session |-> Idle]
  /\ join' = [j \in Client |-> NoJoin]
  /\ session' = [j \in Client |-> NoSession]
  /\ UNCHANGED <<disk, issued, history>>

AccountCommand(c) ==
  \/ \E d \in Discord, n \in Name : Register(c, d, n)
  \/ RegisterName(c) \/ RegisterRefused(c) \/ RegisterInsert(c) \/ RegisterCommit(c)
  \/ \E d \in Discord : Rotate(c, d) \/ Delete(c, d)
  \/ Purge(c) \/ TokenRefused(c) \/ InsertsToken(c) \/ TokenAnswered(c)
  \/ DeletesUser(c) \/ DeleteAnswered(c)
  \/ \E d \in Discord, op \in RoleCommands : ChangeRole(c, d, op)
  \/ UpdatesRole(c)

BanCommand(c) ==
  \/ \E n \in Name : BanUser(c, n) \/ UnbanUser(c, n)
  \/ \E ip \in Ip : BanIp(c, ip) \/ UnbanIp(c, ip)
  \/ BanRefused(c) \/ InsertsBan(c) \/ BanCommitted(c) \/ BanAnswered(c) \/ DeletesBan(c)

ClientStep(j) ==
  \/ \E token \in 1..issued : FirstPacket(j, token)
  \/ Validate(j) \/ CheckIp(j) \/ CheckUser(j) \/ UidTaken(j) \/ LogConnection(j) \/ OpenSession(j)
  \/ SessionEnds(j)

Next ==
  \/ \E c \in Session : AccountCommand(c) \/ BanCommand(c) \/ KickNext(c) \/ Committed(c)
  \/ \E j \in Client : ClientStep(j)
  \/ LogCommit \/ Crash

Spec == Init /\ [][Next]_vars

-----------------------------------------------------------------------------
TypeOK ==
  /\ db \in Tables /\ disk \in Tables
  /\ \A t \in {db, disk} : /\ \A id, other \in Users(t) :
                                 \/ t.users[id].discord = t.users[other].discord
                                 \/ t.users[id].name = t.users[other].name
                                 => id = other
                           /\ \A k \in t.tokens : k.user \in Users(t)
                           /\ t.bans \ Ip \subseteq Users(t)
  /\ \A c \in Session : /\ cmd[c].op \in Commands[c] \cup {"none"}
                        /\ cmd[c].of \in Id \cup Ip \cup {None}
                        /\ cmd[c].left \subseteq Client
  /\ \A j \in Client : /\ join[j].token \in Token \cup {None}
                       /\ {join[j].user, session[j].user} \subseteq Id \cup {None}
                       /\ join[j].at # "none" => session[j] = NoSession
  /\ issued \in 0..MaxTokens /\ crashes \in 0..MaxCrashes
  /\ held \cup dead \subseteq 1..issued
  /\ banned \subseteq Id \cup Ip

-----------------------------------------------------------------------------
(* A command reads the user, and works on the id it read while others may  *)
(* delete that user and register a new one.  Even so a token logs in the   *)
(* account of the Discord id it was drawn for, and staff and dev are those *)
(* who were granted it (database.py:310, tcp_control.py:299).              *)
RightAccount ==
  \A t \in {db, disk} :
    /\ \A token \in Token : \A k \in Valid(t, token) : t.users[k.user].discord = k.for
    /\ \A id \in Users(t) : {t.users[id].staff, t.users[id].dev} \subseteq {None, t.users[id].discord}

(***************************************************************************)
(* A token that was answered logs its user in, after a crash as well,      *)
(* until a command to replace it or to delete the account begins.          *)
(***************************************************************************)
AnsweredTokenKept == \A token \in held : Valid(db, token) # {} /\ Valid(disk, token) # {}

(***************************************************************************)
(* After the answer of a rotation or a deletion no token the user had when *)
(* it began logs anyone in, and no crash brings one back.                  *)
(***************************************************************************)
RevokedForGood == \A token \in dead : Valid(db, token) = {} /\ Valid(disk, token) = {}

(***************************************************************************)
(* After the answer of a ban, and until an unban or the deletion of the    *)
(* account begins, the ban outlives a crash, and a session of its subject  *)
(* can only be one whose join had looked for the ban before it was there   *)
(* (check at udp_proxy.py:335, kick at tcp_control.py:241).                *)
(***************************************************************************)
BanHolds ==
  \A x \in banned :
    /\ x \in db.bans /\ x \in disk.bans
    /\ \A j \in Client : session[j].user = x \/ (session[j].user # None /\ IpOf[j] = x)
                         => x \in session[j].raced
=============================================================================
