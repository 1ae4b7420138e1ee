------------------------------- MODULE AuthDb -------------------------------
(***************************************************************************)
(* The accounts of the router: its control server, its pre-auth server and *)
(* the database of the two (udp_router.py from line 314).                  *)
(*                                                                         *)
(* Every _db_ function opens a connection of its own, and closing it rolls *)
(* back what was not committed.  SQLite lets one connection write at a     *)
(* time, so a call is one step, or has no effect and raises.  Between two  *)
(* calls of a command the other sessions may run theirs.  The schema is    *)
(* the one with Strict = FALSE, and bans are not used.                     *)
(***************************************************************************)
EXTENDS AccountTables

CONSTANTS
  Session  \* sessions of the control server

VARIABLES
  db,      \* the tables
  cmd,     \* the command each control session is at
  issued,  \* the tokens drawn so far are 1..issued
  login    \* the last answer of the pre-auth server: the token, and whose user

vars == <<db, cmd, issued, login>>

Idle == [op |-> "none", at |-> "none", discord |-> None, name |-> None, user |-> None]

NoLogin == [token |-> None, discord |-> None, given |-> None]

Init ==
  /\ db = EmptyTables
  /\ cmd = [c \in Session |-> Idle]
  /\ issued = 0
  /\ login = NoLogin

Become(c, to) == cmd' = [cmd EXCEPT ![c] = to]

\* A command that starts with the user of a Discord id.
Find(c, op, d, at) ==
  /\ cmd[c] = Idle
  /\ \E id \in WithDiscord(db, d) :
       Become(c, [Idle EXCEPT !.op = op, !.at = at, !.discord = d, !.user = id])
  /\ UNCHANGED <<db, issued, login>>

Register(c, d, n) ==
  /\ cmd[c] = Idle
  /\ WithDiscord(db, d) = {}
  /\ Become(c, [Idle EXCEPT !.op = "REGISTER", !.at = "name", !.discord = d, !.name = n])
  /\ UNCHANGED <<db, issued, login>>

RegisterName(c) ==
  /\ cmd[c].at = "name"
  /\ Become(c, IF WithName(db, cmd[c].name) = {} THEN [cmd[c] EXCEPT !.at = "create user"] ELSE Idle)
  /\ UNCHANGED <<db, issued, login>>

CreateUser(c) ==
  /\ cmd[c].at = "create user"
  /\ IF UniqueUser(db, cmd[c].discord, cmd[c].name)
     THEN /\ MayInsertUser(db)
          /\ db' = InsertUser(db, cmd[c].discord, cmd[c].name)
          /\ Become(c, [cmd[c] EXCEPT !.at = "create token", !.user = NextId(db)])
     ELSE /\ Become(c, Idle)
          /\ UNCHANGED db
  /\ UNCHANGED <<issued, login>>

Rotate(c, d) == Find(c, "ROTATE_TOKEN", d, "create token")

\* The tokens of the user are replaced in one transaction.  Bound: MaxTokens.
CreateToken(c) ==
  /\ cmd[c].at = "create token"
  /\ issued < MaxTokens
  /\ issued' = issued + 1
  /\ db' = InsertToken(DeleteTokens(db, cmd[c].user), cmd[c].user, issued', cmd[c].discord)
  /\ Become(c, Idle)
  /\ UNCHANGED login

Delete(c, d) == Find(c, "DELETE_REGISTRATION", d, "delete user")

RemoveUser(c) ==
  /\ cmd[c].at = "delete user"
  /\ db' = DeleteUser(DeleteTokens(db, cmd[c].user), cmd[c].user)
  /\ Become(c, Idle)
  /\ UNCHANGED <<issued, login>>

ChangeRole(c, d, op) == Find(c, op, d, "set role")

UpdateRole(c) ==
  /\ cmd[c].at = "set role"
  /\ db' = SetRole(db, cmd[c].user, cmd[c].op, cmd[c].discord)
  /\ Become(c, Idle)
  /\ UNCHANGED <<issued, login>>

\* A call raises, or create_token returns False.
CallFails(c) ==
  /\ cmd[c] # Idle
  /\ Become(c, Idle)
  /\ UNCHANGED <<db, issued, login>>

\* A client asks with a token; given is the Discord id it was drawn for.
Validate(token) ==
  /\ \E k \in Valid(db, token) :
       login' = [token |-> token, discord |-> db.users[k.user].discord, given |-> k.for]
  /\ UNCHANGED <<db, cmd, issued>>

Next ==
  \/ \E c \in Session :
       \/ \E d \in Discord : \/ \E n \in Name : Register(c, d, n)
                             \/ Rotate(c, d) \/ Delete(c, d)
                             \/ \E op \in RoleCommands : ChangeRole(c, d, op)
       \/ RegisterName(c) \/ CreateUser(c) \/ CreateToken(c) \/ RemoveUser(c) \/ UpdateRole(c)
       \/ CallFails(c)
  \/ \E token \in 1..issued : Validate(token)

Spec == Init /\ [][Next]_vars

-----------------------------------------------------------------------------
(***************************************************************************)
(* The pre-auth server says OK for a token with the user it was drawn for  *)
(* ("replace token for existing user", tcp_control.py:21).  The ids of     *)
(* deleted users are given again, and a rotation that read the old user    *)
(* writes its token for the new one (udp_router.py:552).                   *)
(***************************************************************************)
LogsInItsOwner == login.discord = login.given
=============================================================================
