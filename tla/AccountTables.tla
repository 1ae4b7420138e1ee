---------------------------- MODULE AccountTables ----------------------------
(***************************************************************************)
(* The SQLite tables of the accounts and the statements that write them,   *)
(* as operators on a record of tables.  Two programs keep such tables: the *)
(* proxy (elefrac/database.py), whose ids are AUTOINCREMENT and whose      *)
(* tokens and bans are REFERENCES users ON DELETE CASCADE, and the router  *)
(* (udp_router.py), whose schema has neither.  Strict tells them apart.    *)
(*                                                                         *)
(* Left out: aliases, hardware ids, addresses and the connection log of a  *)
(* user; the expiry of a temporary ban; a token that is cut to a prefix.   *)
(***************************************************************************)
EXTENDS Naturals, FiniteSets

CONSTANTS
  Discord,   \* Discord ids
  Name,      \* usernames
  Ip,        \* addresses that may be banned
  Strict,    \* the schema of database.py rather than that of udp_router.py
  MaxId,     \* bound: ids of users
  MaxTokens, \* bound: tokens ever drawn
  None

ASSUME TablesAssumption ==
  /\ MaxId \in Nat \ {0} /\ MaxTokens \in Nat \ {0}
  /\ Strict \in BOOLEAN
  /\ Ip \cap (1..MaxId) = {}
  /\ None \notin Discord \cup Name \cup Ip \cup 1..MaxId

Id    == 1..MaxId
Token == 1..MaxTokens

\* is_staff and is_dev are kept as the Discord id of the command that granted
\* them, or None, and "for" is the Discord id of the command that drew a token:
\* the tables hold a flag, and nothing in its place.
User     == [discord : Discord, name : Name, staff : Discord \cup {None}, dev : Discord \cup {None}]
TokenRow == [token : Token, user : Id, for : Discord]

ASSUME NoneAssumption == None \notin User

\* last is the row of sqlite_sequence, which a transaction covers as well.
\* A ban is the id of a user or an address.
Tables == [users  : [Id -> User \cup {None}],
           last   : 0..MaxId,
           tokens : SUBSET TokenRow,
           bans   : SUBSET (Id \cup Ip)]

EmptyTables ==
  [users |-> [id \in Id |-> None], last |-> 0, tokens |-> {}, bans |-> {}]

Users(t)          == {id \in Id : t.users[id] # None}
WithDiscord(t, d) == {id \in Users(t) : t.users[id].discord = d}
WithName(t, n)    == {id \in Users(t) : t.users[id].name = n}
TokensOf(t, id)   == {k \in t.tokens : k.user = id}

\* The rows validate_token finds: those whose user is there.
Valid(t, token) == {k \in t.tokens : k.token = token /\ k.user \in Users(t)}

\* Variant: an id that is free is given again.
NextIdReused(t) == CHOOSE i \in 1..(MaxId + 1) : /\ i - 1 \in Users(t) \cup {0}
                                                 /\ \A id \in Users(t) : id < i

\* The id SQLite gives the next user: never one it gave before, or one more
\* than the largest in the table.
NextId(t) ==
  IF Strict THEN t.last + 1
            ELSE CHOOSE i \in 1..(MaxId + 1) : /\ i - 1 \in Users(t) \cup {0}
                                               /\ \A id \in Users(t) : id < i

\* UNIQUE(username), UNIQUE(discord_id).
UniqueUser(t, d, n) == WithDiscord(t, d) = {} /\ WithName(t, n) = {}

\* A row may refer to the user id.
Referable(t, id) == Strict => id \in Users(t)

\* Bound: MaxId.
MayInsertUser(t) == NextId(t) <= MaxId

InsertUser(t, d, n) ==
  [t EXCEPT !.users[NextId(t)] = [discord |-> d, name |-> n, staff |-> None, dev |-> None],
            !.last = NextId(t)]

\* Variant: no cascade.
DeleteUserOnly(t, id) == [t EXCEPT !.users[id] = None]

\* The cascade takes the tokens and the bans of the user along.
DeleteUser(t, id) ==
  [t EXCEPT !.users[id] = None,
            !.tokens    = IF Strict THEN @ \ TokensOf(t, id) ELSE @,
            !.bans      = IF Strict THEN @ \ {id} ELSE @]

\* Nothing ever sets used_at, so that every token is one with used_at NULL.
DeleteTokens(t, id) == [t EXCEPT !.tokens = @ \ TokensOf(t, id)]

InsertToken(t, id, token, d) ==
  [t EXCEPT !.tokens = @ \cup {[token |-> token, user |-> id, for |-> d]}]

RoleCommands == {"GRANT_STAFF", "REVOKE_STAFF", "GRANT_DEV", "REVOKE_DEV"}

\* The UPDATE finds no row when the user is gone.
SetRole(t, id, op, d) ==
  IF id \notin Users(t) THEN t
  ELSE [t EXCEPT !.users[id].staff = IF op \in {"GRANT_STAFF", "GRANT_DEV"} THEN d ELSE None,
                 !.users[id].dev   = CASE op = "GRANT_DEV"  -> d
                                       [] op = "REVOKE_DEV" -> None
                                       [] OTHER             -> @]

InsertBan(t, x)  == [t EXCEPT !.bans = @ \cup {x}]
DeleteBans(t, x) == [t EXCEPT !.bans = @ \ {x}]
=============================================================================
