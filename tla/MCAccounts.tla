------------------------------ MODULE MCAccounts ------------------------------
(***************************************************************************)
(* A small instance of Accounts: the Discord bot and the admin CLI, two    *)
(* Discord users and two clients.                                          *)
(***************************************************************************)
EXTENDS Accounts, TLC

CONSTANTS
  bot, cli,  \* two control sessions
  a1, a2,    \* two clients
  h1,        \* their host
  ann, bob,  \* two Discord ids
  n1, n2     \* two usernames

OneHost == [j \in Client |-> h1]

\* Both register, rotate and delete; the bot grants as well.
TokenCommands ==
  [c \in Session |-> {"REGISTER", "ROTATE_TOKEN", "DELETE_REGISTRATION"}
                     \cup IF c = bot THEN {"GRANT_DEV", "REVOKE_STAFF"} ELSE {}]

\* The bot registers and deletes, and both ban.
BanCommands ==
  [c \in Session |-> {"BAN_USER", "UNBAN_USER"}
                     \cup IF c = bot THEN {"REGISTER", "DELETE_REGISTRATION"} ELSE {"BAN_IP", "UNBAN_IP"}]

AlikeUsers   == Permutations({ann, bob}) \cup Permutations({n1, n2})
AlikeClients == Permutations({a1, a2})
=============================================================================
