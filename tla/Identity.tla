------------------------------ MODULE Identity ------------------------------
(***************************************************************************)
(* Who a client is, and what the game server sees of it: the decisions of  *)
(* _open_session, _identify_session and _handle (elefrac/udp_proxy.py) on  *)
(* the packets of one client.  The interleavings of these handlers are the *)
(* business of Proxy; here a packet is handled at once.                    *)
(*                                                                         *)
(* Left out: bans, what resolve_player writes, EF_AUTH packets.            *)
(***************************************************************************)
EXTENDS PacketParser

CONSTANTS
  User,     \* registered usernames
  TokensOf, \* the tokens of each
  Packet,   \* the packets the client may send
  Unknown,  \* the name of a session nobody is known for
  Nobody, Guest

ASSUME IdentityAssumption ==
  /\ User \subseteq Seq({c \in Byte : Printable(c)} \ {Question, EncodedDelim})
  /\ <<>> \notin User /\ {Nobody, Guest} \cap User = {} /\ Nobody # Guest
  /\ TokensOf \in [User -> SUBSET Seq(Byte)]
  /\ Packet \subseteq Seq(Byte)

VARIABLES
  requireAuth, \* require_auth of the configuration
  session,     \* the session of the client
  sent,        \* the last packet of the client
  seen         \* what the game server got of it, or <<>>

vars == <<requireAuth, session, sent, seen>>

\* user is Nobody before the client is identified, and Guest where it is
\* known by its address or machine only.  uid is the machine it was noted on.
NoSession    == [open |-> FALSE, kicked |-> FALSE, user |-> Nobody, auth |-> "none", uid |-> <<>>]
Unidentified == [NoSession EXCEPT !.open = TRUE]

Init ==
  /\ requireAuth \in BOOLEAN
  /\ session = NoSession
  /\ sent = <<>> /\ seen = <<>>

Percent    == 37
Underscore == 95

\* token LIKE text || '%': in the text, too, a percent sign stands for any
\* characters and an underscore for any one; the case of letters is ignored.
\* taken[j] of the token are read when the percent sign at j is, and what follows
\* it is read one by one.
Like(text, token) ==
  LET signs    == {j \in 1..Len(text) : text[j] = Percent}
      Sign(i)  == CHOOSE j \in signs \cup {0} : j <= i /\ \A k \in signs : k <= i => k <= j
  IN \E taken \in [signs \cup {0} -> 0..Len(token)] :
       LET Read(i) == taken[Sign(i)] + i - Sign(i)
       IN /\ taken[0] = 0
          /\ \A i \in 1..Len(text) :
               IF i \in signs THEN Read(i - 1) <= taken[i]
               ELSE /\ Read(i) <= Len(token)
                    /\ text[i] = Underscore \/ Lower(text[i]) = Lower(token[Read(i)])

\* validate_token: the user of the shortest token the text is like, of any such.
Owners(text) ==
  {u \in User : \E t \in TokensOf[u] :
     /\ Like(text, t)
     /\ \A v \in User : \A o \in TokensOf[v] : Like(text, o) => Len(t) <= Len(o)}

SameName(text, u) == LowerCase(text) = LowerCase(u)

-----------------------------------------------------------------------------
(* What a join packet makes of a client that is not identified: Refused,   *)
(* or its session and the packet to forward.                               *)

Refused == [ok |-> FALSE, session |-> NoSession, data |-> <<>>]

Accepted(user, auth, uid, data) ==
  [ok |-> TRUE, data |-> data,
   session |-> [open |-> TRUE, kicked |-> FALSE, user |-> user, auth |-> auth, uid |-> uid]]

\* The token is in the UID field: the name must be the user's.
ByUid(data) ==
  {IF SameName(ExtractName(data).name, u) THEN Accepted(u, "uid", <<>>, data) ELSE Refused :
     u \in Owners(ExtractAuthUidToken(data))}

\* The token is in the name field, and the name takes its place.
ByName(data) ==
  LET field == ExtractName(data)
      Named(u) == RewriteName(data, field, u)
  IN {Accepted(u, "name", ExtractUid(Named(u)), Named(u)) : u \in Owners(field.name)}

\* Variant: only a token that is there can be wrong.
ByNoneUnlessNamed(data) ==
  IF ExtractName(data) = NoName THEN {Accepted(Nobody, "none", <<>>, data)}
  ELSE IF requireAuth THEN {Refused}
  ELSE {Accepted(who, "none", ExtractUid(data), data) : who \in {Guest, Nobody}}

\* Nobody's token.  resolve_player finds or makes a player, or fails to.
ByNone(data) ==
  IF requireAuth THEN {Refused}
  ELSE IF ExtractName(data) = NoName THEN {Accepted(Nobody, "none", <<>>, data)}
  ELSE {Accepted(who, "none", ExtractUid(data), data) : who \in {Guest, Nobody}}

\* The UID field comes first.  With require_auth a token there that nobody has
\* settles it.
Outcomes(data) ==
  LET token == ExtractAuthUidToken(data)
  IN CASE token # <<>> /\ Owners(token) # {} -> ByUid(data)
       [] token # <<>> /\ Owners(token) = {} /\ requireAuth -> {Refused}
       [] OTHER -> IF ExtractName(data) # NoName /\ Owners(ExtractName(data).name) # {}
                   THEN ByName(data) ELSE ByNone(data)

-----------------------------------------------------------------------------
Sends(data) == sent' = data /\ UNCHANGED requireAuth

\* A first packet that is no join opens a session for nobody yet.
FirstPacket(data) ==
  /\ ~session.open /\ ~IsJoinPacket(data)
  /\ session' = Unidentified
  /\ seen' = data
  /\ Sends(data)

FirstJoin(data) ==
  /\ ~session.open /\ IsJoinPacket(data)
  /\ \E o \in Outcomes(data) : session' = o.session /\ seen' = o.data
  /\ Sends(data)

\* A join of a session nobody is known for; a refusal is for good, and a session
\* for which still nobody is known stays as it is.
LateJoin(data) ==
  /\ session.open /\ ~session.kicked /\ session.user = Nobody /\ IsJoinPacket(data)
  /\ \E o \in Outcomes(data) :
       /\ session' = IF ~o.ok THEN [session EXCEPT !.kicked = TRUE]
                     ELSE IF o.session.user = Nobody THEN session ELSE o.session
       /\ seen' = o.data
  /\ Sends(data)

\* Variant: nothing is rewritten but the first join.
RewrittenNever(data) == data

\* A retransmission shows the game server the name again, not the token, if it
\* does not look like that of nobody.
Rewritten(data) ==
  LET field == ExtractName(data)
  IN IF /\ session.auth = "name" /\ session.user # Unknown
        /\ field # NoName /\ field.name # session.user
     THEN RewriteName(data, field, session.user) ELSE data

JoinAgain(data) ==
  /\ session.open /\ ~session.kicked /\ session.user # Nobody /\ IsJoinPacket(data)
  /\ seen' = Rewritten(data)
  /\ Sends(data)
  /\ UNCHANGED session

GamePacket(data) ==
  /\ session.open /\ ~session.kicked /\ ~IsJoinPacket(data)
  /\ seen' = data
  /\ Sends(data)
  /\ UNCHANGED session

KickedPacket(data) ==
  /\ session.kicked
  /\ seen' = <<>>
  /\ Sends(data)
  /\ UNCHANGED session

\* The session expires, or is kicked by an admin.
SessionEnds ==
  /\ session.open
  /\ session' = NoSession
  /\ sent' = <<>> /\ seen' = <<>>
  /\ UNCHANGED requireAuth

Next ==
  \/ \E data \in Packet : \/ FirstPacket(data) \/ FirstJoin(data) \/ LateJoin(data)
                          \/ JoinAgain(data) \/ GamePacket(data) \/ KickedPacket(data)
  \/ SessionEnds

Spec == Init /\ [][Next]_vars

-----------------------------------------------------------------------------
(***************************************************************************)
(* In whatever join packet of a client who gave the token for a name the   *)
(* game server reads that name, as far as the slot of the packet holds it, *)
(* and never the token (udp_proxy.py:136: "so the game server always sees  *)
(* the registered name, not the raw token").  A plain slot is filled up    *)
(* with spaces.  It fails for a user whose name is Unknown.                *)
(***************************************************************************)
GameSeesUser ==
  LET field == ExtractName(seen)
      slot  == ExtractName(sent).end - ExtractName(sent).start
      shown == IF slot < Len(session.user) THEN SubSeq(session.user, 1, slot) ELSE session.user
  IN session.auth = "name" /\ IsJoinPacket(seen) /\ field # NoName =>
       /\ Len(seen) = Len(sent)
       /\ field.name = IF field.encoded THEN shown ELSE Fitted(session.user, slot, FALSE)

\* The text begins the token, the case of letters aside.
Begins(text, token) ==
  \A i \in 1..Len(text) : i \in DOMAIN token /\ Lower(text[i]) = Lower(token[i])

HasWildcard(text) == \E i \in 1..Len(text) : text[i] \in {Percent, Underscore}

(***************************************************************************)
(* With require_auth a join packet reaches the game server on whichever of *)
(* the paths only from a user, who is known by a text in the field of that *)
(* path: one that begins a token of his, or one with a wildcard in it.     *)
(* The latter is what is left of "If require_auth=True and no valid token: *)
(* packet is dropped" (udp_proxy.py:18), because validate_token takes the  *)
(* text for a pattern (database.py:333).                                   *)
(***************************************************************************)
AuthGate ==
  [][requireAuth /\ seen' # <<>> /\ IsJoinPacket(seen') =>
       /\ session'.auth \in {"name", "uid"} /\ session'.user \in User
       /\ session.user = Nobody =>
            LET text == IF session'.auth = "uid" THEN ExtractAuthUidToken(sent')
                        ELSE ExtractName(sent').name
            IN /\ text # <<>>
               /\ \/ HasWildcard(text)
                  \/ \E t \in TokensOf[session'.user] : Begins(text, t)]_vars

(***************************************************************************)
(* The machine noted for a user is the one the client's packet names: the  *)
(* UID is read after the user's name was written into the packet           *)
(* (udp_proxy.py:339, 346), and no name is too long for its slot.          *)
(***************************************************************************)
UidIsTheClients == [][session'.uid \in {session.uid, <<>>, ExtractUid(sent')}]_vars
=============================================================================
