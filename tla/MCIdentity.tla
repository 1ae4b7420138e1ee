----------------------------- MODULE MCIdentity -----------------------------
(***************************************************************************)
(* A small instance of Identity.  The bytes are those of the game, the     *)
(* markers, tokens and ids are shorter: "?N=" for "?Name=", tokens of four *)
(* hex digits, of which the UID field holds two, and ids of two.  Bobby    *)
(* has a shorter token, in capitals, besides.                              *)
(***************************************************************************)
EXTENDS Identity

\* What SQLite's LIKE does, one character of the pattern after the other; Like
\* says the same at once, for every short text and token.
RECURSIVE Matches(_, _)
Matches(pattern, token) ==
  IF pattern = <<>> THEN token = <<>>
  ELSE IF pattern[1] = Percent
  THEN \E k \in 0..Len(token) : Matches(Tail(pattern), SubSeq(token, k + 1, Len(token)))
  ELSE /\ token # <<>> /\ (pattern[1] = Underscore \/ Lower(pattern[1]) = Lower(token[1]))
       /\ Matches(Tail(pattern), Tail(token))

Texts(codes, len) == UNION {[1..n -> codes] : n \in 0..len}

ASSUME LikeMatches ==
  \A text \in Texts({Percent, Underscore, 66, 97}, 4), token \in Texts({65, 97, 98}, 4) :
    Like(text, token) = Matches(text \o <<Percent>>, token)

\* "/G" doubled; "?N=" doubled; "?N=" and "?n=".
MCHeader  == <<94, 142>>
MCMarker  == <<126, 156, 122>>
MCPlain   == << <<63, 78, 61>>, <<63, 110, 61>> >>

Al    == <<65, 108>>
Bobby == <<66, 111, 98, 98, 121>>
MCUser    == {Al, Bobby}
AlsToken  == <<97, 49, 98, 50>>
BobbysToken == <<99, 51, 100, 52>>
MCTokensOf == [u \in MCUser |-> IF u = Al THEN {AlsToken} ELSE {BobbysToken, <<89, 57, 89>>}]

Cut(token) == SubSeq(token, 1, 2)

\* "unk" for "unknown"; no user is called that here.
MCUnknown == <<117, 110, 107>>

\* Names, in any case; tokens, whole, cut and in capitals; texts with a wildcard,
\* "%" and "_3"; what is neither, "y9z"; nothing.
Names == MCUser \cup {<<97, 76>>, <<121, 57, 122>>, <<>>}
         \cup {AlsToken, BobbysToken, Cut(AlsToken), Cut(BobbysToken), <<65, 49, 66>>}
         \cup {<<Percent>>, <<Underscore, 51>>}

\* The URL: with an encoded name, a plain one, both fields, or no name.
Urls == {MCHeader \o MCMarker \o Encode(n) \o <<126>> : n \in Names}
        \cup {MCPlain[i] \o n \o <<63>> : i \in 1..2, n \in Names}
        \cup {MCHeader \o MCMarker \o Encode(m) \o MCPlain[1] \o n :
                m \in {<<>>, Al}, n \in {Al, AlsToken, BobbysToken}}
        \cup {MCHeader}

\* What follows: nothing, a UID ("XY-aF") encoded or plain, one that is too
\* short, or a token.
MachineId == <<88, 89, 45, 97, 70>>
Tails == {<<>>, <<0>> \o Encode(MachineId) \o <<0>>, <<0>> \o MachineId, <<0>> \o Tail(MachineId)}
         \cup {<<0>> \o Encode(Cut(t)) \o <<0>> : t \in {AlsToken, BobbysToken, <<102, 102>>}}

MCPacket == {<<1, 2, 3>>} \cup {url \o tail : url \in Urls, tail \in Tails}
=============================================================================
