---------------------------- MODULE PacketParser ----------------------------
(***************************************************************************)
(* What the proxy reads in a packet and writes to it                       *)
(* (elefrac/packet_parser.py).  A packet is a sequence of bytes, a text a  *)
(* sequence of ASCII codes; the encoded form of a text has every code      *)
(* doubled.  The markers and the lengths are constants, because the code   *)
(* does not depend on their values.                                        *)
(*                                                                         *)
(* Left out: line feeds in a plain UID, and decode_join_url, whose result  *)
(* is only logged.                                                         *)
(***************************************************************************)
EXTENDS Integers, Sequences, FiniteSets

SX == INSTANCE SequencesExt

CONSTANTS
  Header,        \* _ENCODED_HEADER
  EncodedMarker, \* _ENCODED_NAME_MARKER
  PlainMarkers,  \* _NAME_MARKERS
  TokenLen,      \* length of the token in the UID field
  HexLen         \* length of the hex id a UID ends with

Byte == 0..255

ASSUME ParserAssumption ==
  /\ \A m \in {Header, EncodedMarker} : m \in Seq(Byte) /\ m # <<>>
  /\ PlainMarkers \in Seq(Seq(Byte))
  /\ TokenLen \in Nat \ {0} /\ HexLen \in Nat \ {0}

Question     == 63   \* "?"
EncodedDelim == 126  \* "?" doubled, and "~" as well
Delims       == {Question, EncodedDelim}
Dash         == 45

\* A name marker begins with a delimiter and has no other, and none is the
\* beginning of another.
Markers == {EncodedMarker} \cup {PlainMarkers[i] : i \in DOMAIN PlainMarkers}

ASSUME MarkerAssumption ==
  /\ EncodedMarker[1] = EncodedDelim
  /\ \A i \in DOMAIN PlainMarkers : PlainMarkers[i] # <<>> /\ PlainMarkers[i][1] = Question
  /\ \A m \in Markers : \A k \in 2..Len(m) : m[k] \notin Delims
  /\ \A m, o \in Markers : (\A k \in DOMAIN m : k \in DOMAIN o /\ o[k] = m[k]) => m = o

Printable(code) == code \in 32..126

Encode(text)  == [i \in DOMAIN text |-> 2 * text[i]]
Decode(bytes) == [i \in DOMAIN bytes |-> bytes[i] \div 2]

HexDigits  == 48..57 \cup 97..102
UpperHex   == 65..70
Upper(c)   == IF c \in 97..122 THEN c - 32 ELSE c
Lower(c)   == IF c \in 65..90 THEN c + 32 ELSE c
LowerCase(text) == [i \in DOMAIN text |-> Lower(text[i])]

\* The places after which m stands in data; bytes.find gives the least.
Places(data, m)   == {i \in 0..Len(data) - Len(m) : SubSeq(data, i + 1, i + Len(m)) = m}
Contains(data, m) == Places(data, m) # {}
Find(data, m)     == CHOOSE i \in Places(data, m) : \A j \in Places(data, m) : i <= j
After(data, m)    == SubSeq(data, Find(data, m) + Len(m) + 1, Len(data))

\* data.split(b"\0"): the segments between the null bytes, in order.
Segments(data) ==
  LET ends == SX!SetToSortSeq({i \in DOMAIN data : data[i] = 0} \cup {0, Len(data) + 1}, LAMBDA x, y : x < y)
  IN [k \in 1..Len(ends) - 1 |-> SubSeq(data, ends[k] + 1, ends[k + 1] - 1)]

First(segs) == IF segs = <<>> THEN <<>> ELSE segs[1]

-----------------------------------------------------------------------------
(* The name field                                                          *)

Stops(b, encoded) ==
  IF encoded THEN b = EncodedDelim \/ ~Printable(b \div 2)
             ELSE b \in Delims \/ ~Printable(b)

\* The field after marker m goes to the first byte that stops it.
Field(data, m, encoded) ==
  LET start == Find(data, m) + Len(m)
      stops == {i \in start..Len(data) : i = Len(data) \/ Stops(data[i + 1], encoded)}
      end   == CHOOSE i \in stops : \A j \in stops : i <= j
      slot  == SubSeq(data, start + 1, end)
  IN [name |-> IF encoded THEN Decode(slot) ELSE slot, start |-> start, end |-> end, encoded |-> encoded]

NoName == [name |-> <<>>, start |-> -1, end |-> -1, encoded |-> FALSE]

\* The encoded field, or else that of the first plain marker; an empty field
\* does not count.
ExtractName(data) ==
  LET fields == (IF Contains(data, EncodedMarker)
                 THEN <<Field(data, EncodedMarker, TRUE)>> ELSE <<>>)
                \o [i \in DOMAIN PlainMarkers |->
                      IF Contains(data, PlainMarkers[i])
                      THEN Field(data, PlainMarkers[i], FALSE) ELSE NoName]
      found  == {i \in DOMAIN fields : fields[i].name # <<>>}
  IN IF found = {} THEN NoName
     ELSE fields[CHOOSE i \in found : \A j \in found : i <= j]

IsJoinPacket(data) ==
  (\E i \in DOMAIN PlainMarkers : Contains(data, PlainMarkers[i])) \/ Contains(data, Header)

\* The text as it fits a slot of the packet: cut, or filled up.
Fitted(text, len, encoded) ==
  LET bytes == IF encoded THEN Encode(text) ELSE text
  IN [i \in 1..len |-> IF i <= Len(bytes) THEN bytes[i] ELSE IF encoded THEN 2 ELSE 32]

\* Variant: a long text runs over the slot.
RewriteNameWhole(data, field, text) ==
  LET bytes == IF field.encoded THEN Encode(text) ELSE text
  IN [i \in DOMAIN data |-> IF i - field.start \in DOMAIN bytes THEN bytes[i - field.start] ELSE data[i]]

RewriteName(data, field, text) ==
  SubSeq(data, 1, field.start)
  \o Fitted(text, field.end - field.start, field.encoded)
  \o SubSeq(data, field.end + 1, Len(data))

-----------------------------------------------------------------------------
(* The UID field                                                           *)

\* A segment of encoded hex digits, of just the length of a token.
ExtractAuthUidToken(data) ==
  IF ~Contains(data, Header) THEN <<>>
  ELSE LET IsToken(seg) == /\ Len(seg) = TokenLen
                           /\ \A i \in DOMAIN seg : seg[i] \in {2 * c : c \in HexDigits}
       IN Decode(First(SelectSeq(Segments(After(data, Header)), IsToken)))

\* Codes that cannot be printed are left out.
DecodeSpellbreak(seg) == SelectSeq(Decode(seg), Printable)

\* The least length the code looks at: one more than a name of one character,
\* the dash and the hex id have.
MinUid == HexLen + 3

\* A computer name, a dash and the hex id.
IsUid(text) ==
  /\ Len(text) >= MinUid
  /\ text[Len(text) - HexLen] = Dash
  /\ \A i \in Len(text) - HexLen + 1..Len(text) : text[i] \in HexDigits \cup UpperHex

\* The hex id in capitals.
UidOf(text) ==
  [i \in DOMAIN text |-> IF i > Len(text) - HexLen THEN Upper(text[i]) ELSE text[i]]

ExtractUid(data) ==
  LET IsEncoded(seg) == IsUid(DecodeSpellbreak(seg))
      IsPlain(seg)   == (\A i \in DOMAIN seg : seg[i] < 128) /\ IsUid(seg)
      encoded == IF Contains(data, Header) THEN First(SelectSeq(Segments(After(data, Header)), IsEncoded)) ELSE <<>>
  IN IF encoded # <<>> THEN UidOf(DecodeSpellbreak(encoded))
     ELSE UidOf(First(SelectSeq(Segments(data), IsPlain)))
=============================================================================
