----------------------------- MODULE Encodings -------------------------------
(***************************************************************************)
(* What is put around and into the payload of a message, as pure functions: *)
(* the _xHHHH_ escapes of a text (serialization/clixml_string.go), the      *)
(* header of a message (messages/messages.go) and that of a fragment        *)
(* (fragments/fragments.go, read back by Pool.receiveMessage).              *)
(*                                                                         *)
(* A string is a sequence of code points, bytes are numbers below 256.  The *)
(* contents of a message are opaque here: they are whatever follows the     *)
(* header.  Integers that would not fit in 32 bits are taken apart 16 bits  *)
(* at a time.  Two small specifications use the functions: a text that      *)
(* grows, and the stream of fragments between writers and reader.           *)
(***************************************************************************)
EXTENDS Integers, Sequences, SequencesExt

CONSTANT Blocks         \* what a text is made of

VARIABLES
    text,       \* a text that is built up, block by block
    wire,       \* the bytes between sendMessage and receiveMessage
    framed      \* history: the fragments in them

Underscore == 95
Cross == {120, 88}                       \* x and X
Replacement == 65533                     \* U+FFFD
Markup == {34, 38, 39, 60, 62}           \* " & ' < >

----------------------------------------------------------------------------
(* The escapes *)

isHighSurrogate(u) == 55296 <= u /\ u <= 56319
isLowSurrogate(u) == 56320 <= u /\ u <= 57343
isSurrogate(u) == isHighSurrogate(u) \/ isLowSurrogate(u)

\* The code points of valid text.
Scalars == {c \in Nat : c <= 1114111 /\ ~isSurrogate(c)}

ASSUME EncodingsAssumption == Blocks \subseteq Seq(Scalars)

HexDigit(n) == IF n < 10 THEN 48 + n ELSE 55 + n

writeHex4(u) ==
    <<Underscore, 120, HexDigit(u \div 4096), HexDigit((u \div 256) % 16),
      HexDigit((u \div 16) % 16), HexDigit(u % 16), Underscore>>

needsCLIXMLCharEscape(r) ==
    r <= 31 \/ r \in 127..159 \/ isSurrogate(r) \/ r > 65535

\* One character: itself, an escape, or above U+FFFF those of its surrogates.
Written(r) ==
    IF ~needsCLIXMLCharEscape(r) THEN <<r>>
    ELSE IF r <= 65535 THEN writeHex4(r)
    ELSE writeHex4(55296 + ((r - 65536) \div 1024)) \o writeHex4(56320 + ((r - 65536) % 1024))

\* Mutant of encodeCLIXMLString: the underscore before an x is left alone.
encodeControls(s) == FlattenSeq([i \in 1..Len(s) |-> Written(s[i])])

\* The underscore before an x is escaped too: the text could read as an escape.
Piece(s, i) ==
    IF s[i] = Underscore /\ i < Len(s) /\ s[i + 1] \in Cross
      THEN writeHex4(Underscore)
      ELSE Written(s[i])

encodeCLIXMLString(s) == FlattenSeq([i \in 1..Len(s) |-> Piece(s, i)])

isHexDigit(b) == b \in 48..57 \cup 97..102 \cup 65..70

Digit(b) == IF b <= 57 THEN b - 48 ELSE IF b <= 70 THEN b - 55 ELSE b - 87

parseHex4(s) == 4096 * Digit(s[1]) + 256 * Digit(s[2]) + 16 * Digit(s[3]) + Digit(s[4])

EscapeAt(s, i) ==
    /\ i + 6 <= Len(s)
    /\ s[i] = Underscore /\ s[i + 1] \in Cross /\ s[i + 6] = Underscore
    /\ \A j \in 2..5 : isHexDigit(s[i + j])

UnitAt(s, i) == parseHex4(SubSeq(s, i + 2, i + 5))

PairAt(s, i) ==
    /\ EscapeAt(s, i) /\ isHighSurrogate(UnitAt(s, i))
    /\ EscapeAt(s, i + 7) /\ isLowSurrogate(UnitAt(s, i + 7))

\* What stands at position i, before what the rest stands for; half of a
\* surrogate pair is written as U+FFFD.
DecodedAt(s, i, rest) ==
    IF i > Len(s) THEN <<>>
    ELSE IF PairAt(s, i)
      THEN <<65536 + (UnitAt(s, i) - 55296) * 1024 + (UnitAt(s, i + 7) - 56320)>> \o rest[i + 14]
    ELSE IF EscapeAt(s, i)
      THEN <<IF isSurrogate(UnitAt(s, i)) THEN Replacement ELSE UnitAt(s, i)>> \o rest[i + 7]
    ELSE <<s[i]>> \o rest[i + 1]

\* From left to right.
decodeCLIXMLString(s) ==
    LET from[i \in 1..(Len(s) + 14)] == DecodedAt(s, i, from)
    IN from[1]

\* What encoding/xml takes for a character of XML.
XmlCharacter(c) ==
    \/ c \in {9, 10, 13}
    \/ 32 <= c /\ c <= 55295
    \/ 57344 <= c /\ c <= 65533
    \/ 65536 <= c /\ c <= 1114111

\* xml.EscapeText and the XML decoder: markup survives, what is no character of
\* XML becomes U+FFFD.
XmlText(s) == [i \in 1..Len(s) |-> IF XmlCharacter(s[i]) THEN s[i] ELSE Replacement]

\* Of text that is written as it is, the decoder refuses what XML does not allow.
XmlRefuses(s) == \E i \in 1..Len(s) : ~XmlCharacter(s[i])

needsXMLEscape(s) == \E i \in 1..Len(s) : s[i] \in Markup

\* serializeStringFast: xml.EscapeText is left out where there is no markup.
StringText(s) ==
    LET encoded == encodeCLIXMLString(s)
    IN IF needsXMLEscape(encoded) THEN XmlText(encoded) ELSE encoded

\* The characters outside XML that encodeCLIXMLString leaves alone: U+FFFE and
\* U+FFFF.  At best U+FFFD is read in their place.
Noncharacters == {65534, 65535}

Cleaned(s) == [i \in 1..Len(s) |-> IF s[i] \in Noncharacters THEN Replacement ELSE s[i]]

\* The text that a caller will send grows.
Lengthen == \E b \in Blocks : text' = text \o b

TextSpec == text = <<>> /\ [][Lengthen]_text

\* PROPERTY.  decodeCLIXMLString inverts encodeCLIXMLString on every text, those
\* that look like escapes, or like halves of a surrogate pair, included.  By way
\* of xml.EscapeText a text is read back as it was, but for U+FFFE and U+FFFF;
\* and a document with a string that holds one of these and no markup, written
\* without xml.EscapeText, is the only one that is refused for its text.
TextSurvives ==
    /\ decodeCLIXMLString(encodeCLIXMLString(text)) = text
    /\ decodeCLIXMLString(XmlText(encodeCLIXMLString(text))) = Cleaned(text)
    /\ XmlRefuses(StringText(text)) <=>
          Cleaned(text) # text /\ ~needsXMLEscape(encodeCLIXMLString(text))

\* What the comment above encodeCLIXMLString says of its result: it "will only
\* contain printable characters", so that XML has nothing to refuse.  The code
\* does not keep this: see the README's disagreements.
OnlyPrintable == ~XmlRefuses(encodeCLIXMLString(text))

----------------------------------------------------------------------------
(* The message header *)

HeaderSize == 40

PutUint32(v) ==
    <<v % 256, (v \div 256) % 256, (v \div 65536) % 256, (v \div 16777216) % 256>>

Uint32(b) == b[1] + 256 * b[2] + 65536 * b[3] + 16777216 * b[4]

\* .NET's order of a GUID: the first three parts reversed.
uuidToLittleEndianBytes(u) ==
    <<u[4], u[3], u[2], u[1], u[6], u[5], u[8], u[7]>> \o SubSeq(u, 9, 16)

uuidFromLittleEndianBytes(b) ==
    <<b[4], b[3], b[2], b[1], b[6], b[5], b[8], b[7]>> \o SubSeq(b, 9, 16)

Encode(m) ==
    PutUint32(m.destination) \o PutUint32(m.type)
    \o uuidToLittleEndianBytes(m.runspace) \o uuidToLittleEndianBytes(m.pipeline) \o m.data

Decodable(data) == Len(data) >= HeaderSize

Decode(data) ==
    [destination |-> Uint32(SubSeq(data, 1, 4)),
     type        |-> Uint32(SubSeq(data, 5, 8)),
     runspace    |-> uuidFromLittleEndianBytes(SubSeq(data, 9, 24)),
     pipeline    |-> uuidFromLittleEndianBytes(SubSeq(data, 25, 40)),
     data        |-> SubSeq(data, 41, Len(data))]

----------------------------------------------------------------------------
(* The fragment header, big-endian, and the stream of fragments *)

FragmentHeaderSize == 21
maxFragmentBlobLen == 10485760

PutUint32BE(v) ==
    LET high == v \div 65536
    IN <<high \div 256, high % 256, (v \div 256) % 256, v % 256>>

PutUint64BE(v) ==
    LET w1 == v \div 65536
        w2 == w1 \div 65536
        w3 == w2 \div 65536
    IN <<w3 \div 256, w3 % 256, (w2 \div 256) % 256, w2 % 256,
         (w1 \div 256) % 256, w1 % 256, (v \div 256) % 256, v % 256>>

WordAt(b, i) == 256 * b[i] + b[i + 1]

Uint32BE(b, i) == 65536 * WordAt(b, i) + WordAt(b, i + 2)
Uint64BE(b, i) ==
    65536 * (65536 * (65536 * WordAt(b, i) + WordAt(b, i + 2)) + WordAt(b, i + 4)) + WordAt(b, i + 6)

Flags(f) == (IF f.start THEN 1 ELSE 0) + (IF f.end THEN 2 ELSE 0)

EncodeFragment(f) ==
    PutUint64BE(f.object) \o PutUint64BE(f.id) \o <<Flags(f)>>
    \o PutUint32BE(Len(f.data)) \o f.data

BlobLength(b) == Uint32BE(b, 18)

FragmentDecodable(b) ==
    Len(b) >= FragmentHeaderSize /\ Len(b) >= FragmentHeaderSize + BlobLength(b)

DecodeFragment(b) ==
    [object |-> Uint64BE(b, 1), id |-> Uint64BE(b, 9),
     start |-> b[17] % 2 = 1, end |-> (b[17] \div 2) % 2 = 1,
     data |-> SubSeq(b, 22, 21 + BlobLength(b))]

\* receiveMessage takes the header off the stream, and then what it announces.
Readable(stream) ==
    /\ Len(stream) >= FragmentHeaderSize /\ BlobLength(stream) <= maxFragmentBlobLen
    /\ Len(stream) >= FragmentHeaderSize + BlobLength(stream)

Taken(stream) == SubSeq(stream, 1, FragmentHeaderSize + BlobLength(stream))

Left(stream) == SubSeq(stream, FragmentHeaderSize + BlobLength(stream) + 1, Len(stream))

\* What Fragment holds: its IDs are uint64.
Word64 == {v \in Nat : ((v \div 65536) \div 65536) \div 65536 <= 65535}

\* The fragments of bytes in V that receiveMessage accepts.
StreamFragments(V) ==
    {f \in [object : Word64, id : Word64, start : BOOLEAN, end : BOOLEAN, data : Seq(V)] :
        Len(f.data) <= maxFragmentBlobLen}

\* sendMessage writes a fragment at one end of the stream ...
Put(f) == wire' = wire \o EncodeFragment(f) /\ framed' = Append(framed, f)

\* ... and receiveMessage reads one from the other.
Get == Readable(wire) /\ wire' = Left(wire) /\ framed' = Tail(framed)

StreamNext(V) == (\E f \in StreamFragments(V) : Put(f)) \/ Get

StreamSpec(V) == wire = <<>> /\ framed = <<>> /\ [][StreamNext(V)]_<<wire, framed>>

\* PROPERTY.  The reader stays in step with the writers on a connection that
\* loses nothing: as long as a fragment is on its way, what receiveMessage cuts
\* from the stream is the one that was written first, with its fields and its
\* data, and when none is, no byte is left over.
FragmentsInTurn ==
    /\ framed = <<>> => wire = <<>>
    /\ framed # <<>> => /\ Readable(wire) /\ FragmentDecodable(Taken(wire))
                        /\ DecodeFragment(Taken(wire)) = Head(framed)
=============================================================================
