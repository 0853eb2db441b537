-------------------------------- MODULE AMEF --------------------------------
(***************************************************************************)
(* AMEFObject, AMEFEncoder and AMEFDecoder.  A packet is an object with    *)
(* packets or a value: a text, or a number in as many bytes as it needs.   *)
(* A byte is a token, the bytes of a length are digits in a base that is   *)
(* 256 in the code and Base here.  The type of a packet tells the decoder  *)
(* how many bytes the length or the number has.                            *)
(***************************************************************************)
EXTENDS CastUtil

CONSTANT Base

ASSUME BaseAssumption == Base \in 16..256

Byte == [i \in 1..Base |-> "#" \o ToString(i - 1)]

PacketOf(name, type, value, packets) ==
  [tag |-> "obj", name |-> name, type |-> type, value |-> value, packets |-> packets]

NewObject(name)  == PacketOf(name, "o", <<>>, <<>>)
NullPacket       == [NewObject(<<>>) EXCEPT !.tag = "null"]

\* The decoder met bytes that are no packet: it reads on without end or past the
\* end of the text.
BrokenPacket     == [NewObject(<<>>) EXCEPT !.tag = "undef"]

addPacket(o, p, name) == [o EXCEPT !.packets = Append(@, [p EXCEPT !.name = name])]

\* addStringPacket: a length of exactly 256, 65536 or 16777216 is given the type
\* with the shorter length.
StringPacket(text) ==
  LET type == CASE Len(text) <= Base -> "t" [] Len(text) > Base /\ Len(text) <= Base^2 -> "h"
                [] Len(text) > Base^2 /\ Len(text) <= Base^3 -> "y" [] OTHER -> "s"
  IN  PacketOf(<<>>, type, text, <<>>)

\* addULLPacket: a negative number becomes one of eight bytes.
NumberPacket(text) ==
  IF text[1] = "-" THEN PacketOf(<<>>, "l", [i \in 1..7 |-> "ff"] \o <<text[2]>>, <<>>)
  ELSE PacketOf(<<>>, IF Len(text) = 1 THEN "n" ELSE "w", text, <<>>)

Packet(cn, v) ==
  CASE cn \in Integers32And64 \cup {"long long", "unsigned long long"} -> NumberPacket(v.text)
    [] cn \in {"float", "double", "long double"} -> PacketOf(<<>>, "u", v.text, <<>>)
    [] cn = "bool" -> PacketOf(<<>>, "b", v.text, <<>>)
    [] cn \in {"char", "unsigned char"} -> PacketOf(<<>>, "c", v.text, <<>>)
    [] OTHER -> StringPacket(v.text)

\* getIntValue and the others: a type that is not the one asked for is -1, -1.0,
\* false or the character 0.
LOCAL Narrow == {"int", "unsigned int", "short", "unsigned short"}

PacketValue(p, cn) ==
  CASE cn \in Narrow -> IF p.type \in {"n", "w"} THEN Leaf(p.value) ELSE Leaf(<<"-", "1">>)
    [] cn \in {"long", "unsigned long", "long long", "unsigned long long"} ->
         CASE p.type \in {"n", "w"} -> Leaf(p.value)
           [] p.type = "l" -> Leaf(<<"-", Last(p.value)>>)
           [] OTHER -> Leaf(<<"-", "1">>)
    [] cn \in {"float", "double", "long double"} ->
         IF p.type = "u" THEN lexical_cast(cn, p.value) ELSE Leaf(<<"-", "1", ".", "0">>)
    [] cn = "bool" -> IF p.type = "b" THEN Leaf(p.value) ELSE Leaf(<<"false">>)
    [] OTHER -> IF p.type = "c" THEN Leaf(p.value) ELSE Undef

-----------------------------------------------------------------------------
(* AMEFEncoder.                                                            *)

Width(n) == CASE n < Base -> 1 [] n >= Base /\ n < Base^2 -> 2
              [] n >= Base^2 /\ n < Base^3 -> 3 [] OTHER -> 4

Bytes(n, width) == [i \in 1..width |-> Byte[((n \div Base^(width - i)) % Base) + 1]]

EncodedName(name) == <<",", "#1">> \o Bytes(Len(name), 1) \o name \o <<",">>

\* A value of a type that has a fixed size has no length.
HasLength(type) == type \notin {"n", "w", "l", "b", "c"}

ObjectType(n) == CASE Width(n) = 1 -> <<"m">> [] Width(n) = 2 -> <<"q">> [] Width(n) = 3 -> <<"p">>
                   [] OTHER -> <<>>

EncodedPacket(p, body) ==
  (IF p.type \in {"o", "m", "q", "p"} THEN ObjectType(Len(body)) ELSE <<p.type>>)
    \o EncodedName(p.name)
    \o (IF HasLength(p.type) THEN Bytes(Len(body), Width(Len(body))) ELSE <<>>)
    \o body

\* The packets of an encoded object have values only: what is nested is encoded
\* before it is added.
encodeSinglePacketB(p) ==
  EncodedPacket(p, IF p.packets = <<>> THEN p.value
                   ELSE FlattenSeq([i \in DOMAIN p.packets |->
                          EncodedPacket(p.packets[i], p.packets[i].value)]))

\* encodeB puts a length of four bytes in front, which nobody reads.
encodeB(p) == Bytes(0, 4) \o encodeSinglePacketB(p)

-----------------------------------------------------------------------------
(* AMEFDecoder.                                                            *)

Number(bytes) ==
  FoldLeft(LAMBDA n, b : n * Base + SelectInSeq(Byte, LAMBDA x : x = b) - 1, 0, bytes)

IsByte(s, i) == i \in DOMAIN s /\ \E k \in 1..Base : s[i] = Byte[k]

\* How many bytes hold the length of a value of a type, and the size of a value
\* without one.
LengthWidth(type) ==
  CASE type \in {"t", "u", "m"} -> 1 [] type \in {"h", "q"} -> 2 [] type \in {"y", "p"} -> 3
    [] type \in {"s", "o"} -> 4 [] OTHER -> 0

FixedSize(type) == CASE type \in {"n", "b", "c"} -> 1 [] type = "w" -> 2 [] type = "l" -> 8 [] OTHER -> 0

\* The place after a name, 0 when there is none.
AfterName(s, at) ==
  IF at + 3 <= Len(s) /\ s[at + 1] = "," /\ s[at + 2] = "#1" /\ IsByte(s, at + 3)
  THEN at + 5 + Number(<<s[at + 3]>>) ELSE 0

Known(type) == LengthWidth(type) + FixedSize(type) # 0

RECURSIVE decodeFrom(_, _, _)

\* The packets of an object reach to the end of the text.
decodePackets(s, at, o) == IF at > Len(s) \/ o.tag # "obj" THEN o ELSE decodeFrom(s, at, o)

\* A packet whose value is from first to last, added to the object around it.
decodeValue(s, at, first, last, o) ==
  IF last > Len(s) THEN BrokenPacket
  ELSE decodePackets(s, last + 1,
         addPacket(o, PacketOf(<<>>, s[at], SubSeq(s, first, last), <<>>),
                   SubSeq(s, at + 4, AfterName(s, at) - 2)))

decodeSized(s, at, from, o) ==
  LET w == LengthWidth(s[at])
  IN  IF \E i \in from..(from + w - 1) : ~IsByte(s, i) THEN BrokenPacket
      ELSE decodeValue(s, at, from + w,
             from + w + FixedSize(s[at]) + Number(SubSeq(s, from, from + w - 1)) - 1, o)

decodeFrom(s, at, o) ==
  IF ~Known(s[at]) \/ AfterName(s, at) = 0 THEN BrokenPacket
  ELSE decodeSized(s, at, AfterName(s, at), o)

\* decodeB.  An object that encodes no packets has none.
decodeB(text) ==
  LET s == From(text, 5)
  IN  CASE text = <<>> -> NullPacket
        [] text # <<>> /\ (Len(text) < 5 \/ ~Known(s[1])) -> NullPacket
        [] OTHER -> IF AfterName(s, 1) = 0 THEN BrokenPacket
                    ELSE decodePackets(s, AfterName(s, 1) + LengthWidth(s[1]),
                           NewObject(SubSeq(s, 5, AfterName(s, 1) - 2)))
=============================================================================
