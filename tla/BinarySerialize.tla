--------------------------- MODULE BinarySerialize ---------------------------
(***************************************************************************)
(* BinarySerialize: the methods SerializeBase calls, for AMEF.  A value is *)
(* an object with one packet; a container holds the encoding of each       *)
(* element as a string packet, and so do the properties of an object that  *)
(* are containers or objects.                                              *)
(***************************************************************************)
EXTENDS AMEF

LOCAL BJoined(names) == FoldLeft(LAMBDA s, n : s \o <<"-", n>>, <<names[1]>>, Tail(names))

BPrimitive(cn, v, held) == encodeB(addPacket(NewObject(<<>>), Packet(cn, v), <<cn>>))

BStartContainer(elem, container) == NewObject(BJoined(<<container>> \o elem))
BElement(o, text) == addPacket(o, StringPacket(text), <<>>)
BAfter(o) == o
BEndContainer(o, elem, container) == o
BString(o) == encodeB(o)

\* The generated code hands over a Date or a BinaryData, which is taken for a
\* string here.
BStartObject(class) == NewObject(<<class>>)
BEndObject(o, class) == o
BPrimitiveProperty(o, name, cn, v) ==
  addPacket(o, IF cn \in {"Date", "BinaryData"} THEN StringPacket(<<"garbled">>)
               ELSE Packet(cn, v), <<name>>)
BProperty(o, name, type, text) == addPacket(o, StringPacket(text), <<name>>)

-----------------------------------------------------------------------------
BUnserializable(text) == decodeB(text)
BValid(o, text) == o
BSize(o) == Len(o.packets)
BGet(o, i) == decodeB(o.packets[i].value)

BClassName(o, type) == o.name
BElementClass(o, elem) == elem

BIsNamespace(o, names, iscontainer) ==
  o.name = BJoined(names) /\ ~(iscontainer /\ o.packets = <<>>)
BIsProperty(o, name, i) == o.packets[i].name = <<name>>

BGetProperty(o, i) == o.packets[i]

\* The value of a packet as a type.
BRead(p, cn) ==
  CASE cn \in {"string", "BinaryData"} -> Leaf(p.value)
    [] cn = "Date" -> Thrown
    [] OTHER -> PacketValue(p, cn)

BPrimitiveValue(o, cn) ==
  IF o.packets = <<>> THEN Thrown
  ELSE IF o.packets[1].name # <<cn>> THEN Null ELSE BRead(o.packets[1], cn)

BPrimitiveElement(o, i, cn) ==
  LET e == decodeB(o.packets[i].value)
  IN  CASE e.tag # "obj" -> Undef
        [] e.tag = "obj" /\ e.packets = <<>> -> Thrown
        [] OTHER -> BRead(e.packets[1], cn)

BObjectValue(p, cn, name) == IF p.name # <<name>> THEN Null ELSE BRead(p, cn)
=============================================================================
