------------------------------- MODULE Codecs -------------------------------
(***************************************************************************)
(* A program that writes a value in one of the three formats and reads it  *)
(* back as the same type.  SerializeBase is instantiated once per format,  *)
(* with the methods of the format's class in place of its virtual ones.    *)
(***************************************************************************)
EXTENDS JSONSerialize, XMLSerialize, BinarySerialize

CONSTANTS Class,    \* the classes code was generated for
          Samples   \* the [type, value] pairs programs write

VARIABLES sample,   \* what is written: [format, type, value]
          text,     \* the text, once written
          back      \* the value read from it

codecVars == <<sample, text, back>>

J == INSTANCE SerializeBase WITH serializePrimitive <- JPrimitive,
  startContainerSerialization <- JStartContainer, addContainerSerializableElement <- JElement,
  addContainerSerializableElementMulti <- JElement, afterAddContainerSerializableElement <- JAfterElement,
  endContainerSerialization <- JEndContainer, fromSerializableObjectToString <- JString,
  startObjectSerialization <- JStartObject, addObjectPrimitiveProperty <- JPrimitiveProperty,
  addObjectProperty <- JProperty, afterAddObjectProperty <- JAfterProperty, endObjectSerialization <- JEndObject,
  getUnserializableObject <- JUnserializable, getValidUnserializableObject <- JValid,
  getUnserializableClassName <- JClassName, getPrimitiveValue <- JPrimitiveValue,
  getContainerSize <- JSize, getContainerElement <- JGet, getPropertyElement <- JGet,
  getObjectProperty <- JGet, getConatinerElementClassName <- JElementClass,
  primitiveElement <- JPrimitiveElement, isValidClassNamespace <- JIsNamespace,
  isValidObjectProperty <- JIsProperty, getObjectPrimitiveValue <- JObjectValue

X == INSTANCE SerializeBase WITH serializePrimitive <- XPrimitive,
  startContainerSerialization <- XStartContainer, addContainerSerializableElement <- XElement,
  addContainerSerializableElementMulti <- XElement, afterAddContainerSerializableElement <- XAfter,
  endContainerSerialization <- XEndContainer, fromSerializableObjectToString <- XString,
  startObjectSerialization <- XStartObject, addObjectPrimitiveProperty <- XPrimitiveProperty,
  addObjectProperty <- XProperty, afterAddObjectProperty <- XAfter, endObjectSerialization <- XEndObject,
  getUnserializableObject <- XUnserializable, getValidUnserializableObject <- XValid,
  getUnserializableClassName <- XClassName, getPrimitiveValue <- XPrimitiveValue,
  getContainerSize <- XSize, getContainerElement <- XGet, getPropertyElement <- XPropertyGet,
  getObjectProperty <- XGet, getConatinerElementClassName <- XElementClass,
  primitiveElement <- XPrimitiveElement, isValidClassNamespace <- XIsNamespace,
  isValidObjectProperty <- XIsProperty, getObjectPrimitiveValue <- XObjectValue

B == INSTANCE SerializeBase WITH serializePrimitive <- BPrimitive,
  startContainerSerialization <- BStartContainer, addContainerSerializableElement <- BElement,
  addContainerSerializableElementMulti <- BElement, afterAddContainerSerializableElement <- BAfter,
  endContainerSerialization <- BEndContainer, fromSerializableObjectToString <- BString,
  startObjectSerialization <- BStartObject, addObjectPrimitiveProperty <- BPrimitiveProperty,
  addObjectProperty <- BProperty, afterAddObjectProperty <- BAfter, endObjectSerialization <- BEndObject,
  getUnserializableObject <- BUnserializable, getValidUnserializableObject <- BValid,
  getUnserializableClassName <- BClassName, getPrimitiveValue <- BPrimitiveValue,
  getContainerSize <- BSize, getContainerElement <- BGet, getPropertyElement <- BGet,
  getObjectProperty <- BGetProperty, getConatinerElementClassName <- BElementClass,
  primitiveElement <- BPrimitiveElement, isValidClassNamespace <- BIsNamespace,
  isValidObjectProperty <- BIsProperty, getObjectPrimitiveValue <- BObjectValue

Format == {"json", "xml", "amef"}

Unwritten == <<"unwritten">>
Unread    == Value("unread", <<>>, <<>>)

CodecIdle == sample = [format |-> "none"] /\ text = Unwritten /\ back = Unread

CodecInit ==
  /\ \E f \in Format, s \in Samples :
       sample = [format |-> f, type |-> s.type, value |-> s.value]
  /\ text = Unwritten
  /\ back = Unread

Serialize ==
  /\ sample.format # "none"
  /\ text = Unwritten
  /\ text' = CASE sample.format = "json" -> J!Written(sample.type, sample.value)
               [] sample.format = "xml"  -> X!Written(sample.type, sample.value)
               [] sample.format = "amef" -> B!Written(sample.type, sample.value)
  /\ UNCHANGED <<sample, back>>

Unserialize ==
  /\ text # Unwritten
  /\ back = Unread
  /\ back' = CASE sample.format = "json" -> J!Read(sample.type, text)
               [] sample.format = "xml"  -> X!Read(sample.type, text)
               [] sample.format = "amef" -> B!Read(sample.type, text)
  /\ UNCHANGED <<sample, text>>

CodecNext == Serialize \/ Unserialize

----------------------------------------------------------------------------
(* Which values survive.                                                   *)

\* The characters of a text that mislead a parser, by what the text is: all
\* there is, an element of a container, a field, or an element in a field.
Misleads(format, place) ==
  CASE format = "json" /\ place = "element" -> {",", "\""}
    [] format = "json" /\ place = "field"   -> {",", "\"", "[", "{"}
    [] format = "json" /\ place = "inner"   -> {",", "\"", "[", "]"}
    [] format = "xml" -> {"<", "</", " "}
    [] OTHER -> {}

\* The types a format does not bring back: a branch is missing or names the type
\* otherwise, or the quotes stay on.
Unreadable(format, place) ==
  CASE place = "alone" ->
         {"Date"} \cup
         (CASE format = "json" -> {"string", "char", "unsigned char", "BinaryData",
                                   "long", "unsigned long", "long long"}
            [] format = "xml" -> {"long long", "BinaryData"}
            [] OTHER -> {})
    [] place \in {"element", "inner"} ->
         {"Date", "BinaryData"} \cup
         (CASE format = "json" -> {"char", "unsigned char"}
            [] format = "xml" -> {"char", "unsigned char", "long double"}
            [] OTHER -> {})
    [] OTHER -> IF format = "amef" THEN {"Date", "BinaryData"} ELSE {"Date"}

KeepsLeaf(format, place, type, s) ==
  /\ type \notin Unreadable(format, place)
  /\ type = "string" => /\ ToSet(s) \cap Misleads(format, place) = {}
                        /\ format = "amef" => Len(s) # Base
                        /\ format = "json" => s = <<>> \/ Last(s) # "\\"
  /\ format = "amef" /\ type \in {"int", "short"} => ~(s[1] = "-" /\ s # <<"-", "1">>)

\* Containers of containers keep what can be copied by its memory layout.
KeepsNested(outer, inner, kids) ==
  \/ kids = <<>>
  \/ /\ inner \notin J!Sorted \cup {"queue"}
     /\ outer = "queue" => inner = "deque"
     /\ outer \in J!Sorted => Len(kids) = 1
     /\ inner = "list" => /\ \A k \in ToSet(kids) : k.kids # <<>>
                          /\ outer # "list" => \A k, l \in ToSet(kids) : Len(k.kids) = Len(l.kids)

KeepsElements(container, elem, kids) ==
  \/ kids = <<>>
  \/ IF J!isPrimitiveDataType(elem) THEN J!ListsElement(container, elem)
     ELSE J!HasContainer(container, elem)

RECURSIVE Keeps(_, _, _, _)

\* A field that is not both written and read is back as the constructor left it.
KeepsField(format, fields, i, v) ==
  LET f == fields[i]
  IN  /\ f.ptr /\ Len(f.type) = 1 => v = Null
      /\ v # Null => Keeps(format, "field", f.type, v)
      /\ \/ J!Accessed(fields, i, "get") /\ J!Accessed(fields, i, "set")
         \/ v = IF f.ptr THEN Null ELSE J!Default(f.type)

Keeps(format, place, type, v) ==
  LET in == IF place \in {"field", "inner"} THEN "inner" ELSE "element"
  IN  CASE Len(type) > 1 ->
             /\ \A k \in ToSet(v.kids) : Keeps(format, in, Tail(type), k)
             /\ IF Len(type) = 2 THEN KeepsElements(type[1], type[2], v.kids)
                ELSE KeepsNested(type[1], type[2], v.kids)
        [] Len(type) = 1 /\ type[1] \in DOMAIN Class ->
             \A i \in DOMAIN v.kids : KeepsField(format, Class[type[1]].fields, i, v.kids[i])
        [] OTHER -> KeepsLeaf(format, place, type[1], v.text)

\* What is written is read back as it was for exactly the values that fit the
\* format, the type and the place: a program may rely on the three serializers
\* (SerializeBase.h 260-312) for these and for no others.
CodecsInvert ==
  back # Unread =>
    (back = sample.value <=> Keeps(sample.format, "alone", sample.type, sample.value))
=============================================================================
