---------------------------- MODULE JSONSerialize ----------------------------
(***************************************************************************)
(* JSONSerialize: the methods SerializeBase calls, for JSON.  What is being *)
(* written is a text.                                                       *)
(***************************************************************************)
EXTENDS JSONUtil

LOCAL Quoted(s) == <<"\"">> \o s \o <<"\"">>
LOCAL InQuotes == {"string", "char", "unsigned char", "Date", "BinaryData"}

\* A Date or a BinaryData is taken from memory that holds a string already.
JPrimitive(cn, v, held) ==
  IF cn \in {"Date", "BinaryData"} /\ held = "string" THEN <<"garbled">>
  ELSE IF cn \in InQuotes THEN Quoted(v.text) ELSE v.text

JStartContainer(elem, container) == <<"[">>
JElement(o, text) == o \o text
JAfterElement(o) == Append(o, ",")
LOCAL Uncomma(o) == IF Last(o) = "," THEN Front(o) ELSE o
\* Mutant of JEndContainer: the last comma stays.
JEndWithComma(o, elem, container) == Append(o, "]")
JEndContainer(o, elem, container) == Append(Uncomma(o), "]")
JString(o) == o

JStartObject(class) == <<"{">>
JEndObject(o, class) == Append(Uncomma(o), "}")
JAfterProperty(o) == Append(o, ",")
LOCAL Named(name) == Quoted(<<name>>) \o <<" ", ":", " ">>
JPrimitiveProperty(o, name, cn, v) == o \o Named(name) \o JPrimitive(cn, v, "object")
JProperty(o, name, type, text) == o \o Named(name) \o text

-----------------------------------------------------------------------------
\* Before it is parsed a text is kept as it is.
JUnserializable(text) == JSONElement(<<>>, "object", text, <<>>)
JValid(o, text) == getDocument(text)
JSize(o) == Len(o.kids)
JGet(o, i) == o.kids[i]
JClassName(o, type) == type
JElementClass(o, elem) == elem
JIsNamespace(o, names, iscontainer) == ~(iscontainer /\ o.kids = <<>>)
JIsProperty(o, name, i) == o.kids[i].name = <<name>>

\* The value a text stands for; a char is the first of the text.  No text that is
\* written of a Date is one its parser accepts.
JRead(cn, text) ==
  CASE cn \in {"string", "BinaryData"} -> Leaf(text)
    [] cn \in {"char", "unsigned char"} -> IF text = <<>> THEN Thrown ELSE Leaf(<<text[1]>>)
    [] OTHER -> lexical_cast(cn, text)

\* A text that is one value: quotes are part of it, and the branches for three
\* of the types are missing or name them otherwise.
JPrimitiveValue(o, cn) == IF cn \in {"long", "unsigned long", "long long"} THEN Null ELSE JRead(cn, o.text)

JPrimitiveElement(o, i, cn) ==
  IF cn = "string" THEN Leaf(o.kids[i].text) ELSE lexical_cast(cn, o.kids[i].text)

JObjectValue(o, cn, name) == JRead(cn, o.text)
=============================================================================
