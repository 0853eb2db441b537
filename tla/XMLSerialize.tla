---------------------------- MODULE XMLSerialize ----------------------------
(***************************************************************************)
(* XmlParser, the parser of XML texts, and XMLSerialize, the methods that  *)
(* SerializeBase calls for XML.  A text is made of the tokens "<", "</",   *)
(* ">", "/>", the blank and words.  An element ends at the first end tag   *)
(* of its name, text next to elements is skipped, and a text is never      *)
(* quoted.  Comments, CDATA and attributes are left out.  The name of a    *)
(* tag is the name of the type, with "-" for all that is no letter.        *)
(***************************************************************************)
EXTENDS CastUtil

Element(name, text, kids) == [tag |-> "obj", name |-> name, text |-> text, kids |-> kids]

NoElement == Element(<<>>, <<>>, <<>>)

\* An exception, and a recursion that never ends.
BadXML     == [NoElement EXCEPT !.tag = "null"]
EndlessXML == [NoElement EXCEPT !.tag = "undef"]

\* The first of some tokens, and of a sequence of tokens; 0 for none.
FindOf(s, tokens) == SelectInSeq(s, LAMBDA x : x \in tokens)

FindText(s, t) ==
  LET at == {i \in 1..(Len(s) - Len(t) + 1) : SubSeq(s, i, i + Len(t) - 1) = t}
  IN  IF at = {} THEN 0 ELSE CHOOSE i \in at : \A j \in at : i <= j

Opens(s) == FindOf(s, {"<", "</"}) # 0
Ends(s)  == FindOf(s, {"</", "/>"}) # 0

\* What is between the first "<" and the first ">"; the whole rest when they are
\* not in this order.
TagText(s, st, ed) == trim(IF ed > st THEN SubSeq(s, st + 1, ed - 1) ELSE From(s, st + 1))

TagName(t) == IF Has(t, " ") THEN Until(t, Find(t, " ", 1)) ELSE t

\* An empty element is one that "/>" ends before another tag begins.
SelfEnded(s) ==
  LET second == FindOf(From(s, FindOf(s, {"<", "</"}) + 1), {"<", "</"})
  IN  Has(s, "/>") /\ (second = 0 \/ Find(s, "/>", 1) < second + FindOf(s, {"<", "</"}))

Spaced(s) == \E i \in 1..(Len(s) - 1) : s[i] \in {"<", "</"} /\ s[i + 1] = " "

\* The first element of the text is the one asked for (top) or a child of it.
Placed(par, top, name, inner) ==
  CASE inner.tag # "obj" -> inner
    [] inner.tag = "obj" /\ top -> [inner EXCEPT !.name = name]
    [] OTHER -> [par EXCEPT !.kids = Append(@, [inner EXCEPT !.name = name])]

RECURSIVE readXML(_, _, _)

\* What is between the tags: elements, or a text.
Inner(txml, into) == IF Opens(txml) THEN readXML(txml, FALSE, into) ELSE [into EXCEPT !.text = txml]

\* The rest of the text.
After(par, top, s) ==
  CASE par.tag = "obj" /\ Opens(s) /\ Ends(s) -> readXML(s, top, par)
    [] par.tag = "obj" /\ (Opens(s) # Ends(s)) -> BadXML
    [] OTHER -> par

readElement(s, ed, ta, close, end, top, par) ==
  CASE ta \in {<<>>, <<" ">>} -> BadXML
    [] ta \notin {<<>>, <<" ">>} /\ close = 0 /\ ~SelfEnded(s) -> BadXML
    [] ed # 0 /\ s[ed] = "/>" /\ (close # 0 \/ SelfEnded(s)) ->
         After(Placed(par, top, ta, IF top THEN par ELSE NoElement), top, From(s, ed + 1))
    [] close # 0 /\ end = 0 -> BadXML
    [] close # 0 /\ end # 0 /\ s[ed] = ">" ->
         After(Placed(par, top, ta,
                      Inner(SubSeq(s, ed + 1, end - 1), IF top THEN par ELSE NoElement)),
               top, From(s, end + Len(ta) + 2))
    [] OTHER -> EndlessXML

readFrom(s, ed, ta, top, par) ==
  readElement(s, ed, ta, FindText(s, <<"</">> \o ta), FindText(s, <<"</">> \o ta \o <<">">>), top, par)

readTag(s, st, ed, top, par) ==
  IF st = 0 \/ Spaced(s) \/ s[st] = "</" THEN BadXML
  ELSE readFrom(s, ed, TagName(TagText(s, st, ed)), top, par)

readXML(xml, top, par) ==
  IF xml = <<>> THEN par
  ELSE readTag(trim(xml), FindOf(trim(xml), {"<", "</"}), FindOf(trim(xml), {">", "/>"}), top, par)

\* A text that does not begin like XML is a document with an empty root.
getXML(xml) ==
  IF FindOf(trim(xml), {"<", "</"}) = 1 /\ FindOf(trim(xml), {">", "/>"}) # 0
  THEN readXML(trim(xml), TRUE, NoElement) ELSE NoElement

-----------------------------------------------------------------------------
LOCAL XTag(name, text) == <<"<">> \o name \o <<">">> \o text \o <<"</">> \o name \o <<">">>

\* A type name of several words.
LOCAL XWords(name) ==
  CASE name = "unsigned int" -> <<"unsigned", "-", "int">>
    [] name = "unsigned char" -> <<"unsigned", "-", "char">>
    [] name = "long double" -> <<"long", "-", "double">>
    [] name = "long long" -> <<"long", "-", "long">>
    [] OTHER -> <<name>>

LOCAL XJoined(names) ==
  FoldLeft(LAMBDA s, n : s \o <<"-">> \o XWords(n), XWords(names[1]), Tail(names))

LOCAL XPrimitiveTag(cn) ==
  CASE cn = "unsigned int" -> "uint" [] cn = "unsigned char" -> "uchar"
    [] cn = "long double" -> "ldouble" [] cn = "long long" -> "llong" [] OTHER -> cn

\* A string goes through the cast like every other type.
LOCAL XText(cn, v) == IF cn = "string" THEN CastString(v.text) ELSE v.text

\* A Date or a BinaryData is taken from memory that holds a string already.
XPrimitive(cn, v, held) ==
  IF cn \in {"Date", "BinaryData"} /\ held = "string" THEN <<"garbled">>
  ELSE XTag(<<XPrimitiveTag(cn)>>, XText(cn, v))

XStartContainer(elem, container) == <<"<">> \o XJoined(<<container>> \o elem) \o <<">">>
XElement(o, text) == o \o text
XAfter(o) == o
XEndContainer(o, elem, container) ==
  o \o <<"</">> \o XJoined(<<container>> \o elem) \o <<">">>
XString(o) == o

XStartObject(class) == <<"<", class, ">">>
XEndObject(o, class) == o \o <<"</", class, ">">>
XPrimitiveProperty(o, name, cn, v) == o \o XTag(<<name>>, XText(cn, v))
XProperty(o, name, type, text) == o \o XTag(<<name>>, text)

-----------------------------------------------------------------------------
XUnserializable(text) == getXML(text)
XValid(o, text) == o
XSize(o) == Len(o.kids)
XGet(o, i) == o.kids[i]

\* The value of a property is the first child of its element.
XPropertyGet(o, i) == IF o.kids[i].kids = <<>> THEN Thrown ELSE o.kids[i].kids[1]

XClassName(o, type) == o.name
XElementClass(o, elem) == IF Has(o.name, "-") THEN Last(o.name) ELSE elem

XIsNamespace(o, names, iscontainer) ==
  o.name = XJoined(names) /\ ~(iscontainer /\ o.kids = <<>>)
XIsProperty(o, name, i) == o.kids[i].name = <<name>>

\* The value a text stands for.
XRead(cn, text) ==
  CASE cn \in {"string", "BinaryData"} -> Leaf(text)
    [] cn \in {"char", "unsigned char"} -> IF text = <<>> THEN Thrown ELSE Leaf(<<text[1]>>)
    [] OTHER -> lexical_cast(cn, text)

XPrimitiveValue(o, cn) == IF cn = "long long" THEN Null ELSE XRead(cn, o.text)

XPrimitiveElement(o, i, cn) ==
  IF cn = "string" THEN Leaf(o.kids[i].text) ELSE lexical_cast(cn, o.kids[i].text)

XObjectValue(o, cn, name) == IF o.name # <<name>> THEN Null ELSE XRead(cn, o.text)
=============================================================================
