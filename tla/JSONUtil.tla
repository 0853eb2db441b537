------------------------------- MODULE JSONUtil -------------------------------
(***************************************************************************)
(* JSONUtil, the parser of JSON texts: it cuts the text at the first comma, *)
(* quote or bracket that looks right and knows no quoting outside names and *)
(* values, so that a bracket or a comma in a string misleads it.            *)
(***************************************************************************)
EXTENDS CastUtil

JSONElement(name, type, text, kids) ==
  [tag |-> "obj", name |-> name, type |-> type, text |-> text, kids |-> kids]

\* An exception.
BadJSON == [JSONElement(<<>>, "object", <<>>, <<>>) EXCEPT !.tag = "thrown"]

\* The elements read, or that there was an exception.
ElementsOf(kids) == [bad |-> \E i \in DOMAIN kids : kids[i].tag = "thrown", kids |-> kids]
NoElements     == [bad |-> TRUE, kids |-> <<>>]

\* The next quote that no backslash stands before.
Quote(s, from) ==
  LET at == {i \in from..Len(s) : s[i] = "\"" /\ (i = 1 \/ s[i - 1] # "\\")}
  IN  IF at = {} THEN 0 ELSE CHOOSE i \in at : \A j \in at : i <= j

\* The first end bracket that balances the start bracket at from; 0 for none.
readBalancedJSON(json, from) ==
  LET close == IF json[from] = "{" THEN "}" ELSE "]"
      ends  == {e \in from..Len(json) :
                  /\ json[e] = close
                  /\ countOccurrences(SubSeq(json, from, e), json[from])
                       = countOccurrences(SubSeq(json, from, e), close)}
  IN  IF ends = {} THEN 0 ELSE CHOOSE e \in ends : \A d \in ends : e <= d

\* The value of an element that has no elements itself.
validateQuoted(name, v, open, shut) ==
  IF open = 0 \/ shut = 0 \/ shut # Len(v) THEN BadJSON
  ELSE JSONElement(name, "string", SubSeq(v, open + 1, shut - 1), <<>>)

validateNumber(name, v, type, cast) ==
  IF cast.tag = "thrown" THEN BadJSON ELSE JSONElement(name, type, v, <<>>)

validateTrimmed(name, v) ==
  IF Has(v, "\"") THEN validateQuoted(name, v, Quote(v, 1), Quote(v, Quote(v, 1) + 1))
  ELSE IF v \in {<<"true">>, <<"false">>} THEN JSONElement(name, "bool", v, <<>>)
  ELSE IF Has(v, ".") THEN validateNumber(name, v, "float", CastDouble(v))
  ELSE validateNumber(name, v, "number", CastLongLong(v))

validateSetValue(name, value) == validateTrimmed(name, trim(value))

\* The first bracket of a text, 0 for none.
Bracket(s) == SelectInSeq(s, LAMBDA x : x \in {"{", "["})

\* Whether the next value is the one in brackets: it starts the text, or comes
\* before the comma, or the comma starts the text.
InBrackets(json, at, comma) == at = 1 \/ (at # 0 /\ comma # 0 /\ (comma = 1 \/ at < comma))

RECURSIVE readJSON(_, _)

\* object and array: what is between the outermost brackets.
Inside(value) == LET open == value[1]
                 IN  replaceLast(replaceFirst(value, open), IF open = "{" THEN "}" ELSE "]")

ElementIn(name, value) ==
  LET inner == readJSON(Inside(value), value[1] = "[")
  IN  IF inner.bad THEN BadJSON
      ELSE JSONElement(name, IF value[1] = "[" THEN "array" ELSE "object", <<>>, inner.kids)

\* An element and the rest of the text.
Then(element, rest, isarray) ==
  IF element.tag = "thrown" THEN NoElements
  ELSE LET others == readJSON(rest, isarray)
       IN  [others EXCEPT !.kids = <<element>> \o @]

readBracket(name, json, at, end, isarray) ==
  IF end = 0 THEN NoElements
  ELSE Then(ElementIn(name, SubSeq(json, at, end)), From(json, end + 1), isarray)

readPlain(name, json, end, isarray) ==
  IF end = 1 THEN NoElements
  ELSE Then(validateSetValue(name, Until(json, end)), From(json, end + 1), isarray)

readValue(name, json, isarray) ==
  LET at    == Bracket(json)
      comma == Find(json, ",", 1)
  IN  IF InBrackets(json, at, comma) THEN readBracket(name, json, at, readBalancedJSON(json, at), isarray)
      ELSE readPlain(name, json, IF comma = 0 THEN Len(json) + 1 ELSE comma, isarray)

\* A name between quotes, then a colon.
readNamed(json, open, shut) ==
  IF open = 0 \/ shut = 0 \/ Find(trim(From(json, shut + 1)), ":", 1) # 1 THEN NoElements
  ELSE readValue(SubSeq(json, open + 1, shut - 1), trim(Tail(trim(From(json, shut + 1)))), FALSE)

readJSON(json, isarray) ==
  IF json = <<>> THEN ElementsOf(<<>>)
  ELSE IF isarray THEN readValue(<<>>, trim(json), TRUE)
  ELSE readNamed(json, Quote(json, 1), Quote(json, Quote(json, 1) + 1))

\* A text without a pair of brackets is a document without elements.
getDocument(json) ==
  LET Pair(open, close) == Has(json, open) /\ Has(json, close)
      Doc(open, close, type) ==
        LET inner == readJSON(replaceLast(replaceFirst(json, open), close), type = "array")
        IN  IF inner.bad THEN BadJSON ELSE JSONElement(<<"_JSON_ROOT">>, type, <<>>, inner.kids)
  IN  IF Pair("{", "}") /\ (Find(json, "{", 1) < Find(json, "[", 1) \/ ~Has(json, "["))
      THEN Doc("{", "}", "object")
      ELSE IF Pair("[", "]") THEN Doc("[", "]", "array")
      ELSE JSONElement(<<"_JSON_ROOT">>, "object", <<>>, <<>>)
=============================================================================
