------------------------------ MODULE CastUtil ------------------------------
(***************************************************************************)
(* What the parsers and the encoders are built from.  The helpers of       *)
(* StringUtil work on texts that are sequences of tokens: a token is one   *)
(* character with a meaning to a parser (a bracket, a comma, a quote, a    *)
(* blank...) or a word no parser looks into; a position is 0 when nothing  *)
(* is found.  CastUtil::lexical_cast reads and prints the values the       *)
(* serializers carry.  A value is a leaf (its printed form), a node (the   *)
(* elements of a container or the fields of an object), no object at all   *)
(* (Null), an exception (Thrown), or memory the program reads although     *)
(* nothing it knows is there (Undef: the read may end the process or       *)
(* return anything).                                                       *)
(***************************************************************************)
EXTENDS Naturals, Sequences, SequencesExt

(* StringUtil. *)
Find(s, c, from) ==
  LET at == {i \in from..Len(s) : s[i] = c}
  IN  IF at = {} THEN 0 ELSE CHOOSE i \in at : \A j \in at : i <= j

FindLast(s, c) == SelectLastInSeq(s, LAMBDA x : x = c)

Has(s, c) == \E i \in DOMAIN s : s[i] = c

replaceFirst(s, c) == IF Has(s, c) THEN RemoveAt(s, Find(s, c, 1)) ELSE s

replaceLast(s, c) == IF Has(s, c) THEN RemoveAt(s, FindLast(s, c)) ELSE s

countOccurrences(s, c) == Len(SelectSeq(s, LAMBDA x : x = c))

From(s, i) == SubSeq(s, i, Len(s))

Until(s, i) == SubSeq(s, 1, i - 1)

\* A text of blanks only is left as it is: with no other character to find,
\* both ends of the cut fall back to the ends of the text.
trim(s) ==
  LET words == {i \in DOMAIN s : s[i] # " "}
  IN  IF words = {} THEN s
      ELSE SubSeq(s, CHOOSE i \in words : \A j \in words : i <= j,
                     CHOOSE i \in words : \A j \in words : i >= j)

splitInternal(s, c) ==
  LET cuts == SetToSortSeq({i \in DOMAIN s : s[i] = c}, <)
      ends == <<0>> \o cuts \o <<Len(s) + 1>>
  IN  [i \in 1..(Len(cuts) + 1) |-> SubSeq(s, ends[i] + 1, ends[i + 1] - 1)]

-----------------------------------------------------------------------------
(* CastUtil. *)
Numeral == {"0", "1", "2", "7"}

Value(tag, text, kids) == [tag |-> tag, text |-> text, kids |-> kids]

Leaf(text) == Value("leaf", text, <<>>)
Node(kids) == Value("node", <<>>, kids)
Null       == Value("null", <<>>, <<>>)
Thrown     == Value("thrown", <<>>, <<>>)
Undef      == Value("undef", <<>>, <<>>)

\* What is built from parts is an exception or undefined when a part is.
Build(kids) ==
  LET bad == SelectSeq(kids, LAMBDA k : k.tag \in {"thrown", "undef"})
  IN  IF bad = <<>> THEN Node(kids) ELSE bad[1]

Unsigned(s) == s # <<>> /\ \A i \in DOMAIN s : s[i] \in Numeral

Digits(s) == IF s # <<>> /\ s[1] = "-" THEN Tail(s) ELSE s

\* strtol and strtoul must use up the whole text, but an empty one is 0.
CastInteger(s) ==
  IF s = <<>> THEN Leaf(<<"0">>) ELSE IF Unsigned(Digits(s)) THEN Leaf(s) ELSE Thrown

\* sscanf takes the digits at the start and needs one.
CastLongLong(s) ==
  LET n == {i \in 1..Len(Digits(s)) : Unsigned(SubSeq(Digits(s), 1, i))}
      m == CHOOSE i \in n : \A j \in n : j <= i
  IN  IF n = {} THEN Thrown ELSE Leaf(SubSeq(s, 1, m + Len(s) - Len(Digits(s))))

Point(s) == Find(s, ".", 1)

\* strtod, which must use up the text; the number is printed with its decimals.
CastDouble(s) ==
  CASE s = <<>> -> Leaf(<<"0", ".", "0">>)
    [] Unsigned(Digits(s)) -> Leaf(s \o <<".", "0">>)
    [] /\ Point(s) # 0 /\ Unsigned(Digits(Until(s, Point(s))))
       /\ Unsigned(From(s, Point(s) + 1)) -> Leaf(s)
    [] OTHER -> Thrown

\* sscanf takes the number at the start and needs one.
CastLongDouble(s) ==
  LET n == {i \in 1..Len(s) : CastDouble(SubSeq(s, 1, i)).tag = "leaf"}
  IN  IF n = {} THEN Thrown
      ELSE CastDouble(SubSeq(s, 1, CHOOSE i \in n : \A j \in n : j <= i))

CastBool(s) ==
  CASE s \in {<<"true">>, <<"1">>} -> Leaf(<<"true">>)
    [] s \in {<<"false">>, <<"0">>} -> Leaf(<<"false">>)
    [] OTHER -> Thrown

Integers32And64 ==
  {"int", "short", "long", "unsigned int", "unsigned short", "unsigned long"}

\* In a text being written: the exception that ends the writing.
Exception == "exception"

\* From string to string through a stream: the first word, and none is an
\* exception.
CastString(s) ==
  CASE s = <<>> -> s
    [] s # <<>> /\ \A i \in DOMAIN s : s[i] = " " -> <<Exception>>
    [] OTHER -> splitInternal(trim(s), " ")[1]

\* A type the cast does not name, char among them, is an exception.
lexical_cast(type, s) ==
  CASE type \in Integers32And64 -> CastInteger(s)
    [] type \in {"long long", "unsigned long long"} -> CastLongLong(s)
    [] type \in {"double", "float"} -> CastDouble(s)
    [] type = "long double" -> CastLongDouble(s)
    [] type = "bool" -> CastBool(s)
    [] OTHER -> Thrown
=============================================================================
