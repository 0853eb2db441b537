------------------------------- MODULE Bigint -------------------------------
(***************************************************************************)
(* Bigint: numbers in parts of NumLength decimal digits, the lowest first. *)
(* A text is a sequence of what a character is after - '0': a digit, the   *)
(* minus sign (-3) or the decimal point (-2).                              *)
(***************************************************************************)
EXTENDS Integers, SequencesExt, FiniteSetsExt

CONSTANTS NumLength,  \* NUM_LENGTH: 8 in the code
          Patience    \* the bound of a loop: one that takes more turns does not end

ASSUME NumLengthAssumption == NumLength \in Nat \ {0} /\ Patience \in Nat

Threshold == 10 ^ NumLength
Minus == -3
DecimalPoint == -2
Unset == -1  \* a field no constructor sets

Zero == [parts |-> <<0>>, positive |-> TRUE, starts |-> 0]
Throws == [Zero EXCEPT !.parts = <<>>]
Endless == [Throws EXCEPT !.positive = FALSE]
IsNumber(x) == x.parts # <<>>

NumberIn(text) == FoldLeft(LAMBDA n, d : n * 10 + d, 0, SelectSeq(text, LAMBDA d : d # Minus))
                    * (IF text # <<>> /\ Head(text) = Minus THEN -1 ELSE 1)

\* At least `width' digits.
Padded(n, width) ==
  LET len == CHOOSE k \in width..width + 11 : n < 10 ^ k /\ (k = width \/ n >= 10 ^ (k - 1))
  IN  [i \in 1..len |-> (n \div (10 ^ (len - i))) % 10]

TextOf(n) == IF n < 0 THEN <<Minus>> \o Padded(-n, 1) ELSE Padded(n, 1)

\* toString
ToText(x) ==
  (IF x.positive THEN <<>> ELSE <<Minus>>)
    \o FlattenSeq([i \in DOMAIN x.parts |->
                     IF i = 1 THEN TextOf(Last(x.parts))
                     ELSE Padded(x.parts[Len(x.parts) + 1 - i], NumLength)])

CheckZero(x) == IF \E i \in DOMAIN x.parts : x.parts[i] > 0 THEN x ELSE [Zero EXCEPT !.starts = x.starts]

\* The digits in parts, from the end.
PartsOf(digits) ==
  [k \in 1..((Len(digits) + NumLength - 1) \div NumLength) |->
     LET to == Len(digits) - (k - 1) * NumLength
     IN  NumberIn(SubSeq(digits, Max({1, to - NumLength + 1}), to))]

Create(text, starts) ==
  LET body == IF text # <<>> /\ Head(text) = Minus THEN Tail(text) ELSE text
      first == {i \in DOMAIN body : body[i] # 0}
      digits == SubSeq(body, Min(first \cup {Len(body) + 1}), Len(body))
  IN  IF \E i \in DOMAIN body : body[i] = Minus THEN Throws
      ELSE IF first = {} THEN Zero
      ELSE IF \E i \in DOMAIN digits : digits[i] = DecimalPoint THEN Throws
      ELSE CheckZero([parts |-> PartsOf(digits), positive |-> body = text, starts |-> starts])

\* The signs, the number of parts, then the highest parts.
Compare(x, y) ==
  LET Order(m, n) == IF m = n THEN 0 ELSE IF m > n THEN 1 ELSE -1
  IN  IF x.positive # y.positive THEN IF x.positive THEN 1 ELSE -1
      ELSE IF Len(x.parts) # Len(y.parts) THEN Order(Len(x.parts), Len(y.parts))
      ELSE Order(Last(x.parts), Last(y.parts))

PartAt(x, i) == IF i <= Len(x.parts) THEN x.parts[i] ELSE 0
PartsOfBoth(x, y) == [i \in 1..Max({Len(x.parts), Len(y.parts)}) |-> i]

\* Mutant of InternalAdd: no carry is added.
AddWithoutCarry(x, y) ==
  [x EXCEPT !.parts = [i \in DOMAIN PartsOfBoth(x, y) |-> (PartAt(x, i) + PartAt(y, i)) % Threshold]]

\* The carry of the highest parts goes nowhere.
InternalAdd(x, y) ==
  LET Part(r, i) ==
        LET sum == PartAt(x, i) + PartAt(y, i) + r.carry
        IN  [parts |-> Append(r.parts, IF sum >= Threshold THEN sum - Threshold ELSE sum),
             carry |-> IF sum >= Threshold THEN 1 ELSE 0]
  IN  [x EXCEPT !.parts = FoldLeft(Part, [parts |-> <<>>, carry |-> 0], PartsOfBoth(x, y)).parts]

\* The sign is that of x, or negative.
SubtractParts(x, y) ==
  LET less == Compare(x, y) < 0
      Part(f, s, r, i) ==
        LET left == PartAt(f, i) - (IF i <= Len(f.parts) THEN r.carry ELSE 0) - PartAt(s, i)
        IN  [parts |-> Append(r.parts, IF left < 0 THEN Threshold + left ELSE left),
             carry |-> IF left < 0 THEN 1 ELSE 0]
      All(f, s) == FoldLeft(LAMBDA r, i : Part(f, s, r, i), [parts |-> <<>>, carry |-> 0],
                            PartsOfBoth(x, y)).parts
      rest == CheckZero([x EXCEPT !.parts = IF less THEN All(y, x) ELSE All(x, y)])
  IN  [rest EXCEPT !.positive = @ /\ ~less]

\* With different signs add and subtract call each other.
Add(x, y) == IF x.positive = y.positive THEN InternalAdd(x, y) ELSE Endless
Subtract(x, y) == IF x.positive = y.positive THEN SubtractParts(x, y) ELSE Endless

\* The text and the parts multiply and divide work with.  The sign looked at is that
\* of y, whichever text it is.
Shorter(x, y) ==
  LET text == IF Len(ToText(x)) > Len(ToText(y)) THEN ToText(y) ELSE ToText(x)
  IN  [text |-> IF y.positive THEN text ELSE Tail(text),
       parts |-> IF Len(ToText(x)) > Len(ToText(y)) THEN x.parts ELSE y.parts]

\* The parts times one digit, as a text.  What is carried is the first digit.
TimesDigit(parts, digit) ==
  LET Part(r, j) ==
        LET res == TextOf(parts[j] * digit)
            longer == j # Len(parts) /\ Len(res) > Len(TextOf(parts[j]))
            text == TextOf(NumberIn(IF longer THEN Tail(res) ELSE res) + r.carry)
            padding == IF j = 1 /\ j # Len(parts) THEN NumLength - Len(text) ELSE 0
        IN  [carry |-> IF longer THEN Head(res) ELSE 0,
             text |-> [i \in 1..padding |-> 0] \o text \o r.text]
  IN  FoldLeft(Part, [carry |-> 0, text |-> <<>>], [j \in DOMAIN parts |-> j]).text

AddRow(sum, row) == IF IsNumber(row) THEN InternalAdd(sum, row) ELSE sum

Rows(short) ==
  FoldLeft(LAMBDA sum, position :
             AddRow(sum, Create(TimesDigit(short.parts, short.text[Len(short.text) - position])
                                  \o [i \in 1..position |-> 0], Unset)),
           Zero, [i \in DOMAIN short.text |-> i - 1])

Multiply(x, y) ==
  [x EXCEPT !.parts = Rows(Shorter(x, y)).parts, !.positive = x.positive = y.positive]

\* How often y can be taken from x, as compare sees it.
RECURSIVE Quotient(_, _, _)
Quotient(x, y, n) ==
  IF n > Patience \/ ~IsNumber(x) THEN [quotient |-> n, rest |-> Endless]
  ELSE IF Compare(x, y) < 0 THEN [quotient |-> n, rest |-> x]
  ELSE Quotient(Subtract(x, y), y, n + 1)

\* What decompose keeps: the digits still to divide (text), those of the result
\* (build), the number of decimals so far or 15 (recurse).  The digits looked at are
\* more than those of y: the first that reach y.
Reaching(text, y) ==
  LET long == {len \in DOMAIN text : len >= Len(ToText(y)) /\ Compare(Create(SubSeq(text, 1, len), Unset), y) # -1}
  IN  IF long = {} THEN <<>> ELSE SubSeq(text, 1, Min(long))

\* They are fewer: zeros behind them until they reach y.
Extended(d, y, decimal) ==
  LET Zeros(n) == [i \in 1..n |-> 0]
      missing == Len(ToText(y)) - Len(d.text) + 1
      reach == {n \in 1..missing : Compare(Create(d.text \o Zeros(n), Unset), y) = 1}
      n == Min(reach \cup {missing})
      written == IF d.recurse = 0 THEN n ELSE n - 1
  IN  IF d.recurse = 0 /\ ~decimal THEN [d EXCEPT !.build = Append(@, 0), !.recurse = 15, !.done = TRUE]
      ELSE [d EXCEPT !.text = @ \o Zeros(n), !.build = @ \o Zeros(written), !.recurse = @ + written,
                     !.starts = IF d.recurse = 0 THEN Len(d.build) + 1 ELSE @]

\* They are as many: a zero more if they are less than y.
Raised(d, y, decimal) ==
  IF Compare(Create(d.text, Unset), y) # -1 THEN d
  ELSE IF d.recurse = 0 /\ ~decimal THEN [d EXCEPT !.recurse = 15, !.done = TRUE]
  ELSE [d EXCEPT !.text = Append(@, 0), !.recurse = @ + 1,
                 !.starts = IF d.recurse = 0 THEN Len(d.build) ELSE @]

Written(d, q, text, decimal) ==
  LET build == d.build \o (IF q.quotient > 0 THEN TextOf(q.quotient) ELSE <<>>)
  IN  IF ~IsNumber(q.rest) THEN [d EXCEPT !.is = "endless", !.done = TRUE]
      ELSE [d EXCEPT !.text = (IF ToText(q.rest) = <<0>> THEN <<>> ELSE ToText(q.rest)) \o text,
                     !.build = build,
                     !.recurse = IF text # <<>> THEN @ ELSE IF decimal THEN @ + 1 ELSE 15,
                     !.starts = IF text = <<>> /\ decimal /\ d.recurse = 0 THEN Len(build) ELSE @]

\* One turn: the next digits of the result.  The rest goes before what follows the
\* first digits, as many as y has, however many were looked at.  An exception is
\* caught where a later turn was called: what was built is the result.
Divided(d, looked, y, decimal, first) ==
  IF looked = <<>> THEN [d EXCEPT !.is = "endless", !.done = TRUE]
  ELSE IF Len(d.text) < Len(ToText(y)) THEN [d EXCEPT !.is = IF first THEN "throws" ELSE @, !.done = TRUE]
  ELSE Written(d, Quotient(Create(looked, Unset), y, 0),
               SubSeq(d.text, Len(ToText(y)) + 1, Len(d.text)), decimal)

\* The digits before the turn, filled up if they are too few.
Filled(d, y, decimal) ==
  CASE Len(d.text) < Len(ToText(y)) -> Extended(d, y, decimal)
    [] Len(d.text) = Len(ToText(y)) -> Raised(d, y, decimal)
    [] OTHER -> d

Turn(d, longer, y, decimal, first) ==
  IF d.done THEN d ELSE Divided(d, IF longer THEN Reaching(d.text, y) ELSE d.text, y, decimal, first)

RECURSIVE Decompose(_, _, _, _, _)
Decompose(d, y, decimal, precision, turn) ==
  IF d.done \/ d.recurse >= precision \/ d.text = <<>> THEN d
  ELSE IF turn > Patience THEN [d EXCEPT !.is = "endless"]
  ELSE Decompose(Turn(Filled(d, y, decimal), Len(d.text) > Len(ToText(y)), y, decimal, turn = 0),
                 y, decimal, precision, turn + 1)

Outcome(d) ==
  CASE d.is = "endless" -> Endless
    [] d.is = "throws" -> Throws
    [] OTHER -> Create(d.build, d.starts)

InternalDivide(x, y, decimal, precision) ==
  LET first == [text |-> ToText(x), build |-> <<>>, recurse |-> 0, starts |-> x.starts,
                done |-> FALSE, is |-> "number"]
  IN  IF Shorter(x, y).text = <<>> THEN x
      ELSE Outcome(Decompose(first, y, decimal, precision, 0))

Divide(x, y) == InternalDivide(x, y, FALSE, 1)
=============================================================================
