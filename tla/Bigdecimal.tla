----------------------------- MODULE Bigdecimal -----------------------------
(***************************************************************************)
(* Bigdecimal: the parts of a Bigint with the number of decimals and the   *)
(* place of the point.  Arithmetic goes through texts without the point    *)
(* and the operations of Bigint.                                           *)
(***************************************************************************)
EXTENDS Bigint

NoZeros(text) ==
  LET end == {i \in DOMAIN text : text[i] # 0} IN SubSeq(text, 1, Max(end \cup {0}))

\* A decimal as its constructor reads it.  Zeros before the point are cut, zeros
\* behind the last decimal too, without being taken from the number of decimals.
CreateDecimal(text) ==
  LET body == IF text # <<>> /\ Head(text) = Minus THEN Tail(text) ELSE text
      first == {i \in DOMAIN body : body[i] # 0}
      digits == SubSeq(body, Min(first \cup {Len(body) + 1}), Len(body))
      points == {i \in DOMAIN digits : digits[i] = DecimalPoint}
      whole == SelectSeq(digits, LAMBDA d : d # DecimalPoint)
      kept == IF points = {} THEN whole ELSE NoZeros(whole)
      Decimal(x, d) == [decimals |-> d] @@ x
  IN  IF \E i \in DOMAIN body : body[i] = Minus THEN Decimal(Throws, 0)
      ELSE IF first = {} THEN Decimal(Zero, 0)
      ELSE IF Cardinality(points) > 1 \/ kept = <<>> THEN Decimal(Throws, 0)
      ELSE Decimal(CheckZero([parts |-> PartsOf(kept), positive |-> body = text,
                              starts |-> IF points = {} THEN 0 ELSE Min(points) - 1]),
                   IF points = {} THEN 0 ELSE Len(digits) - Min(points))

\* toString.  With decimals the zeros at the end go; with fewer digits left than
\* decimals substr throws.
DecimalText(x) ==
  LET text == ToText(x)
      short == NoZeros(text)
      Pointed(t, at) == SubSeq(t, 1, at) \o <<DecimalPoint>> \o SubSeq(t, at + 1, Len(t))
  IN  IF x.decimals > 0 THEN Pointed(short, Len(short) - x.decimals)
      ELSE IF x.starts > 0 THEN Pointed(text, Min({x.starts, Len(text)})) ELSE text

HasText(x) ==
  IF x.decimals > 0 THEN Len(NoZeros(ToText(x))) >= x.decimals ELSE x.starts <= Len(ToText(x))

\* What add, subtract, multiply and divide begin with: both without the point, with
\* as many decimals.
Aligned(x, y) ==
  Create(SelectSeq(DecimalText(x), LAMBDA d : d # DecimalPoint)
           \o [i \in 1..Max({y.decimals - x.decimals, 0}) |-> 0], Unset)

Arithmetic(x, y, decimals, result) ==
  IF ~HasText(x) \/ ~HasText(y) THEN [x EXCEPT !.parts = <<>>]
  ELSE [x EXCEPT !.parts = result.parts, !.positive = result.positive, !.decimals = decimals]

AddDecimals(x, y) ==
  Arithmetic(x, y, Max({x.decimals, y.decimals}), Add(Aligned(x, y), Aligned(y, x)))
SubtractDecimals(x, y) ==
  Arithmetic(x, y, Max({x.decimals, y.decimals}), Subtract(Aligned(x, y), Aligned(y, x)))
MultiplyDecimals(x, y) ==
  Arithmetic(x, y, x.decimals + y.decimals, Multiply(Aligned(x, y), Aligned(y, x)))

\* The place of the point is the one the division leaves, a digit less far than asked.
WithPoint(result, by) == IF IsNumber(result) THEN [result EXCEPT !.starts = by.starts] ELSE result
QuotientOf(x, y, by) == WithPoint(Arithmetic(x, y, x.decimals - y.decimals, by), by)

DivideDecimals(x, y, precision) ==
  QuotientOf(x, y, InternalDivide(Aligned(x, y), Aligned(y, x), TRUE, precision - 1))

\* What is before the point and what is behind it; without decimals all is before.
BeforePoint(x) ==
  LET text == DecimalText(x)
  IN  Create(SubSeq(text, 1, IF x.starts > 0 THEN Min({x.starts, Len(text)}) ELSE Len(text)), Unset)

BehindPoint(x, y) ==
  LET text == DecimalText(x)
  IN  Create(SubSeq(text, x.starts + 2, Min({x.starts + 1 + x.decimals, Len(text)}))
               \o [i \in 1..Max({y.decimals - x.decimals, 0}) |-> 0], Unset)

\* compare throws where the text has a point before the place of the point, or ends
\* before it.
HasOrder(x) == HasText(x) /\ IsNumber(BeforePoint(x)) /\ x.starts < Len(DecimalText(x))

CompareDecimals(x, y) ==
  IF x.positive # y.positive THEN IF x.positive THEN 1 ELSE -1
  ELSE LET before == Compare(BeforePoint(x), BeforePoint(y))
       IN  IF before # 0 THEN before ELSE Compare(BehindPoint(x, y), BehindPoint(y, x))
=============================================================================
