---------------------------- MODULE Calculations ----------------------------
(***************************************************************************)
(* What Bigint, Bigdecimal and Date promise their callers: a calculation   *)
(* is what the exact one is, for the operands for which it is.             *)
(***************************************************************************)
EXTENDS Bigdecimal, Date

CONSTANTS Operand,  \* the values operands are built from: natural numbers
          Precision,  \* of the divisions of decimals
          DayGiven,  \* dates: [year, month, day]
          DateSpec,  \* formats of dates: sequences of fields and separators
          Added      \* days, months or years added

VARIABLE calculation  \* the last: [op, x, y, result]; x and y are what was given

NoCalculation == [op |-> "none", x |-> 0, y |-> 0, result |-> 0]
CalculationInit == calculation = NoCalculation

Given(n) == Create(TextOf(n), Unset)
ValueOf(x) == (IF x.positive THEN 1 ELSE -1) * FoldRight(LAMBDA p, n : p + Threshold * n, x.parts, 0)

\* With one decimal.
GivenTenths(n) == CreateDecimal(TextOf(n \div 10) \o <<DecimalPoint>> \o TextOf(n % 10))

Clock == [hh |-> 13, mm |-> 45, ss |-> 9]

Result(value, possible) == IF possible THEN <<value>> ELSE <<>>

\* <<>> where it throws an exception or does not end.
ResultText(x) == Result(DecimalText(x), HasText(x))
ResultNumber(x) == Result(x, IsNumber(x))

OfNumbers(op, x, y) ==
  IF op = "<=>" THEN <<Compare(x, y)>>
  ELSE ResultNumber(CASE op = "+" -> Add(x, y) [] op = "-" -> Subtract(x, y)
                      [] op = "*" -> Multiply(x, y) [] op = "/" -> Divide(x, y))

OfDecimals(op, x, y) ==
  IF op = ".<=>" THEN Result(CompareDecimals(x, y), HasOrder(x) /\ HasOrder(y))
  ELSE ResultText(CASE op = ".+" -> AddDecimals(x, y) [] op = ".-" -> SubtractDecimals(x, y)
                    [] op = ".*" -> MultiplyDecimals(x, y)
                    [] op = "./" -> DivideDecimals(x, y, Precision))

Whole == {"+", "-", "*", "/", "<=>"}
Decimals == {".+", ".-", ".*", "./", ".<=>"}

Calculated(op, x, y) ==
  IF op \in Whole THEN OfNumbers(op, Given(x), Given(y))
  ELSE OfDecimals(op, GivenTenths(x), GivenTenths(y))

Calculate ==
  /\ calculation.op = "none"
  /\ \E op \in Whole \cup Decimals : \E x, y \in Operand : \E r \in {Calculated(op, x, y)} :
       /\ r # <<>>
       /\ calculation' = [op |-> op, x |-> x, y |-> y, result |-> r[1]]

\* A date is made a number of days and that number a date.
ConvertDate ==
  /\ calculation.op = "none"
  /\ \E d \in DayGiven :
       calculation' = [op |-> "date", x |-> d, y |-> GetDays(d.year, d.month, d.day),
                       result |-> GetDateFromDays(GetDays(d.year, d.month, d.day))]

AddToDate ==
  /\ calculation.op = "none"
  /\ \E d \in DayGiven, n \in Added : \E date \in {NewDate(d.year, d.month, d.day, Clock)} :
       \E op \in {"days", "months", "years"} :
         calculation' = [op |-> op, x |-> date, y |-> n,
                         result |-> CASE op = "days" -> AddDaysGet(date, n, Clock)
                                      [] op = "months" -> AddMonthsGet(date, n, Clock)
                                      [] op = "years" -> AddYearsGet(date, n, Clock)]

\* A date is written in a format and read in it.
ReadDate ==
  /\ calculation.op = "none"
  /\ \E d \in DayGiven, spec \in DateSpec : \E date \in {NewDate(d.year, d.month, d.day, Clock)} :
       calculation' = [op |-> "text", x |-> date, y |-> spec,
                       result |-> ParseDate(spec, FormatDate(spec, date), Clock)]

NextCalculation ==
  /\ calculation.op # "none"
  /\ calculation' = NoCalculation

CalculationNext == Calculate \/ ConvertDate \/ AddToDate \/ ReadDate \/ NextCalculation

----------------------------------------------------------------------------

\* A sum is exact if it has no more parts than the greater operand.
SumExact(x, y, result) ==
  x + y < Threshold ^ Max({Len(Given(x).parts), Len(Given(y).parts)}) => ValueOf(result) = x + y

\* A difference is exact unless the numbers have as many parts and the same highest
\* part: those compare takes for equal.
SameHighest(x, y) ==
  Len(Given(x).parts) = Len(Given(y).parts) /\ Last(Given(x).parts) = Last(Given(y).parts)

DifferenceExact(x, y, result) == ~SameHighest(x, y) \/ x = y => ValueOf(result) = x - y

\* The order, with the same exception.
OrderExact(x, y, result) ==
  ~SameHighest(x, y) \/ x = y => result = IF x = y THEN 0 ELSE IF x < y THEN -1 ELSE 1

\* A product of one part is exact, and a quotient of such numbers of as many
\* digits.
ProductExact(x, y, result) == x > 0 /\ y > 0 /\ x * y < Threshold => ValueOf(result) = x * y
QuotientExact(x, y, result) ==
  y > 0 /\ x < Threshold /\ Len(TextOf(x)) = Len(TextOf(y)) => ValueOf(result) = x \div y

\* With tenths too, if there are a whole part and a last decimal other than zero.
\* A quotient has its point behind the first digit.
Shown(n) == n > 10 /\ n % 10 # 0
TextOfTenths(n) == TextOf(n \div 10) \o <<DecimalPoint>> \o TextOf(n % 10)

TenthsExact(op, x, y, result) ==
  Shown(x) /\ Shown(y) =>
    CASE op = ".+" -> /\ Shown(x + y)
                      /\ x + y < Threshold ^ Max({Len(Given(x).parts), Len(Given(y).parts)})
                      => result = TextOfTenths(x + y)
      [] op = ".-" -> Shown(x - y) /\ ~SameHighest(x, y) => result = TextOfTenths(x - y)
      [] op = ".*" -> Shown(x * y) /\ x * y > 100 /\ x * y < Threshold
                      => result = TextOf((x * y) \div 100) \o <<DecimalPoint>> \o Padded((x * y) % 100, 2)
      [] op = "./" -> x % y = 0 /\ x < Threshold /\ Len(TextOf(x)) = Len(TextOf(y))
                      => result = <<x \div y, DecimalPoint>>

OrderOfTenths(x, y, result) ==
  x > 10 /\ y > 10 /\ x % 10 # 0 /\ y % 10 # 0 /\ x < Threshold /\ y < Threshold
  => result = IF x = y THEN 0 ELSE IF x < y THEN -1 ELSE 1

\* The calendar forgets the leap day of a hundredth year.
Forgotten(date) == date.month = 2 /\ date.day = 29 /\ date.year % 100 = 0

DateExact(date, result) == ~Forgotten(date) => result = date

\* Adding days goes wrong in December, adding months to it.
DaysOf(date) == GetDays(date.year, date.month, date.day)
SumOfDateExact(op, date, n, result) ==
  LET months == date.month - 1 + n
  IN  CASE op = "days" -> date.month # 12 /\ ~Forgotten(date) /\ ~Forgotten(result) =>
                            /\ DaysOf(result) = DaysOf(date) + n
                            /\ Before(date, result) <=> n > 0
        [] op = "months" -> date.day <= 28 /\ (months % 12) + 1 # 12 =>
                              <<result.year, result.month, result.day>> =
                                <<date.year + (months \div 12), (months % 12) + 1, date.day>>
        [] op = "years" -> date.month # 2 \/ date.day <= 28 =>
                              <<result.year, result.month, result.day>> =
                                <<date.year + n, date.month, date.day>>

\* A format whose separators are no signs and that has a year of four digits, a month,
\* a day and a time.
Readable(spec) ==
  /\ ToSet(spec) \cap {"-", "+", "yy"} = {}
  /\ {"yyyy", "dd", "hh", "mi", "ss"} \subseteq ToSet(spec)
  /\ ToSet(spec) \cap {"mm", "mmm"} # {}

TextOfDateExact(spec, date, result) ==
  Readable(spec) /\ ~Forgotten(date) => result = <<date>>

\* What a Bigint, a Bigdecimal and the calendar of Date calculate is exact for the
\* operands above, each part and carry of them included.
CalculationsExact ==
  LET x == calculation.x
      y == calculation.y
      result == calculation.result
  IN  CASE calculation.op = "+" -> SumExact(x, y, result)
        [] calculation.op = "-" -> DifferenceExact(x, y, result)
        [] calculation.op = "*" -> ProductExact(x, y, result)
        [] calculation.op = "/" -> QuotientExact(x, y, result)
        [] calculation.op = "<=>" -> OrderExact(x, y, result)
        [] calculation.op \in {".+", ".-", ".*", "./"} -> TenthsExact(calculation.op, x, y, result)
        [] calculation.op = ".<=>" -> OrderOfTenths(x, y, result)
        [] calculation.op = "date" -> DateExact(x, result)
        [] calculation.op \in {"days", "months", "years"} -> SumOfDateExact(calculation.op, x, y, result)
        [] calculation.op = "text" -> TextOfDateExact(y, x, result)
        [] OTHER -> TRUE
=============================================================================
