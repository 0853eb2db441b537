-------------------------------- MODULE Date --------------------------------
(***************************************************************************)
(* Date and DateFormat.  A date is a record of numbers; the name of its    *)
(* day is a number too, Sunday being 0.  What an operation takes from the  *)
(* clock is its parameter "now".                                           *)
(***************************************************************************)
EXTENDS Integers, Sequences

\* Division of C++, which truncates.
Quo(a, b) == IF a >= 0 THEN a \div b ELSE -((-a) \div b)
Rem(a, b) == a - b * Quo(a, b)

\* The calendar: days since 1 March 1900, of which the year 1900 + 100 is, like
\* every hundredth, none with a leap day.
GetDays(y, m, d) ==
  LET mm == Rem(m + 9, 12)
      yy == y - 1900 - Quo(mm, 10)
  IN  365 * yy + Quo(yy, 4) - Quo(yy, 100) + Quo(yy, 400) + Quo(mm * 306 + 5, 10) + d - 1

DaysIn(y) == 365 * y + Quo(y, 4) - Quo(y, 100) + Quo(y, 400)

DayInMonth(y, ddd, mi) ==
  [year |-> y + Quo(mi + 2, 12) + 1900, month |-> Rem(mi + 2, 12) + 1,
   day |-> ddd - Quo(mi * 306 + 5, 10) + 1]
DayInYear(y, ddd) == DayInMonth(y, ddd, Quo(100 * ddd + 52, 3060))
DayFrom(days, y) == DayInYear(y, days - DaysIn(y))
DayNear(days, first) == DayFrom(days, IF days < DaysIn(first) THEN first - 1 ELSE first)

GetDateFromDays(days) == DayNear(days, Quo(10000 * days + 14780, 3652425))

Leap(y) == y % 4 = 0 /\ (y % 100 # 0 \/ y % 400 = 0)

LastDay(m, y) ==
  CASE m = 2 -> IF Leap(y) THEN 29 ELSE 28
    [] m \in {4, 6, 9, 11} -> 30
    [] OTHER -> 31

ValidateDate(d, m, y) == y >= 0 /\ m \in 1..12 /\ d \in 1..LastDay(m, y)

\* getDayName adds the days of the month before instead of those of all months
\* before; setDayName does not.
DayOf(d, m, y, before) ==
  (Rem((y - 1) * 365 + Quo(y - 1, 4) - Quo(y - 1, 100) + Quo(y - 1, 400), 7) + d + before[m]
     + (IF Leap(y) /\ m > 2 THEN 1 ELSE 0)) % 7

GetDayName(d, m, y) ==
  DayOf(d, m, y, <<0, 31, 28, 31, 30, 31, 30, 31, 31, 30, 31, 30>>)

SetDayName(d, m, y) ==
  DayOf(d, m, y, <<0, 31, 59, 90, 120, 151, 181, 212, 243, 273, 304, 334>>)

\* The date of a day, with the time of the clock.
AtTime(d, now) ==
  [year |-> d.year, month |-> d.month, day |-> d.day,
   dayw |-> GetDayName(d.day, d.month, d.year),
   hh |-> now.hh, mm |-> now.mm, ss |-> now.ss]
DateOf(days, now) == AtTime(GetDateFromDays(days), now)

\* Date(yyyy, mm, dd)
Named(date) == [date EXCEPT !.dayw = SetDayName(date.day, date.month, date.year)]
NewDate(y, m, d, now) == Named(DateOf(GetDays(y, m, d), now))

\* What becomes of a date that is given the day of another: the number of the month
\* is the minutes of that date's time, which is the clock's.
WithDay(date, d) == [date EXCEPT !.day = d.day, !.month = d.mm, !.year = d.year, !.dayw = d.dayw]
MovedTo(date, days, now) == WithDay(date, DateOf(days, now))

UpdateDays(date, days, now) ==
  MovedTo(date, GetDays(date.year + Quo(date.month, 12), Rem(date.month, 12),
                        date.day + days), now)

UpdateMonths(date, months, now) ==
  LET m == date.month + months
  IN  MovedTo(date, GetDays(date.year + Quo(m, 12), Rem(m, 12), date.day), now)

UpdateYears(date, years, now) ==
  MovedTo(date, GetDays(date.year + years, date.month, date.day), now)

UpdateHours(date, hours, now) ==
  LET h == date.hh + hours
      moved == IF Quo(h, 24) > 0 THEN UpdateDays(date, Quo(h, 24), now) ELSE date
  IN  [moved EXCEPT !.hh = Rem(h, 24), !.mm = date.mm]

UpdateMinutes(date, minutes, now) ==
  LET m == date.mm + minutes
      moved == IF Quo(m, 60) > 0 THEN UpdateHours(date, Quo(m, 60), now) ELSE date
  IN  [moved EXCEPT !.mm = Rem(m, 60)]

UpdateSeconds(date, seconds, now) ==
  LET s == date.ss + seconds
      moved == IF Quo(s, 60) > 0 THEN UpdateMinutes(date, Quo(s, 60), now) ELSE date
  IN  [moved EXCEPT !.ss = Rem(s, 60)]

AddDaysGet(date, days, now) ==
  DateOf(GetDays(date.year + Quo(date.month, 12), Rem(date.month, 12), date.day + days), now)

AddMonthsGet(date, months, now) ==
  LET m == date.month + months
  IN  DateOf(GetDays(date.year + Quo(m, 12), Rem(m, 12), date.day), now)

AddYearsGet(date, years, now) ==
  DateOf(GetDays(date.year + years, date.month, date.day), now)

\* The order of dates, by the seconds since the first.
Seconds(date) ==
  <<GetDays(date.year, date.month, date.day) + Quo(date.hh, 24),
    (Rem(date.hh, 24) * 60 + date.mm) * 60 + date.ss>>

Before(date1, date2) ==
  \/ Seconds(date1)[1] < Seconds(date2)[1]
  \/ Seconds(date1)[1] = Seconds(date2)[1] /\ Seconds(date1)[2] < Seconds(date2)[2]

----------------------------------------------------------------------------
(* DateFormat.  A format is a sequence of fields and separators, and so is *)
(* a text, with the values in the places of the fields.                    *)

DateField == {"yyyy", "yy", "ddd", "dd", "mmm", "mm", "hh", "mi", "ss"}

FieldValue(date, field) ==
  CASE field = "yyyy" -> date.year [] field = "yy" -> date.year % 100
    [] field = "ddd" -> date.dayw [] field = "dd" -> date.day
    [] field \in {"mm", "mmm"} -> date.month
    [] field = "hh" -> date.hh [] field = "mi" -> date.mm [] field = "ss" -> date.ss

FormatDate(spec, date) ==
  [i \in DOMAIN spec |-> IF spec[i] \in DateField THEN <<FieldValue(date, spec[i])>> ELSE <<>>]

HasField(spec, field) == \E i \in DOMAIN spec : spec[i] = field

The(spec, text, field) == text[CHOOSE i \in DOMAIN spec : spec[i] = field][1]

\* What is left of the text holds a sign: it is read as a time zone, whatever it is.
\* Without a time in the format the numbers of the clock are read as characters.
Fails(spec, text) ==
  \/ \E field \in DateField : \E i, j \in DOMAIN spec :
       spec[i] = field /\ spec[j] = field /\ text[i] # text[j]
  \/ \E sign \in {"-", "+"} : HasField(spec, sign)
  \/ ~HasField(spec, "dd") \/ ~(HasField(spec, "yyyy") \/ HasField(spec, "yy"))
  \/ ~(HasField(spec, "mmm") \/ HasField(spec, "mm"))
  \/ \E field \in {"hh", "mi", "ss"} : ~HasField(spec, field)

ParsedDay(spec, text, date) ==
  IF HasField(spec, "ddd") /\ The(spec, text, "ddd") # date.dayw THEN <<>>
  ELSE <<[date EXCEPT !.hh = The(spec, text, "hh"), !.mm = The(spec, text, "mi"),
                      !.ss = The(spec, text, "ss")]>>

Parsing(spec, text, y, m, d, now) ==
  IF ValidateDate(d, m, y) THEN ParsedDay(spec, text, NewDate(y, m, d, now)) ELSE <<>>

\* A year of two digits is one of the first century.
ParseDate(spec, text, now) ==
  IF Fails(spec, text) THEN <<>>
  ELSE Parsing(spec, text, The(spec, text, IF HasField(spec, "yyyy") THEN "yyyy" ELSE "yy"),
               The(spec, text, IF HasField(spec, "mmm") THEN "mmm" ELSE "mm"),
               The(spec, text, "dd"), now)
=============================================================================
