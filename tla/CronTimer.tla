----------------------------- MODULE CronTimer ------------------------------
(***************************************************************************)
(* CronTimer: an expression of up to six parts (minute, hour, day, month,  *)
(* day of the week, year), whether a part allows a moment, and the date of *)
(* the next run.  A part of an expression is [form, vals]; a value that is *)
(* no number of the position (nor, where names are allowed, one of those)  *)
(* is NaN.  Positions count from 0.                                        *)
(***************************************************************************)
EXTENDS Date, SequencesExt, TLC

CONSTANT NaN

RangeStarts == <<0, 0, 1, 1, 0, 1970>>
RangeEnds == <<59, 23, 31, 12, 6, 2099>>

NoPart == [all |-> FALSE, from |-> -1, to |-> -1, interval |-> -1, list |-> <<>>]

NumbersFrom(v, k) == \A i \in 1..k : v[i] # NaN

\* What the constructor makes of one part: the part, "invalid", "stop" (what follows
\* is not looked at) or "abort" (at() beyond the values read).
Read(pos, p) ==
  LET start == RangeStarts[pos + 1]
      end == RangeEnds[pos + 1]
      v == p.vals
      Part(fields) == [is |-> "part", part |-> fields @@ NoPart]
      Is(what) == [is |-> what, part |-> NoPart]
      InRange(x) == x \in start..end
  IN  CASE p.form = "*" -> Part([all |-> TRUE])
        [] p.form = "a" /\ v[1] # NaN ->
             IF InRange(v[1]) THEN Part([from |-> v[1]]) ELSE Is("stop")
        [] p.form = "a,b" /\ (\E i \in DOMAIN v : v[i] # NaN /\ ~InRange(v[i])) ->
             LET cut == CHOOSE i \in DOMAIN v : /\ v[i] = NaN \/ ~InRange(v[i])
                                               /\ \A j \in 1..i-1 : v[j] # NaN /\ InRange(v[j])
             IN  IF v[cut] = NaN THEN Is("invalid")
                 ELSE Part([list |-> SortSeq(SubSeq(v, 1, cut - 1), LAMBDA x, y : x < y)])
        [] p.form = "a,b" /\ NumbersFrom(v, Len(v)) -> Part([list |-> SortSeq(v, LAMBDA x, y : x < y)])
        [] p.form \in {"a", "a,b"} -> Is("invalid")
        [] p.form \in {"a-b", "a-b/c", "a/c"} /\ v[1] = NaN -> Is("abort")
        [] p.form \in {"a-b", "a-b/c", "a/c"} /\ v[1] < start -> Is("invalid")
        [] p.form \in {"a-b", "a-b/c", "a/c"} /\ v[2] = NaN -> Is("abort")
        [] p.form \in {"a-b", "a-b/c", "a/c"} /\ v[2] > end -> Is("invalid")
        [] p.form = "a-b" -> Part([from |-> v[1], to |-> v[2]])
        [] p.form = "a/c" ->
             IF v[2] > end - v[1] THEN Is("invalid")
             ELSE Part([from |-> v[1], to |-> end, interval |-> v[2]])
        [] p.form = "a-b/c" ->
             IF v[3] = NaN THEN Is("abort")
             ELSE IF v[3] > v[2] - v[1] THEN Is("invalid")
             ELSE Part([from |-> v[1], to |-> v[2], interval |-> v[3]])

\* The constructor.  A year that is missing, or that is not looked at, is any year.
Parsed(expression) ==
  LET read == [i \in DOMAIN expression |-> Read(i - 1, expression[i])]
      end == {i \in DOMAIN read : read[i].is # "part" /\ \A j \in 1..i-1 : read[j].is = "part"}
      parts == [i \in {j \in DOMAIN read : \A k \in end : j < k} |-> read[i].part]
  IN  IF Len(expression) > 6 THEN [is |-> "invalid", parts |-> <<>>]
      ELSE IF \E i \in end : read[i].is # "stop"
           THEN [is |-> read[CHOOSE i \in end : TRUE].is, parts |-> <<>>]
      ELSE [is |-> "timer", parts |-> IF Len(parts) = 5
                                     THEN Append(parts, [NoPart EXCEPT !.all = TRUE]) ELSE parts]

FieldAt(pos, date) ==
  CASE pos = 0 -> date.mm [] pos = 1 -> date.hh [] pos = 2 -> date.day
    [] pos = 3 -> date.month [] pos = 5 -> date.year

\* The text of a minute, an hour and a month has two digits, that of a value in a
\* list may have one.
InList(pos, part, c) ==
  (c >= 10 \/ pos \in {2, 5}) /\ \E i \in DOMAIN part.list : part.list[i] = c

Allows(pos, part, c) ==
  \/ part.all
  \/ part.interval = -1 /\ part.from = c
  \/ part.interval = -1 /\ part.to # -1 /\ c \in part.from..part.to
  \/ part.interval > 0 /\ c \in part.from..part.to /\ (c - part.from) % part.interval = 0
  \/ InList(pos, part, c)

\* Only if the moment is the one waited for.
IsValid(pos, parts, now, next) ==
  Allows(pos, parts[pos + 1], FieldAt(pos, now)) /\ FieldAt(pos, now) = FieldAt(pos, next)

\* The day of the week is not looked at.
Due(parts, now, next) == \A pos \in {0, 1, 2, 3, 5} : IsValid(pos, parts, now, next)

\* at() of a part that is missing, or the remainder of a division by zero.
PollFails(parts, now, next) ==
  \/ Len(parts) < 6
  \/ \E i \in 1..6 \ {5} :
       /\ parts[i].interval = 0 /\ FieldAt(i - 1, now) \in parts[i].from..parts[i].to
       /\ \A j \in i+1..6 : j = 5 \/ IsValid(j - 1, parts, now, next)

UpdateAt(pos, date, n, now) ==
  CASE pos = 0 -> UpdateMinutes(date, n, now)
    [] pos = 1 -> UpdateHours(date, n, now)
    [] pos = 2 -> UpdateDays(date, n, now)
    [] pos = 3 -> UpdateMonths(date, n, now)
    [] pos = 5 -> UpdateYears(date, n, now)

\* The first and the last value a part allows.
Initial(pos, part) ==
  IF part.list # <<>> THEN part.list[1] ELSE IF part.from # -1 THEN part.from ELSE RangeStarts[pos + 1]

Final(pos, part) ==
  IF part.list # <<>> THEN part.list[Len(part.list)]
  ELSE IF part.interval = -1 /\ part.to = -1 /\ part.from # -1 THEN part.from
  ELSE IF part.to # -1 THEN part.to ELSE RangeEnds[pos + 1]

\* correctNextRunDateTime: the smaller units start again where they were at their end.
Correct(pos, parts, date, now) ==
  FoldLeft(LAMBDA d, p :
             IF FieldAt(p, d) >= Final(p, parts[p + 1])
             THEN UpdateAt(p, d, Initial(p, parts[p + 1]) - FieldAt(p, d), now) ELSE d,
           date,
           CASE pos = 0 -> <<>> [] pos = 1 -> <<0>> [] pos = 2 -> <<1, 0>>
             [] pos = 3 -> <<2, 1, 0>> [] pos = 5 -> <<3, 2, 1, 0>>)

\* Mutant of Move: the last step of an interval goes past its end.
MoveOn(part, c) == IF part.interval # -1 THEN part.interval ELSE 1

\* How far a unit moves; back to the first value after the last.
Move(part, c) ==
  IF \E i \in DOMAIN part.list : part.list[i] = c
  THEN LET at == CHOOSE i \in DOMAIN part.list : part.list[i] = c
       IN  part.list[(at % Len(part.list)) + 1] - c
  ELSE IF part.interval # -1
       THEN IF c + part.interval > part.to THEN part.from - c ELSE part.interval
       ELSE 1

TryIncrement(pos, parts, next, now) ==
  LET part == parts[pos + 1]
      c == FieldAt(pos, next)
      moves == \/ part.all \/ part.interval # -1
               \/ c >= part.from /\ c < part.to
               \/ \E i \in DOMAIN part.list : part.list[i] = c
  IN  IF moves
      THEN [next |-> Correct(pos, parts, UpdateAt(pos, next, Move(part, c), now), now),
            done |-> Move(part, c) >= 0]
      ELSE [next |-> next, done |-> FALSE]

\* After a run: the first unit that moves forward.
NextRun(parts, next, now) ==
  FoldLeft(LAMBDA r, pos : IF r.done THEN r ELSE TryIncrement(pos, parts, r.next, now),
           [next |-> next, done |-> FALSE], <<0, 1, 2, 3, 5>>).next
=============================================================================
