-------------------------------- MODULE Jst --------------------------------
(***************************************************************************)
(* The time of /remind: "MM/DD HH:MM" and "HH:MM" in Japanese time (connect: *)
(* shared/jst.ts, 9 hours ahead, no summer time), read by a clock with       *)
(* seconds.  Instants count half minutes from the start of FirstYear in UTC; *)
(* the fields of a text are the numbers of one or two digits it may hold.    *)
(***************************************************************************)
EXTENDS Integers, FiniteSets

CONSTANTS FirstYear, Years,  \* the calendar: its first year, and how many
          Clocks,            \* when commands are given
          Texts              \* Date and Time, as below

VARIABLES text, clock, fireAt

jstVars == <<text, clock, fireAt>>

Date(month, day, hour, minute) ==
  [dated |-> TRUE, month |-> month, day |-> day, hour |-> hour, minute |-> minute]
Time(hour, minute) == [dated |-> FALSE, hour |-> hour, minute |-> minute]

TwoDigits == 0 .. 99
Text ==
  [dated : {TRUE}, month : TwoDigits, day : TwoDigits, hour : TwoDigits, minute : TwoDigits]
    \cup [dated : {FALSE}, hour : TwoDigits, minute : TwoDigits]

Null == -1
Unread == -2
Hour == 120
Day == 24 * Hour
Offset == 9 * Hour

-----------------------------------------------------------------------------
(* Date of JavaScript, from the year before FirstYear.                     *)

IsLeap(y) == y % 4 = 0 /\ (y % 100 # 0 \/ y % 400 = 0)
MonthLength(y, m) == IF m = 2 THEN (IF IsLeap(y) THEN 29 ELSE 28)
                     ELSE IF m \in {4, 6, 9, 11} THEN 30 ELSE 31

DaysBeforeYear(y) ==
  365 * (y - FirstYear)
    + Cardinality({z \in FirstYear .. y - 1 : IsLeap(z)})

DaysBeforeMonth(y, m) ==
  LET before[n \in 1 .. 12] ==
        IF n = 1 THEN 0 ELSE before[n - 1] + MonthLength(y, n - 1)
  IN before[m]

\* Date.UTC: whatever is too large or too small is carried over.
UTC(y, month, day, hour, minute) ==
  LET year == y + (month - 1) \div 12
  IN (DaysBeforeYear(year) + DaysBeforeMonth(year, ((month - 1) % 12) + 1)
        + day - 1) * Day + hour * Hour + minute * 2

\* getUTCFullYear, getUTCMonth + 1, getUTCDate of a day
Calendar == [days \in -365 .. DaysBeforeYear(FirstYear + Years) - 1 |->
  LET year == CHOOSE y \in FirstYear - 1 .. FirstYear + Years - 1 :
                DaysBeforeYear(y) <= days /\ days < DaysBeforeYear(y + 1)
      left == days - DaysBeforeYear(year)
      month == CHOOSE m \in 1 .. 12 :
                 /\ DaysBeforeMonth(year, m) <= left
                 /\ left < DaysBeforeMonth(year, m) + MonthLength(year, m)
  IN [y |-> year, m |-> month, d |-> left - DaysBeforeMonth(year, month) + 1]]

YMD(t) == Calendar[t \div Day]
HourOf(t) == (t % Day) \div Hour
MinuteOf(t) == (t % Hour) \div 2

\* The calendar goes on for as long as the month of a text may carry over.
ASSUME JstAssumption ==
  /\ FirstYear \in Nat /\ Years \in Nat
  /\ Clocks \subseteq 0 .. DaysBeforeYear(FirstYear + Years - 12) * Day
  /\ Texts \subseteq Text

-----------------------------------------------------------------------------

\* Null when Date had to carry anything over.
JstToEpoch(year, month, day, hour, minute) ==
  LET utc == UTC(year, month, day, hour, minute)
  IN IF /\ YMD(utc) = [y |-> year, m |-> month, d |-> day]
        /\ HourOf(utc) = hour /\ MinuteOf(utc) = minute
     THEN utc - Offset ELSE Null

\* Faulty: today is what it is in Greenwich.
UtcToday(now) == YMD(now)

\* The date in Japan.
Today(now) == YMD(now + Offset)

ParseDate(x, now) ==
  LET year == Today(now).y
      at(y) == JstToEpoch(y, x.month, x.day, x.hour, x.minute)
  IN IF at(year) # Null /\ at(year) >= now THEN at(year)
     ELSE IF at(year + 1) # Null /\ at(year + 1) >= now THEN at(year + 1)
     ELSE Null

ParseTime(x, now) ==
  LET d == Today(now)
      t == JstToEpoch(d.y, d.m, d.d, x.hour, x.minute)
  IN IF t = Null THEN Null ELSE IF t >= now THEN t ELSE t + Day

ParseJst(x, now) == IF x.dated THEN ParseDate(x, now) ELSE ParseTime(x, now)

JstInit == text \in Texts /\ clock \in Clocks /\ fireAt = Unread

Parse ==
  /\ fireAt = Unread
  /\ fireAt' = ParseJst(text, clock)
  /\ UNCHANGED <<text, clock>>

JstSpec == JstInit /\ [][Parse]_jstVars

-----------------------------------------------------------------------------
(* Correctness, from a calendar that is walked and never computed with.     *)

\* How formatJst writes an instant, its numbers compared with the text's.
ReadsAs(t, x) ==
  LET local == t + Offset
  IN /\ HourOf(local) = x.hour /\ MinuteOf(local) = x.minute
     /\ x.dated => YMD(local).m = x.month /\ YMD(local).d = x.day

\* The instants a reminder may be set to: by the end of next year, or for a
\* time without a date within a day; whole minutes, at the text's hour.
Candidates(x, now) ==
  LET minute == x.hour * Hour + x.minute * 2 - Offset
      first == (now - minute) \div Day
      days == IF x.dated THEN 0 .. 731 ELSE 0 .. 1
  IN {t \in {(first + n) * Day + minute : n \in days} :
        /\ t >= now
        /\ x.dated => YMD(t + Offset).y <= Today(now).y + 1}

\* Comment of parseJst: the text means the first such instant that is not
\* past, this year or the next; months, leap days, hours and minutes that do
\* not exist, and dates that come later, are refused.
ParsedIsNext ==
  fireAt # Unread =>
    LET fits == {t \in Candidates(text, clock) : ReadsAs(t, text)}
    IN IF fits = {} THEN fireAt = Null
       ELSE fireAt \in fits /\ \A t \in fits : fireAt <= t
=============================================================================
