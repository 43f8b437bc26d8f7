----------------------------- MODULE Calendar -----------------------------
(***************************************************************************)
(* The conversions of the C library glue (components/libc/time.c) between  *)
(* seconds since 1970 and the date and time of day.  A time is a day and a *)
(* second of that day here; the reference is the calendar itself, one day  *)
(* after the other.                                                        *)
(***************************************************************************)
EXTENDS Integers, Sequences, FiniteSetsExt

CONSTANTS
  Anchor,  \* days whose dates are known: records of day and date
  Span,    \* how many days the calendar is followed from each
  Second,  \* seconds of the day to convert
  Mday,    \* days of a month, and beyond it, to convert
  MonthCarry  \* whether days that timegm carries over a month are asked to be right

VARIABLES day, date, left

vars == <<day, date, left>>

SPD == 86400

isleap(year) == year % 4 = 0 /\ (year % 100 # 0 \/ year % 400 = 0)

\* __spm: the days before each month of a year that is not a leap year.
spm(i) == <<0, 31, 59, 90, 120, 151, 181, 212, 243, 273, 304, 334, 365>>[i + 1]
---------------------------------------------------------------------------
\* gmtime_r: the year is counted off, then the month is found from behind.
Year[i \in Nat, work \in Nat] ==
  LET k == IF isleap(i) THEN 366 ELSE 365
  IN IF work >= k THEN Year[i + 1, work - k] ELSE [year |-> i, yday |-> work]

gmtime_r(d, s) ==
  LET y     == Year[1970, d]
      late  == isleap(y.year) /\ y.yday > 58
      work  == IF late THEN y.yday - 1 ELSE y.yday
      mon   == Max({i \in 0 .. 11 : i = 0 \/ spm(i) <= work})
      first == IF late /\ y.yday = 59 THEN 2 ELSE 1
  IN [year |-> y.year - 1900, mon |-> mon, mday |-> first + work - spm(mon),
      wday |-> (4 + d) % 7, yday |-> y.yday,
      hour |-> (s \div 60) \div 60, min |-> (s \div 60) % 60, sec |-> s % 60]

\* timegm carries what exceeds n to the next field.  It leaves n itself, which
\* is a month out of its table for mon: that is out of the model.
Carry(tm, field, n, next) ==
  IF tm[field] > n THEN [tm EXCEPT ![field] = @ % n, ![next] = @ + tm[field] \div n] ELSE tm

CarryTime(tm) ==
  LET min  == Carry(tm, "sec", 60, "min")
      hour == Carry(min, "min", 60, "hour")
      mday == Carry(hour, "hour", 24, "mday")
  IN Carry(mday, "mon", 12, "year")

Dates == [year : Nat, mon : 0 .. 11, mday : Int]

\* Then days beyond those of the year up to the month: to the next month, less
\* those of the year before the month.
CarryDays[d \in Dates] ==
  LET leap == IF d.mon = 1 /\ isleap(d.year + 1900) THEN 1 ELSE 0
      mday == d.mday - leap - spm(d.mon)
  IN CASE d.mday <= spm(d.mon + 1) -> d
       [] d.mon = 11 -> CarryDays[[year |-> d.year + 1, mon |-> 0, mday |-> mday]]
       [] OTHER      -> CarryDays[[d EXCEPT !.mon = @ + 1, !.mday = mday]]

Carried(tm) ==
  LET c == CarryTime(tm)
  IN CarryDays[[year |-> c.year, mon |-> c.mon, mday |-> c.mday]]

\* Mutant of LeapDays: every fourth year.
LeapDays_Julian(years) == (years + 1) \div 4

\* The leap years since 1970, three fewer in each 400 years after 2100.
LeapDays(years) ==
  LET c == (years - 131) \div 100
  IN ((years + 1) \div 4) - (IF years < 131 THEN 0
       ELSE (c \div 4) * 3 + 1 + (IF c % 4 = 3 THEN 2 ELSE c % 4))

\* The years are those before the carry.  -1 second stands for years before 1970.
timegm(tm) ==
  LET years == tm.year - 70
      c     == CarryTime(tm)
      d     == Carried(tm)
      yday  == spm(d.mon) + d.mday - 1 + (IF isleap(d.year + 1900) /\ d.mon > 1 THEN 1 ELSE 0)
      n     == years * 365 + LeapDays(years) + yday
      secs  == (c.hour * 60 + c.min) * 60 + c.sec
  IN IF d.year < 70 THEN [day |-> -1, second |-> SPD - 1, wday |-> tm.wday, yday |-> tm.yday]
     ELSE [day |-> n + secs \div SPD, second |-> secs % SPD,
           wday |-> (n + 4) % 7, yday |-> yday]
---------------------------------------------------------------------------
\* The calendar.
Days(year, mon) ==
  IF mon = 1 /\ isleap(year + 1900) THEN 29 ELSE spm(mon + 1) - spm(mon)

NextDay(d) ==
  LET wday == (d.wday + 1) % 7
  IN CASE d.mday < Days(d.year, d.mon)
            -> [d EXCEPT !.mday = @ + 1, !.yday = @ + 1, !.wday = wday]
       [] d.mon < 11
            -> [d EXCEPT !.mon = @ + 1, !.mday = 1, !.yday = @ + 1, !.wday = wday]
       [] OTHER
            -> [year |-> d.year + 1, mon |-> 0, mday |-> 1, yday |-> 0, wday |-> wday]

Init ==
  /\ \E a \in Anchor : day = a.day /\ date = a.date
  /\ left = Span

Next ==
  \/ /\ left > 0 /\ left' = left - 1
     /\ day' = day + 1
     /\ date' = NextDay(date)
  \/ /\ left = 0 /\ left' = Span
     /\ \E a \in Anchor : day' = a.day /\ date' = a.date

Spec == Init /\ [][Next]_vars
---------------------------------------------------------------------------
\* Each day is the date the calendar says, and each date the day; seconds and
\* hours beyond a day are days more.  The day of the month, which set_date
\* takes as it comes, may lie in another month, as far as timegm does not carry
\* it there; where it does, the date ends within the table of months.  Months
\* beyond a year end in a later one.
KnowsCalendar ==
  \A s \in Second :
    LET tm   == gmtime_r(day, s)
        here == [day |-> day, second |-> s, wday |-> date.wday, yday |-> date.yday]
    IN /\ [year |-> tm.year, mon |-> tm.mon, mday |-> tm.mday,
           yday |-> tm.yday, wday |-> tm.wday] = date
       /\ tm.hour \in 0 .. 23 /\ tm.min \in 0 .. 59
       /\ timegm(tm) = here
       /\ timegm([tm EXCEPT !.hour = 0, !.min = 0, !.sec = s]) = here
       /\ LET late == timegm([tm EXCEPT !.mday = @ - 1, !.hour = 0, !.min = 0, !.sec = s + SPD])
          IN late.day = day /\ late.second = s
       /\ Carried([tm EXCEPT !.mon = @ + 24]) =
            [year |-> tm.year + 2, mon |-> tm.mon, mday |-> tm.mday]
       /\ \A mday \in Mday :
            LET then == [tm EXCEPT !.mday = mday]
            IN IF MonthCarry \/ mday <= spm(tm.mon + 1)
               THEN timegm(then).day = day + mday - tm.mday
               ELSE Carried(then).mday \in 1 .. spm(Carried(then).mon + 1)
===========================================================================
