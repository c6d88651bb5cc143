------------------------------ MODULE Calendar ------------------------------
(***************************************************************************)
(* Broken-down time: __secs_to_tm behind gmtime, __tm_to_secs behind       *)
(* timegm and mktime.  Both are modelled in days, of which all but the     *)
(* time of the day is made; a day is counted from 1970-01-01.              *)
(***************************************************************************)
EXTENDS Integers, Sequences, FiniteSetsExt

CONSTANT Days         \* the days that are looked at

VARIABLE day

vars == day

Init == day \in Days

-----------------------------------------------------------------------------

\* Division as C does it: towards zero.
Quot(a, b) == IF a >= 0 THEN a \div b ELSE -((-a) \div b)
Rem(a, b)  == a - b * Quot(a, b)

LEAPOCH == 10957 + 31 + 29
DAYS_PER_400Y == 365 * 400 + 97
DAYS_PER_100Y == 365 * 100 + 24
DAYS_PER_4Y   == 365 * 4 + 1
days_in_month == <<31, 30, 31, 30, 31, 31, 30, 31, 30, 31, 31, 29>>

\* The days of the first n months of a year that begins in March.
Through[n \in 0 .. 12] == IF n = 0 THEN 0 ELSE Through[n - 1] + days_in_month[n]

\* A cycle that ends in a leap day is one day longer than the others.
Cycles(n, length, cap) == Min({n \div length, cap})

Wday(days) == IF Rem(3 + days, 7) < 0 THEN Rem(3 + days, 7) + 7 ELSE Rem(3 + days, 7)

\* __secs_to_tm.
ToTm(d) ==
    LET days    == d - LEAPOCH
        neg     == Rem(days, DAYS_PER_400Y) < 0
        qc      == Quot(days, DAYS_PER_400Y) - (IF neg THEN 1 ELSE 0)
        rem0    == Rem(days, DAYS_PER_400Y) + (IF neg THEN DAYS_PER_400Y ELSE 0)
        c       == Cycles(rem0, DAYS_PER_100Y, 3)
        rem1    == rem0 - c * DAYS_PER_100Y
        q       == Cycles(rem1, DAYS_PER_4Y, 24)
        rem2    == rem1 - q * DAYS_PER_4Y
        y       == Cycles(rem2, 365, 3)
        rem3    == rem2 - y * 365
        leap    == IF y = 0 /\ (q # 0 \/ c = 0) THEN 1 ELSE 0
        yday    == rem3 + 31 + 28 + leap
        years   == y + 4 * q + 100 * c + 400 * qc
        months  == CHOOSE m \in 0 .. 11 : Through[m] <= rem3 /\ rem3 < Through[m + 1]
        next    == months >= 10
    IN  [year |-> years + 100 + (IF next THEN 1 ELSE 0),
         mon  |-> months + 2 - (IF next THEN 12 ELSE 0),
         mday |-> rem3 - Through[months] + 1,
         wday |-> Wday(days),
         yday |-> IF yday >= 365 + leap THEN yday - (365 + leap) ELSE yday]

\* __year_to_secs: the days before the year, and whether it is a leap year.
YearToDays(year) ==
    LET y      == year - 100
        neg    == Rem(y, 400) < 0
        cycles == Quot(y, 400) - (IF neg THEN 1 ELSE 0)
        r      == Rem(y, 400) + (IF neg THEN 400 ELSE 0)
        cent   == r \div 100
        rem    == r % 100
        leap   == IF r = 0 THEN 1 ELSE IF rem = 0 THEN 0 ELSE IF rem % 4 = 0 THEN 1 ELSE 0
        leaps  == rem \div 4
        near   == (year - 68) \div 4
    IN  IF year \in 2 .. 138
        THEN LET is == IF (year - 68) % 4 = 0 THEN 1 ELSE 0
             IN  [leap |-> is, days |-> 365 * (year - 70) + near - is]
        ELSE [leap |-> leap,
              days |-> y * 365 + leaps + 97 * cycles + 24 * cent - leap + 10957 + 1]

\* __month_to_secs.
MonthToDays(month, leap) ==
    <<0, 31, 59, 90, 120, 151, 181, 212, 243, 273, 304, 334>>[month + 1]
    + (IF leap = 1 /\ month >= 2 THEN 1 ELSE 0)

\* __tm_to_secs: months and days may be out of their ranges.
ToDay(year, mon, mday) ==
    LET neg == Rem(mon, 12) < 0
        y   == YearToDays(year + Quot(mon, 12) - (IF neg THEN 1 ELSE 0))
    IN  y.days + MonthToDays(Rem(mon, 12) + (IF neg THEN 12 ELSE 0), y.leap) + mday - 1

\* The day passes.
Tomorrow == day + 1 \in Days /\ day' = day + 1

Next == Tomorrow

Spec == Init /\ [][Next]_vars

-----------------------------------------------------------------------------
(* Properties.                                                             *)

\* The Gregorian calendar; years are counted from 1900.
IsLeap(year) == year % 4 = 0 /\ (year % 100 # 0 \/ (year + 1900) % 400 = 0)

MonthLength(year, mon) ==
    IF mon = 1 THEN (IF IsLeap(year) THEN 29 ELSE 28)
    ELSE IF mon \in {3, 5, 8, 10} THEN 30 ELSE 31

NextDate(tm) ==
    LET monthEnds == tm.mday = MonthLength(tm.year, tm.mon)
        yearEnds  == monthEnds /\ tm.mon = 11
    IN  [year |-> IF yearEnds THEN tm.year + 1 ELSE tm.year,
         mon  |-> IF yearEnds THEN 0 ELSE IF monthEnds THEN tm.mon + 1 ELSE tm.mon,
         mday |-> IF monthEnds THEN 1 ELSE tm.mday + 1,
         wday |-> (tm.wday + 1) % 7,
         yday |-> IF yearEnds THEN 0 ELSE tm.yday + 1]

\* The epoch is the first of January 1970, a Thursday, and day by day what gmtime says
\* goes on as the calendar does: over the ends of months, years, centuries and of the
\* cycle of 400 years, before and after the epoch.
DaysFollow ==
    /\ ToTm(0) = [year |-> 70, mon |-> 0, mday |-> 1, wday |-> 4, yday |-> 0]
    /\ ToTm(day') = NextDate(ToTm(day))

\* timegm undoes gmtime, also where the same date is written with its month or its day
\* out of range.
DatesComeBack ==
    LET tm == ToTm(day)
    IN  /\ ToDay(tm.year, tm.mon, tm.mday) = day
        /\ \A k \in {-1, 1} : ToDay(tm.year + k, tm.mon - 12 * k, tm.mday) = day
        /\ ToDay(tm.year, 0, tm.yday + 1) = day

=============================================================================
