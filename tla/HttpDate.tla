------------------------------ MODULE HttpDate ------------------------------
(***************************************************************************)
(* If-Modified-Since: http_date_parse() against the calendar.  The calendar *)
(* moves a day at a time, either way from the epoch, by its own rules, and  *)
(* what tm_to_time_t_utc() computes from the date must be the days gone by: *)
(* a Last-Modified that http_date() wrote, gmtime_r() being the calendar,   *)
(* then reads back as the time it was written for.                          *)
(***************************************************************************)
EXTENDS Integers

CONSTANTS FirstYear, LastYear   \* bound: the years walked through

HttpDateAssumption ==
  FirstYear \in Nat /\ LastYear \in Nat /\ 1970 \in FirstYear..LastYear

VARIABLES year, month, day, days   \* days since 1 January 1970

vars == <<year, month, day, days>>

LeapYear(y) == y % 4 = 0 /\ (y % 100 # 0 \/ y % 400 = 0)

DaysOf(y, m) ==
  IF m = 2 THEN (IF LeapYear(y) THEN 29 ELSE 28)
  ELSE IF m \in {4, 6, 9, 11} THEN 30 ELSE 31

Init == year = 1970 /\ month = 1 /\ day = 1 /\ days = 0

NextDay ==
  /\ days' = days + 1
  /\ \/ /\ day < DaysOf(year, month)
        /\ day' = day + 1 /\ UNCHANGED <<year, month>>
     \/ /\ day = DaysOf(year, month) /\ month < 12
        /\ day' = 1 /\ month' = month + 1 /\ UNCHANGED year
     \/ /\ day = 31 /\ month = 12 /\ year < LastYear
        /\ day' = 1 /\ month' = 1 /\ year' = year + 1

PreviousDay ==
  /\ days' = days - 1
  /\ \/ /\ day > 1
        /\ day' = day - 1 /\ UNCHANGED <<year, month>>
     \/ /\ day = 1 /\ month > 1
        /\ month' = month - 1 /\ day' = DaysOf(year, month - 1) /\ UNCHANGED year
     \/ /\ day = 1 /\ month = 1 /\ year > FirstYear
        /\ day' = 31 /\ month' = 12 /\ year' = year - 1

Next == NextDay \/ PreviousDay

Spec == Init /\ [][Next]_vars

-----------------------------------------------------------------------------

\* C's division, for positive divisors.
Quotient(a, b) == IF a >= 0 THEN a \div b ELSE -((-a) \div b)

\* Eras of 400 years, rounded down.
EraOf(y) == Quotient(IF y >= 0 THEN y ELSE y - 399, 400)

\* Mutant of MonthFrom: January and February stay in their own year.
MonthFromJanuary(m) == m - 1

\* The month counted from March.
MonthFrom(m) == IF m > 2 THEN m - 3 ELSE m + 9

\* tm_to_time_t_utc(), in days.
TmDays(y0, m, d) ==
  LET y == IF m <= 2 THEN y0 - 1 ELSE y0
      era == EraOf(y)
      yoe == y - era * 400
      doy == (153 * MonthFrom(m) + 2) \div 5 + d - 1
      doe == yoe * 365 + yoe \div 4 - yoe \div 100 + doy
  IN  era * 146097 + doe - 719468

\* Every date is as many days from 1970 as the calendar says: a date written
\* into Last-Modified is the one If-Modified-Since is compared with.
DateReadsBack == TmDays(year, month, day) = days
=============================================================================
