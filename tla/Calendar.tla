------------------------------ MODULE Calendar ------------------------------
(***************************************************************************)
(* UTC days and months (services/reports.py).  A day is <<year, month,     *)
(* day>>, a month <<year, month>>.  A midnight and the day it begins are   *)
(* the same value here: utc_boundary adds nothing.                         *)
(***************************************************************************)
EXTENDS Integers

IsLeap(y) == (y % 4 = 0 /\ y % 100 # 0) \/ y % 400 = 0

DaysIn(m) == CASE m[2] \in {4, 6, 9, 11} -> 30
               [] m[2] = 2 -> IF IsLeap(m[1]) THEN 29 ELSE 28
               [] OTHER -> 31

Earlier(d, e) ==
    \/ d[1] < e[1]
    \/ d[1] = e[1] /\ d[2] < e[2]
    \/ d[1] = e[1] /\ d[2] = e[2] /\ d[3] < e[3]

IsMonth(m) == m \in (1 .. 9999) \X (1 .. 12)
Date       == (1 .. 9999) \X (1 .. 12) \X (1 .. 31)
IsDay(d)   == d \in Date /\ d[3] <= DaysIn(<<d[1], d[2]>>)

MonthOf(d)  == <<d[1], d[2]>>
FirstDay(m) == <<m[1], m[2], 1>>

\* Faulty: the year is left as it is.
SameYearBefore(m) == IF m[2] = 1 THEN <<m[1], 12>> ELSE <<m[1], m[2] - 1>>

\* next_month and previous_month.  Beyond the years 1 to 9999 date() raises a
\* ValueError, and the request is answered 422.
next_month(m)     == IF m[2] = 12 THEN <<m[1] + 1, 1>> ELSE <<m[1], m[2] + 1>>
previous_month(m) == IF m[2] = 1 THEN <<m[1] - 1, 12>> ELSE <<m[1], m[2] - 1>>

\* Faulty: December ends where its own year begins.
SameYearBounds(m) ==
    <<FirstDay(m), IF m[2] = 12 THEN <<m[1], 1, 1>> ELSE <<m[1], m[2] + 1, 1>>>>

\* The month of a budget (repositories/budgets.py), worked out on its own.
month_bounds(m) ==
    <<FirstDay(m), IF m[2] = 12 THEN <<m[1] + 1, 1, 1>> ELSE <<m[1], m[2] + 1, 1>>>>

\* timedelta(days=1).
DayAfter(d) == IF d[3] < DaysIn(MonthOf(d))
                 THEN <<d[1], d[2], d[3] + 1>>
                 ELSE FirstDay(next_month(MonthOf(d)))

\* start <= d < end.
Within(d, start, end) == ~Earlier(d, start) /\ Earlier(d, end)

\* The number of a month, for the properties: consecutive months have
\* consecutive numbers.
Ordinal(m) == 12 * m[1] + m[2]
=============================================================================
