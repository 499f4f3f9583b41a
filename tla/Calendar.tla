------------------------------ MODULE Calendar ------------------------------
(***************************************************************************)
(* core/time.py: the month button of Snooze adds one calendar month, with  *)
(* the day clamped to the last one of the month.  The other modules count  *)
(* days; Ordinal is the number of a date in that count.                    *)
(***************************************************************************)
EXTENDS Integers

Leap(y) == y % 4 = 0 /\ (y % 100 # 0 \/ y % 400 = 0)

DaysInMonth(y, m) ==
    CASE m = 2             -> IF Leap(y) THEN 29 ELSE 28
      [] m \in {4, 6, 9, 11} -> 30
      [] OTHER             -> 31

CalendarDates ==
    {d \in [year : Nat \ {0}, month : 1 .. 12, day : 1 .. 31] :
        d.day <= DaysInMonth(d.year, d.month)}

DaysBeforeYear(y) == 365 * (y - 1) + (y - 1) \div 4 - (y - 1) \div 100 + (y - 1) \div 400

\* Days before month m of a year that is not a leap year.
DaysBeforeMonth == <<0, 31, 59, 90, 120, 151, 181, 212, 243, 273, 304, 334>>

\* datetime.date.toordinal
Ordinal(d) ==
    DaysBeforeYear(d.year) + DaysBeforeMonth[d.month]
        + (IF d.month > 2 /\ Leap(d.year) THEN 1 ELSE 0) + d.day

\* date + relativedelta(months=1)
AddCalendarMonth(d) ==
    LET y == IF d.month = 12 THEN d.year + 1 ELSE d.year
        m == IF d.month = 12 THEN 1 ELSE d.month + 1
        last == DaysInMonth(y, m) IN
    [year |-> y, month |-> m, day |-> IF d.day <= last THEN d.day ELSE last]
=============================================================================
