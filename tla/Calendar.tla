------------------------------ MODULE Calendar ------------------------------
(***************************************************************************)
(* Calendar dates, as the payment ledger uses them.  A date is one number: *)
(* 31 times its month plus its day of the month less one, months counted   *)
(* from January of BaseYear.  The numbering leaves gaps after short months *)
(* but keeps the order of dates, which is all that max() needs.            *)
(***************************************************************************)
EXTENDS Integers

BaseYear == 2025

\* The absence of a date (NULL in a column, None in the code).  It is below
\* every date, so max(..., default=None) is MaxDate with NoDate.
NoDate == -1

Leap(year) == year % 4 = 0 /\ (year % 100 # 0 \/ year % 400 = 0)

DaysInMonth(m) ==
  IF m % 12 = 1 THEN (IF Leap(BaseYear + m \div 12) THEN 29 ELSE 28)
  ELSE IF m % 12 \in {3, 5, 8, 10} THEN 30 ELSE 31

Date == {d \in Nat : d % 31 < DaysInMonth(d \div 31)}
OptionalDate == Date \cup {NoDate}

MaxDate(a, b) == IF a >= b THEN a ELSE b
MinDay(a, b)  == IF a <= b THEN a ELSE b

\* Mutant of AddCalendarMonth: the day is not clamped to the month's length.
AddCalendarMonthUnclamped(d) == d + 31

\* The same day of the next month, or its last day when it is shorter.
AddCalendarMonth(d) ==
  31 * (d \div 31 + 1) + MinDay(d % 31, DaysInMonth(d \div 31 + 1) - 1)
=============================================================================
