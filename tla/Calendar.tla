------------------------------- MODULE Calendar -------------------------------
(***************************************************************************)
(* Dates of the Gregorian calendar, and app.core.dates: the date that lies *)
(* an interval of days, weeks, months or years after another.  A day is    *)
(* its ordinal number (0001-01-01 is day 1), as in Python.                 *)
(***************************************************************************)
EXTENDS Integers

Date == [year : Nat \ {0}, month : 1 .. 12, day : 1 .. 31]

Leap(y) == y % 4 = 0 /\ (y % 100 # 0 \/ y % 400 = 0)

DaysInMonth(y, m) ==
  IF m = 2 THEN (IF Leap(y) THEN 29 ELSE 28)
  ELSE IF m \in {4, 6, 9, 11} THEN 30 ELSE 31

IsDate(d) == d \in Date /\ d.day <= DaysInMonth(d.year, d.month)

\* Days before the first of January of year y, and before month m of it.
BeforeYear(y) == 365 * (y - 1) + ((y - 1) \div 4) - ((y - 1) \div 100) + ((y - 1) \div 400)

BeforeMonth(y, m) ==
  <<0, 31, 59, 90, 120, 151, 181, 212, 243, 273, 304, 334>>[m]
    + (IF m > 2 /\ Leap(y) THEN 1 ELSE 0)

\* date.toordinal and date.fromordinal
Ordinal(d) == BeforeYear(d.year) + BeforeMonth(d.year, d.month) + d.day

FromOrdinal(n) ==
  LET y == CHOOSE y \in (n \div 366) .. (n \div 365) + 1 : BeforeYear(y) < n /\ n <= BeforeYear(y + 1)
      k == n - BeforeYear(y)
      m == CHOOSE m \in 1 .. 12 : BeforeMonth(y, m) < k /\ k <= BeforeMonth(y, m) + DaysInMonth(y, m)
  IN  [year |-> y, month |-> m, day |-> k - BeforeMonth(y, m)]

Least(a, b) == IF a <= b THEN a ELSE b

\* Mutant: the day overflows into the month after.
AddMonths_Overflow(d, n) ==
  LET m == d.month - 1 + n
  IN  [year |-> d.year + (m \div 12), month |-> (m % 12) + 1, day |-> d.day]

\* The same day of the month, or the month's last.
AddMonths(d, n) ==
  LET m == d.month - 1 + n
      y == d.year + (m \div 12)
  IN  [year |-> y, month |-> (m % 12) + 1, day |-> Least(d.day, DaysInMonth(y, (m % 12) + 1))]

Units == {"day", "week", "month", "year"}

AddInterval(n, unit, count) ==
  CASE unit = "day"   -> n + count
    [] unit = "week"  -> n + 7 * count
    [] unit = "month" -> Ordinal(AddMonths(FromOrdinal(n), count))
    [] unit = "year"  -> Ordinal(AddMonths(FromOrdinal(n), 12 * count))
=============================================================================
