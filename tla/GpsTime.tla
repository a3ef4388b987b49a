------------------------------- MODULE GpsTime -------------------------------
(***************************************************************************)
(* The calendar of the GPS HAL.  An EPO file (predicted orbits) carries     *)
(* GPS hours; GpsToUtcTime turns them into a date and mktime the date into *)
(* seconds.  Times are whole days here; leap seconds, which the code       *)
(* ignores as well, are less than a day.                                   *)
(***************************************************************************)
EXTENDS Integers, Sequences

\* The length of the year that begins iYearsElapsed years after 1980.
YearLength(iYearsElapsed) ==
  IF iYearsElapsed % 100 = 20
  THEN IF iYearsElapsed % 400 = 20 THEN 366 ELSE 365
  ELSE IF iYearsElapsed % 4 = 0 THEN 366 ELSE 365

\* The loop that takes whole years off a number of days since 1 January 1980.
Elapsed(days) ==
  LET Year[y \in 0 .. 200] ==
        IF y = 0 THEN [years |-> 0, days |-> days]
        ELSE LET e == Year[y - 1]
             IN  IF e.years = y - 1 /\ e.days >= YearLength(y - 1)
                 THEN [years |-> y, days |-> e.days - YearLength(y - 1)] ELSE e
  IN  Year[days \div 365]

\* Faulty variant of doy: the table of a common year in every year.
doy_Common(iYearsElapsed) == <<0, 31, 59, 90, 120, 151, 181, 212, 243, 273, 304, 334>>

\* Days before each month, one more from March on in a leap year.
doy(iYearsElapsed) ==
  LET plain == <<0, 31, 59, 90, 120, 151, 181, 212, 243, 273, 304, 334>>
  IN  [m \in 1 .. 12 |-> plain[m] + (IF m > 2 /\ YearLength(iYearsElapsed) = 366 THEN 1 ELSE 0)]

\* GPS weeks begin on Sunday 6 January 1980, five days into the year.
GpsToUtcTime(gpsDay) ==
  LET e == Elapsed(gpsDay + 5)
      before == doy(e.years)
      month == CHOOSE m \in 1 .. 12 : before[m] <= e.days /\ (m = 12 \/ e.days < before[m + 1])
  IN  [year |-> 1980 + e.years, month |-> month, day |-> e.days - before[month] + 1]

\* mktime of the C library, in days since 6 January 1980: the proleptic
\* Gregorian calendar, with years counted from March.
mktime(date) ==
  LET y == IF date.month <= 2 THEN date.year - 1 ELSE date.year
      m == (date.month + 9) % 12
  IN  365 * y + y \div 4 - y \div 100 + y \div 400 + (153 * m + 2) \div 5 + date.day - 723126
=============================================================================
