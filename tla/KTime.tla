------------------------------- MODULE KTime -------------------------------
(***************************************************************************)
(* kernel/time.c: kernel_mktime, which turns a broken-down date into       *)
(* seconds since 1970, walked along the calendar one day at a time.  The   *)
(* calendar and the count of days are the reference; kernel_mktime is      *)
(* evaluated at every date of the walk.                                    *)
(***************************************************************************)
EXTENDS Integers

CONSTANT LastYear    \* bound of the walk; beyond 2037 a 32-bit long is too small

MINUTE == 60
HOUR == MINUTE * 60
DAY == 24 * HOUR
YEAR == 365 * DAY

VARIABLES year, mon, mday,   \* the date: a year A.D., months and days from 0 and 1
          days               \* days since 1970-01-01

vars == <<year, mon, mday, days>>

-----------------------------------------------------------------------------
(* The code.                                                               *)

\* Days before each month in a year whose February has 29 days.
month == <<0, 31, 60, 91, 121, 152, 182, 213, 244, 274, 305, 335>>

\* The leap days of the years before.
LeapDays(y) == (y + 1) \div 4

MonthStart(m) == DAY * month[m + 1]

\* Subtract a day for non-leap years past February.
LeapCorrection(y, m) == IF m > 1 /\ (y + 4) % 4 # 0 THEN DAY ELSE 0

kernel_mktime(tm_year, tm_mon, tm_mday, tm_hour, tm_min, tm_sec) ==
  LET y == tm_year - 70
  IN  YEAR * y + DAY * LeapDays(y) + MonthStart(tm_mon) - LeapCorrection(y, tm_mon)
        + DAY * (tm_mday - 1) + HOUR * tm_hour + MINUTE * tm_min + tm_sec

Mktime(h, mi, s) == kernel_mktime(year - 1900, mon, mday, h, mi, s)

-----------------------------------------------------------------------------
(* The calendar (external).  No century matters between 1970 and 2037.     *)

IsLeap(y) == y % 4 = 0

DaysIn(y, m) == CASE m = 1 -> IF IsLeap(y) THEN 29 ELSE 28
                  [] m \in {3, 5, 8, 10} -> 30
                  [] OTHER -> 31

Init == year = 1970 /\ mon = 0 /\ mday = 1 /\ days = 0

NextDay ==
  /\ mday < DaysIn(year, mon)
  /\ mday' = mday + 1
  /\ UNCHANGED <<year, mon>>

NextMonth ==
  /\ mday = DaysIn(year, mon) /\ mon < 11
  /\ mday' = 1 /\ mon' = mon + 1
  /\ UNCHANGED year

NextYear ==
  /\ mday = DaysIn(year, mon) /\ mon = 11 /\ year < LastYear
  /\ mday' = 1 /\ mon' = 0 /\ year' = year + 1

Next == (NextDay \/ NextMonth \/ NextYear) /\ days' = days + 1

Spec == Init /\ [][Next]_vars

-----------------------------------------------------------------------------
\* kernel_mktime gives the first and the last second of the day, counted from the
\* beginning of 1970, as its comments say.
SecondsSince1970 ==
  Mktime(0, 0, 0) = DAY * days /\ Mktime(23, 59, 59) = DAY * days + (DAY - 1)
=============================================================================
