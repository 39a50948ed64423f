----------------------------- MODULE KTimeProofs -----------------------------
(***************************************************************************)
(* Proof of what kernel_mktime computes, for every date from 1970 to the   *)
(* last year.  The walk along the calendar never looks at the code, so the *)
(* inductive invariant is the closed form of the number of days it has     *)
(* walked; the seconds of kernel_mktime are compared with that form.       *)
(***************************************************************************)
EXTENDS KTime, TLAPS

\* The walk ends where a 32-bit long does.
WalkBounded == LastYear \in 1970 .. 2037

Elapsed == year - 1970

\* Days of the year before month m, in the true calendar.
DaysBefore(y, m) == month[m + 1] - (IF m > 1 /\ ~IsLeap(y) THEN 1 ELSE 0)

\* The date is one of the calendar, and days counts whole years, their leap days,
\* the months of this year and the days of this month.
IInv ==
  /\ year \in 1970 .. LastYear /\ mon \in 0 .. 11 /\ mday \in 1 .. DaysIn(year, mon)
  /\ days = 365 * Elapsed + LeapDays(Elapsed) + DaysBefore(year, mon) + mday - 1

\* How far kernel_mktime is off.  Past February its correction takes 1970, 1974, ...
\* for the leap years: those are a day ahead, and the leap years a day behind.
OffByALeapDay ==
  LET ahead == mon > 1 /\ year % 4 = 2
      behind == mon > 1 /\ IsLeap(year)
      seconds == DAY * (days + (IF ahead THEN 1 ELSE 0) - (IF behind THEN 1 ELSE 0))
  IN  Mktime(0, 0, 0) = seconds /\ Mktime(23, 59, 59) = seconds + (DAY - 1)

\* kernel_mktime is exact in January and February, where the leap days of the years
\* before are all there is to count, and in the whole of the odd years.
ExactInOddYears == mon <= 1 \/ year % 2 = 1 => SecondsSince1970

\* The leap days of the years before, from year to year.
LEMMA LeapDaysStep ==
  ASSUME NEW y \in Nat
  PROVE  /\ LeapDays(y) \in Nat
         /\ LeapDays(y + 1) = LeapDays(y) + (IF IsLeap(1970 + y) THEN 1 ELSE 0)
  BY DEF LeapDays, IsLeap

\* The table of time.c is the true calendar's: every month is as much later than
\* the one before as that one is long.
LEMMA MonthTable ==
  ASSUME NEW y \in Nat, NEW m \in 0 .. 11
  PROVE  /\ DaysIn(y, m) \in 28 .. 31 /\ DaysBefore(y, m) \in Nat
         /\ m < 11 => DaysBefore(y, m + 1) = DaysBefore(y, m) + DaysIn(y, m)
         /\ DaysBefore(y, 0) = 0
         /\ m = 11 => DaysBefore(y, m) + DaysIn(y, m) = 365 + (IF IsLeap(y) THEN 1 ELSE 0)
  <1>1. /\ month[1] = 0 /\ month[2] = 31 /\ month[3] = 60 /\ month[4] = 91 /\ month[5] = 121
        /\ month[6] = 152 /\ month[7] = 182 /\ month[8] = 213 /\ month[9] = 244
        /\ month[10] = 274 /\ month[11] = 305 /\ month[12] = 335
    BY DEF month
  <1>2. \/ m = 0 \/ m = 1 \/ m = 2 \/ m = 3 \/ m = 4 \/ m = 5
        \/ m = 6 \/ m = 7 \/ m = 8 \/ m = 9 \/ m = 10 \/ m = 11
    OBVIOUS
  <1>3. CASE IsLeap(y)
    BY <1>1, <1>2, <1>3 DEF DaysIn, DaysBefore
  <1>4. CASE ~IsLeap(y)
    BY <1>1, <1>2, <1>4 DEF DaysIn, DaysBefore
  <1>5. QED
    BY <1>3, <1>4

\* A day of the walk.
LEMMA NextIInv ==
  ASSUME WalkBounded
  PROVE  IInv /\ [Next]_vars => IInv'
  <1> SUFFICES ASSUME IInv, [Next]_vars
               PROVE  IInv'
    OBVIOUS
  <1> DEFINE y == Elapsed
  <1>1. /\ year \in Nat /\ y \in Nat /\ year = 1970 + y /\ LastYear \in Nat /\ LeapDays(y) \in Nat
        /\ mon \in 0 .. 11 /\ mday \in 1 .. DaysIn(year, mon) /\ DaysIn(year, mon) \in 28 .. 31
        /\ DaysBefore(year, mon) \in Nat
        /\ days = 365 * y + LeapDays(y) + DaysBefore(year, mon) + mday - 1
    <2>1. /\ year \in Nat /\ y \in Nat /\ year = 1970 + y /\ LastYear \in Nat
      BY DEF WalkBounded, IInv, Elapsed
    <2>2. LeapDays(y) \in Nat
      BY <2>1, LeapDaysStep
    <2>3. /\ mon \in 0 .. 11 /\ mday \in 1 .. DaysIn(year, mon)
          /\ days = 365 * y + LeapDays(y) + DaysBefore(year, mon) + mday - 1
      BY DEF IInv
    <2>4. DaysIn(year, mon) \in 28 .. 31
      BY DEF DaysIn
    <2>5. DaysBefore(year, mon) \in Nat
      <3>1. year \in Nat /\ mon \in 0 .. 11
        BY <2>1, <2>3
      <3>2. QED
        BY <3>1, MonthTable
    <2>6. QED
      BY <2>1, <2>2, <2>3, <2>4, <2>5
  <1>2. CASE UNCHANGED vars
    BY <1>2 DEF vars, IInv, Elapsed
  <1>3. CASE NextDay /\ days' = days + 1
    BY <1>1, <1>3 DEF NextDay, IInv, Elapsed
  <1>4. CASE NextMonth /\ days' = days + 1
    <2>1. /\ year' = year /\ mon' = mon + 1 /\ mday' = 1 /\ mon < 11 /\ mday = DaysIn(year, mon)
          /\ days' = days + 1
      BY <1>4 DEF NextMonth
    <2>2. mon + 1 \in 0 .. 11 /\ DaysIn(year, mon + 1) \in 28 .. 31
      BY <1>1, <2>1 DEF DaysIn
    <2>3. DaysBefore(year, mon + 1) = DaysBefore(year, mon) + DaysIn(year, mon)
      <3>1. year \in Nat /\ mon \in 0 .. 11 /\ mon < 11
        BY <1>1, <2>1
      <3>2. QED
        BY <3>1, MonthTable
    <2>4. days' = 365 * y + LeapDays(y) + DaysBefore(year, mon + 1) + 1 - 1
      BY <1>1, <2>1, <2>3
    <2>5. QED
      BY <2>1, <2>2, <2>4 DEF IInv, Elapsed
  <1>5. CASE NextYear /\ days' = days + 1
    <2>1. /\ year' = year + 1 /\ mon' = 0 /\ mday' = 1 /\ mon = 11 /\ mday = DaysIn(year, mon)
          /\ days' = days + 1 /\ year < LastYear
      BY <1>5 DEF NextYear
    <2>2. DaysBefore(year, 11) + DaysIn(year, 11) = 365 + (IF IsLeap(year) THEN 1 ELSE 0)
      BY <1>1, MonthTable
    <2>3. LeapDays(y + 1) = LeapDays(y) + (IF IsLeap(year) THEN 1 ELSE 0)
      BY <1>1, LeapDaysStep
    <2>4. year + 1 \in Nat /\ 0 \in 0 .. 11
      BY <1>1
    <2>5. DaysIn(year + 1, 0) \in 28 .. 31 /\ DaysBefore(year + 1, 0) = 0
      BY <2>4, MonthTable
    <2>6. days' = 365 * (y + 1) + LeapDays(y + 1)
      <3>1. CASE IsLeap(year)
        BY <1>1, <2>1, <2>2, <2>3, <3>1
      <3>2. CASE ~IsLeap(year)
        BY <1>1, <2>1, <2>2, <2>3, <3>2
      <3>3. QED
        BY <3>1, <3>2
    <2>7. Elapsed' = y + 1
      BY <1>1, <2>1 DEF Elapsed
    <2>8. year + 1 \in 1970 .. LastYear /\ LeapDays(y + 1) \in Nat
      BY <1>1, <2>1, LeapDaysStep
    <2> HIDE DEF y
    <2>9. days' = 365 * (y + 1) + LeapDays(y + 1) + DaysBefore(year + 1, 0) + 1 - 1
      BY <1>1, <2>5, <2>6, <2>8
    <2>10. 1 \in 1 .. DaysIn(year + 1, 0)
      BY <2>5
    <2>11. QED
      BY <2>1, <2>7, <2>8, <2>9, <2>10 DEF IInv
  <1>6. QED
    BY <1>2, <1>3, <1>4, <1>5 DEF Next

\* The closed form of the days walked holds on the whole walk.
THEOREM KTimeInvariant ==
  ASSUME WalkBounded
  PROVE  Spec => []IInv
  <1>1. Init => IInv
    <2> SUFFICES ASSUME Init
                 PROVE  IInv
      OBVIOUS
    <2>1. Elapsed = 0 /\ LeapDays(0) = 0
      BY DEF Init, Elapsed, LeapDays
    <2>2. DaysIn(1970, 0) \in 28 .. 31 /\ DaysBefore(1970, 0) = 0
      <3>1. 1970 \in Nat /\ 0 \in 0 .. 11
        OBVIOUS
      <3>2. QED
        BY <3>1, MonthTable
    <2>3. QED
      BY <2>1, <2>2 DEF WalkBounded, Init, IInv
  <1>2. QED
    BY <1>1, NextIInv, PTL DEF Spec

\* kernel_mktime is right in January, February and the odd years, a day ahead past
\* February of 1970, 1974, ... and a day behind past February of the leap years.
THEOREM KTimeOffByALeapDay ==
  ASSUME WalkBounded
  PROVE  Spec => []OffByALeapDay
  <1>1. IInv => OffByALeapDay
    <2> SUFFICES ASSUME IInv
                 PROVE  OffByALeapDay
      OBVIOUS
    <2> DEFINE y == Elapsed
               before == month[mon + 1]
    <2>1. /\ year \in Nat /\ y \in Nat /\ year = 1970 + y /\ year - 1900 - 70 = y
          /\ mon \in 0 .. 11 /\ mday \in 1 .. DaysIn(year, mon) /\ DaysIn(year, mon) \in 28 .. 31
          /\ days = 365 * y + LeapDays(y) + DaysBefore(year, mon) + mday - 1
      <3>1. /\ year \in Nat /\ y \in Nat /\ year = 1970 + y /\ year - 1900 - 70 = y
        BY DEF WalkBounded, IInv, Elapsed
      <3>2. /\ mon \in 0 .. 11 /\ mday \in 1 .. DaysIn(year, mon)
            /\ days = 365 * y + LeapDays(y) + DaysBefore(year, mon) + mday - 1
        BY DEF IInv
      <3>3. DaysIn(year, mon) \in 28 .. 31
        BY DEF DaysIn
      <3>4. QED
        BY <3>1, <3>2, <3>3
    <2>2. before \in Nat /\ LeapDays(y) \in Nat /\ mday \in Nat /\ mon \in Nat
      <3>1. before \in Nat
        BY <2>1 DEF month
      <3>2. LeapDays(y) \in Nat
        BY <2>1, LeapDaysStep
      <3>3. QED
        BY <2>1, <3>1, <3>2
    <2>3. /\ IsLeap(year) <=> y % 4 = 2
          /\ year % 4 = 2 <=> y % 4 = 0
          /\ (y + 4) % 4 # 0 <=> y % 4 # 0
      BY <2>1 DEF IsLeap
    <2>4. DAY = 86400 /\ YEAR = 31536000 /\ HOUR = 3600 /\ MINUTE = 60
      BY DEF DAY, YEAR, HOUR, MINUTE
    <2> DEFINE fix == IF mon > 1 /\ y % 4 # 0 THEN 86400 ELSE 0
               secs(h, mi, s) == 31536000 * y + 86400 * LeapDays(y) + 86400 * before - fix
                                   + 86400 * (mday - 1) + 3600 * h + 60 * mi + s
    <2>5. LeapCorrection(y, mon) = fix
      BY <2>3, <2>4 DEF LeapCorrection
    <2>6. \A h, mi, s : Mktime(h, mi, s) = secs(h, mi, s)
      BY <2>1, <2>4, <2>5 DEF Mktime, kernel_mktime, MonthStart
    <2> DEFINE off == (IF mon > 1 /\ year % 4 = 2 THEN 1 ELSE 0) - (IF mon > 1 /\ IsLeap(year) THEN 1 ELSE 0)
               odd == IF mon > 1 /\ y % 4 # 2 THEN 1 ELSE 0
    <2>7. days = 365 * y + LeapDays(y) + before - odd + mday - 1
      BY <2>1, <2>3 DEF DaysBefore
    <2>8. 86400 * (off - odd) = 0 - fix /\ off \in Int /\ odd \in Int /\ fix \in Int
      BY <2>1, <2>3
    <2> HIDE DEF before, y, off, odd, fix
    <2>9. 86400 * (days + off) = secs(0, 0, 0)
      BY <2>2, <2>7, <2>8, <2>1
    <2>10. secs(23, 59, 59) = secs(0, 0, 0) + 86399
      BY <2>2, <2>8, <2>1
    <2>11. days \in Int
      BY <2>1, <2>2, <2>7, <2>8
    <2> HIDE DEF secs
    <2>12. OffByALeapDay <=> Mktime(0, 0, 0) = 86400 * (days + off)
                             /\ Mktime(23, 59, 59) = 86400 * (days + off) + 86399
      <3> DEFINE a == IF mon > 1 /\ year % 4 = 2 THEN 1 ELSE 0
                 b == IF mon > 1 /\ IsLeap(year) THEN 1 ELSE 0
      <3>1. a \in Int /\ b \in Int /\ off = a - b /\ days + a - b = days + off
        BY <2>11 DEF off
      <3> HIDE DEF a, b
      <3>2. OffByALeapDay <=> Mktime(0, 0, 0) = 86400 * (days + a - b)
                             /\ Mktime(23, 59, 59) = 86400 * (days + a - b) + 86399
        BY <2>4 DEF OffByALeapDay, a, b
      <3>3. QED
        BY <3>1, <3>2
    <2>13. QED
      BY <2>6, <2>9, <2>10, <2>12
  <1>2. QED
    BY <1>1, KTimeInvariant, PTL

\* So it is exact in January, in February and in the odd years.
THEOREM KTimeExact ==
  ASSUME WalkBounded
  PROVE  Spec => []ExactInOddYears
  <1>1. IInv /\ OffByALeapDay => ExactInOddYears
    <2> SUFFICES ASSUME IInv, OffByALeapDay, mon <= 1 \/ year % 2 = 1
                 PROVE  SecondsSince1970
      BY DEF ExactInOddYears
    <2>1. year \in Nat /\ mon \in Nat /\ days \in Int
      <3>1. year \in Nat /\ Elapsed \in Nat /\ mon \in 0 .. 11 /\ DaysIn(year, mon) \in 28 .. 31
        BY DEF WalkBounded, IInv, Elapsed, DaysIn
      <3>2. LeapDays(Elapsed) \in Nat /\ DaysBefore(year, mon) \in Nat
        <4>1. LeapDays(Elapsed) \in Nat
          BY <3>1, LeapDaysStep
        <4>2. DaysBefore(year, mon) \in Nat
          BY <3>1, MonthTable
        <4>3. QED
          BY <4>1, <4>2
      <3>3. mday \in 1 .. DaysIn(year, mon)
            /\ days = 365 * Elapsed + LeapDays(Elapsed) + DaysBefore(year, mon) + mday - 1
        BY DEF IInv
      <3>4. QED
        BY <3>1, <3>2, <3>3
    <2>2. ~(mon > 1 /\ year % 4 = 2) /\ ~(mon > 1 /\ year % 4 = 0)
      <3>1. year % 4 = 2 => year % 2 = 0
        BY <2>1
      <3>2. year % 4 = 0 => year % 2 = 0
        BY <2>1
      <3>3. QED
        BY <2>1, <3>1, <3>2
    <2>3. days + 0 - 0 = days
      BY <2>1
    <2>4. QED
      BY <2>2, <2>3 DEF OffByALeapDay, SecondsSince1970, IsLeap
  <1>2. QED
    BY <1>1, KTimeInvariant, KTimeOffByALeapDay, PTL
=============================================================================
