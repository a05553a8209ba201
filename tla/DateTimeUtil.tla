---------------------------- MODULE DateTimeUtil ----------------------------
(***************************************************************************)
(* The inline time helpers of Sming/Core/DateTime.h (lines 24-116), with   *)
(* C arithmetic: integer division truncates toward zero, % takes the sign  *)
(* of the dividend, and each result is converted to the helper's return    *)
(* type.  The build modelled has a signed time_t and a 32-bit unsigned     *)
(* long, so time / SECS_PER_DAY and time % SECS_PER_DAY are signed         *)
(* operations (the usual arithmetic conversions pick time_t).              *)
(*                                                                         *)
(* The state is the Unix time the application holds, set by               *)
(* DateTime(time_t) / setTime(time_t); the helpers are checked on every    *)
(* value it can take, against a reference calendar computed from years   *)
(* and months.                                                             *)
(***************************************************************************)
EXTENDS Integers

CONSTANT Times   \* the Unix times the application passes in

VARIABLE time

\* C integer division and remainder.
CDiv(a, b) == IF a >= 0 THEN a \div b ELSE -((-a) \div b)
CMod(a, b) == a - b * CDiv(a, b)

\* Conversion to an unsigned 8-bit return type.
U8(x) == x % 256

\* Useful Constants
SECS_PER_MIN  == 60
SECS_PER_HOUR == 3600
SECS_PER_DAY  == SECS_PER_HOUR * 24
DAYS_PER_WEEK == 7
SECS_YR_2000  == 946681200

numberOfSeconds(t) == U8(CMod(t, SECS_PER_MIN))
numberOfMinutes(t) == U8(CMod(CDiv(t, SECS_PER_MIN), SECS_PER_MIN))

\* numberOfHours() without the reduction to the current day.
numberOfHoursNoDay(t) == U8(CDiv(t, SECS_PER_HOUR))

numberOfHours(t)   == U8(CDiv(CMod(t, SECS_PER_DAY), SECS_PER_HOUR))

\* dayOfWeek() with the epoch's weekday taken as Wednesday.
dayOfWeekEpochWed(t) == CMod(CDiv(t, SECS_PER_DAY) + 3, DAYS_PER_WEEK)

dayOfWeek(t)       == CMod(CDiv(t, SECS_PER_DAY) + 4, DAYS_PER_WEEK)
elapsedDays(t)     == U8(CDiv(t, SECS_PER_DAY))
elapsedSecsToday(t) == CMod(t, SECS_PER_DAY)
previousMidnight(t) == CDiv(t, SECS_PER_DAY) * SECS_PER_DAY
nextMidnight(t)    == previousMidnight(t) + SECS_PER_DAY
elapsedSecsThisWeek(t) == elapsedSecsToday(t) + dayOfWeek(t) * SECS_PER_DAY

-----------------------------------------------------------------------------
(* Reference calendar (proleptic Gregorian), for times from 1970 on.       *)

IsLeap(y) == (y % 4 = 0 /\ y % 100 # 0) \/ y % 400 = 0
YearDays(y) == IF IsLeap(y) THEN 366 ELSE 365
MonthDays(y, m) ==
  CASE m = 2 -> IF IsLeap(y) THEN 29 ELSE 28
    [] m \in {4, 6, 9, 11} -> 30
    [] OTHER -> 31

\* <<year, month (1-12), day of month (1-31)>> of day d after 1970-01-01.
RECURSIVE YearFrom(_, _), MonthFrom(_, _, _)
YearFrom(y, d) ==
  IF d < YearDays(y) THEN MonthFrom(y, 1, d) ELSE YearFrom(y + 1, d - YearDays(y))
MonthFrom(y, m, d) ==
  IF d < MonthDays(y, m) THEN <<y, m, d + 1>> ELSE MonthFrom(y, m + 1, d - MonthDays(y, m))
CivilDate(days) == YearFrom(1970, days)

\* Weekday (0 = Sunday) of a civil date, by Sakamoto's method.
Weekday(date) ==
  LET off == <<0, 3, 2, 5, 0, 3, 5, 1, 4, 6, 2, 4>>
      y   == IF date[2] < 3 THEN date[1] - 1 ELSE date[1]
  IN  (y + y \div 4 - y \div 100 + y \div 400 + off[date[2]] + date[3]) % 7

-----------------------------------------------------------------------------

Init == time \in Times

\* DateTime(time_t time) / setTime(time): the application takes a new time.
SetTime(u) == time' = u

Next == \E u \in Times : SetTime(u)

Spec == Init /\ [][Next]_time

(* numberOfHours/Minutes/Seconds split the time since previousMidnight     *)
(* exactly, and the day runs from previousMidnight to nextMidnight.        *)
TimeOfDaySplits ==
  /\ previousMidnight(time) + numberOfHours(time) * SECS_PER_HOUR
       + numberOfMinutes(time) * SECS_PER_MIN + numberOfSeconds(time) = time
  /\ elapsedSecsToday(time) = time - previousMidnight(time)
  /\ numberOfHours(time) < 24 /\ numberOfMinutes(time) < 60 /\ numberOfSeconds(time) < 60

(* dayOfWeek agrees with the calendar, and elapsedSecsThisWeek counts from *)
(* the last Sunday midnight.                                               *)
WeekdayMatchesCalendar ==
  /\ dayOfWeek(time) = Weekday(CivilDate(time \div SECS_PER_DAY))
  /\ elapsedSecsThisWeek(time) < DAYS_PER_WEEK * SECS_PER_DAY
  /\ time - elapsedSecsThisWeek(time) = previousMidnight(time) - dayOfWeek(time) * SECS_PER_DAY

(* elapsedDays() is the number of days since 1970-01-01, as its comment   *)
(* says.                                                                   *)
ElapsedDaysCounts == elapsedDays(time) = time \div SECS_PER_DAY

(* A time before 1970 (time_t is signed "to allow dates prior to 1970") *)
(* lies in the day that starts at previousMidnight, a whole number of days *)
(* from the epoch.                                                         *)
MidnightBracketsTime ==
  /\ previousMidnight(time) <= time
  /\ time < nextMidnight(time)
  /\ previousMidnight(time) % SECS_PER_DAY = 0

(* SECS_YR_2000 is the Unix time of 2000-01-01 00:00:00: a time is at or  *)
(* after it exactly when its calendar year is 2000 or later.              *)
Year2000Boundary ==
  (time >= SECS_YR_2000) = (CivilDate(time \div SECS_PER_DAY)[1] >= 2000)
=============================================================================
