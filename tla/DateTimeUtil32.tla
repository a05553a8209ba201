--------------------------- MODULE DateTimeUtil32 ---------------------------
(***************************************************************************)
(* The DateTime.h helpers (lines 24-116) in a build whose time_t is 32     *)
(* bits wide: per the note at DateTime.h line 127, the Windows host and     *)
(* ESP-IDF 4.x builds.  There unsigned long is 32 bits as well, so in      *)
(* time / SECS_PER_DAY and time % SECS_PER_MIN the usual arithmetic        *)
(* conversions turn time into an unsigned long (time + 2^32 when it is    *)
(* negative), and a result returned as time_t is converted back modulo     *)
(* 2^32.  TLC's integers are 32-bit, so 2^32 is never formed: the         *)
(* operators below work on quotients and remainders instead.              *)
(***************************************************************************)
EXTENDS DateTimeUtil

MaxInt == 2147483647   \* INT32_MAX, the largest time_t

\* 2^32 = Q32(k) * k + R32(k).
Q32(k) == 2 * (MaxInt \div k) + (2 * (MaxInt % k) + 2) \div k
R32(k) == (2 * (MaxInt % k) + 2) % k

\* (unsigned long)t / k and (unsigned long)t % k.
UDiv(t, k) == IF t >= 0 THEN t \div k ELSE Q32(k) + (t + R32(k)) \div k
UMod(t, k) == IF t >= 0 THEN t % k ELSE (t + R32(k)) % k

\* days * SECS_PER_DAY computed in unsigned long and returned as time_t.
DaysToTime(days) ==
  IF days <= MaxInt \div SECS_PER_DAY THEN days * SECS_PER_DAY
  ELSE (days - Q32(SECS_PER_DAY)) * SECS_PER_DAY - R32(SECS_PER_DAY)

\* a + b for 0 < b, in unsigned long, returned as time_t.
AddWrap(a, b) == IF a > MaxInt - b THEN ((a - MaxInt - 1) + b) - MaxInt - 1 ELSE a + b

numberOfSeconds32(t)  == UMod(t, SECS_PER_MIN)

numberOfMinutes32(t)  == UDiv(t, SECS_PER_MIN) % SECS_PER_MIN
numberOfHours32(t)    == UMod(t, SECS_PER_DAY) \div SECS_PER_HOUR
dayOfWeek32(t)        == (UDiv(t, SECS_PER_DAY) + 4) % DAYS_PER_WEEK
elapsedDays32(t)      == U8(UDiv(t, SECS_PER_DAY))
elapsedSecsToday32(t) == UMod(t, SECS_PER_DAY)
previousMidnight32(t) == DaysToTime(UDiv(t, SECS_PER_DAY))

nextMidnight32(t)     == AddWrap(previousMidnight32(t), SECS_PER_DAY)
elapsedSecsThisWeek32(t) == elapsedSecsToday32(t) + dayOfWeek32(t) * SECS_PER_DAY

-----------------------------------------------------------------------------

(* DateTime.h line 130: "The value is signed which allows dates prior to   *)
(* 1970 to be represented."  So a negative time_t is a time before the     *)
(* epoch, and the helpers should read it as that time: the seconds since   *)
(* its midnight, that midnight, and its weekday (1970-01-01 was a         *)
(* Thursday).  \div and % of TLA+ round down, as a calendar does.          *)
SignedReadingOfPre1970 ==
  time < 0 =>
    /\ elapsedSecsToday32(time) = time % SECS_PER_DAY
    /\ previousMidnight32(time) = (time \div SECS_PER_DAY) * SECS_PER_DAY
    /\ dayOfWeek32(time) = ((time \div SECS_PER_DAY) + 4) % DAYS_PER_WEEK
=============================================================================
