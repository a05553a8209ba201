--------------------------- MODULE MC_DateTimeUtil ---------------------------
(***************************************************************************)
(* Times for checking DateTimeUtil.  The seconds of a day cover its first, *)
(* minute and hour boundaries and its last second; the days cover the     *)
(* first weeks after the epoch, the 255/256 day boundary, leap days, the   *)
(* year 2000 and the last day a signed 32-bit value reaches (TLC's         *)
(* integers are 32-bit, so later 64-bit times are out of reach).          *)
(***************************************************************************)
EXTENDS DateTimeUtil

DaySeconds == {0, 1, 59, 60, 3599, 3600, 86399}

PostEpochDays == {0, 1, 2, 3, 6, 7, 58, 59, 255, 256, 789, 790, 10956, 10957, 11015, 11016, 24854}

PreEpochDays == {-1, -2, -7, -365}

TimesFrom1970 ==
  {d * SECS_PER_DAY + s : d \in PostEpochDays, s \in DaySeconds} \cup {2147483647}

TimesBefore1970 == {d * SECS_PER_DAY + s : d \in PreEpochDays, s \in DaySeconds}
=============================================================================
