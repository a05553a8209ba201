-------------------------- MODULE MC_DateTimeUtil32 --------------------------
(* The 32-bit time_t build on the times of MC_DateTimeUtil: the days just   *)
(* before the epoch and a year before it, at every boundary of a day.       *)
EXTENDS DateTimeUtil32, MC_DateTimeUtil
=============================================================================
