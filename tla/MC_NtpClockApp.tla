--------------------------- MODULE MC_NtpClockApp ---------------------------
(* Model-checking instance of NtpClockApp: up to twelve got-IP events, so *)
(* that the station disconnects and regains its address eleven times.      *)
EXTENDS NtpClockApp

MC_MaxGotIP == 12
=============================================================================
