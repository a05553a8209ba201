---------------------------- MODULE NtpClockApp ----------------------------
(***************************************************************************)
(* The SystemClock_NTP sample (samples/SystemClock_NTP/app/application.cpp) *)
(* as the event system it is.  init() runs once when the system is ready;  *)
(* from then on the framework delivers, one at a time, the WiFi station's  *)
(* got-IP and disconnect events to the handlers init() registered, the     *)
(* expiries of the one-second print timer, and the replies that the NTP    *)
(* client owned by NtpClientDemo receives.                                 *)
(*                                                                         *)
(* NtpClientDemo itself is not part of the repository: it is modelled by   *)
(* its role in the sample (its constructor starts an NTP client that       *)
(* queries the server periodically, and its result callback sets           *)
(* SystemClock to the UTC time received).                                  *)
(***************************************************************************)
EXTENDS Naturals

CONSTANT MaxGotIP   \* bound on the addresses the station obtains in a behaviour

VARIABLES
  booted,     \* init() has run
  wifi,       \* station state: "off", "connecting" or "connected"
  demo,       \* demo != nullptr
  clockSet,   \* SystemClock has been set from an NTP reply
  lastPrint,  \* what onPrintSystemTime last printed: "none", "unset" or "set"
  gotIPs      \* got-IP events delivered so far

vars == <<booted, wifi, demo, clockSet, lastPrint, gotIPs>>

\* demo is a namespace-scope pointer: zero-initialised before init() runs.
Init ==
  /\ booted = FALSE
  /\ wifi = "off"
  /\ demo = FALSE
  /\ clockSet = FALSE
  /\ lastPrint = "none"
  /\ gotIPs = 0

(* init(): enable the station and configure it (it starts connecting),     *)
(* start the print timer, register connectFail and gotIP.                   *)
SmingInit ==
  /\ ~booted
  /\ booted' = TRUE
  /\ wifi' = "connecting"
  /\ UNCHANGED <<demo, clockSet, lastPrint, gotIPs>>

\* gotIP() with the test of line 89 inverted (demo != nullptr).
gotIPInverted ==
  IF ~demo THEN UNCHANGED demo ELSE demo' = TRUE

\* gotIP(): create the NtpClientDemo once, on the first address obtained.
gotIP ==
  IF demo THEN UNCHANGED demo ELSE demo' = TRUE

\* The station obtains an address; the event runs gotIP().
StationGotIP ==
  /\ booted
  /\ wifi = "connecting"
  /\ gotIPs < MaxGotIP
  /\ wifi' = "connected"
  /\ gotIPs' = gotIPs + 1
  /\ gotIP
  /\ UNCHANGED <<booted, clockSet, lastPrint>>

(* The station disconnects, or its connection attempt times out; the event *)
(* runs connectFail(), which only prints, and the station keeps retrying.  *)
StationDisconnect ==
  /\ booted
  /\ wifi \in {"connecting", "connected"}
  /\ wifi' = "connecting"
  /\ UNCHANGED <<booted, demo, clockSet, lastPrint, gotIPs>>

(* NtpClientDemo's client gets a reply to one of its periodic requests and *)
(* its callback calls SystemClock.setTime(timestamp, eTZ_UTC).  A request   *)
(* sent while disconnected, or lost, simply gets no reply.                 *)
NtpReply ==
  /\ demo
  /\ wifi = "connected"
  /\ clockSet' = TRUE
  /\ UNCHANGED <<booted, wifi, demo, lastPrint, gotIPs>>

(* printTimer expires every second: onPrintSystemTime() prints the local   *)
(* and UTC time SystemClock holds.                                         *)
onPrintSystemTime ==
  /\ booted
  /\ lastPrint' = IF clockSet THEN "set" ELSE "unset"
  /\ UNCHANGED <<booted, wifi, demo, clockSet, gotIPs>>

Next ==
  \/ SmingInit
  \/ StationGotIP
  \/ StationDisconnect
  \/ NtpReply
  \/ onPrintSystemTime

(* The framework calls init() once; the repeating software timer always   *)
(* fires; the NTP client keeps querying, so while the station stays        *)
(* connected a reply eventually arrives.  The WiFi events belong to the    *)
(* network and get no fairness.                                            *)
Fairness ==
  /\ WF_vars(SmingInit)
  /\ WF_vars(onPrintSystemTime)
  /\ WF_vars(NtpReply)

Spec == Init /\ [][Next]_vars /\ Fairness

-----------------------------------------------------------------------------

TypeOK ==
  /\ booted \in BOOLEAN
  /\ wifi \in {"off", "connecting", "connected"}
  /\ demo \in BOOLEAN
  /\ clockSet \in BOOLEAN
  /\ lastPrint \in {"none", "unset", "set"}
  /\ gotIPs \in 0 .. MaxGotIP

(* If the station eventually stays connected, SystemClock is eventually    *)
(* set from NTP, and the print timer then keeps printing the set time.     *)
SyncedWhenStable ==
  <>[](wifi = "connected") => <>[](lastPrint = "set")
=============================================================================
