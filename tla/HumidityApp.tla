----------------------------- MODULE HumidityApp -----------------------------
(***************************************************************************)
(* The Humidity_AM2321 sample (samples/Humidity_AM2321/app/application.cpp)*)
(* as an event system.  init() runs once: it switches the AM2321 to I2C    *)
(* mode, starts the bus and the sensor, prints its id and starts a         *)
(* repeating three-second timer.  Every expiry runs read(), which prints   *)
(* one line: the result of am2321.read(), then the object's temperature    *)
(* and humidity fields.                                                    *)
(*                                                                         *)
(* The AM2321 library is not in the repository.  It is modelled by its    *)
(* role in the sample: read() queries the sensor over I2C and either       *)
(* succeeds and stores the measurement in temperature and humidity, or     *)
(* fails and leaves them as they were.  A measurement (a temperature and a *)
(* humidity) is a member of the constant set Readings; the division by     *)
(* 10.0 and the decimal printing are formatting and are left out.          *)
(***************************************************************************)
EXTENDS Naturals

CONSTANTS
  Readings,  \* the measurements the sensor can hold
  Unread     \* the fields of an AM2321 object that has not read yet

ASSUME Unread \notin Readings

NoLine == [ok |-> FALSE, value |-> Unread, actual |-> Unread]

VARIABLES
  booted,    \* init() has run
  armed,     \* procTimer is started
  sensor,    \* the measurement the physical sensor holds now
  fields,    \* am2321.temperature and am2321.humidity
  line       \* the last line read() printed: the result of am2321.read(),
             \* the fields printed after it, and (history) the measurement
             \* the sensor held during that read

vars == <<booted, armed, sensor, fields, line>>

\* The namespace-scope objects am2321 and procTimer before init() runs.
Init ==
  /\ booted = FALSE
  /\ armed = FALSE
  /\ sensor \in Readings
  /\ fields = Unread
  /\ line = NoLine

(* init(): serial setup, SCL held high for 500 ms (the sensor switches to  *)
(* I2C mode), Wire.pins and Wire.begin, am2321.begin(), the id printed,    *)
(* and the three-second timer started.  Nothing before the last statement  *)
(* changes what later steps see, so it is one step.                         *)
SmingInit ==
  /\ ~booted
  /\ booted' = TRUE
  /\ armed' = TRUE
  /\ UNCHANGED <<sensor, fields, line>>

\* The temperature or the humidity changes.
Measure ==
  /\ \E r \in Readings \ {sensor} : sensor' = r
  /\ UNCHANGED <<booted, armed, fields, line>>

\* am2321.read(): on success the fields take the sensor's measurement.
AmRead(ok) == IF ok THEN sensor ELSE fields

(* read(): Serial << am2321.read() << ',' << am2321.temperature / 10.0     *)
(* << ',' << am2321.humidity / 10.0 << endl.  am2321.read() is an argument *)
(* of the innermost operator<< call and the fields are arguments of outer  *)
(* ones.  C++17 evaluates the left operand of << first; under the          *)
(* -std=c++0x that WString.h line 75 recommends the order is unspecified,  *)
(* so the fields may be read before or after read() stores the new         *)
(* measurement.                                                            *)
read(ok, fieldsFirst) ==
  /\ fields' = AmRead(ok)
  /\ line' = [ok |-> ok, value |-> IF fieldsFirst THEN fields ELSE AmRead(ok),
              actual |-> sensor]

\* procTimer expires: the timer task runs read(); the I2C transfer may fail,
\* and the compiler chose one order for the operands.
TimerFire ==
  /\ armed
  /\ \E ok, fieldsFirst \in BOOLEAN : read(ok, fieldsFirst)
  /\ UNCHANGED <<booted, armed, sensor>>

Next == SmingInit \/ Measure \/ TimerFire

(* The framework calls init() once and the repeating timer keeps firing.   *)
Fairness == WF_vars(SmingInit) /\ WF_vars(TimerFire)

Spec == Init /\ [][Next]_vars /\ Fairness

-----------------------------------------------------------------------------

TypeOK ==
  /\ booted \in BOOLEAN /\ armed \in BOOLEAN
  /\ sensor \in Readings
  /\ fields \in Readings \cup {Unread}
  /\ line \in [ok : BOOLEAN, value : Readings \cup {Unread}, actual : Readings \cup {Unread}]

(* Every line printed after a successful am2321.read() carries the         *)
(* measurement the sensor held during that read, not the one of an earlier *)
(* read, whatever the sensor held when earlier lines were printed.         *)
LineReportsItsRead ==
  line # NoLine /\ line.ok => line.value = line.actual
=============================================================================
