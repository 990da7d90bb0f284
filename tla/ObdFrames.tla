----------------------------- MODULE ObdFrames ------------------------------
(***************************************************************************)
(* The identifiers on the control bus, and the parsers of the client       *)
(* library (api/src/oscc.c) for the frames of the car that the gateway     *)
(* republishes there.  A frame is its identifier and its eight bytes,      *)
(* numbered from 0 as in the code; the result of a parser is OSCC_ERROR    *)
(* for the frame of another identifier, and otherwise what it stores       *)
(* through its pointer, in units that make it an integer.                  *)
(***************************************************************************)
EXTENDS Integers

\* api/include/can_protocols.
BrakeIds      == [enable |-> 112, disable |-> 113, command |-> 114, report |-> 115]
SteeringIds   == [enable |-> 128, disable |-> 129, command |-> 130, report |-> 131]
ThrottleIds   == [enable |-> 144, disable |-> 145, command |-> 146, report |-> 147]
FaultReportId == 175

Purposes == {"enable", "disable", "command", "report"}

OsccIds ==
  UNION {{ids[p] : p \in Purposes} : ids \in {BrakeIds, SteeringIds, ThrottleIds}}
    \cup {FaultReportId}

OSCC_ERROR == "OSCC_ERROR"

Byte    == 0 .. 255
Payload == [0 .. 7 -> Byte]

\* A little-endian number of 12 bits.
Raw12(data, offset) == (data[offset + 1] % 16) * 256 + data[offset]

\* The value of 16 bits as an int16_t.
Int16(bits) == IF bits >= 32768 THEN bits - 65536 ELSE bits

Parsed(frame, id, value) ==
  IF frame.id # id THEN [ret |-> OSCC_ERROR] ELSE [ret |-> "OSCC_OK", value |-> value]

\* get_wheel_speed: raw / 3.2 cut to an integer, in tenths.
WheelSpeed(obd, frame, offset) ==
  Parsed(frame, obd.wheels, (Raw12(frame.data, offset) * 5) \div 16)

get_wheel_speed_right_rear(obd, frame)  == WheelSpeed(obd, frame, 6)
get_wheel_speed_left_rear(obd, frame)   == WheelSpeed(obd, frame, 4)
get_wheel_speed_right_front(obd, frame) == WheelSpeed(obd, frame, 2)
get_wheel_speed_left_front(obd, frame)  == WheelSpeed(obd, frame, 0)

\* In tenths of a degree.
get_steering_wheel_angle(obd, frame) ==
  Parsed(frame, obd.angle, -Int16(frame.data[1] * 256 + frame.data[0]))

\* In tenths of the unit on the Soul, in fortieths on the Niro.
get_brake_pressure(obd, frame, niro) ==
  Parsed(frame, obd.pressure, Raw12(frame.data, IF niro THEN 3 ELSE 4))

--------------------------------------------------------------------------
(* What an application relies on. *)

\* The rounding of a wheel speed loses less than a tenth: the value, in units
\* of 1/32, is the raw number to within the tenth it is shown in.
SpeedIsRaw(obd, frame, offset) ==
  LET lost == 10 * Raw12(frame.data, offset) - 32 * WheelSpeed(obd, frame, offset).value
  IN  frame.id = obd.wheels => 0 <= lost /\ lost < 32

\* A frame the gateway republishes is never taken for one of OSCC's, nor for
\* one of another kind: the modules act on the identifier alone.
ForeignStaysForeign(obd) ==
  /\ \A f \in DOMAIN obd : obd[f] \notin OsccIds /\ obd[f] \in 0 .. 2047
  /\ \A f, g \in DOMAIN obd : obd[f] = obd[g] => f = g

\* The identifiers of OSCC mean one thing each.
IdsDistinct ==
  /\ \A a, b \in {BrakeIds, SteeringIds, ThrottleIds} : \A p, q \in Purposes :
       a[p] = b[q] => a = b /\ p = q
  /\ \A a \in {BrakeIds, SteeringIds, ThrottleIds} : \A p \in Purposes : a[p] # FaultReportId
=============================================================================
