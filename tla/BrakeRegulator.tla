--------------------------- MODULE BrakeRegulator ---------------------------
(***************************************************************************)
(* The arithmetic of the petrol brake: the pressures of helper.cpp, the    *)
(* PID step of common/libs/pid and the duty cycles update_brake makes of   *)
(* its result; PetrolBrake has the steps in which it is used.              *)
(*                                                                         *)
(* Pressures are in tenths of a decibar, times in milliseconds, the        *)
(* integral in tenths of a decibar times milliseconds and the output of    *)
(* the controller in thousandths, cut downwards.  A float the command can  *)
(* make no number is a set: of its value, or empty.                        *)
(***************************************************************************)
EXTENDS Integers

\* kia_soul_petrol.h.
PressureMin       == 120
PressureMax       == 8783
AccumulatorMin    == 7776
AccumulatorMax    == 8780
WindupGuard       == 300000     \* 30 decibar seconds
OutputMin         == -10000
OutputMax         == 10000
AccumulatorRange  == [inMin |-> 10000, inMax |-> 110000, outMin |-> 80, outMax |-> 105]
ReleaseRange      == [inMin |-> 0,     inMax |-> 60000,  outMin |-> 65, outMax |-> 100]

Pressure == PressureMin .. PressureMax

Clamp(x, low, high) == IF x < low THEN low ELSE IF x > high THEN high ELSE x

\* raw_adc_to_pressure: 2.4 decibar a step, less 252.1 decibar.
RawToPressure(adc) == Clamp(24 * adc - 2521, PressureMin, PressureMax)

\* read_pressure_sensor: the mean of the front wheels.
WheelPressure(adcLeft, adcRight) == (RawToPressure(adcLeft) + RawToPressure(adcRight)) \div 2

\* accumulator_maintain_pressure: whether the pump runs afterwards.
Pump(running, adc) ==
  IF RawToPressure(adc) <= AccumulatorMin THEN TRUE
  ELSE IF RawToPressure(adc) >= AccumulatorMax THEN FALSE
  ELSE running

\* The target for a commanded position in thousandths, which nothing clamps.
Target(position) ==
  {PressureMin + (p * (PressureMax - PressureMin)) \div 1000 : p \in position}

--------------------------------------------------------------------------
(* pid_update; pid_zeroize, called at start-up only, sets the integral to 0. *)
(* The derivative gain is 0.                                                *)

NaN       == {}
Zeroized  == {0}

\* The integral after a step; no time passed is PID_ERROR, which moves nothing.
Integral(integral, setpoint, input, dt) ==
  IF dt <= 0 THEN integral
  ELSE {Clamp(i + (s - input) * dt, -WindupGuard, WindupGuard) :
          i \in integral, s \in setpoint}

\* 0.65 times the error and 1.75 times the integral.
Control(integral, setpoint, input) ==
  {(65000 * (s - input) + 175 * i) \div 1000 : i \in integral, s \in setpoint}

--------------------------------------------------------------------------
(* The duty cycles update_brake makes of the output. *)

Vents(control)       == \E c \in control : c < OutputMin
Pressurises(control) == \E c \in control : c > OutputMax

\* interpolate.
Interpolate(x, r) ==
  r.outMin + ((x - r.inMin) * (r.outMax - r.outMin)) \div (r.inMax - r.inMin)

\* The conversion to uint16_t is undefined for what does not fit.
LastUint16 == 65535

Uint16 == 0 .. LastUint16

ToUint16(x) == IF x \in Uint16 THEN {x} ELSE Uint16

\* Cut to the greatest duty cycle, but not to the least.
DutyCycle(x, r) ==
  {IF n > r.outMax THEN r.outMax ELSE n : n \in ToUint16(Interpolate(x, r))}

ReleaseDuty(control)     == UNION {DutyCycle(-c, ReleaseRange) : c \in control}
AccumulatorDuty(control) == UNION {DutyCycle(c, AccumulatorRange) : c \in control}

--------------------------------------------------------------------------
(* What the brakes rely on. *)

Wound == -WindupGuard .. WindupGuard

\* For positions from 0 to 1 the solenoid that is worked gets a duty cycle at
\* which it moves at all, and never more than its stop.
DutyMoves(control) ==
  /\ Vents(control) => ReleaseDuty(control) \subseteq 65 .. 100
  /\ Pressurises(control) => AccumulatorDuty(control) \subseteq 80 .. 105

\* Whatever the integral has become, wheels more than 97 decibar off their
\* target are worked in the right direction.
FarErrorWins(integral, setpoint, input) ==
  LET control == Control({integral}, {setpoint}, input)
  IN  /\ input - setpoint > 970 => Vents(control) /\ ~Pressurises(control)
      /\ setpoint - input > 970 => Pressurises(control) /\ ~Vents(control)

\* One command that is no number takes the integral with it: from then on no
\* command works a solenoid.
DeadAfterNaN(setpoint, input, dt) ==
  LET after == Integral(NaN, setpoint, input, dt)
  IN  /\ after = NaN
      /\ ~Vents(Control(after, setpoint, input))
      /\ ~Pressurises(Control(after, setpoint, input))
=============================================================================
