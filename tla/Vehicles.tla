------------------------------ MODULE Vehicles ------------------------------
(***************************************************************************)
(* The numbers of api/include/vehicles and what the spoofing modules       *)
(* compute with them: from a commanded pedal position or torque to the     *)
(* voltage, the DAC value and the word sent to the DAC.                    *)
(*                                                                         *)
(* The code computes in 32-bit floats.  Here a voltage is an integer       *)
(* number of 10^-7 V, a command a number of thousandths, and the product   *)
(* with STEPS_PER_VOLT may be off by 0.0026 of a step either way, more     *)
(* than the roundings of these few operations add up to.                   *)
(***************************************************************************)
EXTENDS Integers

\* CONSTRAIN and Arduino's constrain.
Constrain(x, low, high) == IF x < low THEN low ELSE IF x > high THEN high ELSE x

\* A spoofed signal: its bounds in millivolts and in DAC steps.
Signal(voltageMin, voltageMax, rangeMin, rangeMax) ==
  [voltageMin |-> voltageMin * 10000, voltageMax |-> voltageMax * 10000,
   rangeMin |-> rangeMin, rangeMax |-> rangeMax]

SoulEvBrake ==
  [low  |-> Signal(333, 1120, 273, 917),  lightLow  |-> 300,
   high |-> Signal(698, 2290, 572, 1875), lightHigh |-> 600]

NiroBrake ==
  [low  |-> Signal(609, 2880, 499, 2359), lightLow  |-> 600,
   high |-> Signal(279, 1386, 229, 1135), lightHigh |-> 300]

SoulEvThrottle     == [low |-> Signal(300, 2000, 245, 1638), high |-> Signal(700, 4100, 573, 3358)]
SoulPetrolThrottle == [low |-> Signal(300, 2000, 245, 1638), high |-> Signal(700, 4100, 573, 3358)]
NiroThrottle       == [low |-> Signal(380, 2104, 311, 1723), high |-> Signal(757, 4207, 620, 3446)]

\* Torques in ten-thousandths, the calibration curves in 10^-7 V.
SteeringColumn ==
  [minTorque |-> -128000, maxTorque |-> 127000,
   low  |-> Signal(800, 4100, 656, 3358), lowScale  |-> 135,  lowOffset  |-> 23900000,
   high |-> Signal(900, 4200, 738, 3440), highScale |-> -145, highOffset |-> 24200000]

SoulEvSteering     == SteeringColumn
SoulPetrolSteering == SteeringColumn
NiroSteering       == SteeringColumn

Brakes    == {SoulEvBrake, NiroBrake}
Throttles == {SoulEvThrottle, SoulPetrolThrottle, NiroThrottle}
Pedals    == {[low |-> b.low, high |-> b.high] : b \in Brakes} \cup Throttles
Steerings == {SoulEvSteering, SoulPetrolSteering, NiroSteering}
Signals   == UNION {{v.low, v.high} : v \in Pedals \cup Steerings}

\* The OBD frames the gateway republishes and the client library parses.
SoulEvObd     == [angle |-> 688, wheels |-> 1200, pressure |-> 544, throttle |-> 512, speed |-> 1316]
NiroObd       == [angle |-> 688, wheels |-> 902,  pressure |-> 544, throttle |-> 881, speed |-> 1322]
SoulPetrolObd == [angle |-> 688, wheels |-> 1200, pressure |-> 544]

--------------------------------------------------------------------------
(* From a command to the DAC. *)

\* ..._POSITION_TO_VOLTS_LOW and _HIGH, their argument clamped to 0 .. 1 and
\* their value to the bounds of the signal.
PedalVolts(s, position) ==
  LET p == Constrain(position, 0, 1000)
  IN  Constrain(p * ((s.voltageMax - s.voltageMin) \div 1000) + s.voltageMin,
                s.voltageMin, s.voltageMax)

\* torque_command * MAXIMUM_TORQUE_COMMAND, clamped.
Torque(v, command) ==
  Constrain(command * (v.maxTorque \div 1000), v.minTorque, v.maxTorque)

\* STEERING_TORQUE_TO_VOLTS_LOW and _HIGH.
LowCurve(v, command)  == v.lowScale * Torque(v, command) + v.lowOffset
HighCurve(v, command) == v.highScale * Torque(v, command) + v.highOffset

LowVolts(v, command)  == Constrain(LowCurve(v, command), v.low.voltageMin, v.low.voltageMax)
HighVolts(v, command) == Constrain(HighCurve(v, command), v.high.voltageMin, v.high.voltageMax)

\* STEPS_PER_VOLT * voltage, cut to an integer.
Steps(volts) == {(32 * volts + e) \div 390625 : e \in {-1000, 0, 1000}}

\* What a command that is no number becomes: it passes both CONSTRAINs, and
\* its conversion to uint16_t is undefined.
NoNumber == 0 .. 65535

\* The second clamp, in update_throttle, update_steering and update_brake.
Spoof(s, steps) == Constrain(steps, s.rangeMin, s.rangeMax)

PedalSpoof(s, position) == {Spoof(s, n) : n \in Steps(PedalVolts(s, position))}

\* update_brake: PIN_BRAKE_LIGHT_ENABLE.
BrakeLight(b, spoofLow, spoofHigh) == spoofHigh > b.lightHigh \/ spoofLow > b.lightLow

DacValue == 0 .. 4095

\* DAC_MCP49xx::_output with 12 bits, unbuffered reference and gain 1.
DacWord(channel, value) == channel * 32768 + 8192 + 4096 + (value % 4096)

--------------------------------------------------------------------------
(* What a reader of the headers relies on. *)

\* The bounds of a signal in steps are its bounds in volts, to a step.
SameBounds(s) ==
  /\ \A n \in Steps(s.voltageMin) : n - s.rangeMin \in {-1, 0, 1}
  /\ \A n \in Steps(s.voltageMax) : n - s.rangeMax \in {-1, 0, 1}

\* So the second clamp moves what the first let through by a step at most.
ClampsAgree(s, volts) ==
  \A n \in Steps(volts) : Spoof(s, n) - n \in {-1, 0, 1}

\* Both channels of a pedal stand for the same position, within a step or
\* two of either.
PairTracks(v, position) ==
  \A l \in PedalSpoof(v.low, position), h \in PedalSpoof(v.high, position) :
    LET lowSpan  == v.low.rangeMax - v.low.rangeMin
        highSpan == v.high.rangeMax - v.high.rangeMin
        gap      == (l - v.low.rangeMin) * highSpan - (h - v.high.rangeMin) * lowSpan
        slack    == 2 * (lowSpan + highSpan)
    IN  gap < slack /\ -gap < slack

\* The brake light is off at rest and on from a tenth of the travel.
LightFollowsPedal(b, position) ==
  \A l \in PedalSpoof(b.low, position), h \in PedalSpoof(b.high, position) :
    /\ position <= 0 => ~BrakeLight(b, l, h)
    /\ position >= 100 => BrakeLight(b, l, h)

\* A greater command never lowers the low channel nor raises the high one, and
\* but for the last few hundredths moves one of them.
TorqueOrdered(v, command) ==
  /\ LowVolts(v, command) <= LowVolts(v, command + 1)
  /\ HighVolts(v, command) >= HighVolts(v, command + 1)
  /\ command \in -960 .. 990
       => LowVolts(v, command + 1) - HighVolts(v, command + 1)
            > LowVolts(v, command) - HighVolts(v, command)

\* Neither channel has reached an end of its range: both stand for the torque
\* that was asked for.
PairMeansTorque(v, command) ==
  /\ LowVolts(v, command) = LowCurve(v, command)
  /\ HighVolts(v, command) = HighCurve(v, command)

\* The word for the DAC holds the value whole and names the channel.
WordIsValue(channel, value) ==
  /\ DacWord(channel, value) % 4096 = value
  /\ DacWord(channel, value) \div 32768 = channel
=============================================================================
