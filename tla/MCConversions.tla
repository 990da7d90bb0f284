---------------------------- MODULE MCConversions ----------------------------
(***************************************************************************)
(* The arithmetic modules evaluated over their ranges, or over samples of  *)
(* them; ConversionProofs proves most of it for every value.  TLC          *)
(* evaluates the assumptions at the start of the run that extends this     *)
(* module.                                                                 *)
(***************************************************************************)
EXTENDS Integers

Vehicle   == INSTANCE Vehicles
Timer     == INSTANCE Timers
Regulator == INSTANCE BrakeRegulator
Obd       == INSTANCE ObdFrames

\* Every voltage between the bounds of a signal, a tenth of a millivolt apart.
Voltages(s) == {v * 1000 : v \in (s.voltageMin \div 1000) .. (s.voltageMax \div 1000)}

\* The bounds in volts and in steps agree, for every signal of every vehicle.
ASSUME ClampsAgreeHold ==
  \A s \in Vehicle!Signals :
    Vehicle!SameBounds(s) /\ \A v \in Voltages(s) : Vehicle!ClampsAgree(s, v)

\* The two channels of every pedal keep together, over the whole travel and
\* beyond its ends.
ASSUME PairsTrack ==
  \A v \in Vehicle!Pedals : \A p \in -10 .. 1010 : Vehicle!PairTracks(v, p)

\* The brake light is off at rest and on from a tenth of the travel.
ASSUME LightsFollow ==
  \A b \in Vehicle!Brakes : \A p \in -10 .. 1010 : Vehicle!LightFollowsPedal(b, p)

\* The spoofed torque is ordered as the commands are.
ASSUME TorquesOrdered ==
  \A v \in Vehicle!Steerings : \A c \in -1010 .. 1010 : Vehicle!TorqueOrdered(v, c)

\* Both channels stand for the same torque from -0.927 to 0.825 and nowhere
\* else: beyond, one of them has reached its end while the other goes on.
ASSUME TorquesAgree ==
  \A v \in Vehicle!Steerings : \A c \in -1000 .. 1000 :
    Vehicle!PairMeansTorque(v, c) <=> c \in -927 .. 825

\* Timer 1 is exact for what it is used for, and right to a factor of two for
\* every whole frequency.
ASSUME Timer1Serves ==
  /\ \A f \in {Timer!PublishFrequency, Timer!DisplayFrequency, Timer!FaultCheckFrequency} :
       Timer!Exact(f, Timer!Period1(f))
  /\ \A f \in 1 .. 3000 : Timer!NeverSlower(f, Timer!Period1(f)) /\ Timer!NotTwiceAsOften(f, Timer!Period1(f))

\* Timer 2 cannot run as slowly as 50 Hz: the petrol brake reports at 61 Hz.
ASSUME Timer2TooFast ==
  /\ Timer!NeverSlower(Timer!PublishFrequency, Timer!Period2(Timer!PublishFrequency))
  /\ ~Timer!Exact(Timer!PublishFrequency, Timer!Period2(Timer!PublishFrequency))
  /\ Timer!F_CPU \div Timer!Period2(Timer!PublishFrequency) = 61

Spread(low, high, n) == {low + ((high - low) * i) \div n : i \in 0 .. n}

\* The regulator, over samples of the integral, the target and the pressure.
ASSUME RegulatorServes ==
  \A i \in Spread(-300000, 300000, 12),
     s \in UNION {Regulator!Target({p}) : p \in Spread(0, 1000, 40)},
     w \in Spread(Regulator!PressureMin, Regulator!PressureMax, 40) :
    /\ Regulator!DutyMoves(Regulator!Control({i}, {s}, w))
    /\ Regulator!FarErrorWins(i, s, w)
    /\ \A dt \in {0, 1, 20, 60000} : Regulator!Integral({i}, {s}, w, dt) \subseteq Regulator!Wound

\* The pump can be switched off: some reading is at the upper threshold, which
\* is within 0.3 decibar of the greatest pressure a reading can stand for.
ASSUME PumpStops ==
  /\ \A adc \in 0 .. 1023 : Regulator!RawToPressure(adc) \in Regulator!Pressure
  /\ ~Regulator!Pump(TRUE, 471) /\ Regulator!Pump(FALSE, 428)

\* A wheel's two bytes, whatever the other four hold.
ASSUME SpeedsRounded ==
  \A low \in 0 .. 255, high \in 0 .. 255 :
    Obd!SpeedIsRaw(Vehicle!SoulEvObd,
                 [id |-> 1200, data |-> [n \in 0 .. 7 |-> IF n % 2 = 0 THEN low ELSE high]], 4)

\* The identifiers, for every vehicle.
ASSUME IdsApart ==
  /\ Obd!IdsDistinct
  /\ \A obd \in {Vehicle!SoulEvObd, Vehicle!NiroObd, Vehicle!SoulPetrolObd} :
       Obd!ForeignStaysForeign(obd)

\* A pressure is its own two bytes, whatever the vehicle puts elsewhere.
ASSUME PressureBytes ==
  \A niro \in BOOLEAN : \A low \in 0 .. 255 : \A high \in {0, 15, 16, 255} :
    LET at == IF niro THEN 3 ELSE 4
    IN  Obd!get_brake_pressure(Vehicle!NiroObd,
          [id |-> 544, data |-> [n \in 0 .. 7 |-> IF n = at THEN low ELSE IF n = at + 1 THEN high ELSE 170]],
          niro).value = (high % 16) * 256 + low
=============================================================================
