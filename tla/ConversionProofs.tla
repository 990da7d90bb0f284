-------------------------- MODULE ConversionProofs --------------------------
(***************************************************************************)
(* The arithmetic of the vehicles, the timers, the regulator of the petrol *)
(* brake and the OBD parsers, for every value and not only the samples of  *)
(* MCConversions.                                                          *)
(***************************************************************************)
EXTENDS Vehicles, Timers, BrakeRegulator, ObdFrames, TLAPS

--------------------------------------------------------------------------
(* Vehicles. *)

\* The signals, one by one.
LEMMA SignalList ==
  Signals = {Signal(333, 1120, 273, 917),  Signal(698, 2290, 572, 1875),
             Signal(609, 2880, 499, 2359), Signal(279, 1386, 229, 1135),
             Signal(300, 2000, 245, 1638), Signal(700, 4100, 573, 3358),
             Signal(380, 2104, 311, 1723), Signal(757, 4207, 620, 3446),
             Signal(800, 4100, 656, 3358), Signal(900, 4200, 738, 3440)}
<1>1. Pedals = {SoulEvThrottle, SoulPetrolThrottle, NiroThrottle,
                [low |-> SoulEvBrake.low, high |-> SoulEvBrake.high],
                [low |-> NiroBrake.low, high |-> NiroBrake.high]}
  BY DEF Pedals, Brakes, Throttles
<1>2. Steerings = {SteeringColumn}
  BY DEF Steerings, SoulEvSteering, SoulPetrolSteering, NiroSteering
<1> QED
  BY <1>1, <1>2 DEF Signals, SoulEvThrottle, SoulPetrolThrottle, NiroThrottle,
                    SoulEvBrake, NiroBrake, SteeringColumn

\* What a signal is.
LEMMA SignalFields ==
  ASSUME NEW a \in Int, NEW b \in Int, NEW c \in Int, NEW d \in Int
  PROVE  /\ Signal(a, b, c, d).voltageMin = a * 10000
         /\ Signal(a, b, c, d).voltageMax = b * 10000
         /\ Signal(a, b, c, d).rangeMin = c
         /\ Signal(a, b, c, d).rangeMax = d
BY DEF Signal

\* Steps is monotone enough: a voltage between two others gives steps between
\* their extremes.
LEMMA StepsBetween ==
  ASSUME NEW low \in Int, NEW high \in Int, NEW volts \in low .. high,
         NEW n \in Steps(volts)
  PROVE  /\ n \in Int
         /\ (32 * low - 1000) \div 390625 <= n
         /\ n <= (32 * high + 1000) \div 390625
BY DEF Steps

\* For every signal of every vehicle the bounds in steps are the bounds in
\* volts, and so the clamp of update_throttle, update_steering and
\* update_brake never undoes that of the command's handler.
THEOREM ClampsAgreeAlways ==
  \A s \in Signals :
    SameBounds(s) /\ \A volts \in s.voltageMin .. s.voltageMax : ClampsAgree(s, volts)
<1> SUFFICES ASSUME NEW s \in Signals
             PROVE  SameBounds(s) /\ \A volts \in s.voltageMin .. s.voltageMax : ClampsAgree(s, volts)
  OBVIOUS
<1>1. /\ s.voltageMin \in Int /\ s.voltageMax \in Int
      /\ s.rangeMin \in Int /\ s.rangeMax \in Int /\ s.rangeMin <= s.rangeMax
  BY SignalList DEF Signal
<1>2. SameBounds(s)
  BY SignalList DEF Signal, SameBounds, Steps
<1>3. ASSUME NEW volts \in s.voltageMin .. s.voltageMax, NEW n \in Steps(volts)
      PROVE  Spoof(s, n) - n \in {-1, 0, 1}
  <2>1. (32 * s.voltageMin - 1000) \div 390625 \in Steps(s.voltageMin)
    BY <1>1 DEF Steps
  <2>2. (32 * s.voltageMax + 1000) \div 390625 \in Steps(s.voltageMax)
    BY <1>1 DEF Steps
  <2>3. n \in Int /\ s.rangeMin - 1 <= n /\ n <= s.rangeMax + 1
    BY <1>1, <1>2, <2>1, <2>2, StepsBetween DEF SameBounds
  <2> QED
    BY <1>1, <2>3 DEF Spoof, Constrain
<1> QED
  BY <1>2, <1>3 DEF ClampsAgree

\* Bounds of 12 bits clamp to 12 bits.
LEMMA ConstrainDac ==
  ASSUME NEW n \in NoNumber, NEW low \in DacValue, NEW high \in DacValue, low <= high
  PROVE  /\ low <= Constrain(n, low, high) /\ Constrain(n, low, high) <= high
         /\ Constrain(n, low, high) \in DacValue
<1>1. /\ n \in Int /\ low \in Int /\ high \in Int
      /\ 0 <= low /\ high <= 4095
  BY DEF NoNumber, DacValue
<1>2. /\ low <= Constrain(n, low, high) /\ Constrain(n, low, high) <= high
      /\ Constrain(n, low, high) \in {n, low, high}
  BY <1>1 DEF Constrain
<1>3. \A x \in {n, low, high} : low <= x /\ x <= high => x \in DacValue
  BY <1>1 DEF DacValue
<1> QED
  BY <1>2, <1>3, Zenon

\* A value of 12 bits is whole in the word.
LEMMA WordHoldsValue ==
  ASSUME NEW channel \in {0, 1}, NEW value \in DacValue
  PROVE  WordIsValue(channel, value)
BY DEF WordIsValue, DacWord, DacValue

\* Whatever a command is, one that is no number included, the DAC is sent a
\* value within the range of its signal, whole and on its own channel.
THEOREM SpoofReachesDac ==
  ASSUME NEW s \in Signals, NEW n \in NoNumber, NEW channel \in {0, 1}
  PROVE  /\ s.rangeMin <= Spoof(s, n) /\ Spoof(s, n) <= s.rangeMax
         /\ WordIsValue(channel, Spoof(s, n))
<1>1. s.rangeMin \in DacValue /\ s.rangeMax \in DacValue /\ s.rangeMin <= s.rangeMax
  BY SignalList DEF Signal, DacValue
<1>2. /\ s.rangeMin <= Spoof(s, n) /\ Spoof(s, n) <= s.rangeMax
      /\ Spoof(s, n) \in DacValue
  BY <1>1, ConstrainDac, Zenon DEF Spoof
<1>3. WordIsValue(channel, Spoof(s, n))
  BY <1>2, WordHoldsValue, Zenon
<1> QED
  BY <1>2, <1>3, Zenon

\* The brake light follows the pedal of the Soul EV and of the Niro.
THEOREM LightsFollowAlways ==
  \A b \in Brakes, position \in Int : LightFollowsPedal(b, position)
<1> SUFFICES ASSUME NEW b \in Brakes, NEW position \in Int
             PROVE  LightFollowsPedal(b, position)
  OBVIOUS
<1>1. CASE b = SoulEvBrake
  BY <1>1 DEF LightFollowsPedal, SoulEvBrake, Signal, PedalSpoof, Spoof, Steps, PedalVolts,
              Constrain, BrakeLight
<1>2. CASE b = NiroBrake
  BY <1>2 DEF LightFollowsPedal, NiroBrake, Signal, PedalSpoof, Spoof, Steps, PedalVolts,
              Constrain, BrakeLight
<1> QED
  BY <1>1, <1>2 DEF Brakes

\* A greater torque command never spoofs a lesser torque.
THEOREM TorquesOrderedAlways ==
  \A v \in Steerings, command \in Int : TorqueOrdered(v, command)
<1> SUFFICES ASSUME NEW v \in Steerings, NEW command \in Int
             PROVE  TorqueOrdered(v, command)
  OBVIOUS
<1>1. v = SteeringColumn
  BY DEF Steerings, SoulEvSteering, SoulPetrolSteering, NiroSteering
<1> QED
  BY <1>1 DEF TorqueOrdered, LowVolts, HighVolts, LowCurve, HighCurve, Torque, Constrain,
         SteeringColumn, Signal

\* The two channels stand for the torque asked for from -0.927 to 0.825 of the
\* greatest torque and, short of commands that are clamped, nowhere else.
THEOREM TorquesAgreeExactly ==
  \A v \in Steerings, command \in -1000 .. 1000 :
    PairMeansTorque(v, command) <=> command \in -927 .. 825
<1> SUFFICES ASSUME NEW v \in Steerings, NEW command \in -1000 .. 1000
             PROVE  PairMeansTorque(v, command) <=> command \in -927 .. 825
  OBVIOUS
<1>1. v = SteeringColumn
  BY DEF Steerings, SoulEvSteering, SoulPetrolSteering, NiroSteering
<1> QED
  BY <1>1 DEF PairMeansTorque, LowVolts, HighVolts, LowCurve, HighCurve, Torque, Constrain,
         SteeringColumn, Signal

\* Both channels of a pedal stand for the same position, whatever position is
\* asked for.
THEOREM PairsTrackAlways ==
  \A v \in Pedals, position \in Int : PairTracks(v, position)
<1> SUFFICES ASSUME NEW v \in Pedals, NEW position \in Int
             PROVE  PairTracks(v, position)
  OBVIOUS
<1>1. CASE v = [low |-> SoulEvBrake.low, high |-> SoulEvBrake.high]
  BY <1>1 DEF SoulEvBrake, PairTracks, PedalSpoof, Spoof, Steps, PedalVolts, Constrain, Signal
<1>2. CASE v = [low |-> NiroBrake.low, high |-> NiroBrake.high]
  <2>1. PICK p \in 0 .. 1000 : p = Constrain(position, 0, 1000)
    BY DEF Constrain
  <2>2. /\ PedalVolts(v.low, position) = 22710 * p + 6090000
        /\ PedalVolts(v.high, position) = 11070 * p + 2790000
    BY <1>2, <2>1 DEF PedalVolts, Constrain, NiroBrake, Signal
  <2>3. ASSUME NEW e \in {-1000, 0, 1000}, NEW f \in {-1000, 0, 1000},
               NEW l \in Int, l = Constrain((32 * (22710 * p + 6090000) + e) \div 390625, 499, 2359),
               NEW h \in Int, h = Constrain((32 * (11070 * p + 2790000) + f) \div 390625, 229, 1135)
        PROVE  /\ (l - 499) * 906 - (h - 229) * 1860 < 5532
               /\ (h - 229) * 1860 - (l - 499) * 906 < 5532
    BY <2>3, SMTT(60) DEF Constrain
  <2> QED
    BY <1>2, <2>2, <2>3 DEF NiroBrake, PairTracks, PedalSpoof, Spoof, Steps, Signal, Constrain
<1>3. CASE v \in {SoulEvThrottle, SoulPetrolThrottle}
  BY <1>3 DEF SoulEvThrottle, SoulPetrolThrottle, PairTracks, PedalSpoof, Spoof, Steps,
              PedalVolts, Constrain, Signal
<1>4. CASE v = NiroThrottle
  BY <1>4 DEF NiroThrottle, PairTracks, PedalSpoof, Spoof, Steps, PedalVolts, Constrain, Signal
<1> QED
  BY <1>1, <1>2, <1>3, <1>4 DEF Pedals, Brakes, Throttles

--------------------------------------------------------------------------
(* Timers. *)

\* The integer quotient times its divisor stays within the dividend.
LEMMA QuotientWithin ==
  ASSUME NEW n \in Nat, NEW d \in Nat \ {0}
  PROVE  (n \div d) \in Nat /\ d * (n \div d) <= n
OBVIOUS

\* The timers of the spoofing modules and of the display run exactly as asked;
\* timer 2 cannot run at 50 Hz and runs the petrol brake's reports at 61 Hz.
THEOREM TimersAsUsed ==
  /\ Exact(PublishFrequency, Period1(PublishFrequency))
  /\ Exact(DisplayFrequency, Period1(DisplayFrequency))
  /\ Exact(FaultCheckFrequency, Period1(FaultCheckFrequency))
  /\ F_CPU \div Period2(PublishFrequency) = 61
BY DEF Exact, PublishFrequency, DisplayFrequency, FaultCheckFrequency, Period1, Period2,
       Prescaler1, Prescaler2, Needed, CompareMatch, F_CPU, TIMER1_SIZE, TIMER2_SIZE

\* However a frequency is chosen, up to the one at which the counter would
\* have to restart at once, the handler runs no less often than that.
THEOREM NeverSlowerAlways ==
  ASSUME NEW frequency \in Nat \ {0},
         NEW prescaler \in {1, 8, 32, 64, 128, 256, 1024},
         NEW size \in {TIMER1_SIZE, TIMER2_SIZE},
         2 * (frequency * prescaler) <= F_CPU
  PROVE  NeverSlower(frequency, prescaler * (CompareMatch(frequency, prescaler, size) + 1))
<1> DEFINE d == frequency * prescaler
           q == F_CPU \div d
           c == CompareMatch(frequency, prescaler, size)
<1>1. d \in Nat \ {0} /\ F_CPU \in Nat
  BY DEF F_CPU
<1>2. q \in Nat /\ d * q <= F_CPU
  BY <1>1, QuotientWithin
<1>3. q >= 2
  BY <1>1 DEF F_CPU
<1>4. c \in Nat /\ c + 1 <= q
  <2> HIDE DEF q
  <2>1. c = IF q - 1 > size THEN size ELSE IF q - 1 < 1 THEN 1 ELSE q - 1
    BY DEF c, q, CompareMatch
  <2> QED
    BY <1>2, <1>3, <2>1 DEF TIMER1_SIZE, TIMER2_SIZE
<1>5. d * (c + 1) <= d * q
  <2> HIDE DEF d, q, c
  <2> QED
    BY <1>1, <1>2, <1>4
<1>6. d * (c + 1) <= F_CPU
  <2> HIDE DEF d, q, c
  <2> QED
    BY <1>1, <1>2, <1>4, <1>5
<1>7. (prescaler * (c + 1)) * frequency = d * (c + 1)
  <2> HIDE DEF c
  <2> QED
    BY <1>4
<1> QED
  BY <1>6, <1>7 DEF NeverSlower

--------------------------------------------------------------------------
(* The regulator of the petrol brake. *)

\* Integrals and pressures, as inequalities.
LEMMA WoundBounds ==
  ASSUME NEW i \in Wound
  PROVE  i \in Int /\ -WindupGuard <= i /\ i <= WindupGuard
<1>1. WindupGuard \in Int
  BY DEF WindupGuard
<1> QED
  BY <1>1 DEF Wound

\* A pressure reading lies between the ends of the scale.
LEMMA PressureBounds ==
  ASSUME NEW w \in Pressure
  PROVE  w \in Int /\ PressureMin <= w /\ w <= PressureMax
<1>1. PressureMin \in Int /\ PressureMax \in Int
  BY DEF PressureMin, PressureMax
<1> QED
  BY <1>1 DEF Pressure

\* The windup guard bounds the integral.
LEMMA ClampWound ==
  ASSUME NEW x \in Int
  PROVE  Clamp(x, -WindupGuard, WindupGuard) \in Wound
<1>1. WindupGuard \in Nat
  BY DEF WindupGuard
<1> QED
  BY <1>1 DEF Clamp, Wound

\* The integral never leaves the guard, whatever the time between two steps.
THEOREM GuardKept ==
  ASSUME NEW i \in Wound, NEW setpoint \in Int, NEW input \in Int, NEW dt \in Int
  PROVE  Integral({i}, {setpoint}, input, dt) \subseteq Wound
<1>1. i + (setpoint - input) * dt \in Int
  BY WoundBounds
<1>2. Clamp(i + (setpoint - input) * dt, -WindupGuard, WindupGuard) \in Wound
  BY <1>1, ClampWound
<1>3. CASE dt <= 0
  BY <1>3 DEF Integral
<1>4. CASE ~(dt <= 0)
  BY <1>2, <1>4 DEF Integral
<1> QED
  BY <1>3, <1>4

\* A minute without control and an error of a decibar fill the integral at the
\* first step of the next control, whatever it was: the time since the last
\* step counts as one step (brake_control.cpp:240).
THEOREM FirstStepFills ==
  ASSUME NEW i \in Wound, NEW setpoint \in Int, NEW input \in Int, NEW dt \in Int,
         setpoint - input >= 10, dt >= 60000
  PROVE  Integral({i}, {setpoint}, input, dt) = {WindupGuard}
<1>1. (setpoint - input) * dt >= 600000
  <2> DEFINE e == setpoint - input
  <2>1. e \in Int /\ e >= 10
    OBVIOUS
  <2>2. e * dt >= 10 * dt
    <3> HIDE DEF e
    <3> QED
      BY <2>1
  <2> QED
    BY <2>2
<1>2. ASSUME NEW product \in Int, product >= 600000
      PROVE  Clamp(i + product, -WindupGuard, WindupGuard) = WindupGuard
  BY <1>2, WoundBounds DEF Clamp, WindupGuard
<1>3. Clamp(i + (setpoint - input) * dt, -WindupGuard, WindupGuard) = WindupGuard
  BY <1>1, <1>2
<1> QED
  BY <1>3 DEF Integral

\* More than 97 decibar off the target decides which way the brake is worked,
\* whatever the integral has become.
THEOREM FarErrorDecides ==
  ASSUME NEW i \in Wound, NEW setpoint \in Int, NEW input \in Int
  PROVE  FarErrorWins(i, setpoint, input)
BY WoundBounds
   DEF FarErrorWins, Vents, Pressurises, Control, WindupGuard, OutputMin, OutputMax

\* What fits, and the duty cycle of it.
LEMMA FitsUint16 ==
  ASSUME NEW n \in Int, 0 <= n, n <= 65535
  PROVE  n \in Uint16
<1>1. LastUint16 \in Int /\ n <= LastUint16
  BY DEF LastUint16
<1> QED
  BY <1>1 DEF Uint16


\* A duty cycle is cut off at the upper end only.
LEMMA DutyOf ==
  ASSUME NEW x, NEW r, NEW n \in Uint16, Interpolate(x, r) = n
  PROVE  DutyCycle(x, r) = {IF n > r.outMax THEN r.outMax ELSE n}
<1>1. ToUint16(n) = {n}
  BY DEF ToUint16
<1> QED
  BY <1>1 DEF DutyCycle

\* For a target and a pressure the sensors can show, the solenoid that is
\* worked gets a duty cycle at which it moves, and no more than its stop: the
\* dead band of the output begins where interpolate begins to be positive.
THEOREM DutyMovesAlways ==
  ASSUME NEW i \in Wound, NEW setpoint \in Pressure, NEW input \in Pressure
  PROVE  DutyMoves(Control({i}, {setpoint}, input))
<1> DEFINE c == (65000 * (setpoint - input) + 175 * i) \div 1000
<1>1. c \in Int /\ -700000 <= c /\ c <= 700000
  BY WoundBounds, PressureBounds DEF WindupGuard, PressureMin, PressureMax
<1>2. Control({i}, {setpoint}, input) = {c}
  BY DEF Control
<1> HIDE DEF c
<1>3. ASSUME c < OutputMin
      PROVE  DutyCycle(-c, ReleaseRange) \subseteq 65 .. 100
  <2> DEFINE m == -c
             n == 65 + (m * 35) \div 60000
  <2>1. m \in Int /\ n \in Int /\ 0 <= n /\ 65 <= n /\ n <= 65535
    BY <1>1, <1>3 DEF OutputMin
  <2>2. Interpolate(m, ReleaseRange) = n
    BY <1>1 DEF Interpolate, ReleaseRange
  <2>4. ReleaseRange.outMax = 100
    BY DEF ReleaseRange
  <2> HIDE DEF m, n
  <2>5. n \in Uint16
    BY <2>1, FitsUint16
  <2>6. DutyCycle(m, ReleaseRange) =
          {IF n > ReleaseRange.outMax THEN ReleaseRange.outMax ELSE n}
    BY <2>2, <2>5, DutyOf, Zenon
  <2>3. DutyCycle(m, ReleaseRange) = {IF n > 100 THEN 100 ELSE n}
    BY <2>4, <2>6
  <2> QED
    BY <2>1, <2>3 DEF m
<1>4. ASSUME c > OutputMax
      PROVE  DutyCycle(c, AccumulatorRange) \subseteq 80 .. 105
  <2> DEFINE n == 80 + ((c - 10000) * 25) \div 100000
  <2>1. c \in Int /\ n \in Int /\ 0 <= n /\ 80 <= n /\ n <= 65535
    BY <1>1, <1>4 DEF OutputMax
  <2>2. Interpolate(c, AccumulatorRange) = n
    BY <1>1 DEF Interpolate, AccumulatorRange
  <2>4. AccumulatorRange.outMax = 105
    BY DEF AccumulatorRange
  <2> HIDE DEF n
  <2>5. n \in Uint16
    BY <2>1, FitsUint16
  <2>6. DutyCycle(c, AccumulatorRange) =
          {IF n > AccumulatorRange.outMax THEN AccumulatorRange.outMax ELSE n}
    BY <2>2, <2>5, DutyOf, Zenon
  <2>3. DutyCycle(c, AccumulatorRange) = {IF n > 105 THEN 105 ELSE n}
    BY <2>4, <2>6
  <2> QED
    BY <2>1, <2>3
<1>5. /\ Vents({c}) => c < OutputMin
      /\ Pressurises({c}) => c > OutputMax
  BY DEF Vents, Pressurises
<1>6. /\ ReleaseDuty({c}) = DutyCycle(-c, ReleaseRange)
      /\ AccumulatorDuty({c}) = DutyCycle(c, AccumulatorRange)
  BY DEF ReleaseDuty, AccumulatorDuty
<1> QED
  BY <1>2, <1>3, <1>4, <1>5, <1>6 DEF DutyMoves

\* A command that is no number makes the integral no number for good, and the
\* brake is worked by no command after it.
THEOREM NaNIsForGood ==
  ASSUME NEW i, NEW setpoint, NEW input \in Int, NEW dt \in Nat \ {0}
  PROVE  /\ Integral({i}, NaN, input, dt) = NaN
         /\ \A later \in Int : DeadAfterNaN({setpoint}, input, later)
BY DEF Integral, NaN, DeadAfterNaN, Vents, Pressurises, Control

--------------------------------------------------------------------------
(* The parsers of the client library. *)

\* The speed of a wheel is its raw number to within the tenth it is shown in,
\* for every frame.
THEOREM SpeedIsRawAlways ==
  ASSUME NEW obd, NEW id, NEW data \in Payload, NEW offset \in {0, 2, 4, 6}
  PROVE  SpeedIsRaw(obd, [id |-> id, data |-> data], offset)
<1>1. data[offset] \in 0 .. 255 /\ data[offset + 1] \in 0 .. 255
  BY DEF Payload, Byte
<1>2. PICK raw \in 0 .. 4095 : raw = Raw12(data, offset)
  BY <1>1 DEF Raw12
<1>3. CASE id = obd.wheels
  BY <1>2, <1>3 DEF SpeedIsRaw, WheelSpeed, Parsed
<1>4. CASE id # obd.wheels
  BY <1>4 DEF SpeedIsRaw
<1> QED
  BY <1>3, <1>4
=============================================================================
