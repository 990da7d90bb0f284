-------------------------- MODULE PetrolBrakeProofs -------------------------
(***************************************************************************)
(* Theorems about PetrolBrake, for any set of sensor inputs, any fault     *)
(* count and any debounce time.                                            *)
(*                                                                         *)
(* The invariant records what each actor may rely on although the          *)
(* interrupt comes between any two steps of the main loop.  The main loop  *)
(* is frozen while the interrupt runs, so the interrupt may rely on        *)
(* everything; of what the main loop has established, only that survives   *)
(* which disable_control and the sensor DTC leave alone.                   *)
(*                                                                         *)
(* Of the liveness property SensorFaultEndsControl the prover gets the     *)
(* bounded core, a measure that the interrupt can only bring down.         *)
(***************************************************************************)
EXTENDS PetrolBrake, TLAPS

\* What the main loop is about to do.
Enabling   == pc.main \in {"close_master", "stop_release", "set_enabled"}
Overriding == pc.main \in {"load_set", "store_set", "read_report", "send_report", "latch"}

\* Who may still be in control: the interrupt disables only an enabled module,
\* the main loop may find its work already done.
ControlInv ==
  /\ pc.main \in DisableSteps <=> job # "none"
  /\ Enabling => ~enabled /\ ~operator_override
  /\ Overriding => ~enabled
  /\ pc.isr \in DisableSteps => enabled
  /\ pc.isr \in {"set_dtc", "send_report"} => ~enabled
  /\ enabled => ~operator_override

\* The override DTC survives the interrupt, and so does its announcement.
DtcInv ==
  /\ OverrideIsReported
  /\ pc.main \in {"read_report", "send_report", "latch"} => "OPERATOR_OVERRIDE" \in dtcs
  /\ pc.main = "send_report" => "OPERATOR_OVERRIDE" \in copy
  /\ pc.main = "latch" => "OPERATOR_OVERRIDE" \in fault_report
  /\ pc.isr = "send_report" => "INVALID_SENSOR_VAL" \in dtcs

\* The solenoids: whoever is about to open one pair has closed the other, and
\* an interrupt that opens the release solenoids closes them before it ends.
SolenoidInv ==
  /\ SolenoidsExclusive
  /\ pc.main \in {"open_release", "vent"} => accumulator = "OFF"
  /\ pc.isr = "open_release" => accumulator = "OFF"
  /\ pc.main = "press" =>
       release = "OFF" \/ pc.isr \in {"lights_off", "open_master", "close_release"}

\* The master cylinder: open before `enabled' is cleared, by either actor.
MasterInv ==
  /\ PedalConnected
  /\ pc.main \in {"close_release", "clear_enabled"} => master = "OPEN"
  /\ pc.isr \in {"close_release", "clear_enabled"} => master = "OPEN"

IInv == TypeOK /\ ControlInv /\ DtcInv /\ SolenoidInv /\ MasterInv

USE DEF flags, command, locals, solenoids, lamps, statics, bus, world

\* The debouncer stays a debouncer: its start time is a reading of the clock.
LEMMA MonitorType ==
  ASSUME NEW c \in Condition, NEW active \in BOOLEAN, NEW t \in Time
  PROVE  Monitor(c, active, t) \in Condition
<1>1. 0 \in Time
  BY HysteresisAssumption, ClockAssumption DEF Time
<1>. QED
  BY <1>1 DEF Monitor, Condition, CONDITION_STATE_INIT

\* The fault counters stay between zero and the threshold.
LEMMA CountedType ==
  ASSUME fault_count \in [Inputs -> 0 .. FaultCount]
  PROVE  Counted \in [Inputs -> 0 .. FaultCount]
BY FaultCountAssumption DEF Counted

\* The power-up state satisfies the invariant.
LEMMA InitIInv == Init => IInv
<1> SUFFICES ASSUME Init PROVE IInv
  OBVIOUS
<1>1. CONDITION_STATE_INIT \in Condition
  BY HysteresisAssumption, ClockAssumption DEF Time, Condition, CONDITION_STATE_INIT
<1>2. fault_count \in [Inputs -> 0 .. FaultCount]
  BY FaultCountAssumption DEF Init
<1>3. TypeOK
  BY <1>1, <1>2 DEF Init, TypeOK, MainSteps, IsrSteps, DTC, Position, Duty
<1>4. ControlInv /\ DtcInv /\ SolenoidInv /\ MasterInv
  BY DEF Init, ControlInv, DtcInv, SolenoidInv, MasterInv, Enabling, Overriding,
         DisableSteps, OverrideIsReported, SolenoidsExclusive, PedalConnected
<1>. QED
  BY <1>3, <1>4 DEF IInv

\* A step of disable_control, whoever runs it.
LEMMA DisableIInv ==
  ASSUME IInv, NEW self \in {"main", "isr"}, Disable(self)
  PROVE  IInv'
<1> USE DEF IInv, TypeOK, ControlInv, DtcInv, SolenoidInv, MasterInv, Enabling, Overriding,
            OverrideIsReported, SolenoidsExclusive, PedalConnected,
            DisableSteps, IsrSteps, MainSteps, Duty, At, To, MainAt, MainTo
<1>1. CASE StopAccumulator(self)
  BY <1>1 DEF StopAccumulator
<1>2. CASE OpenRelease(self)
  BY <1>2 DEF OpenRelease
<1>3. CASE LightsOff(self)
  BY <1>3 DEF LightsOff
<1>4. CASE OpenMaster(self)
  BY <1>4 DEF OpenMaster
<1>5. CASE CloseRelease(self)
  BY <1>5 DEF CloseRelease
<1>6. CASE ClearEnabled(self)
  <2>1. TypeOK'
    <3>1. pc' \in [main : MainSteps, isr : IsrSteps]
      BY <1>6 DEF ClearEnabled
    <3>2. job' \in {"none", "frame", "override"} /\ enabled' = FALSE
      BY <1>6 DEF ClearEnabled
    <3>. QED
      BY <1>6, <3>1, <3>2 DEF ClearEnabled
  <2>2. (ControlInv /\ DtcInv /\ SolenoidInv /\ MasterInv)'
    <3>1. CASE self = "main"
      BY <1>6, <3>1 DEF ClearEnabled
    <3>2. CASE self = "isr"
      BY <1>6, <3>2 DEF ClearEnabled
    <3>. QED
      BY <3>1, <3>2
  <2>. QED
    BY <2>1, <2>2
<1>. QED
  BY <1>1, <1>2, <1>3, <1>4, <1>5, <1>6 DEF Disable

\* Every step preserves the invariant.
LEMMA NextIInv == IInv /\ [Next]_vars => IInv'
<1> SUFFICES ASSUME IInv, [Next]_vars PROVE IInv'
  OBVIOUS
<1> USE DEF IInv, TypeOK, ControlInv, DtcInv, SolenoidInv, MasterInv, Enabling, Overriding,
            OverrideIsReported, SolenoidsExclusive, PedalConnected,
            DisableSteps, IsrSteps, MainSteps, MainAt, MainTo
<1>1. CASE ReceiveNothing
  BY <1>1 DEF ReceiveNothing
<1>2. CASE ReceiveEnable
  BY <1>2 DEF ReceiveEnable
<1>3. CASE ReceiveDisable
  BY <1>3 DEF ReceiveDisable
<1>4. CASE ReceiveCommand
  BY <1>4 DEF ReceiveCommand, Position
<1>5. CASE CloseMaster
  BY <1>5 DEF CloseMaster
<1>6. CASE StopRelease
  BY <1>6 DEF StopRelease, Duty
<1>7. CASE SetEnabled
  BY <1>7 DEF SetEnabled
<1>8. CASE MaintainPressure
  BY <1>8 DEF MaintainPressure, Duty
<1>9. CASE OverrideGuard
  BY <1>9 DEF OverrideGuard
<1>10. CASE LoadDtcs
  BY <1>10 DEF LoadDtcs
<1>11. CASE StoreSet
  BY <1>11 DEF StoreSet, DTC
<1>12. CASE SendReport
  BY <1>12 DEF SendReport
<1>13. CASE Latch
  BY <1>13 DEF Latch
<1>14. CASE StoreClear
  BY <1>14 DEF StoreClear
<1>15. CASE ClearOverride
  BY <1>15 DEF ClearOverride
<1>16. CASE UpdateGuard
  BY <1>16 DEF UpdateGuard
<1>17. CASE Sample
  BY <1>17 DEF Sample
<1>18. CASE InBand
  BY <1>18 DEF InBand
<1>19. CASE TooHigh
  BY <1>19 DEF TooHigh, Duty
<1>20. CASE Vent
  BY <1>20 DEF Vent, Duty
<1>21. CASE VentLights
  BY <1>21 DEF VentLights, Duty
<1>22. CASE TooLow
  BY <1>22 DEF TooLow, Duty
<1>23. CASE Hold
  BY <1>23 DEF Hold, Duty
<1>24. CASE Press
  BY <1>24 DEF Press, Duty
<1>25. CASE OverrideCheck
  <2>1. override_state' \in Condition
    BY <1>25, MonitorType DEF OverrideCheck
  <2>. QED
    BY <1>25, <2>1 DEF OverrideCheck
<1>26. CASE Disable("main")
  BY <1>26, DisableIInv
<1>27. CASE CheckSensors
  <2>1. fault_count' \in [Inputs -> 0 .. FaultCount]
    BY <1>27, CountedType DEF CheckSensors
  <2>2. enabled \/ pc'.isr \notin DisableSteps
    BY <1>27 DEF CheckSensors
  <2>. QED
    BY <1>27, <2>1, <2>2 DEF CheckSensors
<1>28. CASE Disable("isr")
  BY <1>28, DisableIInv
<1>29. CASE SetSensorDtc
  BY <1>29 DEF SetSensorDtc, DTC
<1>30. CASE SendSensorReport
  BY <1>30 DEF SendSensorReport
<1>31. CASE SensorChange
  <2>1. pressed' \in BOOLEAN /\ grounded' \in SUBSET Inputs
    BY <1>31 DEF SensorChange
  <2>. QED
    BY <1>31, <2>1 DEF SensorChange
<1>32. CASE Tick
  BY <1>32, ClockAssumption DEF Tick, Time
<1>33. CASE UNCHANGED vars
  BY <1>33 DEF vars
<1>. QED
  BY <1>1, <1>2, <1>3, <1>4, <1>5, <1>6, <1>7, <1>8, <1>9, <1>10, <1>11,
     <1>12, <1>13, <1>14, <1>15, <1>16, <1>17, <1>18, <1>19, <1>20, <1>21,
     <1>22, <1>23, <1>24, <1>25, <1>26, <1>27, <1>28, <1>29, <1>30, <1>31,
     <1>32, <1>33
     DEF Next, MainLoop, Receive, Enable, CheckOverride, Regulate, Timer1

\* Everything the actors' steps rely on holds in every reachable state.
THEOREM Invariance == Spec => []IInv
<1>1. Init => IInv
  BY InitIInv
<1>2. IInv /\ [Next]_vars => IInv'
  BY NextIInv
<1>. QED
  BY <1>1, <1>2, PTL DEF Spec

\* Every variable keeps its type, and each actor its program.
THEOREM TypeCorrect == Spec => []TypeOK
<1>1. IInv => TypeOK
  BY DEF IInv
<1>. QED
  BY <1>1, Invariance, PTL

\* The interrupt never makes the module let pressure in and out at once.
THEOREM SolenoidSafety == Spec => []SolenoidsExclusive
<1>1. IInv => SolenoidsExclusive
  BY DEF IInv, SolenoidInv
<1>. QED
  BY <1>1, Invariance, PTL

\* No interleaving cuts the pedal off without control.
THEOREM PedalSafety == Spec => []PedalConnected
<1>1. IInv => PedalConnected
  BY DEF IInv, MasterInv
<1>. QED
  BY <1>1, Invariance, PTL

\* A latched override excludes control.
THEOREM OverrideSafety == Spec => []OverrideLocksOut
<1>1. IInv => OverrideLocksOut
  BY DEF IInv, ControlInv, OverrideLocksOut
<1>. QED
  BY <1>1, Invariance, PTL

\* The interrupt's update of dtcs never loses the override.
THEOREM OverrideReported == Spec => []OverrideIsReported
<1>1. IInv => OverrideIsReported
  BY DEF IInv, DtcInv
<1>. QED
  BY <1>1, Invariance, PTL

----------------------------------------------------------------------------
(* The petrol brake implements ControlPromise.                              *)

\* The step simulation: `enabled' moves in Take and GiveBack, either actor's
\* fault report is Announce, the latch moves in Latch and Unlatch, and a
\* disable_control that finds its work done stutters with all the rest.
LEMMA StepSimulation == IInv /\ [Next]_vars => [Promise!Next]_(Promise!vars)
<1> SUFFICES ASSUME IInv, [Next]_vars PROVE [Promise!Next]_(Promise!vars)
  OBVIOUS
<1> USE DEF IInv, TypeOK, ControlInv, DtcInv, Enabling, Overriding, Promise!Next, Promise!vars
<1>1. CASE SetEnabled
  <2>1. Promise!Take
    BY <1>1 DEF SetEnabled, MainAt, Promise!Take
  <2>. QED
    BY <2>1
<1>2. ASSUME NEW self \in {"main", "isr"}, ClearEnabled(self)
      PROVE  [Promise!Next]_(Promise!vars)
  <2>1. CASE enabled
    <3>1. Promise!GiveBack
      BY <1>2, <2>1 DEF ClearEnabled, Promise!GiveBack
    <3>. QED
      BY <3>1
  <2>2. CASE ~enabled
    BY <1>2, <2>2 DEF ClearEnabled
  <2>. QED
    BY <2>1, <2>2
<1>3. CASE SendReport
  <2>1. Promise!Announce
    BY <1>3 DEF SendReport, MainAt, Promise!Announce
  <2>. QED
    BY <2>1
<1>4. CASE SendSensorReport
  <2>1. Promise!Announce
    BY <1>4 DEF SendSensorReport, Promise!Announce
  <2>. QED
    BY <2>1
<1>5. CASE Latch
  <2>1. Promise!Latch
    BY <1>5 DEF Latch, MainAt, Promise!Latch
  <2>. QED
    BY <2>1
<1>6. CASE ClearOverride
  <2>1. Promise!Unlatch
    BY <1>6 DEF ClearOverride, Promise!Unlatch
  <2>. QED
    BY <2>1
<1>7. CASE UNCHANGED <<enabled, fault_report, operator_override>>
  BY <1>7
<1>8. \/ SetEnabled \/ ClearEnabled("main") \/ ClearEnabled("isr") \/ SendReport
      \/ SendSensorReport \/ Latch \/ ClearOverride
      \/ UNCHANGED <<enabled, fault_report, operator_override>>
  BY DEF Next, MainLoop, Timer1, Receive, Enable, CheckOverride, Regulate, Disable,
         ReceiveNothing, ReceiveEnable, ReceiveDisable, ReceiveCommand, CloseMaster,
         StopRelease, MaintainPressure, OverrideGuard, OverrideCheck, LoadDtcs, StoreSet,
         StoreClear, UpdateGuard, Sample, InBand, TooHigh, Vent, VentLights, TooLow, Hold,
         Press, StopAccumulator, OpenRelease, LightsOff, OpenMaster, CloseRelease,
         CheckSensors, SetSensorDtc, SensorChange, Tick, vars
<1>. QED
  BY <1>1, <1>2, <1>3, <1>4, <1>5, <1>6, <1>7, <1>8

\* With two actors on its flags, the petrol brake still keeps the promise
\* every control module makes.
THEOREM Refinement == Spec => ImplementsPromise
<1>1. Init => Promise!Init
  BY DEF Init, Promise!Init
<1>2. IInv /\ [Next]_vars => [Promise!Next]_(Promise!vars)
  BY StepSimulation
<1>. QED
  BY <1>1, <1>2, Invariance, PTL DEF Spec, ImplementsPromise, Promise!Spec

----------------------------------------------------------------------------
(* How long a sensor fault may last.                                        *)

\* Steps the interrupt has left, at most, until the module is out of control,
\* if input i stays grounded: readings still to be counted and the one that
\* decides, then the writes of disable_control.
ChecksLeft(i) ==
  IF ~enabled THEN 0
  ELSE IF pc.isr = "idle" THEN (FaultCount - fault_count[i]) + 7
  ELSE IF pc.isr = "stop_accumulator" THEN 6
  ELSE IF pc.isr = "open_release" THEN 5
  ELSE IF pc.isr = "lights_off" THEN 4
  ELSE IF pc.isr = "open_master" THEN 3
  ELSE IF pc.isr = "close_release" THEN 2
  ELSE 1

ChecksMax == FaultCount + 7

\* An enabled module has something left, and no more than ChecksMax.
LEMMA ChecksLeftBounds ==
  ASSUME IInv, NEW i \in Inputs
  PROVE  /\ ChecksLeft(i) \in 0 .. ChecksMax
         /\ enabled => ChecksLeft(i) > 0
<1>1. FaultCount \in Nat /\ fault_count[i] \in 0 .. FaultCount
  BY FaultCountAssumption DEF IInv, TypeOK
<1>. QED
  BY <1>1 DEF ChecksLeft, ChecksMax

\* A check counts the grounded input, or is the last one.
LEMMA CheckCounts ==
  ASSUME IInv, enabled, CheckSensors, NEW i \in grounded
  PROVE  ChecksLeft(i)' < ChecksLeft(i)
<1>0. FaultCount \in Nat \ {0} /\ i \in Inputs
      /\ fault_count[i] \in 0 .. FaultCount
  BY FaultCountAssumption DEF IInv, TypeOK
<1>1. enabled' /\ pc.isr = "idle" /\ fault_count' = Counted
  BY DEF CheckSensors
<1>2. fault_count'[i] = IF fault_count[i] < FaultCount THEN fault_count[i] + 1
                        ELSE FaultCount
  BY <1>0, <1>1 DEF Counted
<1>3. CASE \E j \in Inputs : fault_count'[j] >= FaultCount
  <2>1. pc'.isr = "stop_accumulator"
    <3>1. pc' = [pc EXCEPT !.isr = "stop_accumulator"]
      <4>1. ~(\A j \in Inputs : fault_count'[j] < FaultCount)
        <5>1. \A j \in Inputs : fault_count'[j] \in 0 .. FaultCount
          BY <1>1, CountedType DEF IInv, TypeOK
        <5>. QED
          BY <1>0, <1>3, <5>1
      <4>. QED
        BY <4>1 DEF CheckSensors
    <3>. QED
      BY <3>1 DEF IInv, TypeOK
  <2>. QED
    BY <1>0, <1>1, <2>1 DEF ChecksLeft
<1>4. CASE ~\E j \in Inputs : fault_count'[j] >= FaultCount
  <2>1. pc' = pc
    BY <1>4 DEF CheckSensors
  <2>2. fault_count[i] < FaultCount /\ fault_count'[i] = fault_count[i] + 1
    BY <1>0, <1>2, <1>4
  <2>. QED
    BY <1>0, <1>1, <2>1, <2>2 DEF ChecksLeft
<1>. QED
  BY <1>3, <1>4

\* Every step of the interrupt brings the end of control nearer.
LEMMA InterruptAdvances ==
  ASSUME IInv, enabled, enabled', Timer1, NEW i \in grounded
  PROVE  ChecksLeft(i)' < ChecksLeft(i)
<1>1. CASE CheckSensors
  BY <1>1, CheckCounts
<1>2. CASE Disable("isr")
  <2>1. pc \in [main : MainSteps, isr : IsrSteps]
    BY DEF IInv, TypeOK
  <2>2. CASE StopAccumulator("isr")
    BY <2>1, <2>2 DEF StopAccumulator, At, To, ChecksLeft
  <2>3. CASE OpenRelease("isr")
    BY <2>1, <2>3 DEF OpenRelease, At, To, ChecksLeft
  <2>4. CASE LightsOff("isr")
    BY <2>1, <2>4 DEF LightsOff, At, To, ChecksLeft
  <2>5. CASE OpenMaster("isr")
    BY <2>1, <2>5 DEF OpenMaster, At, To, ChecksLeft
  <2>6. CASE CloseRelease("isr")
    BY <2>1, <2>6 DEF CloseRelease, At, To, ChecksLeft
  <2>7. CASE ClearEnabled("isr")
    BY <2>7 DEF ClearEnabled
  <2>. QED
    BY <1>2, <2>2, <2>3, <2>4, <2>5, <2>6, <2>7 DEF Disable
<1>3. ~SetSensorDtc /\ ~SendSensorReport
  BY DEF SetSensorDtc, SendSensorReport, IInv, ControlInv
<1>. QED
  BY <1>1, <1>2, <1>3 DEF Timer1

\* Nothing else takes the counting back while the module stays in control.
LEMMA OthersKeepCount ==
  ASSUME IInv, enabled, enabled', [MainLoop \/ SensorChange \/ Tick]_vars,
         NEW i \in Inputs
  PROVE  ChecksLeft(i)' = ChecksLeft(i)
<1>1. pc \in [main : MainSteps, isr : IsrSteps]
  BY DEF IInv, TypeOK
<1>2. fault_count' = fault_count /\ pc'.isr = pc.isr
  <2>1. CASE MainLoop
    BY <1>1, <2>1
    DEF MainLoop, Receive, Enable, CheckOverride, Regulate, Disable,
        ReceiveNothing, ReceiveEnable, ReceiveDisable, ReceiveCommand,
        CloseMaster, StopRelease, SetEnabled, MaintainPressure, OverrideGuard,
        OverrideCheck, LoadDtcs, StoreSet, SendReport, Latch, StoreClear,
        ClearOverride, UpdateGuard, Sample, InBand, TooHigh, Vent, VentLights,
        TooLow, Hold, Press, StopAccumulator, OpenRelease, LightsOff,
        OpenMaster, CloseRelease, ClearEnabled, At, To, MainAt, MainTo
  <2>2. CASE SensorChange \/ Tick \/ UNCHANGED vars
    BY <2>2 DEF SensorChange, Tick, vars
  <2>. QED
    BY <2>1, <2>2
<1>. QED
  BY <1>2 DEF ChecksLeft

\* A sensor that stays disconnected ends control within FaultCount + 7 steps
\* of the timer 1 interrupt, whatever the main loop, the frames and the other
\* inputs do meanwhile (check_for_sensor_faults, brake_control.cpp:369): the
\* steps left are bounded, each of the interrupt's takes one away, and no
\* other gives one back while the module is in control.
THEOREM SensorFaultsBounded ==
  Spec => \A i \in Inputs :
    /\ [](ChecksLeft(i) \in 0 .. ChecksMax /\ (enabled => ChecksLeft(i) > 0))
    /\ [][ enabled /\ enabled' /\ i \in grounded =>
             /\ Timer1 => ChecksLeft(i)' < ChecksLeft(i)
             /\ ChecksLeft(i)' <= ChecksLeft(i) ]_vars
<1>1. SUFFICES ASSUME NEW i \in Inputs
               PROVE  Spec =>
                 /\ [](ChecksLeft(i) \in 0 .. ChecksMax
                        /\ (enabled => ChecksLeft(i) > 0))
                 /\ [][ enabled /\ enabled' /\ i \in grounded =>
                          /\ Timer1 => ChecksLeft(i)' < ChecksLeft(i)
                          /\ ChecksLeft(i)' <= ChecksLeft(i) ]_vars
  OBVIOUS
<1>2. IInv => ChecksLeft(i) \in 0 .. ChecksMax /\ (enabled => ChecksLeft(i) > 0)
  BY ChecksLeftBounds
<1>3. IInv /\ IInv' /\ [Next]_vars =>
        [ enabled /\ enabled' /\ i \in grounded =>
            /\ Timer1 => ChecksLeft(i)' < ChecksLeft(i)
            /\ ChecksLeft(i)' <= ChecksLeft(i) ]_vars
  <2> SUFFICES ASSUME IInv, IInv', [Next]_vars, enabled, enabled', i \in grounded
               PROVE  /\ Timer1 => ChecksLeft(i)' < ChecksLeft(i)
                      /\ ChecksLeft(i)' <= ChecksLeft(i)
    OBVIOUS
  <2>1. ChecksLeft(i) \in Nat /\ ChecksLeft(i)' \in Nat
    <3>1. ASSUME IInv PROVE ChecksLeft(i) \in Nat
      BY <3>1, ChecksLeftBounds
    <3>2. ASSUME IInv' PROVE ChecksLeft(i)' \in Nat
      <4>1. FaultCount \in Nat /\ fault_count'[i] \in 0 .. FaultCount
        BY <3>2, FaultCountAssumption DEF IInv, TypeOK
      <4>. QED
        BY <4>1 DEF ChecksLeft
    <3>. QED
      BY <3>1, <3>2
  <2>2. CASE Timer1
    BY <2>1, <2>2, InterruptAdvances
  <2>3. CASE ~Timer1
    <3>1. [MainLoop \/ SensorChange \/ Tick]_vars
      BY <2>3 DEF Next
    <3>. QED
      BY <2>1, <2>3, <3>1, OthersKeepCount
  <2>. QED
    BY <2>2, <2>3
<1>. QED
  BY <1>2, <1>3, Invariance, PTL DEF Spec
=============================================================================
