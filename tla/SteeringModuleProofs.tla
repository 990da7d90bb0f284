------------------------ MODULE SteeringModuleProofs ------------------------
(***************************************************************************)
(* Theorems about SteeringModule, for every weight and threshold of the    *)
(* filter, every set of readings, every hysteresis and counter range, with *)
(* and without the override detector.                                      *)
(*                                                                         *)
(* The inductive invariant says what each program counter knows, as for    *)
(* ControlModule; the fact the filter adds is that an average lies between *)
(* what it averages, cut-off included (FilteredBound).                     *)
(***************************************************************************)
EXTENDS MCSteeringModule, TLAPS

\* Enabling and disabling, step by step.
EnableSteps  == pc \in {"close_relay", "set_enabled"} \/ (pc = "smooth" /\ job = "enable")
DisableSteps == pc \in {"open_relay", "clear_enabled"} \/ (pc = "smooth" /\ job # "enable")
FaultSteps   == pc \in {"set_dtc", "publish_fault", "latch"}

\* Which job is running at which step.
JobInv ==
  /\ pc \in {"receive", "check", "clear_override"} => job = "none"
  /\ EnableSteps => job = "enable"
  /\ DisableSteps => job \in {"disable"} \cup DTC
  /\ FaultSteps => job \in DTC
  /\ pc = "latch" => job = "OPERATOR_OVERRIDE"

\* What the steps of enable_control and disable_control have done so far.
HandlerInv ==
  /\ EnableSteps => ~enabled /\ ~operator_override
  /\ DisableSteps => enabled
  /\ FaultSteps => ~enabled
  /\ relay = "HIGH" <=> IF pc \in {"set_enabled", "clear_enabled"} THEN ~enabled ELSE enabled
  /\ dac.A = "high_spoof" \/ dac.B = "low_spoof" =>
       enabled /\ relay = "HIGH" /\ pc # "open_relay"

\* What the flags and DTCs say about each other.
FaultInv ==
  /\ enabled => ~operator_override
  /\ operator_override => "OPERATOR_OVERRIDE" \in dtcs \/ pc = "clear_override"
  /\ pc \in {"publish_fault", "latch"} => job \in dtcs
  /\ pc = "latch" => "OPERATOR_OVERRIDE" \in fault_report
  /\ ~STEERING_OVERRIDE => ~operator_override /\ job # "OPERATOR_OVERRIDE"

IInv == TypeOK /\ JobInv /\ HandlerInv /\ FaultInv

USE DEF state, world

\* The debouncer stays a debouncer: its start time is a reading of the clock.
LEMMA MonitorType ==
  ASSUME NEW c \in Condition, NEW active \in BOOLEAN, NEW t \in Time
  PROVE  Monitor(c, active, t) \in Condition
<1>1. 0 \in Time
  BY HysteresisAssumption, ClockAssumption DEF Time
<1>. QED
  BY <1>1 DEF Monitor, Condition, CONDITION_STATE_INIT

\* The filter keeps a natural number a natural number.
LEMMA FilteredType ==
  ASSUME NEW a \in Nat, NEW x \in Nat PROVE Filtered(a, x) \in Nat
BY FilterAssumption DEF Filtered

\* An average is bounded by what it averages.
LEMMA FilteredBound ==
  ASSUME NEW a \in Nat, NEW x \in Nat, NEW b \in Nat, a <= b, x <= b
  PROVE  Filtered(a, x) <= b
BY FilterAssumption DEF Filtered

\* The power-up state satisfies the invariant.
LEMMA InitIInv == Init => IInv
<1> SUFFICES ASSUME Init PROVE IInv
  OBVIOUS
<1>1. TypeOK
  <2>1. CONDITION_STATE_INIT \in Condition
    BY HysteresisAssumption, ClockAssumption DEF Time, Condition, CONDITION_STATE_INIT
  <2>. QED
    BY <2>1 DEF Init, TypeOK, Steps, Jobs, Signal
<1>2. JobInv /\ HandlerInv /\ FaultInv
  BY DEF Init, JobInv, HandlerInv, FaultInv, EnableSteps, DisableSteps, FaultSteps
<1>. QED
  BY <1>1, <1>2 DEF IInv

\* Type correctness of every step, on its own: only the data flow matters.
LEMMA NextType == TypeOK /\ JobInv /\ [Next]_vars => TypeOK'
<1> SUFFICES ASSUME TypeOK, JobInv, [Next]_vars PROVE TypeOK'
  OBVIOUS
<1> USE DEF TypeOK, Steps, Jobs
<1>1. CASE ReceiveNothing
  BY <1>1 DEF ReceiveNothing
<1>2. CASE ReceiveEnable
  BY <1>2 DEF ReceiveEnable
<1>3. CASE ReceiveDisable
  BY <1>3 DEF ReceiveDisable
<1>4. CASE ReceiveCommand
  BY <1>4 DEF ReceiveCommand, Signal
<1>5. CASE Smooth
  BY <1>5 DEF Smooth, Signal
<1>6. CASE CloseRelay
  BY <1>6 DEF CloseRelay
<1>7. CASE SetEnabled
  BY <1>7 DEF SetEnabled
<1>8. CASE OpenRelay
  BY <1>8 DEF OpenRelay
<1>9. CASE ClearEnabled
  BY <1>9 DEF ClearEnabled
<1>10. CASE CheckSkipped
  BY <1>10 DEF CheckSkipped
<1>11. CASE Check
  <2>1. torque.diff \in Nat /\ torque.grounded \in BOOLEAN
    BY SamplesAssumption DEF Torque
  <2>2. grounded_state' \in Condition /\ filtered_diff' \in Nat
    BY <1>11, <2>1, MonitorType, FilteredType DEF Check
  <2>3. pc' \in Steps /\ job' \in Jobs /\ dtcs' \in SUBSET DTC
    BY <1>11 DEF Check, DisableFor, DTC
  <2>. QED
    BY <1>11, <2>2, <2>3 DEF Check
<1>12. CASE SetDtc
  <2>1. job \in DTC
    BY <1>12 DEF SetDtc, JobInv, FaultSteps
  <2>. QED
    BY <1>12, <2>1 DEF SetDtc
<1>13. CASE PublishFaultReport
  BY <1>13 DEF PublishFaultReport
<1>14. CASE Latch
  BY <1>14 DEF Latch
<1>15. CASE ClearOverride
  BY <1>15 DEF ClearOverride
<1>16. CASE SensorChange
  BY <1>16 DEF SensorChange
<1>17. CASE Tick
  BY <1>17, ClockAssumption DEF Tick, Time
<1>18. CASE UNCHANGED vars
  BY <1>18 DEF vars
<1>. QED
  BY <1>1, <1>2, <1>3, <1>4, <1>5, <1>6, <1>7, <1>8, <1>9, <1>10, <1>11, <1>12,
     <1>13, <1>14, <1>15, <1>16, <1>17, <1>18
     DEF Next, MainLoop, HandleFrame, Proceed

\* The control part of the invariant, step by step of the main loop.
LEMMA NextControl ==
  IInv /\ [Next]_vars => JobInv' /\ HandlerInv' /\ FaultInv'
<1> SUFFICES ASSUME IInv, [Next]_vars
             PROVE  JobInv' /\ HandlerInv' /\ FaultInv'
  OBVIOUS
<1> USE DEF IInv, TypeOK, JobInv, HandlerInv, FaultInv, EnableSteps, DisableSteps,
            FaultSteps, DTC
<1>1. CASE ReceiveNothing
  BY <1>1 DEF ReceiveNothing
<1>2. CASE ReceiveEnable
  BY <1>2 DEF ReceiveEnable
<1>3. CASE ReceiveDisable
  BY <1>3 DEF ReceiveDisable
<1>4. CASE ReceiveCommand
  BY <1>4 DEF ReceiveCommand
<1>5. CASE Smooth
  BY <1>5 DEF Smooth
<1>6. CASE CloseRelay
  BY <1>6 DEF CloseRelay
<1>7. CASE SetEnabled
  BY <1>7 DEF SetEnabled
<1>8. CASE OpenRelay
  BY <1>8 DEF OpenRelay
<1>9. CASE ClearEnabled
  BY <1>9 DEF ClearEnabled
<1>10. CASE CheckSkipped
  BY <1>10 DEF CheckSkipped
<1>11. CASE Check
  <2>1. /\ pc = "check"
        /\ enabled' = enabled /\ operator_override' = operator_override
        /\ relay' = relay /\ dac' = dac /\ fault_report' = fault_report
    BY <1>11 DEF Check
  <2>2. \/ DisableFor("INVALID_SENSOR_VAL") /\ dtcs' = dtcs
        \/ STEERING_OVERRIDE /\ DisableFor("OPERATOR_OVERRIDE") /\ dtcs' = dtcs
        \/ /\ dtcs' = {} /\ job' = job
           /\ pc' = IF STEERING_OVERRIDE THEN "clear_override" ELSE "receive"
    BY <1>11 DEF Check
  <2>. QED
    BY <2>1, <2>2 DEF DisableFor
<1>12. CASE SetDtc
  BY <1>12 DEF SetDtc
<1>13. CASE PublishFaultReport
  BY <1>13 DEF PublishFaultReport
<1>14. CASE Latch
  BY <1>14 DEF Latch
<1>15. CASE ClearOverride
  BY <1>15 DEF ClearOverride
<1>16. CASE SensorChange
  BY <1>16 DEF SensorChange
<1>17. CASE Tick
  BY <1>17 DEF Tick
<1>18. CASE UNCHANGED vars
  BY <1>18 DEF vars
<1>. QED
  BY <1>1, <1>2, <1>3, <1>4, <1>5, <1>6, <1>7, <1>8, <1>9, <1>10, <1>11, <1>12,
     <1>13, <1>14, <1>15, <1>16, <1>17, <1>18
     DEF Next, MainLoop, HandleFrame, Proceed

\* Everything the handlers' steps rely on holds in every reachable state.
THEOREM Invariance == Spec => []IInv
<1>1. Init => IInv
  BY InitIInv
<1>2. IInv /\ [Next]_vars => IInv'
  BY NextType, NextControl DEF IInv
<1>. QED
  BY <1>1, <1>2, PTL DEF Spec

\* Every variable keeps its type, for every hysteresis and counter range.
THEOREM TypeCorrect == Spec => []TypeOK
<1>1. IInv => TypeOK
  BY DEF IInv
<1>. QED
  BY <1>1, Invariance, PTL

\* An operator override locks the module out: neither an enable frame nor any
\* interleaving puts it in control again before the latch is cleared.
THEOREM OverrideSafety == Spec => []OverrideLocksOut
<1>1. IInv => OverrideLocksOut
  BY DEF IInv, TypeOK, HandlerInv, FaultInv, OverrideLocksOut, EnableSteps, DisableSteps,
         FaultSteps, JobInv
<1>. QED
  BY <1>1, Invariance, PTL

\* Relay, flag and DAC agree, and no command outlives the control it was for.
THEOREM PinsConsistent == Spec => []PinsFollowState
<1>1. IInv => PinsFollowState
  BY DEF IInv, HandlerInv, PinsFollowState
<1>. QED
  BY <1>1, Invariance, PTL

\* An override is earned: by FilteredBound, a filter that has just passed the
\* threshold has just been given a reading above it.
THEOREM OverrideEarned == MCSpec => []OverrideIsEarned
<1>1. MCInit => OverrideIsEarned
  BY FilterAssumption DEF MCInit, Init, OverrideIsEarned
<1>2. TypeOK /\ OverrideIsEarned /\ [MCNext]_<<vars, earned>> => OverrideIsEarned'
  <2> SUFFICES ASSUME TypeOK, OverrideIsEarned, [MCNext]_<<vars, earned>>,
                      filtered_diff' > Threshold
               PROVE  earned'
    BY DEF OverrideIsEarned
  <2>1. CASE UNCHANGED <<vars, earned>>
    BY <2>1 DEF vars, OverrideIsEarned
  <2>2. CASE MCNext /\ filtered_diff > Threshold
    BY <2>2 DEF MCNext, OverrideIsEarned
  <2>3. CASE MCNext /\ ~(filtered_diff > Threshold)
    <3>1. filtered_diff \in Nat /\ torque.diff \in Nat /\ Threshold \in Nat
      BY SamplesAssumption, FilterAssumption DEF TypeOK, Torque
    <3>2. filtered_diff' # filtered_diff /\ filtered_diff' # 0
      BY <2>3, <3>1
    <3>3. Check
      BY <2>3, <3>2 DEF MCNext, Next, MainLoop, HandleFrame, Proceed, ReceiveNothing,
         ReceiveEnable, ReceiveDisable, ReceiveCommand, Smooth, CloseRelay, SetEnabled,
         OpenRelay, ClearEnabled, CheckSkipped, SetDtc, PublishFaultReport, Latch,
         ClearOverride, SensorChange, Tick
    <3>4. filtered_diff' = Filtered(filtered_diff, torque.diff)
      BY <3>2, <3>3 DEF Check
    <3>5. torque.diff > Threshold
      <4> SUFFICES ASSUME torque.diff <= Threshold PROVE FALSE
        BY <3>1
      <4>1. filtered_diff <= Threshold
        BY <2>3, <3>1
      <4>2. Filtered(filtered_diff, torque.diff) <= Threshold
        BY <3>1, <4>1, FilteredBound
      <4>3. Filtered(filtered_diff, torque.diff) \in Nat
        BY <3>1, FilteredType
      <4>. QED
        BY <3>1, <3>4, <4>2, <4>3
    <3>. QED
      BY <2>3, <3>3, <3>5 DEF MCNext
  <2>. QED
    BY <2>1, <2>2, <2>3
<1>3. MCSpec => Spec
  <2>1. MCInit => Init
    BY DEF MCInit
  <2>2. [MCNext]_<<vars, earned>> => [Next]_vars
    BY DEF MCNext, vars
  <2>. QED
    BY <2>1, <2>2, PTL DEF MCSpec, Spec
<1>. QED
  BY <1>1, <1>2, <1>3, TypeCorrect, PTL DEF MCSpec

----------------------------------------------------------------------------
(* The firmware implements ControlPromise.                                  *)

\* The step simulation: the relay moves in Take and GiveBack, a fault report
\* is Announce, the latch moves in Latch and Unlatch, all else stutters.
LEMMA StepSimulation == IInv /\ [Next]_vars => [Promise!Next]_(Promise!vars)
<1> SUFFICES ASSUME IInv, [Next]_vars PROVE [Promise!Next]_(Promise!vars)
  OBVIOUS
<1> USE DEF IInv, TypeOK, HandlerInv, FaultInv, JobInv, EnableSteps, DisableSteps,
            FaultSteps, Promise!Next, Promise!vars
<1>1. CASE CloseRelay
  <2>1. Promise!Take
    BY <1>1 DEF CloseRelay, Promise!Take
  <2>. QED
    BY <2>1
<1>2. CASE OpenRelay
  <2>1. Promise!GiveBack
    BY <1>2 DEF OpenRelay, Promise!GiveBack
  <2>. QED
    BY <2>1
<1>3. CASE PublishFaultReport
  <2>1. Promise!Announce
    BY <1>3 DEF PublishFaultReport, Promise!Announce
  <2>. QED
    BY <2>1
<1>4. CASE Latch
  <2>1. Promise!Latch
    BY <1>4 DEF Latch, Promise!Latch
  <2>. QED
    BY <2>1
<1>5. CASE ClearOverride
  <2>1. Promise!Unlatch
    BY <1>5 DEF ClearOverride, Promise!Unlatch
  <2>. QED
    BY <2>1
<1>6. CASE UNCHANGED <<relay, fault_report, operator_override>>
  BY <1>6
<1>7. CloseRelay \/ OpenRelay \/ PublishFaultReport \/ Latch \/ ClearOverride
      \/ UNCHANGED <<relay, fault_report, operator_override>>
  BY DEF Next, MainLoop, HandleFrame, Proceed, ReceiveNothing, ReceiveEnable,
         ReceiveDisable, ReceiveCommand, Smooth, SetEnabled, ClearEnabled,
         CheckSkipped, Check, SetDtc, SensorChange, Tick, vars
<1>. QED
  BY <1>1, <1>2, <1>3, <1>4, <1>5, <1>6, <1>7

\* The main loop, cut at every instruction an interrupt can see, implements
\* the three promises of ControlPromise.
THEOREM Refinement == Spec => ImplementsPromise
<1>1. Init => Promise!Init
  BY DEF Init, Promise!Init
<1>2. IInv /\ [Next]_vars => [Promise!Next]_(Promise!vars)
  BY StepSimulation
<1>. QED
  BY <1>1, <1>2, Invariance, PTL DEF Spec, ImplementsPromise, Promise!Spec
=============================================================================
