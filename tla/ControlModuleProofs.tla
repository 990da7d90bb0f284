------------------------- MODULE ControlModuleProofs ------------------------
(***************************************************************************)
(* Theorems about ControlModule, for both firmwares, every hysteresis and  *)
(* every range of the millisecond counter.                                 *)
(*                                                                         *)
(* The safety invariants are not inductive: whether a step may close the   *)
(* relay or set a flag depends on how far the running handler has come.    *)
(* IInv adds what each program counter knows: which job it works for, and  *)
(* what the handler's earlier steps have established.                      *)
(*                                                                         *)
(* FaultsEndControl compares two clocks, the debouncer's, which wraps, and *)
(* the exposure that MCControlModule counts; TimeInv says how far apart    *)
(* they can be at each step of the loop.                                   *)
(***************************************************************************)
EXTENDS MCControlModule, TLAPS

\* Enabling and disabling, step by step.
EnableSteps  == pc \in {"close_relay", "set_enabled"} \/ (pc = "smooth" /\ job = "enable")
DisableSteps == pc \in {"open_relay", "clear_enabled"} \/ (pc = "smooth" /\ job # "enable")
FaultSteps   == pc \in {"set_dtc", "publish_fault", "latch"}

\* Which job is running at which step.
JobInv ==
  /\ pc \in {"receive", "check", "clear_override"} => job = "none"
  /\ EnableSteps => job = "enable"
  /\ DisableSteps => job \in {"disable"} \cup DTC
  /\ FaultSteps => job \in DTC
  /\ pc = "latch" => job = "OPERATOR_OVERRIDE"

\* What the steps of enable_control and disable_control have done so far.
HandlerInv ==
  /\ EnableSteps => ~enabled /\ ~operator_override
  /\ DisableSteps => enabled
  /\ FaultSteps => ~enabled
  /\ relay = "HIGH" <=> IF pc \in {"set_enabled", "clear_enabled"} THEN ~enabled ELSE enabled
  /\ brake_light = "HIGH" => relay = "HIGH" /\ enabled

\* What the flags and DTCs say about each other.
FaultInv ==
  /\ enabled => ~operator_override
  /\ operator_override => "OPERATOR_OVERRIDE" \in dtcs \/ pc = "clear_override"
  /\ pc \in {"publish_fault", "latch"} => job \in dtcs
  /\ pc = "latch" => "OPERATOR_OVERRIDE" \in fault_report

\* What the last fault report says of the state a status report would show.
AnnouncedInv ==
  /\ dtcs \subseteq fault_report \cup (IF pc = "publish_fault" THEN {job} ELSE {})
  /\ operator_override => "OPERATOR_OVERRIDE" \in fault_report

IInv == TypeOK /\ JobInv /\ HandlerInv /\ FaultInv /\ AnnouncedInv

USE DEF state, pins, statics, bus, world

\* The debouncer stays a debouncer: its start time is a reading of the clock.
LEMMA MonitorType ==
  ASSUME NEW c \in Condition, NEW active \in BOOLEAN, NEW t \in Time
  PROVE  Monitor(c, active, t) \in Condition
<1>1. 0 \in Time
  BY HysteresisAssumption, ClockAssumption DEF Time
<1>. QED
  BY <1>1 DEF Monitor, Condition, CONDITION_STATE_INIT

\* The power-up state satisfies the invariant.
LEMMA InitIInv == Init => IInv
<1> SUFFICES ASSUME Init PROVE IInv
  OBVIOUS
<1>1. TypeOK
  <2>1. CONDITION_STATE_INIT \in Condition
    BY HysteresisAssumption, ClockAssumption DEF Time, Condition, CONDITION_STATE_INIT
  <2>. QED
    BY <2>1 DEF Init, TypeOK, Steps, Jobs, Signal, Report
<1>2. JobInv /\ HandlerInv /\ FaultInv /\ AnnouncedInv
  BY DEF Init, JobInv, HandlerInv, FaultInv, AnnouncedInv,
         EnableSteps, DisableSteps, FaultSteps
<1>. QED
  BY <1>1, <1>2 DEF IInv

\* Type correctness of every step, on its own: only the data flow matters.
LEMMA NextType == TypeOK /\ JobInv /\ [Next]_vars => TypeOK'
<1> SUFFICES ASSUME TypeOK, JobInv, [Next]_vars PROVE TypeOK'
  OBVIOUS
<1> USE DEF TypeOK, Steps, Jobs
<1>1. CASE ReceiveNothing
  BY <1>1 DEF ReceiveNothing
<1>2. CASE ReceiveEnable
  BY <1>2 DEF ReceiveEnable
<1>3. CASE ReceiveDisable
  BY <1>3 DEF ReceiveDisable
<1>4. CASE ReceiveCommand
  BY <1>4 DEF ReceiveCommand, Update, Signal
<1>5. CASE Smooth
  BY <1>5 DEF Smooth, Signal
<1>6. CASE CloseRelay
  BY <1>6 DEF CloseRelay
<1>7. CASE SetEnabled
  BY <1>7 DEF SetEnabled
<1>8. CASE OpenRelay
  BY <1>8 DEF OpenRelay
<1>9. CASE ClearEnabled
  BY <1>9 DEF ClearEnabled
<1>10. CASE CheckSkipped
  BY <1>10 DEF CheckSkipped
<1>11. CASE Check
  <2>1. sensor.pressed \in BOOLEAN /\ sensor.grounded \in BOOLEAN
    BY DEF Sensor
  <2>2. override_state' \in Condition /\ grounded_state' \in Condition
    BY <1>11, <2>1, MonitorType DEF Check
  <2>3. pc' \in Steps /\ job' \in Jobs /\ dtcs' \in SUBSET DTC
    BY <1>11 DEF Check, DisableFor, DTC
  <2>. QED
    BY <1>11, <2>2, <2>3 DEF Check
<1>12. CASE SetDtc
  <2>1. job \in DTC
    BY <1>12 DEF SetDtc, JobInv, FaultSteps
  <2>. QED
    BY <1>12, <2>1 DEF SetDtc
<1>13. CASE PublishFaultReport
  BY <1>13 DEF PublishFaultReport
<1>14. CASE Latch
  BY <1>14 DEF Latch
<1>15. CASE ClearOverride
  BY <1>15 DEF ClearOverride
<1>16. CASE PublishReport
  BY <1>16 DEF PublishReport, Report
<1>17. CASE SensorChange
  BY <1>17 DEF SensorChange
<1>18. CASE Tick
  BY <1>18, ClockAssumption DEF Tick, Time
<1>19. CASE UNCHANGED vars
  BY <1>19 DEF vars
<1>. QED
  BY <1>1, <1>2, <1>3, <1>4, <1>5, <1>6, <1>7, <1>8, <1>9, <1>10, <1>11, <1>12,
     <1>13, <1>14, <1>15, <1>16, <1>17, <1>18, <1>19
     DEF Next, MainLoop, HandleFrame, Proceed

\* The control part of the invariant, step by step of the main loop.
LEMMA NextControl ==
  IInv /\ [Next]_vars => JobInv' /\ HandlerInv' /\ FaultInv' /\ AnnouncedInv'
<1> SUFFICES ASSUME IInv, [Next]_vars
             PROVE  JobInv' /\ HandlerInv' /\ FaultInv' /\ AnnouncedInv'
  OBVIOUS
<1> USE DEF IInv, TypeOK, JobInv, HandlerInv, FaultInv, AnnouncedInv,
            EnableSteps, DisableSteps, FaultSteps, DTC
<1>1. CASE ReceiveNothing
  BY <1>1 DEF ReceiveNothing
<1>2. CASE ReceiveEnable
  BY <1>2 DEF ReceiveEnable
<1>3. CASE ReceiveDisable
  BY <1>3 DEF ReceiveDisable
<1>4. CASE ReceiveCommand
  BY <1>4 DEF ReceiveCommand, Update
<1>5. CASE Smooth
  BY <1>5 DEF Smooth
<1>6. CASE CloseRelay
  BY <1>6 DEF CloseRelay
<1>7. CASE SetEnabled
  BY <1>7 DEF SetEnabled
<1>8. CASE OpenRelay
  BY <1>8 DEF OpenRelay
<1>9. CASE ClearEnabled
  BY <1>9 DEF ClearEnabled
<1>10. CASE CheckSkipped
  BY <1>10 DEF CheckSkipped
<1>11. CASE Check
  BY <1>11 DEF Check, DisableFor
<1>12. CASE SetDtc
  BY <1>12 DEF SetDtc
<1>13. CASE PublishFaultReport
  BY <1>13 DEF PublishFaultReport
<1>14. CASE Latch
  BY <1>14 DEF Latch
<1>15. CASE ClearOverride
  BY <1>15 DEF ClearOverride
<1>16. CASE PublishReport
  BY <1>16 DEF PublishReport
<1>17. CASE SensorChange
  BY <1>17 DEF SensorChange
<1>18. CASE Tick
  BY <1>18 DEF Tick
<1>19. CASE UNCHANGED vars
  BY <1>19 DEF vars
<1>. QED
  BY <1>1, <1>2, <1>3, <1>4, <1>5, <1>6, <1>7, <1>8, <1>9, <1>10, <1>11, <1>12,
     <1>13, <1>14, <1>15, <1>16, <1>17, <1>18, <1>19
     DEF Next, MainLoop, HandleFrame, Proceed

\* Everything the handlers' steps rely on holds in every reachable state.
THEOREM Invariance == Spec => []IInv
<1>1. Init => IInv
  BY InitIInv
<1>2. IInv /\ [Next]_vars => IInv'
  BY NextType, NextControl DEF IInv
<1>. QED
  BY <1>1, <1>2, PTL DEF Spec

\* Every variable keeps its type, for every hysteresis and counter range.
THEOREM TypeCorrect == Spec => []TypeOK
<1>1. IInv => TypeOK
  BY DEF IInv
<1>. QED
  BY <1>1, Invariance, PTL

\* An operator override locks the module out: neither an enable frame nor any
\* interleaving puts it in control again before the latch is cleared.
THEOREM OverrideSafety == Spec => []OverrideLocksOut
<1>1. IInv => OverrideLocksOut
  BY DEF IInv, TypeOK, HandlerInv, FaultInv, OverrideLocksOut, EnableSteps, DisableSteps,
         FaultSteps, JobInv
<1>. QED
  BY <1>1, Invariance, PTL

\* A latched override always has the DTC that keeps the checks running.
THEOREM OverrideReleasable == Spec => []LatchIsReleasable
<1>1. IInv => LatchIsReleasable
  BY DEF IInv, FaultInv, LatchIsReleasable
<1>. QED
  BY <1>1, Invariance, PTL

\* Relay and brake light follow the enabled flag.
THEOREM PinsConsistent == Spec => []PinsFollowState
<1>1. IInv => PinsFollowState
  BY DEF IInv, HandlerInv, PinsFollowState
<1>. QED
  BY <1>1, Invariance, PTL

\* Only the report interrupt writes the status report.
LEMMA ReportWriter ==
  ASSUME [Next]_vars, report' # report
  PROVE  PublishReport
BY DEF Next, MainLoop, HandleFrame, Proceed, ReceiveNothing, ReceiveEnable,
       ReceiveDisable, ReceiveCommand, Smooth, CloseRelay, SetEnabled, OpenRelay,
       ClearEnabled, CheckSkipped, Check, SetDtc, PublishFaultReport, Latch,
       ClearOverride, SensorChange, Tick, vars

\* Wherever the interrupt comes, the fault report has already named, or names
\* next, every fault the status report shows.
THEOREM StatusIsAnnounced == Spec => ReportsAnnounced
<1>1. IInv /\ [Next]_vars =>
        [report' # report =>
           /\ report'.dtcs \subseteq fault_report \cup (IF pc = "publish_fault" THEN {job} ELSE {})
           /\ report'.operator_override => "OPERATOR_OVERRIDE" \in fault_report]_vars
  <2> SUFFICES ASSUME IInv, [Next]_vars, report' # report
               PROVE  /\ report'.dtcs \subseteq
                           fault_report \cup (IF pc = "publish_fault" THEN {job} ELSE {})
                      /\ report'.operator_override => "OPERATOR_OVERRIDE" \in fault_report
    OBVIOUS
  <2>1. report'.dtcs = dtcs /\ report'.operator_override = operator_override
    BY ReportWriter DEF PublishReport
  <2>. QED
    BY <2>1 DEF IInv, AnnouncedInv
<1>. QED
  BY <1>1, Invariance, PTL DEF Spec, ReportsAnnounced

\* Only PublishFaultReport writes the fault report.
LEMMA FaultReportWriter ==
  ASSUME [Next]_vars, fault_report' # fault_report
  PROVE  PublishFaultReport
BY DEF Next, MainLoop, HandleFrame, Proceed, ReceiveNothing, ReceiveEnable,
       ReceiveDisable, ReceiveCommand, Smooth, CloseRelay, SetEnabled, OpenRelay,
       ClearEnabled, CheckSkipped, Check, SetDtc, Latch, ClearOverride,
       PublishReport, SensorChange, Tick, vars

\* A fault is announced only after control was given back, and by its name.
THEOREM FaultReportOrder == Spec => FaultReportAfterRelease
<1>1. IInv /\ [Next]_vars =>
        [fault_report' # fault_report => relay = "LOW" /\ ~enabled /\ job \in fault_report']_vars
  <2> SUFFICES ASSUME IInv, [Next]_vars, fault_report' # fault_report
               PROVE  relay = "LOW" /\ ~enabled /\ job \in fault_report'
    OBVIOUS
  <2>1. PublishFaultReport
    BY FaultReportWriter
  <2>2. pc = "publish_fault" /\ fault_report' = dtcs
    BY <2>1 DEF PublishFaultReport
  <2>. QED
    BY <2>2 DEF IInv, TypeOK, HandlerInv, FaultInv, FaultSteps
<1>. QED
  BY <1>1, Invariance, PTL DEF Spec, FaultReportAfterRelease

----------------------------------------------------------------------------
(* The firmware implements ControlPromise.                                  *)

\* The step simulation: the relay moves in Take and GiveBack, a fault report
\* is Announce, the latch moves in Latch and Unlatch, all else stutters.
LEMMA StepSimulation == IInv /\ [Next]_vars => [Promise!Next]_(Promise!vars)
<1> SUFFICES ASSUME IInv, [Next]_vars PROVE [Promise!Next]_(Promise!vars)
  OBVIOUS
<1> USE DEF IInv, TypeOK, HandlerInv, FaultInv, JobInv, EnableSteps, DisableSteps,
            FaultSteps, Promise!Next, Promise!vars
<1>1. CASE CloseRelay
  <2>1. Promise!Take
    BY <1>1 DEF CloseRelay, Promise!Take
  <2>. QED
    BY <2>1
<1>2. CASE OpenRelay
  <2>1. Promise!GiveBack
    BY <1>2 DEF OpenRelay, Promise!GiveBack
  <2>. QED
    BY <2>1
<1>3. CASE PublishFaultReport
  <2>1. Promise!Announce
    BY <1>3 DEF PublishFaultReport, Promise!Announce
  <2>. QED
    BY <2>1
<1>4. CASE Latch
  <2>1. Promise!Latch
    BY <1>4 DEF Latch, Promise!Latch
  <2>. QED
    BY <2>1
<1>5. CASE ClearOverride
  <2>1. Promise!Unlatch
    BY <1>5 DEF ClearOverride, Promise!Unlatch
  <2>. QED
    BY <2>1
<1>6. CASE UNCHANGED <<relay, fault_report, operator_override>>
  BY <1>6
<1>7. CloseRelay \/ OpenRelay \/ PublishFaultReport \/ Latch \/ ClearOverride
      \/ UNCHANGED <<relay, fault_report, operator_override>>
  BY DEF Next, MainLoop, HandleFrame, Proceed, ReceiveNothing, ReceiveEnable,
         ReceiveDisable, ReceiveCommand, Smooth, SetEnabled, ClearEnabled,
         CheckSkipped, Check, SetDtc, PublishReport, SensorChange, Tick, vars
<1>. QED
  BY <1>1, <1>2, <1>3, <1>4, <1>5, <1>6, <1>7

\* The main loop, cut at every instruction an interrupt can see, implements
\* the three promises of ControlPromise.
THEOREM Refinement == Spec => ImplementsPromise
<1>1. Init => Promise!Init
  BY DEF Init, Promise!Init
<1>2. IInv /\ [Next]_vars => [Promise!Next]_(Promise!vars)
  BY StepSimulation
<1>. QED
  BY <1>1, <1>2, Invariance, PTL DEF Spec, ImplementsPromise, Promise!Spec

----------------------------------------------------------------------------
(* The debouncer in real time.                                              *)

Conditions == {"pressed", "grounded"}

\* How far the clock t is from s, a reading that is behind it.
Apart(t, s) == IF t >= s THEN t - s ELSE t - s + ClockMod

\* The subtraction of two readings of the counter, whose range comes round.
LEMMA ClockDifference ==
  ASSUME NEW t \in Time, NEW s \in Time
  PROVE  (t - s) % ClockMod = Apart(t, s) /\ Apart(t, s) \in Time
<1>1. ClockMod \in Nat \ {0}
  BY HysteresisAssumption, ClockAssumption
<1> QED
  BY <1>1 DEF Time, Apart

\* The static of check_for_faults for each condition, and its duration.
StateOf(c) == IF c = "pressed" THEN override_state ELSE grounded_state
Age(c)     == Apart(now, StateOf(c).condition_start_time)

\* Ticks that may still come in this pass of the main loop.
Slack == IF ticked THEN 0 ELSE 1

\* A check has found a fault, and the relay is about to open.
Found == pc \in {"smooth", "open_relay"} /\ job \in DTC

\* The passes a tick of which may fall between two checks: before the check
\* of this pass there have been two, behind it one.
Passes == IF pc = "clear_override" THEN 1 ELSE 2

\* A condition that has held in control for long has been seen by a check, and
\* the debouncer counts it from no more than two ticks after its start.
ExposureInv(c) ==
  IF Found THEN exposure[c] + Slack <= Hysteresis + 3
  ELSE \/ exposure[c] + Slack <= Passes
       \/ /\ StateOf(c).monitoring_active
          /\ exposure[c] <= Age(c) + 2
          /\ Age(c) + Slack <= Hysteresis - 1 + Passes

TimeInv ==
  /\ ticked \in BOOLEAN
  /\ exposure \in [Conditions -> Nat]
  /\ \A c \in Conditions :
       /\ relay = "LOW" \/ ~sensor[c] => exposure[c] = 0
       /\ ExposureInv(c)

\* The range of the counter is longer than the debounce time by more than a tick.
LEMMA Numbers == Hysteresis \in Nat \ {0} /\ ClockMod \in Nat /\ ClockMod > Hysteresis + 1
BY HysteresisAssumption, ClockAssumption, LongClockAssumption

\* One more tick of exposure at most, and none without the condition.
LEMMA Observed ==
  ASSUME exposure \in [Conditions -> Nat], NEW k \in 0 .. 1, Observe(k)
  PROVE  /\ exposure' \in [Conditions -> Nat]
         /\ \A c \in Conditions :
              /\ exposure'[c] <= exposure[c] + k
              /\ relay' # "HIGH" \/ ~sensor'[c] => exposure'[c] = 0
<1>1. Limit \in Nat
  BY Numbers DEF Limit
<1>2. exposure' = [c \in Conditions |-> Exposed(c, k)]
  BY DEF Observe, Conditions
<1>3. \A c \in Conditions :
        /\ Exposed(c, k) \in Nat /\ Exposed(c, k) <= exposure[c] + k
        /\ relay' # "HIGH" \/ ~sensor'[c] => Exposed(c, k) = 0
  BY <1>1 DEF Exposed
<1> QED
  BY <1>2, <1>3

\* A condition no longer exposed has no past.
LEMMA Unexposed ==
  ASSUME NEW c \in Conditions, exposure'[c] = 0, ticked' \in BOOLEAN
  PROVE  ExposureInv(c)'
BY Numbers DEF ExposureInv, Slack, Passes

\* A step of the main loop in which no clock is read: only Check reads it.
LEMMA StepExposure ==
  ASSUME IInv, TimeInv, MainLoop, ~Check, NEW c \in Conditions,
         ticked' = (ticked /\ pc' # "receive"),
         relay' = "HIGH", exposure'[c] \in Nat, exposure'[c] <= exposure[c]
  PROVE  ExposureInv(c)'
<1>0. /\ exposure[c] \in Nat /\ ExposureInv(c) /\ ticked \in BOOLEAN
      /\ now' = now /\ StateOf(c)' = StateOf(c) /\ Age(c)' = Age(c)
  <2>1. UNCHANGED <<now, override_state, grounded_state>>
    BY DEF MainLoop, HandleFrame, Proceed, ReceiveNothing, ReceiveEnable,
           ReceiveDisable, ReceiveCommand, Smooth, CloseRelay, SetEnabled,
           OpenRelay, ClearEnabled, CheckSkipped, SetDtc, PublishFaultReport,
           Latch, ClearOverride
  <2> QED
    BY <2>1 DEF TimeInv, StateOf, Age
<1>1. CASE ClearOverride
  <2>1. pc = "clear_override" /\ pc' = "receive"
    BY <1>1 DEF ClearOverride
  <2>2. ~ticked'
    BY <2>1, Zenon
  <2>3. ~Found /\ ~Found' /\ Passes = 1 /\ Passes' = 2 /\ Slack' = 1 /\ Slack \in 0 .. 1
    BY <2>1, <2>2 DEF Found, Passes, Slack
  <2>4. Age(c) \in Int
    BY Numbers DEF Age, Apart, StateOf, IInv, TypeOK, Condition, Time
  <2> QED
    BY <1>0, <2>3, <2>4, Numbers DEF ExposureInv
<1>2. CASE ~ClearOverride
  <2>1. /\ pc' # "receive" /\ pc # "clear_override" /\ pc' # "clear_override"
        /\ Found' = Found
    BY <1>2 DEF MainLoop, HandleFrame, Proceed, ReceiveNothing, ReceiveEnable,
           ReceiveDisable, ReceiveCommand, Smooth, CloseRelay, SetEnabled,
           OpenRelay, ClearEnabled, CheckSkipped, SetDtc, PublishFaultReport,
           Latch, ClearOverride, Found, IInv, JobInv, HandlerInv, TypeOK,
           EnableSteps, DisableSteps, FaultSteps, DTC
  <2>2. Slack' = Slack /\ Passes' = Passes /\ Slack \in 0 .. 1 /\ Passes = 2
    BY <1>0, <2>1 DEF Slack, Passes
  <2>3. Age(c) \in Int
    BY Numbers DEF Age, Apart, StateOf, IInv, TypeOK, Condition, Time
  <2> QED
    BY <1>0, <2>1, <2>2, <2>3, Numbers DEF ExposureInv
<1> QED
  BY <1>1, <1>2

\* A check: the condition is seen, and is a fault or younger than the
\* debounce time.
LEMMA CheckExposure ==
  ASSUME IInv, TimeInv, Check, NEW c \in Conditions, ticked' = ticked,
         sensor'[c], relay' = "HIGH", exposure'[c] \in Nat, exposure'[c] <= exposure[c]
  PROVE  ExposureInv(c)'
<1>0. /\ exposure[c] \in Nat /\ ExposureInv(c) /\ ticked \in BOOLEAN
      /\ pc = "check" /\ job = "none" /\ now' = now /\ now \in Time
      /\ sensor' = sensor /\ sensor[c] /\ relay = "HIGH" /\ enabled
      /\ StateOf(c) \in Condition
  BY DEF TimeInv, Check, IInv, TypeOK, JobInv, HandlerInv, StateOf
<1>1. /\ StateOf(c)' = Monitor(StateOf(c), sensor[c], now)
      /\ pc' = "clear_override" \/ (pc' = "smooth" /\ job' \in DTC)
      /\ pc' = "clear_override" => ~Exceeded(StateOf(c), sensor[c], now)
  BY <1>0 DEF Check, StateOf, DisableFor, DTC, Conditions
<1>2. /\ StateOf(c)'.monitoring_active
      /\ StateOf(c)'.condition_start_time \in Time
      /\ StateOf(c).monitoring_active => StateOf(c)' = StateOf(c)
      /\ ~StateOf(c).monitoring_active => StateOf(c)'.condition_start_time = now
  BY <1>0, <1>1 DEF Monitor, Condition
<1>3. /\ Age(c) \in Nat /\ Age(c)' \in Nat
      /\ StateOf(c).monitoring_active => Age(c)' = Age(c)
  <2>1. StateOf(c).condition_start_time \in Time
    BY <1>0 DEF Condition
  <2>2. Age(c) \in Time
    BY <1>0, <2>1, ClockDifference DEF Age
  <2>3. Age(c)' = Apart(now, StateOf(c)'.condition_start_time)
    BY <1>0 DEF Age, Apart
  <2>4. Age(c)' \in Time
    BY <1>0, <1>2, <2>3, ClockDifference
  <2>5. StateOf(c).monitoring_active => Age(c)' = Age(c)
    BY <1>2, <2>3 DEF Age
  <2> QED
    BY <2>2, <2>4, <2>5 DEF Time
<1>4. ~Found /\ Passes = 2 /\ Slack' = Slack /\ Slack \in 0 .. 1
  BY <1>0 DEF Found, Passes, Slack
<1>5. CASE pc' = "smooth" /\ job' \in DTC
  <2>1. Found'
    BY <1>5 DEF Found
  <2>2. exposure[c] + Slack <= Hysteresis + 3
    BY <1>0, <1>3, <1>4, Numbers DEF ExposureInv
  <2> QED
    BY <1>0, <1>4, <2>1, <2>2, Numbers DEF ExposureInv
<1>6. CASE pc' = "clear_override"
  <2>1. ~Found' /\ Passes' = 1
    BY <1>6 DEF Found, Passes
  <2>2. Age(c)' < Hysteresis
    <3>1. ~((now - StateOf(c)'.condition_start_time) % ClockMod >= Hysteresis)
      BY <1>0, <1>1, <1>6 DEF Exceeded
    <3>2. (now - StateOf(c)'.condition_start_time) % ClockMod = Age(c)'
      BY <1>0, <1>2, ClockDifference DEF Age
    <3> QED
      BY <1>3, <3>1, <3>2, Numbers
  <2>3. exposure[c] <= Age(c)' + 2
    BY <1>0, <1>3, <1>4, Numbers, <1>2 DEF ExposureInv
  <2> QED
    BY <1>0, <1>2, <1>3, <1>4, <2>1, <2>2, <2>3, Numbers DEF ExposureInv
<1> QED
  BY <1>1, <1>5, <1>6

\* The clock: one tick in a pass, which ages the condition as well.
LEMMA TickExposure ==
  ASSUME IInv, TimeInv, Timed, NEW c \in Conditions
  PROVE  ExposureInv(c)'
<1>0. /\ exposure[c] \in Nat /\ exposure'[c] \in Nat /\ exposure'[c] <= exposure[c] + 1
      /\ ExposureInv(c) /\ ~ticked /\ ticked'
      /\ now \in Time /\ now' = IF now + 1 = ClockMod THEN 0 ELSE now + 1
      /\ pc' = pc /\ job' = job /\ StateOf(c)' = StateOf(c)
      /\ StateOf(c).condition_start_time \in Time
  <2>1. Tick /\ ~ticked /\ ticked' /\ Observe(1)
    BY DEF Timed
  <2>2. StateOf(c) \in Condition
    BY DEF IInv, TypeOK, StateOf
  <2> QED
    BY <2>1, <2>2, Observed DEF TimeInv, Tick, StateOf, Condition, IInv, TypeOK
<1>1. Found' = Found /\ Passes' = Passes /\ Slack = 1 /\ Slack' = 0 /\ Passes \in 1 .. 2
  BY <1>0 DEF Found, Passes, Slack
<1>2. Age(c) \in Nat /\ (Age(c) + 1 < ClockMod => Age(c)' = Age(c) + 1)
  BY <1>0, Numbers DEF Age, Apart, Time
<1> QED
  BY <1>0, <1>1, <1>2, Numbers DEF ExposureInv

\* Every step keeps the measured time behind the debouncer's by two ticks at most.
LEMMA NextTime ==
  ASSUME IInv, TimeInv, [MCNext]_mcvars
  PROVE  TimeInv'
<1>0. exposure \in [Conditions -> Nat] /\ ticked \in BOOLEAN /\ relay \in {"LOW", "HIGH"}
  BY DEF TimeInv, IInv, TypeOK
<1>1. ASSUME MainLoop, Untimed, ticked' = (ticked /\ pc' # "receive")
      PROVE  TimeInv'
  <2>1. Observe(0)
    BY <1>1 DEF Untimed
  <2>2. /\ exposure' \in [Conditions -> Nat]
        /\ \A c \in Conditions :
             /\ exposure'[c] \in Nat /\ exposure'[c] <= exposure[c]
             /\ relay' # "HIGH" \/ ~sensor'[c] => exposure'[c] = 0
    BY <1>0, <2>1, Observed
  <2>3. ticked' \in BOOLEAN
    BY <1>0, <1>1, Zenon
  <2>4. ASSUME NEW c \in Conditions
        PROVE  ExposureInv(c)'
    <3>1. CASE relay' # "HIGH" \/ ~sensor'[c]
      BY <2>2, <2>3, <3>1, Unexposed
    <3>2. CASE relay' = "HIGH" /\ sensor'[c] /\ ~Check
      BY <1>1, <2>2, <3>2, StepExposure
    <3>3. CASE relay' = "HIGH" /\ sensor'[c] /\ Check
      <4>1. pc' # "receive"
        BY <3>3 DEF Check, DisableFor
      <4>2. ticked' = ticked
        BY <1>0, <1>1, <4>1
      <4> QED
        BY <2>2, <3>3, <4>2, CheckExposure
    <3> QED
      BY <3>1, <3>2, <3>3
  <2> QED
    BY <2>2, <2>3, <2>4 DEF TimeInv
<1>2. ASSUME PublishReport \/ SensorChange, UNCHANGED ticked, Observe(0)
      PROVE  TimeInv'
  <2>1. /\ exposure' \in [Conditions -> Nat]
        /\ \A c \in Conditions :
             /\ exposure'[c] \in Nat /\ exposure'[c] <= exposure[c]
             /\ relay' # "HIGH" \/ ~sensor'[c] => exposure'[c] = 0
    BY <1>0, <1>2, Observed
  <2>2. UNCHANGED <<pc, job, relay, now, override_state, grounded_state, ticked>>
    BY <1>2 DEF PublishReport, SensorChange
  <2>3. ASSUME NEW c \in Conditions
        PROVE  ExposureInv(c)'
    <3>1. /\ StateOf(c)' = StateOf(c) /\ Age(c)' = Age(c) /\ Found' = Found
          /\ Slack' = Slack /\ Passes' = Passes /\ Slack \in 0 .. 1
          /\ exposure[c] \in Nat /\ Passes \in 1 .. 2
      BY <1>0, <2>2 DEF StateOf, Age, Found, Slack, Passes
    <3>2. Age(c) \in Int
      BY Numbers DEF Age, Apart, StateOf, IInv, TypeOK, Condition, Time
    <3> QED
      BY <2>1, <3>1, <3>2, Numbers DEF TimeInv, ExposureInv
  <2> QED
    BY <1>0, <2>1, <2>2, <2>3 DEF TimeInv
<1>3. CASE Timed
  <2>1. Observe(1) /\ ticked' \in BOOLEAN /\ UNCHANGED <<relay, sensor>>
    BY <1>3 DEF Timed, Tick
  <2>2. /\ exposure' \in [Conditions -> Nat]
        /\ \A c \in Conditions :
             relay' # "HIGH" \/ ~sensor'[c] => exposure'[c] = 0
    BY <1>0, <2>1, Observed
  <2> QED
    BY <1>0, <1>3, <2>1, <2>2, TickExposure DEF TimeInv
<1>4. CASE UNCHANGED mcvars
  <2>1. UNCHANGED <<pc, job, relay, sensor, now, override_state, grounded_state,
                    ticked, exposure>>
    BY <1>4 DEF mcvars, vars
  <2>2. \A c : StateOf(c)' = StateOf(c) /\ Age(c)' = Age(c)
    BY <2>1 DEF StateOf, Age
  <2> QED
    BY <2>1, <2>2 DEF TimeInv, ExposureInv, Found, Slack, Passes
<1> QED
  BY <1>1, <1>2, <1>3, <1>4, Zenon DEF MCNext, Untimed

\* The promise of the hysteresis in real time, for every debounce time: a
\* condition that holds without a break while the module is in control ends
\* the control within the debounce time and three ticks, whatever frames,
\* interrupts and other conditions come in between.
THEOREM FaultsEndControlInTime == MCSpec => []FaultsEndControl
<1>1. MCInit => IInv /\ TimeInv
  <2> SUFFICES ASSUME MCInit PROVE IInv /\ TimeInv
    OBVIOUS
  <2>1. exposure = [pressed |-> 0, grounded |-> 0] /\ ticked = FALSE /\ pc = "receive"
    BY DEF MCInit, Init
  <2>2. \A c \in Conditions : exposure[c] = 0 /\ ExposureInv(c)
    BY <2>1, Numbers DEF Conditions, ExposureInv, Found, Slack, Passes
  <2>3. exposure \in [Conditions -> Nat]
    BY <2>1 DEF Conditions
  <2> QED
    BY <2>1, <2>2, <2>3, InitIInv DEF MCInit, TimeInv
<1>2. IInv /\ TimeInv /\ [MCNext]_mcvars => IInv' /\ TimeInv'
  <2> SUFFICES ASSUME IInv, TimeInv, [MCNext]_mcvars PROVE IInv' /\ TimeInv'
    OBVIOUS
  <2>1. [Next]_vars
    BY DEF MCNext, Untimed, Timed, Next, mcvars
  <2> QED
    BY <2>1, NextTime, NextType, NextControl DEF IInv
<1>3. IInv /\ TimeInv => FaultsEndControl
  <2> SUFFICES ASSUME IInv, TimeInv, NEW c \in Conditions
               PROVE  exposure[c] <= Hysteresis + 3
    BY DEF FaultsEndControl, Conditions
  <2>1. /\ exposure[c] \in Nat /\ Slack \in 0 .. 1 /\ Passes \in 1 .. 2
        /\ ExposureInv(c)
    BY DEF TimeInv, Slack, Passes
  <2>2. Age(c) \in Int
    BY Numbers DEF Age, Apart, StateOf, IInv, TypeOK, Condition, Time
  <2> QED
    BY <2>1, <2>2, Numbers DEF ExposureInv
<1> QED
  BY <1>1, <1>2, <1>3, PTL DEF MCSpec

----------------------------------------------------------------------------
(* What the promise is worth.                                               *)

\* Whoever relies on ControlPromise may rely on this: a module with a latched
\* override does not drive, however its fault reports, latches and enable
\* frames follow one another.
THEOREM PassiveWhileLatched ==
  Promise!Spec => [](Promise!TypeOK /\ Promise!LatchedIsPassive)
<1>1. Promise!Init => Promise!TypeOK /\ Promise!LatchedIsPassive
  BY DEF Promise!Init, Promise!TypeOK, Promise!LatchedIsPassive
<1>2. /\ Promise!TypeOK /\ Promise!LatchedIsPassive
      /\ [Promise!Next]_(Promise!vars)
      => (Promise!TypeOK /\ Promise!LatchedIsPassive)'
  <2> SUFFICES ASSUME Promise!TypeOK, Promise!LatchedIsPassive,
                      [Promise!Next]_(Promise!vars)
               PROVE  (Promise!TypeOK /\ Promise!LatchedIsPassive)'
    OBVIOUS
  <2> USE DEF Promise!TypeOK, Promise!LatchedIsPassive
  <2>1. CASE Promise!Take
    BY <2>1 DEF Promise!Take
  <2>2. CASE Promise!GiveBack
    BY <2>2 DEF Promise!GiveBack
  <2>3. CASE Promise!Announce
    BY <2>3 DEF Promise!Announce
  <2>4. CASE Promise!Latch
    BY <2>4 DEF Promise!Latch
  <2>5. CASE Promise!Unlatch
    BY <2>5 DEF Promise!Unlatch
  <2>6. CASE UNCHANGED Promise!vars
    BY <2>6 DEF Promise!vars
  <2> QED
    BY <2>1, <2>2, <2>3, <2>4, <2>5, <2>6 DEF Promise!Next
<1> QED
  BY <1>1, <1>2, PTL DEF Promise!Spec
=============================================================================
