---------------------------- MODULE ControlModule ---------------------------
(***************************************************************************)
(* One OSCC control module with a hysteresis override detector: the        *)
(* throttle module, and the brake module of the Kia Soul EV and the Niro,  *)
(* whose firmware is the same program up to names, pins and the brake      *)
(* light.                                                                  *)
(*                                                                         *)
(* The main loop runs check_for_incoming_message and check_for_faults for  *)
(* ever.  The timer 1 interrupt publishes a report of the control state    *)
(* between any two of its instructions, so every handler is cut into the   *)
(* steps after which the shared state or a pin has changed.  `pc' names    *)
(* the next step, `job' what the running handler works for: an enable or   *)
(* disable frame, or the fault check_for_faults found.                     *)
(*                                                                         *)
(* Voltages are abstracted to what the code tells apart: whether the pedal *)
(* average reaches the override threshold, whether an input reads zero,    *)
(* which signal a DAC channel carries.                                     *)
(***************************************************************************)
EXTENDS FaultCheck

CONSTANT Unit   \* which firmware this is

ASSUME UnitAssumption == Unit \in {"throttle", "brake"}

VARIABLES
  pc,                 \* next step of the main loop
  job,                \* what the running handler works for
  enabled,            \* g_<unit>_control_state.enabled
  operator_override,  \* g_<unit>_control_state.operator_override
  dtcs,               \* g_<unit>_control_state.dtcs
  relay,              \* PIN_SPOOF_ENABLE: HIGH puts the module in control
  brake_light,        \* PIN_BRAKE_LIGHT_ENABLE (brake only)
  dac,                \* the signal each DAC channel carries
  override_state,     \* static operator_override_state of check_for_faults
  grounded_state,     \* static grounded_fault_state of check_for_faults
  report,             \* the last report the timer interrupt published
  fault_report,       \* the DTCs of the last fault report, {} before any
  sensor,             \* the pedal sensor, as the ADC reads it
  now                 \* millis()

state   == <<enabled, operator_override, dtcs>>
pins    == <<relay, brake_light, dac>>
statics == <<override_state, grounded_state>>
bus     == <<report, fault_report>>
world   == <<sensor, now>>
vars    == <<pc, job, state, pins, statics, bus, world>>

DTC    == {"INVALID_SENSOR_VAL", "OPERATOR_OVERRIDE"}
Jobs   == {"none", "enable", "disable"} \cup DTC
Sensor == [pressed : BOOLEAN, grounded : BOOLEAN]
Signal == {"unset", "high_sensor", "low_sensor", "high_spoof", "low_spoof"}
Report == [enabled : BOOLEAN, operator_override : BOOLEAN, dtcs : SUBSET DTC]
Steps  == {"receive", "smooth", "close_relay", "set_enabled", "open_relay",
           "clear_enabled", "check", "set_dtc", "publish_fault", "latch",
           "clear_override"}

----------------------------------------------------------------------------
(* Initial state: init_globals, init_devices, and the statics' initialisers *)

Init ==
  /\ pc = "receive"
  /\ job = "none"
  /\ enabled = FALSE
  /\ operator_override = FALSE
  /\ dtcs = {}
  /\ relay = "LOW"
  /\ brake_light = "LOW"
  /\ dac = [A |-> "unset", B |-> "unset"]
  /\ override_state = CONDITION_STATE_INIT
  /\ grounded_state = CONDITION_STATE_INIT
  /\ report = [enabled |-> FALSE, operator_override |-> FALSE, dtcs |-> {}]
  /\ fault_report = {}
  /\ sensor \in Sensor
  /\ now \in Time

----------------------------------------------------------------------------
(* check_for_incoming_message and process_rx_frame: at most one frame.      *)

\* No frame, a frame without the magic bytes, or an id nobody handles.
ReceiveNothing ==
  /\ pc = "receive"
  /\ pc' = "check"
  /\ UNCHANGED <<job, state, pins, statics, bus, world>>

\* An enable frame calls enable_control while the override is latched.
ReceiveEnableUnlatched ==
  /\ pc = "receive"
  /\ IF ~enabled THEN pc' = "smooth" /\ job' = "enable"
                 ELSE pc' = "check" /\ UNCHANGED job
  /\ UNCHANGED <<state, pins, statics, bus, world>>

\* An enable frame calls enable_control.
ReceiveEnable ==
  /\ pc = "receive"
  /\ IF ~enabled /\ ~operator_override
     THEN pc' = "smooth" /\ job' = "enable"
     ELSE pc' = "check" /\ UNCHANGED job
  /\ UNCHANGED <<state, pins, statics, bus, world>>

\* A disable frame, or the fault report of another module, calls
\* disable_control.
ReceiveDisable ==
  /\ pc = "receive"
  /\ IF enabled THEN pc' = "smooth" /\ job' = "disable"
                ELSE pc' = "check" /\ UNCHANGED job
  /\ UNCHANGED <<state, pins, statics, bus, world>>

\* update_throttle, update_brake: clamped spoof values for the DAC, and a
\* brake light that is on when they reach its thresholds.
Update ==
  IF enabled
  THEN /\ dac' = [A |-> "high_spoof", B |-> "low_spoof"]
       /\ brake_light' \in (IF Unit = "brake" THEN {"LOW", "HIGH"} ELSE {brake_light})
  ELSE UNCHANGED <<dac, brake_light>>

\* A command frame.
ReceiveCommand ==
  /\ pc = "receive"
  /\ pc' = "check"
  /\ Update
  /\ UNCHANGED <<job, state, relay, statics, bus, world>>

----------------------------------------------------------------------------
(* enable_control and disable_control, once their guards let them through   *)

\* prevent_signal_discontinuity( g_dac, n, ..._SENSOR_LOW, ..._SENSOR_HIGH ):
\* the first pin's average goes to channel A, the second's to channel B.
Smooth ==
  /\ pc = "smooth"
  /\ dac' = [A |-> "low_sensor", B |-> "high_sensor"]
  /\ pc' = IF job = "enable" THEN "close_relay" ELSE "open_relay"
  /\ UNCHANGED <<job, state, relay, brake_light, statics, bus, world>>

CloseRelay ==
  /\ pc = "close_relay"
  /\ relay' = "HIGH"
  /\ pc' = "set_enabled"
  /\ UNCHANGED <<job, state, brake_light, dac, statics, bus, world>>

SetEnabled ==
  /\ pc = "set_enabled"
  /\ enabled' = TRUE
  /\ pc' = "check"
  /\ job' = "none"
  /\ UNCHANGED <<operator_override, dtcs, pins, statics, bus, world>>

\* A disable_control that leaves the brake light as it is.
OpenRelayKeepingLight ==
  /\ pc = "open_relay"
  /\ relay' = "LOW"
  /\ pc' = "clear_enabled"
  /\ UNCHANGED <<job, state, brake_light, dac, statics, bus, world>>

OpenRelay ==
  /\ pc = "open_relay"
  /\ relay' = "LOW"
  /\ brake_light' = "LOW"
  /\ pc' = "clear_enabled"
  /\ UNCHANGED <<job, state, dac, statics, bus, world>>

\* disable_control returns to the message loop or to check_for_faults.
ClearEnabled ==
  /\ pc = "clear_enabled"
  /\ enabled' = FALSE
  /\ IF job = "disable" THEN pc' = "check" /\ job' = "none"
                        ELSE pc' = "set_dtc" /\ UNCHANGED job
  /\ UNCHANGED <<operator_override, dtcs, pins, statics, bus, world>>

----------------------------------------------------------------------------
(* check_for_faults                                                         *)

\* A fault that is named only if control had to be disabled for it.
DisableForUnnamed(fault) ==
  /\ job' = IF enabled THEN fault ELSE job
  /\ pc' = IF enabled THEN "smooth" ELSE "set_dtc"

\* A fault that is handled without disable_control.
DisableForNothing(fault) ==
  /\ job' = fault
  /\ pc' = "set_dtc"

\* A fault report that is published before its DTC is set.
DisableForUnset(fault) ==
  /\ job' = fault
  /\ pc' = IF enabled THEN "smooth" ELSE "publish_fault"

\* disable_control called for a fault found while checking.
DisableFor(fault) ==
  /\ job' = fault
  /\ pc' = IF enabled THEN "smooth" ELSE "set_dtc"

\* Checking that stops with control, whatever the DTCs.
CheckSkippedWhenDisabled ==
  /\ pc = "check"
  /\ ~enabled
  /\ pc' = "receive"
  /\ UNCHANGED <<job, state, pins, statics, bus, world>>

\* Checking goes on after control is lost, for as long as a DTC is set.
CheckSkipped ==
  /\ pc = "check"
  /\ ~enabled /\ dtcs = {}
  /\ pc' = "receive"
  /\ UNCHANGED <<job, state, pins, statics, bus, world>>

\* Both debouncers are updated on every check, then a grounded input takes
\* precedence over an override; with neither, dtcs is cleared.
Check ==
  /\ pc = "check"
  /\ enabled \/ dtcs # {}
  /\ override_state' = Monitor(override_state, sensor.pressed, now)
  /\ grounded_state' = Monitor(grounded_state, sensor.grounded, now)
  /\ LET inputs_grounded     == Exceeded(grounded_state, sensor.grounded, now)
         operator_overridden == Exceeded(override_state, sensor.pressed, now)
     IN \/ /\ inputs_grounded
           /\ DisableFor("INVALID_SENSOR_VAL")
           /\ UNCHANGED dtcs
        \/ /\ ~inputs_grounded /\ operator_overridden
           /\ DisableFor("OPERATOR_OVERRIDE")
           /\ UNCHANGED dtcs
        \/ /\ ~inputs_grounded /\ ~operator_overridden
           /\ dtcs' = {}
           /\ pc' = "clear_override"
           /\ UNCHANGED job
  /\ UNCHANGED <<enabled, operator_override, pins, bus, world>>

SetDtc ==
  /\ pc = "set_dtc"
  /\ dtcs' = dtcs \cup {job}
  /\ pc' = "publish_fault"
  /\ UNCHANGED <<job, enabled, operator_override, pins, statics, bus, world>>

\* Mutant: a fault report carries only the fault just found.
PublishFaultReportOne ==
  /\ pc = "publish_fault"
  /\ fault_report' = {job}
  /\ IF job = "OPERATOR_OVERRIDE" THEN pc' = "latch" /\ UNCHANGED job
                                  ELSE pc' = "receive" /\ job' = "none"
  /\ UNCHANGED <<state, pins, statics, report, world>>

\* publish_fault_report; only an override goes on to be latched.
PublishFaultReport ==
  /\ pc = "publish_fault"
  /\ fault_report' = dtcs
  /\ IF job = "OPERATOR_OVERRIDE" THEN pc' = "latch" /\ UNCHANGED job
                                  ELSE pc' = "receive" /\ job' = "none"
  /\ UNCHANGED <<state, pins, statics, report, world>>

Latch ==
  /\ pc = "latch"
  /\ operator_override' = TRUE
  /\ pc' = "receive"
  /\ job' = "none"
  /\ UNCHANGED <<enabled, dtcs, pins, statics, bus, world>>

\* A check that clears the DTCs and keeps the latch.
ClearNothing ==
  /\ pc = "clear_override"
  /\ pc' = "receive"
  /\ UNCHANGED <<job, state, pins, statics, bus, world>>

ClearOverride ==
  /\ pc = "clear_override"
  /\ operator_override' = FALSE
  /\ pc' = "receive"
  /\ UNCHANGED <<job, enabled, dtcs, pins, statics, bus, world>>

----------------------------------------------------------------------------
(* The timer interrupt, and the world the module senses                     *)

\* publish_*_report, from the timer 1 interrupt, between any two steps.
PublishReport ==
  /\ report' = [enabled |-> enabled, operator_override |-> operator_override,
                dtcs |-> dtcs]
  /\ UNCHANGED <<pc, job, state, pins, statics, fault_report, world>>

\* The operator presses or releases the pedal, a wire fails or recovers.
SensorChange ==
  /\ sensor' \in Sensor \ {sensor}
  /\ UNCHANGED <<pc, job, state, pins, statics, bus, now>>

Tick ==
  /\ now' = IF now + 1 = ClockMod THEN 0 ELSE now + 1
  /\ UNCHANGED <<pc, job, state, pins, statics, bus, sensor>>

HandleFrame == ReceiveEnable \/ ReceiveDisable \/ ReceiveCommand

Proceed ==
  \/ Smooth \/ CloseRelay \/ SetEnabled \/ OpenRelay \/ ClearEnabled
  \/ CheckSkipped \/ Check \/ SetDtc \/ PublishFaultReport \/ Latch
  \/ ClearOverride

MainLoop == ReceiveNothing \/ HandleFrame \/ Proceed

Next == MainLoop \/ PublishReport \/ SensorChange \/ Tick

Spec == Init /\ [][Next]_vars

----------------------------------------------------------------------------
(* Properties                                                               *)

\* Every variable keeps its type: in particular no step works for a job, or
\* carries a fault, that its handler does not have.
TypeOK ==
  /\ pc \in Steps
  /\ job \in Jobs
  /\ enabled \in BOOLEAN
  /\ operator_override \in BOOLEAN
  /\ dtcs \in SUBSET DTC
  /\ relay \in {"LOW", "HIGH"}
  /\ brake_light \in {"LOW", "HIGH"}
  /\ dac \in [A : Signal, B : Signal]
  /\ override_state \in Condition
  /\ grounded_state \in Condition
  /\ report \in Report
  /\ fault_report \in SUBSET DTC
  /\ sensor \in Sensor
  /\ now \in Time

\* While an operator override is latched the vehicle keeps its own pedal: the
\* module neither claims control nor holds the relay, whatever frames arrive.
OverrideLocksOut == operator_override => ~enabled /\ relay = "LOW"

\* check_for_faults runs only while enabled or with a DTC set, and only it
\* clears the latch: a latch without its DTC would lock the module out for
\* good, and does not happen.
LatchIsReleasable ==
  operator_override => "OPERATOR_OVERRIDE" \in dtcs \/ pc = "clear_override"

\* Outside the window between the pin write and the flag write, the relay is
\* what `enabled' says, so commands reach the DAC exactly when the vehicle
\* listens to it; and the brake light is lit only by a module in control.
PinsFollowState ==
  /\ pc \notin {"set_enabled", "clear_enabled"} => (relay = "HIGH" <=> enabled)
  /\ brake_light = "HIGH" => relay = "HIGH" /\ enabled

\* The module speaks with two voices, the status report of the timer interrupt
\* and the fault report of the main loop, and the peers disable themselves
\* only on the second.  Wherever the interrupt comes, a status report shows no
\* fault that the last fault report has not named, but for the one the main
\* loop names in its next step; and it shows an override as latched only when
\* the last fault report named an override.
ReportsAnnounced ==
  [][report' # report =>
       /\ report'.dtcs \subseteq fault_report \cup (IF pc = "publish_fault" THEN {job} ELSE {})
       /\ report'.operator_override => "OPERATOR_OVERRIDE" \in fault_report]_vars

\* A fault report goes out only after control was handed back, and names the
\* fault it is about: a peer that reacts to it never sees the originator
\* still driving, nor an empty report.
FaultReportAfterRelease ==
  [][fault_report' # fault_report => relay = "LOW" /\ ~enabled /\ job \in fault_report']_vars

\* The purpose oscc_dac.h states for prevent_signal_discontinuity: when the
\* relay moves, each channel carries the sensor it is about to stand in for
\* (update_* drives the high signal on A and the low signal on B).
NoSignalDiscontinuity ==
  pc \in {"close_relay", "open_relay"} => dac = [A |-> "high_sensor", B |-> "low_sensor"]

\* What the module promises the vehicle and the bus (ControlPromise): the
\* relay is who drives, the fault report what was announced.
Promise == INSTANCE ControlPromise WITH
  driver    <- IF relay = "HIGH" THEN "module" ELSE "vehicle",
  announced <- fault_report,
  latched   <- operator_override

\* Every step of the firmware is a step of that promise or invisible to it.
ImplementsPromise == Promise!Spec
=============================================================================
