--------------------------- MODULE SteeringModule ---------------------------
(***************************************************************************)
(* The steering module (firmware/steering).  Its message loop and its      *)
(* enable and disable handlers are those of the other control modules; its *)
(* override detector is a moving average of the torque sensor's two        *)
(* readings, kept as an integer that is cut off at every step.             *)
(*                                                                         *)
(* The handlers are cut into the steps after which shared state or a pin   *)
(* has changed.  The timer interrupt reports enabled, operator_override    *)
(* and dtcs as they are at that moment, so a report is a state of the      *)
(* model and needs no action.                                              *)
(***************************************************************************)
EXTENDS FaultCheck

CONSTANTS
  STEERING_OVERRIDE,  \* whether the build has the override detector
  Weight,             \* 1 / filter_alpha: 100 in the code
  Threshold,          \* TORQUE_DIFFERENCE_OVERRIDE_THRESHOLD: 2000
  Samples             \* the differences abs( high - low ) the sensor can show

ASSUME BuildAssumption == STEERING_OVERRIDE \in BOOLEAN
ASSUME FilterAssumption == Weight \in Nat \ {0} /\ Threshold \in Nat
ASSUME SamplesAssumption == Samples \subseteq Nat

VARIABLES
  pc,                 \* next step of the main loop
  job,                \* what the running handler works for
  enabled,            \* g_steering_control_state.enabled
  operator_override,  \* g_steering_control_state.operator_override
  dtcs,               \* g_steering_control_state.dtcs
  relay,              \* PIN_SPOOF_ENABLE: HIGH puts the module in control
  dac,                \* the signal each DAC channel carries
  filtered_diff,      \* static filtered_diff
  grounded_state,     \* static grounded_fault_state of check_for_faults
  fault_report,       \* the DTCs of the last fault report, {} before any
  torque,             \* the torque sensor, as the ADC reads it
  now                 \* millis()

state == <<enabled, operator_override, dtcs>>
world == <<torque, now>>
vars  == <<pc, job, state, relay, dac, filtered_diff, grounded_state, fault_report, world>>

DTC    == {"INVALID_SENSOR_VAL", "OPERATOR_OVERRIDE"}
Jobs   == {"none", "enable", "disable"} \cup DTC
Torque == [diff : Samples, grounded : BOOLEAN]
Signal == {"unset", "high_sensor", "low_sensor", "high_spoof", "low_spoof"}
Steps  == {"receive", "smooth", "close_relay", "set_enabled", "open_relay",
           "clear_enabled", "check", "set_dtc", "publish_fault", "latch",
           "clear_override"}

\* init_globals, init_devices, and the statics' initialisers.
Init ==
  /\ pc = "receive" /\ job = "none"
  /\ enabled = FALSE /\ operator_override = FALSE /\ dtcs = {}
  /\ relay = "LOW"
  /\ dac = [A |-> "unset", B |-> "unset"]
  /\ filtered_diff = 0
  /\ grounded_state = CONDITION_STATE_INIT
  /\ fault_report = {}
  /\ torque \in Torque
  /\ now \in Time

----------------------------------------------------------------------------
(* check_for_incoming_message and process_rx_frame: at most one frame.      *)

ReceiveNothing ==
  /\ pc = "receive"
  /\ pc' = "check"
  /\ UNCHANGED <<job, state, relay, dac, filtered_diff, grounded_state, fault_report, world>>

\* An enable frame that takes the DTCs, not the latch, for the override.
ReceiveEnableUnlatched ==
  /\ pc = "receive"
  /\ IF ~enabled THEN pc' = "smooth" /\ job' = "enable"
                 ELSE pc' = "check" /\ UNCHANGED job
  /\ UNCHANGED <<state, relay, dac, filtered_diff, grounded_state, fault_report, world>>

\* An enable frame.
ReceiveEnable ==
  /\ pc = "receive"
  /\ IF ~enabled /\ ~operator_override
     THEN pc' = "smooth" /\ job' = "enable"
     ELSE pc' = "check" /\ UNCHANGED job
  /\ UNCHANGED <<state, relay, dac, filtered_diff, grounded_state, fault_report, world>>

\* A disable frame, or the fault report of another module.
ReceiveDisable ==
  /\ pc = "receive"
  /\ IF enabled THEN pc' = "smooth" /\ job' = "disable"
                ELSE pc' = "check" /\ UNCHANGED job
  /\ UNCHANGED <<state, relay, dac, filtered_diff, grounded_state, fault_report, world>>

\* A command frame: process_steering_command clamps the torque and calls
\* update_steering, which clamps again and writes both channels if enabled.
ReceiveCommand ==
  /\ pc = "receive"
  /\ pc' = "check"
  /\ dac' = IF enabled THEN [A |-> "high_spoof", B |-> "low_spoof"] ELSE dac
  /\ UNCHANGED <<job, state, relay, filtered_diff, grounded_state, fault_report, world>>

----------------------------------------------------------------------------
(* enable_control and disable_control, once their guards let them through   *)

\* Mutant: smoothing on the way in only.
SmoothEnableOnly ==
  /\ pc = "smooth"
  /\ dac' = IF job = "enable" THEN [A |-> "high_sensor", B |-> "low_sensor"] ELSE dac
  /\ pc' = IF job = "enable" THEN "close_relay" ELSE "open_relay"
  /\ UNCHANGED <<job, state, relay, filtered_diff, grounded_state, fault_report, world>>

\* prevent_signal_discontinuity( g_dac, 20, ..._HIGH, ..._LOW )
Smooth ==
  /\ pc = "smooth"
  /\ dac' = [A |-> "high_sensor", B |-> "low_sensor"]
  /\ pc' = IF job = "enable" THEN "close_relay" ELSE "open_relay"
  /\ UNCHANGED <<job, state, relay, filtered_diff, grounded_state, fault_report, world>>

CloseRelay ==
  /\ pc = "close_relay"
  /\ relay' = "HIGH"
  /\ pc' = "set_enabled"
  /\ UNCHANGED <<job, state, dac, filtered_diff, grounded_state, fault_report, world>>

SetEnabled ==
  /\ pc = "set_enabled"
  /\ enabled' = TRUE
  /\ pc' = "check" /\ job' = "none"
  /\ UNCHANGED <<operator_override, dtcs, relay, dac, filtered_diff, grounded_state,
                 fault_report, world>>

OpenRelay ==
  /\ pc = "open_relay"
  /\ relay' = "LOW"
  /\ pc' = "clear_enabled"
  /\ UNCHANGED <<job, state, dac, filtered_diff, grounded_state, fault_report, world>>

\* The flag and the filter, which no interrupt reads.
ClearEnabled ==
  /\ pc = "clear_enabled"
  /\ enabled' = FALSE
  /\ filtered_diff' = 0
  /\ IF job = "disable" THEN pc' = "check" /\ job' = "none"
                        ELSE pc' = "set_dtc" /\ UNCHANGED job
  /\ UNCHANGED <<operator_override, dtcs, relay, dac, grounded_state, fault_report, world>>

----------------------------------------------------------------------------
(* check_for_faults                                                         *)

\* exponential_moving_average with the input not scaled by alpha.
FilteredUnscaled(average, input) ==
  LET seeded == IF average = 0 THEN input ELSE average
  IN  input + ((Weight - 1) * seeded) \div Weight

\* exponential_moving_average without its seed.
FilteredUnseeded(average, input) == (input + (Weight - 1) * average) \div Weight

\* The seed and exponential_moving_average, cut to an integer as the
\* assignment to a uint16_t cuts it.
Filtered(average, input) ==
  LET seeded == IF average = 0 THEN input ELSE average
  IN  (input + (Weight - 1) * seeded) \div Weight

\* A fault that is named only if control had to be disabled for it.
DisableForUnnamed(fault) ==
  /\ job' = IF enabled THEN fault ELSE job
  /\ pc' = IF enabled THEN "smooth" ELSE "set_dtc"

\* A fault that is handled without disable_control.
DisableForNothing(fault) ==
  /\ job' = fault
  /\ pc' = "set_dtc"

\* disable_control called for a fault found while checking.
DisableFor(fault) ==
  /\ job' = fault
  /\ pc' = IF enabled THEN "smooth" ELSE "set_dtc"

\* Checking that stops with control, whatever the DTCs.
CheckSkippedWhenDisabled ==
  /\ pc = "check"
  /\ ~enabled
  /\ pc' = "receive"
  /\ UNCHANGED <<job, state, relay, dac, filtered_diff, grounded_state, fault_report, world>>

CheckSkipped ==
  /\ pc = "check"
  /\ ~enabled /\ dtcs = {}
  /\ pc' = "receive"
  /\ UNCHANGED <<job, state, relay, dac, filtered_diff, grounded_state, fault_report, world>>

\* The filter takes the new reading first; then a grounded input takes
\* precedence over an override, and with neither the DTCs are cleared.
Check ==
  /\ pc = "check"
  /\ enabled \/ dtcs # {}
  /\ filtered_diff' = IF STEERING_OVERRIDE THEN Filtered(filtered_diff, torque.diff)
                                           ELSE filtered_diff
  /\ grounded_state' = Monitor(grounded_state, torque.grounded, now)
  /\ LET inputs_grounded == Exceeded(grounded_state, torque.grounded, now)
         overridden      == STEERING_OVERRIDE /\ filtered_diff' > Threshold
     IN \/ /\ inputs_grounded
           /\ DisableFor("INVALID_SENSOR_VAL")
           /\ UNCHANGED dtcs
        \/ /\ ~inputs_grounded /\ overridden
           /\ DisableFor("OPERATOR_OVERRIDE")
           /\ UNCHANGED dtcs
        \/ /\ ~inputs_grounded /\ ~overridden
           /\ dtcs' = {}
           /\ pc' = IF STEERING_OVERRIDE THEN "clear_override" ELSE "receive"
           /\ UNCHANGED job
  /\ UNCHANGED <<enabled, operator_override, relay, dac, fault_report, world>>

SetDtc ==
  /\ pc = "set_dtc"
  /\ dtcs' = dtcs \cup {job}
  /\ pc' = "publish_fault"
  /\ UNCHANGED <<job, enabled, operator_override, relay, dac, filtered_diff, grounded_state,
                 fault_report, world>>

\* publish_fault_report; only an override goes on to be latched.
PublishFaultReport ==
  /\ pc = "publish_fault"
  /\ fault_report' = dtcs
  /\ IF job = "OPERATOR_OVERRIDE" THEN pc' = "latch" /\ UNCHANGED job
                                  ELSE pc' = "receive" /\ job' = "none"
  /\ UNCHANGED <<state, relay, dac, filtered_diff, grounded_state, world>>

Latch ==
  /\ pc = "latch"
  /\ operator_override' = TRUE
  /\ pc' = "receive" /\ job' = "none"
  /\ UNCHANGED <<enabled, dtcs, relay, dac, filtered_diff, grounded_state, fault_report, world>>

ClearOverride ==
  /\ pc = "clear_override"
  /\ operator_override' = FALSE
  /\ pc' = "receive"
  /\ UNCHANGED <<job, enabled, dtcs, relay, dac, filtered_diff, grounded_state, fault_report,
                 world>>

----------------------------------------------------------------------------
(* The operator's hands, the sensor's wires and the clock                   *)

SensorChange ==
  /\ torque' \in Torque \ {torque}
  /\ UNCHANGED <<pc, job, state, relay, dac, filtered_diff, grounded_state, fault_report, now>>

Tick ==
  /\ now' = IF now + 1 = ClockMod THEN 0 ELSE now + 1
  /\ UNCHANGED <<pc, job, state, relay, dac, filtered_diff, grounded_state, fault_report, torque>>

HandleFrame == ReceiveEnable \/ ReceiveDisable \/ ReceiveCommand

Proceed ==
  \/ Smooth \/ CloseRelay \/ SetEnabled \/ OpenRelay \/ ClearEnabled
  \/ CheckSkipped \/ Check \/ SetDtc \/ PublishFaultReport \/ Latch
  \/ ClearOverride

MainLoop == ReceiveNothing \/ HandleFrame \/ Proceed

Next == MainLoop \/ SensorChange \/ Tick

Spec == Init /\ [][Next]_vars

----------------------------------------------------------------------------
(* Properties                                                               *)

\* Every variable keeps its type; the filter stays a natural number.
TypeOK ==
  /\ pc \in Steps
  /\ job \in Jobs
  /\ enabled \in BOOLEAN
  /\ operator_override \in BOOLEAN
  /\ dtcs \in SUBSET DTC
  /\ relay \in {"LOW", "HIGH"}
  /\ dac \in [A : Signal, B : Signal]
  /\ filtered_diff \in Nat
  /\ grounded_state \in Condition
  /\ fault_report \in SUBSET DTC
  /\ torque \in Torque
  /\ now \in Time

\* While an override is latched the operator keeps the wheel: the module
\* neither claims control nor holds the relay, whatever frames arrive.
OverrideLocksOut == operator_override => ~enabled /\ relay = "LOW"

\* What the flag says, what the relay does and what the DAC carries agree:
\* outside the window between the pin write and the flag write the relay is
\* closed exactly when the module counts as enabled, and a commanded torque is
\* on the DAC only while both say that the module is in control, whichever path
\* ends it: a disable frame, another module's fault, a fault of its own.
PinsFollowState ==
  /\ pc \notin {"set_enabled", "clear_enabled"} => (relay = "HIGH" <=> enabled)
  /\ dac.A = "high_spoof" \/ dac.B = "low_spoof" => relay = "HIGH" /\ enabled

\* What the module promises the vehicle and the bus (ControlPromise).
Promise == INSTANCE ControlPromise WITH
  driver    <- IF relay = "HIGH" THEN "module" ELSE "vehicle",
  announced <- fault_report,
  latched   <- operator_override

\* Every step of the firmware is a step of that promise or invisible to it.
ImplementsPromise == Promise!Spec
=============================================================================
