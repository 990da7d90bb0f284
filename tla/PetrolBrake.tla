----------------------------- MODULE PetrolBrake ----------------------------
(***************************************************************************)
(* The brake module of the Kia Soul Petrol (firmware/brake/                *)
(* kia_soul_petrol), which drives solenoids instead of spoofing a sensor.  *)
(*                                                                         *)
(* Two actors work on the same control state and the same pins.  The main  *)
(* loop handles frames, looks for operator overrides and regulates the     *)
(* wheel pressure.  The timer 1 interrupt checks the sensors and may       *)
(* disable control in the middle of whatever the main loop does; the main  *)
(* loop waits until the interrupt returns.  Timer 2 publishes enabled,     *)
(* operator_override and dtcs, read in one piece: its reports are the      *)
(* states of this module, and what holds of every state holds of them.     *)
(*                                                                         *)
(* A step is what runs with interrupts off, between cli and sei, or the    *)
(* access to one shared byte.  Every cli/sei pair turns the interrupts on  *)
(* at its end, also inside the interrupt handler and inside the critical   *)
(* section update_brake means to open; so no longer piece is atomic.       *)
(* Pressures and duty cycles are abstracted to what the code compares.     *)
(***************************************************************************)
EXTENDS FaultCheck, FiniteSets

CONSTANTS
  Inputs,      \* the groups of sensor pins that are checked for ground
  FaultCount   \* SENSOR_VALIDITY_CHECK_FAULT_COUNT

ASSUME InputsAssumption == IsFiniteSet(Inputs)
ASSUME FaultCountAssumption == FaultCount \in Nat \ {0}

VARIABLES
  pc,                 \* next step of the main loop and of the interrupt
  job,                \* what the main loop disables control for
  enabled,            \* g_brake_control_state.enabled
  operator_override,  \* g_brake_control_state.operator_override
  dtcs,               \* g_brake_control_state.dtcs
  commanded,          \* g_brake_control_state.commanded_pedal_position
  startup_error,      \* one of the startup checks has failed
  copy,               \* the copy of dtcs the main loop works on
  target,             \* pressure_at_wheels_target of update_brake
  accumulator,        \* the accumulator solenoids: ON lets pressure in
  release,            \* the release solenoids: ON lets pressure out
  master,             \* the master cylinder solenoid: closed cuts the pedal off
  brake_light,        \* PIN_BRAKE_LIGHT
  pump,               \* PIN_ACCUMULATOR_PUMP_MOTOR
  override_state,     \* static operator_override_state
  fault_count,        \* the static fault_count of each sensor check
  fault_report,       \* the DTCs of the last fault report, {} before any
  pressed,            \* the pedal pressure reaches the override threshold
  grounded,           \* the inputs that read zero
  now                 \* millis()

flags     == <<enabled, operator_override>>
command   == <<commanded, startup_error>>
locals    == <<job, copy, target>>
solenoids == <<accumulator, release, master>>
lamps     == <<brake_light, pump>>
statics   == <<override_state, fault_count>>
bus       == <<fault_report>>
world     == <<pressed, grounded, now>>
vars == <<pc, flags, dtcs, command, locals, solenoids, lamps, statics, bus, world>>

DTC      == {"INVALID_SENSOR_VAL", "OPERATOR_OVERRIDE"}
Position == {"released", "applied"}
Duty     == {"OFF", "ON"}

DisableSteps == {"stop_accumulator", "open_release", "lights_off", "open_master",
                 "close_release", "clear_enabled"}
IsrSteps  == DisableSteps \cup {"idle", "set_dtc", "send_report"}
MainSteps == DisableSteps \cup
  {"receive", "close_master", "stop_release", "set_enabled",
   "maintain", "override_guard", "override_check",
   "load_set", "store_set", "read_report", "send_report", "latch",
   "load_clear", "store_clear", "clear_override",
   "update", "sample", "regulate", "vent", "vent_lights", "hold", "press"}

Init ==
  /\ pc = [main |-> "receive", isr |-> "idle"]
  /\ job = "none"
  /\ enabled = FALSE /\ operator_override = FALSE /\ dtcs = {}
  /\ commanded = "released"
  /\ startup_error \in BOOLEAN
  /\ copy = {} /\ target = "released"
  /\ accumulator = "OFF" /\ release = "OFF" /\ master = "OPEN"
  /\ brake_light = "OFF" /\ pump = "OFF"
  /\ override_state = CONDITION_STATE_INIT
  /\ fault_count = [i \in Inputs |-> 0]
  /\ fault_report = {}
  /\ pressed \in BOOLEAN /\ grounded \in SUBSET Inputs
  /\ now \in Time

\* The main loop runs only while the interrupt does not.
MainAt(step) == pc.main = step /\ pc.isr = "idle"

MainTo(step) == pc' = [pc EXCEPT !.main = step]

\* A step of the main loop or of the interrupt handler.
At(self, step) == IF self = "isr" THEN pc.isr = step ELSE MainAt(step)

To(self, step) == IF self = "isr" THEN pc' = [pc EXCEPT !.isr = step] ELSE MainTo(step)

----------------------------------------------------------------------------
(* disable_control, called by the main loop or by the interrupt once its    *)
(* guard has let it through                                                 *)

\* A disable_control that opens the release solenoids first.
StopAccumulatorLast(self) ==
  /\ At(self, "stop_accumulator")
  /\ release' = "ON"
  /\ To(self, "open_release")
  /\ UNCHANGED <<flags, dtcs, command, locals, accumulator, master, lamps, statics, bus, world>>

StopAccumulator(self) ==
  /\ At(self, "stop_accumulator")
  /\ accumulator' = "OFF"
  /\ To(self, "open_release")
  /\ UNCHANGED <<flags, dtcs, command, locals, release, master, lamps, statics, bus, world>>

OpenRelease(self) ==
  /\ At(self, "open_release")
  /\ release' = "ON"
  /\ To(self, "lights_off")
  /\ UNCHANGED <<flags, dtcs, command, locals, accumulator, master, lamps, statics, bus, world>>

LightsOff(self) ==
  /\ At(self, "lights_off")
  /\ brake_light' = "OFF"
  /\ To(self, "open_master")
  /\ UNCHANGED <<flags, dtcs, command, locals, solenoids, pump, statics, bus, world>>

\* A disable_control that leaves the pedal cut off.
OpenMasterNot(self) ==
  /\ At(self, "open_master")
  /\ To(self, "close_release")
  /\ UNCHANGED <<flags, dtcs, command, locals, solenoids, lamps, statics, bus, world>>

\* After the 15 ms in which the release solenoids let the pressure out.
OpenMaster(self) ==
  /\ At(self, "open_master")
  /\ master' = "OPEN"
  /\ To(self, "close_release")
  /\ UNCHANGED <<flags, dtcs, command, locals, accumulator, release, lamps, statics, bus, world>>

CloseRelease(self) ==
  /\ At(self, "close_release")
  /\ release' = "OFF"
  /\ To(self, "clear_enabled")
  /\ UNCHANGED <<flags, dtcs, command, locals, accumulator, master, lamps, statics, bus, world>>

\* A disable_control that always returns to the main loop.
ClearEnabledInMain(self) ==
  /\ At(self, "clear_enabled")
  /\ enabled' = FALSE
  /\ job' = "none"
  /\ To(self, IF job = "override" THEN "load_set" ELSE "maintain")
  /\ UNCHANGED <<operator_override, dtcs, command, copy, target, solenoids, lamps,
                 statics, bus, world>>

\* Back to the caller: the interrupt and check_for_operator_override go on to
\* set a DTC, a frame is done with.
ClearEnabled(self) ==
  /\ At(self, "clear_enabled")
  /\ enabled' = FALSE
  /\ job' = IF self = "main" THEN "none" ELSE job
  /\ To(self, IF self = "isr" THEN "set_dtc"
              ELSE IF job = "override" THEN "load_set" ELSE "maintain")
  /\ UNCHANGED <<operator_override, dtcs, command, copy, target, solenoids, lamps,
                 statics, bus, world>>

Disable(self) ==
  \/ StopAccumulator(self) \/ OpenRelease(self) \/ LightsOff(self)
  \/ OpenMaster(self) \/ CloseRelease(self) \/ ClearEnabled(self)

----------------------------------------------------------------------------
(* The main loop: check_for_incoming_message, at most one frame             *)

ReceiveNothing ==
  /\ MainAt("receive") /\ MainTo("maintain")
  /\ UNCHANGED <<flags, dtcs, command, locals, solenoids, lamps, statics, bus, world>>

\* An enable_control that has lost its override guard.
ReceiveEnableUnlatched ==
  /\ MainAt("receive")
  /\ MainTo(IF ~enabled /\ ~startup_error THEN "close_master" ELSE "maintain")
  /\ UNCHANGED <<flags, dtcs, command, locals, solenoids, lamps, statics, bus, world>>

ReceiveEnable ==
  /\ MainAt("receive")
  /\ MainTo(IF ~enabled /\ ~operator_override /\ ~startup_error
            THEN "close_master" ELSE "maintain")
  /\ UNCHANGED <<flags, dtcs, command, locals, solenoids, lamps, statics, bus, world>>

\* A disable frame, or the fault report of another module.
ReceiveDisable ==
  /\ MainAt("receive")
  /\ IF enabled THEN MainTo("stop_accumulator") /\ job' = "frame"
                ELSE MainTo("maintain") /\ UNCHANGED job
  /\ UNCHANGED <<flags, dtcs, command, copy, target, solenoids, lamps, statics, bus, world>>

\* The commanded position is stored whether or not the module is in control.
ReceiveCommand ==
  /\ MainAt("receive") /\ MainTo("maintain")
  /\ commanded' \in Position
  /\ UNCHANGED <<flags, dtcs, startup_error, locals, solenoids, lamps, statics, bus, world>>

----------------------------------------------------------------------------
(* The rest of enable_control                                               *)

CloseMaster ==
  /\ MainAt("close_master") /\ MainTo("stop_release")
  /\ master' = "CLOSED"
  /\ UNCHANGED <<flags, dtcs, command, locals, accumulator, release, lamps, statics, bus, world>>

StopRelease ==
  /\ MainAt("stop_release") /\ MainTo("set_enabled")
  /\ release' = "OFF"
  /\ UNCHANGED <<flags, dtcs, command, locals, accumulator, master, lamps, statics, bus, world>>

SetEnabled ==
  /\ MainAt("set_enabled") /\ MainTo("maintain")
  /\ enabled' = TRUE
  /\ UNCHANGED <<operator_override, dtcs, command, locals, solenoids, lamps, statics, bus, world>>

----------------------------------------------------------------------------
(* accumulator_maintain_pressure and check_for_operator_override            *)

\* The pump goes on below the pressure band, off above it, stays as it is
\* inside it.
MaintainPressure ==
  /\ MainAt("maintain") /\ MainTo("override_guard")
  /\ pump' \in Duty
  /\ UNCHANGED <<flags, dtcs, command, locals, solenoids, brake_light, statics, bus, world>>

OverrideGuard ==
  /\ MainAt("override_guard")
  /\ MainTo(IF enabled \/ operator_override THEN "override_check" ELSE "update")
  /\ UNCHANGED <<flags, dtcs, command, locals, solenoids, lamps, statics, bus, world>>

OverrideCheck ==
  /\ MainAt("override_check")
  /\ override_state' = Monitor(override_state, pressed, now)
  /\ IF ~Exceeded(override_state, pressed, now)
     THEN MainTo("load_clear") /\ UNCHANGED job
     ELSE IF enabled THEN MainTo("stop_accumulator") /\ job' = "override"
                     ELSE MainTo("load_set") /\ UNCHANGED job
  /\ UNCHANGED <<flags, dtcs, command, copy, target, solenoids, lamps, fault_count, bus, world>>

\* DTC_SET and DTC_CLEAR load the byte, change the copy and store it.
LoadDtcs ==
  /\ \/ MainAt("load_set") /\ MainTo("store_set")
     \/ MainAt("load_clear") /\ MainTo("store_clear")
     \/ MainAt("read_report") /\ MainTo("send_report")
  /\ copy' = dtcs
  /\ UNCHANGED <<flags, dtcs, command, job, target, solenoids, lamps, statics, bus, world>>

StoreSet ==
  /\ MainAt("store_set") /\ MainTo("read_report")
  /\ dtcs' = copy \cup {"OPERATOR_OVERRIDE"}
  /\ UNCHANGED <<flags, command, locals, solenoids, lamps, statics, bus, world>>

\* A fault report that carries the DTCs as they are, before or after the set.
SendReportEarly ==
  /\ MainAt("send_report") /\ MainTo("latch")
  /\ fault_report' = copy \ {"OPERATOR_OVERRIDE"}
  /\ UNCHANGED <<flags, dtcs, command, locals, solenoids, lamps, statics, world>>

\* publish_fault_report, with the DTCs it has copied into the frame.
SendReport ==
  /\ MainAt("send_report") /\ MainTo("latch")
  /\ fault_report' = copy
  /\ UNCHANGED <<flags, dtcs, command, locals, solenoids, lamps, statics, world>>

Latch ==
  /\ MainAt("latch") /\ MainTo("update")
  /\ operator_override' = TRUE
  /\ UNCHANGED <<enabled, dtcs, command, locals, solenoids, lamps, statics, bus, world>>

StoreClear ==
  /\ MainAt("store_clear") /\ MainTo("clear_override")
  /\ dtcs' = copy \ {"OPERATOR_OVERRIDE"}
  /\ UNCHANGED <<flags, command, locals, solenoids, lamps, statics, bus, world>>

\* A check that keeps the latch it has just cleared the DTC of.
ClearOverrideNot ==
  /\ MainAt("clear_override") /\ MainTo("update")
  /\ UNCHANGED <<flags, dtcs, command, locals, solenoids, lamps, statics, bus, world>>

ClearOverride ==
  /\ MainAt("clear_override") /\ MainTo("update")
  /\ operator_override' = FALSE
  /\ UNCHANGED <<enabled, dtcs, command, locals, solenoids, lamps, statics, bus, world>>

----------------------------------------------------------------------------
(* update_brake                                                             *)

UpdateGuard ==
  /\ MainAt("update")
  /\ MainTo(IF enabled THEN "sample" ELSE "receive")
  /\ UNCHANGED <<flags, dtcs, command, locals, solenoids, lamps, statics, bus, world>>

\* From cli to the sei in read_pressure_sensor.
Sample ==
  /\ MainAt("sample") /\ MainTo("regulate")
  /\ target' = commanded
  /\ UNCHANGED <<flags, dtcs, command, job, copy, solenoids, lamps, statics, bus, world>>

\* The controller finds nothing to do, or refuses a zero time step.
InBand ==
  /\ MainAt("regulate") /\ MainTo("receive")
  /\ UNCHANGED <<flags, dtcs, command, locals, solenoids, lamps, statics, bus, world>>

\* Pressure too high: accumulator off, release on, and the brake light off
\* when the target is below its threshold.
TooHigh ==
  /\ MainAt("regulate") /\ MainTo("vent")
  /\ accumulator' = "OFF"
  /\ UNCHANGED <<flags, dtcs, command, locals, release, master, lamps, statics, bus, world>>

Vent ==
  /\ MainAt("vent")
  /\ MainTo(IF target = "released" THEN "vent_lights" ELSE "receive")
  /\ release' = "ON"
  /\ UNCHANGED <<flags, dtcs, command, locals, accumulator, master, lamps, statics, bus, world>>

VentLights ==
  /\ MainAt("vent_lights") /\ MainTo("receive")
  /\ brake_light' = "OFF"
  /\ UNCHANGED <<flags, dtcs, command, locals, solenoids, pump, statics, bus, world>>

\* Pressure too low: brake light on, release off, accumulator on.
TooLow ==
  /\ MainAt("regulate") /\ MainTo("hold")
  /\ brake_light' = "ON"
  /\ UNCHANGED <<flags, dtcs, command, locals, solenoids, pump, statics, bus, world>>

Hold ==
  /\ MainAt("hold") /\ MainTo("press")
  /\ release' = "OFF"
  /\ UNCHANGED <<flags, dtcs, command, locals, accumulator, master, lamps, statics, bus, world>>

Press ==
  /\ MainAt("press") /\ MainTo("receive")
  /\ accumulator' = "ON"
  /\ UNCHANGED <<flags, dtcs, command, locals, release, master, lamps, statics, bus, world>>

----------------------------------------------------------------------------
(* The interrupts, and the world the module senses                          *)

\* Sensor checks whose fault_count is not static.
CountedAfresh == [i \in Inputs |-> IF i \in grounded THEN 1 ELSE 0]

\* The three sensor checks count the readings of zero in a row.  Only the
\* comparison with FaultCount matters, so a count stops there.
Counted ==
  [i \in Inputs |-> IF i \notin grounded THEN 0
                    ELSE IF fault_count[i] < FaultCount THEN fault_count[i] + 1
                    ELSE FaultCount]

\* Timer 1: check_for_sensor_faults, up to the first write of disable_control.
CheckSensors ==
  /\ pc.isr = "idle"
  /\ enabled \/ "INVALID_SENSOR_VAL" \in dtcs
  /\ fault_count' = Counted
  /\ \/ /\ \E i \in Inputs : fault_count'[i] >= FaultCount
        /\ pc' = [pc EXCEPT !.isr = IF enabled THEN "stop_accumulator" ELSE "set_dtc"]
        /\ UNCHANGED dtcs
     \/ /\ \A i \in Inputs : fault_count'[i] < FaultCount
        /\ dtcs' = dtcs \ {"INVALID_SENSOR_VAL"}
        /\ UNCHANGED pc
  /\ UNCHANGED <<flags, command, locals, solenoids, lamps, override_state, bus, world>>

\* The main loop is suspended, so this read-modify-write is not disturbed.
SetSensorDtc ==
  /\ pc.isr = "set_dtc"
  /\ pc' = [pc EXCEPT !.isr = "send_report"]
  /\ dtcs' = dtcs \cup {"INVALID_SENSOR_VAL"}
  /\ UNCHANGED <<flags, command, locals, solenoids, lamps, statics, bus, world>>

SendSensorReport ==
  /\ pc.isr = "send_report"
  /\ pc' = [pc EXCEPT !.isr = "idle"]
  /\ fault_report' = dtcs
  /\ UNCHANGED <<flags, dtcs, command, locals, solenoids, lamps, statics, world>>

SensorChange ==
  /\ \/ pressed' = ~pressed /\ UNCHANGED grounded
     \/ \E i \in Inputs :
          /\ grounded' = IF i \in grounded THEN grounded \ {i} ELSE grounded \cup {i}
          /\ UNCHANGED pressed
  /\ UNCHANGED <<pc, flags, dtcs, command, locals, solenoids, lamps, statics, bus,
                 now>>

Tick ==
  /\ now' = IF now + 1 = ClockMod THEN 0 ELSE now + 1
  /\ UNCHANGED <<pc, flags, dtcs, command, locals, solenoids, lamps, statics, bus,
                 pressed, grounded>>

Receive == ReceiveNothing \/ ReceiveEnable \/ ReceiveDisable \/ ReceiveCommand

Enable == CloseMaster \/ StopRelease \/ SetEnabled

CheckOverride ==
  \/ OverrideGuard \/ OverrideCheck \/ LoadDtcs \/ StoreSet \/ SendReport \/ Latch
  \/ StoreClear \/ ClearOverride

Regulate ==
  \/ UpdateGuard \/ Sample \/ InBand \/ TooHigh \/ Vent \/ VentLights
  \/ TooLow \/ Hold \/ Press

MainLoop == Receive \/ Enable \/ MaintainPressure \/ CheckOverride \/ Regulate \/ Disable("main")

Timer1 == CheckSensors \/ Disable("isr") \/ SetSensorDtc \/ SendSensorReport

Next == MainLoop \/ Timer1 \/ SensorChange \/ Tick

Spec == Init /\ [][Next]_vars

\* The timer keeps firing, and its handler runs to its end.
FairSpec == Spec /\ WF_vars(Timer1)

----------------------------------------------------------------------------
(* Properties                                                               *)

\* Every variable keeps its type: in particular each actor stays in its own
\* program, although both run disable_control.
TypeOK ==
  /\ pc \in [main : MainSteps, isr : IsrSteps]
  /\ job \in {"none", "frame", "override"}
  /\ enabled \in BOOLEAN /\ operator_override \in BOOLEAN
  /\ dtcs \in SUBSET DTC
  /\ commanded \in Position /\ startup_error \in BOOLEAN
  /\ copy \in SUBSET DTC /\ target \in Position
  /\ accumulator \in Duty /\ release \in Duty /\ master \in {"OPEN", "CLOSED"}
  /\ brake_light \in Duty /\ pump \in Duty
  /\ override_state \in Condition
  /\ fault_count \in [Inputs -> 0 .. FaultCount]
  /\ fault_report \in SUBSET DTC
  /\ pressed \in BOOLEAN /\ grounded \in SUBSET Inputs
  /\ now \in Time

\* Whatever the interrupt cuts in half, pressure is never let in and out at
\* once: every path closes one pair of solenoids before it opens the other.
SolenoidsExclusive == ~(accumulator = "ON" /\ release = "ON")

\* The driver's pedal is cut off from the wheels only while the module is in
\* control or about to be: no interleaving of two disables, or of a disable
\* and an enable, leaves the master cylinder closed without control.
PedalConnected ==
  master = "CLOSED" => enabled \/ pc.main \in {"stop_release", "set_enabled"}

\* A latched override excludes control, although enable frames and the
\* interrupt come at any time; so no report says enabled and overridden.
OverrideLocksOut == operator_override => ~enabled

\* Only check_for_operator_override clears the latch, and a latch is always
\* visible as a DTC until it does: the interrupt's own read-modify-write of
\* dtcs never loses the override.
OverrideIsReported ==
  operator_override => "OPERATOR_OVERRIDE" \in dtcs \/ pc.main = "clear_override"

\* A sensor that stays disconnected ends control, again and again if enable
\* frames keep arriving.
SensorFaultEndsControl ==
  \A i \in Inputs : <>[](i \in grounded) => []<>(~enabled)

\* The petrol brake keeps the promise of a control module (ControlPromise) on
\* the level of its flags, in spite of the interrupt that announces faults on
\* its own.
Promise == INSTANCE ControlPromise WITH
  driver    <- IF enabled THEN "module" ELSE "vehicle",
  announced <- fault_report,
  latched   <- operator_override

ImplementsPromise == Promise!Spec

\* brake_control.h calls `enabled' the "Flag indicating control is currently
\* enabled": while it is clear, outside the window in which disable_control
\* is still at work, the module lets no pressure into the brakes.
NoPressureWithoutControl == ~enabled => accumulator = "OFF"

\* brake_control.h calls dtcs the "Bitfield of faults present in the module":
\* a fault the sensor check has confirmed stays there until a later check
\* finds the sensors sound.
SensorDtcKept ==
  [][ "INVALID_SENSOR_VAL" \in dtcs /\ "INVALID_SENSOR_VAL" \notin dtcs'
        => CheckSensors ]_vars
=============================================================================
