--------------------------- MODULE MCControlClaims --------------------------
(***************************************************************************)
(* A statement of oscc_check.h about the debouncer that the firmware of a  *)
(* control module does not keep, with the history variables that make it   *)
(* checkable.  As in MCControlModule, one pass of the main loop takes less *)
(* than one tick.                                                          *)
(***************************************************************************)
EXTENDS ControlModule

VARIABLES
  ticked,   \* the clock has ticked during this pass of the main loop
  idle,     \* ticks since the pedal was last pressed, up to Hysteresis
  lull      \* the pedal was idle for all of Hysteresis ticks although the
            \* override debouncer has been monitoring it since before

claimvars == <<vars, ticked, idle, lull>>

\* The history of the pedal after a step that took `elapsed' ticks.
Watch(elapsed) ==
  /\ idle' = IF sensor'.pressed THEN 0
             ELSE IF idle + elapsed > Hysteresis THEN Hysteresis ELSE idle + elapsed
  /\ lull' = (override_state'.monitoring_active /\ (lull \/ idle' = Hysteresis))

ClaimInit ==
  /\ Init
  /\ ticked = FALSE
  /\ idle = 0
  /\ lull = FALSE

Untimed ==
  /\ \/ MainLoop /\ ticked' = (ticked /\ pc' # "receive")
     \/ (PublishReport \/ SensorChange) /\ UNCHANGED ticked
  /\ Watch(0)

Timed ==
  /\ ~ticked /\ ticked' = TRUE
  /\ Tick
  /\ Watch(1)

ClaimSpec == ClaimInit /\ [][Untimed \/ Timed]_claimvars

\* oscc_check.h on condition_exceeded_duration: "true means a fault condition
\* has been active for longer than `max_duration`".  An override found by
\* check_for_faults is not one the pedal interrupted for the whole debounce
\* time.
DebouncedWithoutLull == pc = "set_dtc" /\ job = "OPERATOR_OVERRIDE" => ~lull
=============================================================================
