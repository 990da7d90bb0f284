----------------------------- MODULE FaultCheck -----------------------------
(***************************************************************************)
(* The fault debouncer every OSCC module uses                              *)
(* (firmware/common/libs/fault_check): a condition is a fault once it has  *)
(* been seen active for max_duration, measured with the millis() counter.  *)
(*                                                                         *)
(* One unit of time is one "tick" of the model, an arbitrary fixed number  *)
(* of milliseconds.  millis() is unsigned and wraps, so `now' ranges over  *)
(* 0 .. ClockMod - 1 and durations are computed modulo ClockMod.           *)
(***************************************************************************)
EXTENDS Integers

CONSTANTS
  Hysteresis,  \* FAULT_HYSTERESIS, in ticks
  ClockMod     \* the range of millis(), in ticks

\* The debounce time is positive and shorter than the range of the counter.
ASSUME HysteresisAssumption == Hysteresis \in Nat \ {0}
ASSUME ClockAssumption == ClockMod \in Nat /\ ClockMod > Hysteresis

Time == 0 .. ClockMod - 1

\* condition_state_s
Condition == [monitoring_active : BOOLEAN, condition_start_time : Time]

CONDITION_STATE_INIT == [monitoring_active |-> FALSE, condition_start_time |-> 0]

\* The state condition_exceeded_duration leaves behind.
Monitor(state, active, now) ==
  CASE ~active                    -> CONDITION_STATE_INIT
    [] state.monitoring_active    -> state
    [] OTHER -> [monitoring_active |-> TRUE, condition_start_time |-> now]

\* An off-by-one of the comparison below: it waits one tick longer.
ExceededLate(state, active, now) ==
  active /\ (now - Monitor(state, active, now).condition_start_time) % ClockMod
              > Hysteresis

\* What condition_exceeded_duration returns.
Exceeded(state, active, now) ==
  active /\ (now - Monitor(state, active, now).condition_start_time) % ClockMod
              >= Hysteresis
=============================================================================
