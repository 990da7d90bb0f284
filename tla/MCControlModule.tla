--------------------------- MODULE MCControlModule --------------------------
(***************************************************************************)
(* Model checking ControlModule, with the two timing assumptions the       *)
(* untimed specification leaves out:                                       *)
(*                                                                         *)
(*   - one pass of the main loop takes less than one tick (the loop has no *)
(*     blocking call; its longest part, the 40 ADC samples of              *)
(*     prevent_signal_discontinuity, takes a few milliseconds, and a tick  *)
(*     stands for tens of milliseconds);                                   *)
(*   - the main loop and the clock keep running (weak fairness).           *)
(***************************************************************************)
EXTENDS ControlModule

\* The counter's range of 49.7 days holds the debounce time of 150 ms and the
\* two ticks between two checks.
ASSUME LongClockAssumption == ClockMod > Hysteresis + 1

VARIABLES
  ticked,    \* the clock has ticked during this pass of the main loop
  exposure   \* per condition, the ticks for which it has held without a
             \* break while the relay was closed, up to Limit

mcvars == <<vars, ticked, exposure>>

Limit == Hysteresis + 4

MCInit ==
  /\ Init
  /\ ticked = FALSE
  /\ exposure = [pressed |-> 0, grounded |-> 0]

\* How long condition c has held by now, after a step that took time or none.
Exposed(c, elapsed) ==
  IF sensor'[c] /\ relay' = "HIGH"
  THEN IF exposure[c] + elapsed > Limit THEN Limit ELSE exposure[c] + elapsed
  ELSE 0

Observe(elapsed) == exposure' = [c \in {"pressed", "grounded"} |-> Exposed(c, elapsed)]

Untimed ==
  /\ \/ MainLoop /\ ticked' = (ticked /\ pc' # "receive")
     \/ (PublishReport \/ SensorChange) /\ UNCHANGED ticked
  /\ Observe(0)

Timed ==
  /\ ~ticked /\ ticked' = TRUE
  /\ Tick
  /\ Observe(1)

MCNext == Untimed \/ Timed

MCSpec == MCInit /\ [][MCNext]_mcvars

LoopStep == MainLoop /\ Untimed

\* millis() is about to come round to the start of a condition that is still
\* monitored: the pedal has been held, or the module left disabled, for the
\* whole range of the counter (49.7 days).  Then the duration restarts at 0.
ComesRound ==
  \E c \in {override_state, grounded_state} :
    c.monitoring_active /\ c.condition_start_time = (now + 1) % ClockMod

FairTimed == Timed /\ ~ComesRound

\* The liveness properties are about operations shorter than that.
FairSpec ==
  /\ MCInit /\ [][Untimed \/ FairTimed]_mcvars
  /\ WF_mcvars(LoopStep) /\ WF_mcvars(FairTimed)

\* The promise of the hysteresis, in real time: whoever presses the pedal, or
\* loses an input, while the module is in control has the vehicle back within
\* the debounce time and three ticks (two sampling intervals, each of at most
\* two ticks, less the tick in which the comparison turns), whatever frames
\* and interrupts come in between.
FaultsEndControl ==
  \A c \in {"pressed", "grounded"} : exposure[c] <= Hysteresis + 3

\* An operator who keeps pressing gets the vehicle back for good, although
\* enable and disable frames keep arriving in any rhythm.  A sensor that also
\* reads ground is excluded: its fault takes precedence and is not latched,
\* so each enable frame closes the relay again until the next check.
OperatorPrevails ==
  <>[](sensor.pressed /\ ~sensor.grounded) => <>[](relay = "LOW")

\* Once the operator has let go and the sensor is sound, no latch and no DTC
\* stays behind.
FaultsHeal ==
  <>[](~sensor.pressed /\ ~sensor.grounded) => <>[](~operator_override /\ dtcs = {})
=============================================================================
