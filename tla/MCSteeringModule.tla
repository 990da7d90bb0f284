-------------------------- MODULE MCSteeringModule --------------------------
(***************************************************************************)
(* SteeringModule for TLC: a small filter, a history variable for what the *)
(* operator did, and the fairness of the main loop.                        *)
(***************************************************************************)
EXTENDS SteeringModule, MCConversions

VARIABLE earned   \* a reading above the threshold was filtered since the
                  \* filter was last at or below it

\* Differences within the threshold, in the dead zone above it and beyond.
MCSamples == {0, 3, 6, 8}

MCInit == Init /\ earned = FALSE

MCNext ==
  /\ Next
  /\ earned' = /\ filtered_diff' > Threshold
               /\ earned \/ (Check /\ torque.diff > Threshold)

\* The main loop has no blocking call; frames, hands, wires and the
\* clock are free.
MCSpec ==
  /\ MCInit
  /\ [][MCNext]_<<vars, earned>>
  /\ WF_vars(MainLoop)

\* An override is never an artefact of the arithmetic, of the seed or of a
\* filter that was left running: while the filter is above the threshold, some
\* reading since it was last at or below it was above the threshold itself.
OverrideIsEarned == filtered_diff > Threshold => earned

Forced == torque.diff >= Threshold + Weight /\ ~torque.grounded

\* An operator who keeps pulling has the wheel, and keeps it, whatever the
\* bus says.  The filter stops up to Weight - 1 short of a steady input, so
\* a pull may have to exceed the threshold by that much (README, section 4).
PullPrevails == <>[]Forced => <>[](relay = "LOW")

\* An operator who lets go of the wheel is believed: with the wires in order
\* the filter decays to the reading, cut-off and all, and the module can be
\* enabled again.
LetGoHeals ==
  <>[](torque.diff <= Threshold /\ ~torque.grounded) => <>[](~operator_override /\ dtcs = {})
=============================================================================
