--------------------------- MODULE ControlPromise ---------------------------
(***************************************************************************)
(* What one OSCC control module promises the rest of the system, with no   *)
(* mention of its main loop, flags or interrupts:                          *)
(*                                                                         *)
(*   - it takes the vehicle's signal only while no override is latched;    *)
(*   - it announces a fault only while the vehicle drives;                 *)
(*   - it latches an override only after it has announced it.              *)
(***************************************************************************)

CONSTANT DTC   \* the faults a module can announce

VARIABLES
  driver,     \* who drives the signal: "vehicle" or "module"
  announced,  \* the content of the last fault report, {} before any
  latched     \* whether an operator override locks the module out

vars == <<driver, announced, latched>>

TypeOK ==
  /\ driver \in {"vehicle", "module"}
  /\ announced \in SUBSET DTC
  /\ latched \in BOOLEAN

Init ==
  /\ driver = "vehicle"
  /\ announced = {}
  /\ latched = FALSE

Take ==
  /\ driver = "vehicle" /\ ~latched
  /\ driver' = "module"
  /\ UNCHANGED <<announced, latched>>

GiveBack ==
  /\ driver = "module"
  /\ driver' = "vehicle"
  /\ UNCHANGED <<announced, latched>>

Announce ==
  /\ driver = "vehicle"
  /\ announced' \in (SUBSET DTC) \ {{}}
  /\ UNCHANGED <<driver, latched>>

Latch ==
  /\ driver = "vehicle"
  /\ "OPERATOR_OVERRIDE" \in announced
  /\ latched' = TRUE
  /\ UNCHANGED <<driver, announced>>

Unlatch ==
  /\ latched' = FALSE
  /\ UNCHANGED <<driver, announced>>

Next == Take \/ GiveBack \/ Announce \/ Latch \/ Unlatch

Spec == Init /\ [][Next]_vars

\* A latched module never drives.
LatchedIsPassive == latched => driver = "vehicle"
=============================================================================
