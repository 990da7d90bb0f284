CONSTANTS
  Unit = "brake"
  Hysteresis = 2
  ClockMod = 5
SPECIFICATION MCSpec
INVARIANTS
  TypeOK
  OverrideLocksOut
  LatchIsReleasable
  PinsFollowState
  FaultsEndControl
PROPERTIES
  ReportsAnnounced
  FaultReportAfterRelease
  ImplementsPromise
CHECK_DEADLOCK TRUE
