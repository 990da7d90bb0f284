CONSTANTS
  STEERING_OVERRIDE = TRUE
  Weight = 4
  Threshold = 4
  Samples <- MCSamples
  Hysteresis = 2
  ClockMod = 5
SPECIFICATION MCSpec
INVARIANTS
  TypeOK
  OverrideLocksOut
  PinsFollowState
  OverrideIsEarned
PROPERTIES
  ImplementsPromise
  PullPrevails
  LetGoHeals
CHECK_DEADLOCK TRUE
