CONSTANTS
  Unit = "throttle"
  Hysteresis = 1
  ClockMod = 3
SPECIFICATION FairSpec
PROPERTIES
  OperatorPrevails
  FaultsHeal
CHECK_DEADLOCK TRUE
