CONSTANTS
  Hysteresis = 1
  ClockMod = 2
  Inputs = {wheel}
  FaultCount = 2
  wheel = wheel
SPECIFICATION FairSpec
INVARIANTS
  TypeOK
  SolenoidsExclusive
  PedalConnected
  OverrideLocksOut
  OverrideIsReported
PROPERTIES
  ImplementsPromise
  SensorFaultEndsControl
CHECK_DEADLOCK TRUE
