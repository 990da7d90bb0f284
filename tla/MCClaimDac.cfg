CONSTANTS
  Unit = "throttle"
  Hysteresis = 2
  ClockMod = 7
SPECIFICATION Spec
INVARIANT NoSignalDiscontinuity
