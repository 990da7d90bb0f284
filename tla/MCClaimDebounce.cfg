CONSTANTS
  Unit = "throttle"
  Hysteresis = 3
  ClockMod = 9
SPECIFICATION ClaimSpec
INVARIANT DebouncedWithoutLull
