CONSTANTS
  Hysteresis = 1
  ClockMod = 2
  Inputs = {wheel}
  FaultCount = 2
  wheel = wheel
SPECIFICATION Spec
INVARIANT NoPressureWithoutControl
