SPECIFICATION Spec
CONSTANTS
  W = 32
  Start = 12
  Inputs = {0, 1}
  Clocks = {"x", "y"}
  Programs <- MCPrograms
PROPERTIES NeverMissed WakesUp ImplementsTimeSem
CHECK_DEADLOCK FALSE
