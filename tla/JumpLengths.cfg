SPECIFICATION Spec
CONSTANTS
  Skips = {1, 2}
  Codes <- MCCodes
  StartPos = 2
  InitClock = 5
INVARIANTS FinalDone OffsetsExact ClockSpent
CHECK_DEADLOCK FALSE
