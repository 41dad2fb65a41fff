SPECIFICATION Spec
CONSTANTS
  K = 2
  F = 3
  V = 4
  Moves <- MCMoves
INVARIANTS WellFormed MeaningKept MovedAtOnce
PROPERTIES ImplementsSteps Shrinks
