SPECIFICATION Spec
CONSTANTS
  Default = 3
  Freqs = {0, 1, 2, 4}
  MaxFreq = 4
INVARIANT CheckedInTime
PROPERTIES NoSpuriousInterrupt FlagAnswered
