SPECIFICATION JobSpec
CONSTANTS
  Size = 2
  Pols = 2
  Calls = 1
  Asks <- Some
  Images <- Heights
  N = 3
  Sizes <- AnySize
  Orders <- All
  N_SAMPLES = 8
  N_FINE = 2
  OutWidth = 2
  MaxFitsSize = 2
  Options <- Nothing
  Numbered = TRUE
  Faults = TRUE
INVARIANTS Averaged
