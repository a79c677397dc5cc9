SPECIFICATION MCSpec
CONSTANTS
  NaN = NaN
  Unset = Unset
  NFiles = 2
  Size = 2
  Gap = 3
  Cut = {}
  Within <- Own
  CutWithin <- Alike
  Asks <- Resumes
  Faults = {"crash"}
  MaxFaults = 1
INVARIANTS LastProcessed
