SPECIFICATION MCSpec
CONSTANTS
  NaN = NaN
  Unset = Unset
  NFiles = 3
  Size = 2
  Gap = 3
  Cut <- SomeCut
  Within <- Own
  CutWithin <- Alike
  Asks <- AllLines
  Faults = {"crash", "stamp", "short", "rows"}
  MaxFaults = 1
INVARIANTS NothingLost RowsFollow LookedUp Totals
PROPERTIES StampGoesOn CaughtUp
