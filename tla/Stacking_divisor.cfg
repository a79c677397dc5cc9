SPECIFICATION Spec
CONSTANTS
  Lists <- ShortLists
  Asks <- Avgs
INVARIANT DividedByCount
