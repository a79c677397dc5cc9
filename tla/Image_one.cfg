CONSTANTS
  NaN = NaN
  Junk = Junk
  Images <- SomeImages
  Places <- SomePlaces
  Values <- SomeValues
  MaxCalls = 2
  Cuts <- SomeCuts
  Unset = Unset
  Files <- SomeFiles
  Told <- SomeTold
  Jobs <- SomeJobs
  MaxSteps = 4
  Lists <- AllLists
  Asks <- All
SPECIFICATION ImageSpec
INVARIANTS LinesOfItsFile ReadsBack Listed AddedUp RunningAverage
PROPERTIES Drawn Measured
CHECK_DEADLOCK FALSE
