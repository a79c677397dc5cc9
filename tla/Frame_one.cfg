CONSTANTS
  NaN = NaN
  Starts <- SomeStarts
  Sides <- SomeSides
  Values <- SomeValues
  Filters <- SomeFilters
  Skies <- SomeSkies
  Windows <- SomeWindows
  StatTypes <- SomeTypes
  Saturated = 50
  TypicalSigma = 3
  Few = 4
  Widen = 10
  StatCalls = 2
  Ranges <- SomeRanges
  Filled = {0, 1, 3}
  HistoCalls = 3
  Divisions <- SomeDivisions
  ListFiles <- SomeListFiles
  DefectFiles <- SomeDefectFiles
  ListSize = 17
  RegionCalls <- SomeCalls
SPECIFICATION Spec
INVARIANTS OwnPixels BlindToSky ToldOfSky TalliesShow FitMakesSense Placed
PROPERTY Shown
CHECK_DEADLOCK FALSE
