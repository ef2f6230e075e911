SPECIFICATION FairSpec
CONSTANTS
  Scripts <- AllScripts
  MaxCrashes = 1
  MaxForeign = 1
  MaxRuns = 5
INVARIANT RanIsWired
PROPERTY DistancesAreRight
PROPERTY EventuallyPassed
CHECK_DEADLOCK FALSE
