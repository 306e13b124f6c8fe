SPECIFICATION FairSpec
CONSTANTS
  PropertySets <- MCPropertySets
  MaxListed = 2
  MaxRuns = 2
  MaxDeaths = 1
INVARIANTS CollectedOrLogged OneRowPerRun CarriedWithinRegion
PROPERTY RunAllEnds
CHECK_DEADLOCK FALSE
