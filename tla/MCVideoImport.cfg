SPECIFICATION FairSpec
CONSTANTS
  MaxRows = 2
  MaxRuns = 3
INVARIANTS PassedRowsHandedOver RepeatsNeedCrashes DeletionsReported OnlyDeletionsReported
PROPERTY ImportEnds
CHECK_DEADLOCK FALSE
