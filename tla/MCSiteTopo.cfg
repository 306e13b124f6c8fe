SPECIFICATION Spec
CONSTANTS
  Null = Null
  IlaSites <- MCIlaSites
  IlaLists <- MCIlaLists
  MaxAttempts = 3
INVARIANTS ViewRefsKept NoViewFragment SiteDataKeptOnFirstRun NoForeignParts IlaKept NoIlaCollisionOnFirstRun
CHECK_DEADLOCK FALSE
