SPECIFICATION Spec
CONSTANTS
  Null = Null
  IlaSites <- MCIlaSites
  IlaLists <- MCIlaLists
  MaxAttempts = 3
INVARIANT NodeBHoldsThreeParties
CHECK_DEADLOCK FALSE
