SPECIFICATION Spec
CONSTANTS
  Null = Null
  IlaSites <- MCIlaSites
  IlaLists <- MCIlaLists
  MaxAttempts = 3
INVARIANT NodeAHoldsThreeParties
CHECK_DEADLOCK FALSE
