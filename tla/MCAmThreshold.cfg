SPECIFICATION Spec
CONSTANTS
  Runs = {r1, r2, r3}
  Numbers = {5, 7}
  InitDocs <- MCInitDocs
  Null = Null
SYMMETRY RunSymmetry
INVARIANTS OneThresholdDoc LossNeedsFailure NullNeedsExcuse
PROPERTY DeletesWhatItRead
CHECK_DEADLOCK FALSE
