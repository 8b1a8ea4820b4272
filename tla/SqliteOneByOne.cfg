CONSTANTS
  Key = {k1, k2}
  Raw = {r1, r2}
  Batches <- MCBatches
  TrueBatch = FALSE
  SwallowedErrors = TRUE
  MaxSeq = 4
SPECIFICATION Spec
INVARIANTS Aligned IdNamesItsEvent
PROPERTIES ImplementsIndex
