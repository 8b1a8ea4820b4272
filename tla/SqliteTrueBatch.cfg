CONSTANTS
  Key = {k1, k2}
  Raw = {r1, r2}
  Batches <- MCBatches
  TrueBatch = TRUE
  SwallowedErrors = FALSE
  MaxSeq = 4
SPECIFICATION Spec
INVARIANTS OnlyDuplicatesSkipped
