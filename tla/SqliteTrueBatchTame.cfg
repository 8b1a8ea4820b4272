CONSTANTS
  Key = {k1, k2, k3}
  Raw = {r1, r2}
  Batches <- MCBatches
  TrueBatch = TRUE
  SwallowedErrors = FALSE
  MaxSeq = 5
SPECIFICATION TameSpec
PROPERTIES ImplementsIndex AckMeansIndexed
