\* The caller goes on using a handle whose Batch returned an error.
SPECIFICATION Spec
CONSTANTS
  P1 = P1
  P2 = P2
  Procs <- OneProc
  Batches <- PairBatches
  StopAfterError = FALSE
  MaxBatches = 2
  MaxCrashes = 0
INVARIANT BatchesAreAtomic
CHECK_DEADLOCK FALSE
