\* One process opens the log while another appends to it.
SPECIFICATION Spec
CONSTANTS
  P1 = P1
  P2 = P2
  Procs <- TwoProcs
  Batches <- PairBatches
  StopAfterError = TRUE
  MaxBatches = 1
  MaxCrashes = 0
INVARIANT AckedKept
CHECK_DEADLOCK FALSE
