\* One writer at a time, with or without sync; it dies, its machine crashes,
\* its calls fail, and it opens the log again.
SPECIFICATION Spec
CONSTANTS
  P1 = P1
  P2 = P2
  Procs <- OneProc
  Batches <- AllBatches
  StopAfterError = TRUE
  MaxBatches = 3
  MaxCrashes = 1
INVARIANTS
  TypeOK
  AckedKept
  BackwardScanAgrees
PROPERTIES
  ImplementsAtomicLog
  BatchReturns
CHECK_DEADLOCK FALSE
