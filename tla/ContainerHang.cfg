\* Diff documents of a few codes.
SPECIFICATION Spec
CONSTANTS
  Vocabularies <- OnlyDiffs
  MaxPieces = 4
INVARIANTS
  ValidateReturns
CHECK_DEADLOCK FALSE
