\* Bodies of a few codes.
SPECIFICATION Spec
CONSTANTS
  Vocabularies <- OnlyBodies
  MaxPieces = 4
INVARIANTS
  AcceptedIsRead
CHECK_DEADLOCK FALSE
