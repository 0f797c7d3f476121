\* Records of a few codes, layout and notes.
SPECIFICATION Spec
CONSTANTS
  Vocabularies <- OnlyNotes
  MaxPieces = 5
INVARIANTS
  AccessorsReturn
CHECK_DEADLOCK FALSE
