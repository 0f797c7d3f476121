SPECIFICATION Spec
CONSTANTS
  Alphabet <- CutBytes
  MaxLen = 4
INVARIANT CutTextIsDamaged
CHECK_DEADLOCK FALSE
