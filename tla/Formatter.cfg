\* Every buffer of up to four pieces of one vocabulary.
SPECIFICATION Spec
CONSTANTS
  Vocabularies <- AllPieces
  MaxPieces = 4
  Indent <- TwoSpaces
INVARIANTS
  ParseUndoesFormat
  AlignKeepsBytes
  FailsOnlyOnGlyph
  NestingIsKept
  ColumnsLineUp
  AlignSettles
PROPERTY TurnsAdvance
