\* Every buffer of up to five pieces of one vocabulary.
SPECIFICATION Spec
CONSTANTS
  Vocabularies <- AllPieces
  MaxPieces = 5
INVARIANTS
  DocumentsTile
  DocumentsCompose
  NothingDropped
  FailsOnlyOnComment
  RecordsReadable
  AcceptedIsUndamaged
  CommitsAreTransparent
  CanonicalIsOneSpelling
PROPERTY LoopAdvances
CHECK_DEADLOCK FALSE
