SPECIFICATION Spec
CONSTANTS
  Pieces <- BytePieces
  MaxPieces = 4
INVARIANTS
  TokensTile
  RunsAreWhole
  AcceptedHasTokens
PROPERTIES
  AnswerIsFinal
  TokenizeReturns
