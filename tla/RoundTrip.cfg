SPECIFICATION Spec
CONSTANTS
  Vocabularies <- AllWords
  Nameless = FALSE
  MaxInt = 7
  MaxCalls = 3
INVARIANTS
  OutputIsWellFormed
  OutputIsCanonical
  ReadsBack
  LookupsAgree
  BlobsReadBack
  CountersAgree
CHECK_DEADLOCK FALSE
