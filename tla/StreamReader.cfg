\* Every log of a few bytes.
SPECIFICATION Spec
CONSTANTS
  Alphabet <- LogBytes
  MaxLen = 5
INVARIANTS
  TypeOK
  BlocksInOrder
  NoCommitMissed
  DamagedIffOpen
  PrefixStable
  RepairKeepsCommits
  AppendAfterRepair
PROPERTY ScanReturns
CHECK_DEADLOCK FALSE
