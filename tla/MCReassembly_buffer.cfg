SPECIFICATION FairSpec
CONSTANTS
  x1 = x1
  x2 = x2
  x3 = x3
  TxID = {x1, x2, x3}
  Fragments <- Mixed
  LenModulus = 8
  MaxSlots = 2
  TTL = 2
  VerifyHash = TRUE
  VerifyMerkle = TRUE
  MaxStarted = 4
INVARIANTS OrderMatchesSlots SlotAccounting DeliversIntact
PROPERTIES EvictsOldest SlotResolved
