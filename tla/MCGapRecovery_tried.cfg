CONSTANTS
  e1 = e1
  e2 = e2
  e3 = e3
  HashKey = {h1}
  Endpoint = {e1, e2}
  MaxSeq = 5
  Slots = {t1}
  QueueCap = 3
  Snapshots <- OnlyTwo
  SeqResetThreshold = 5
  MaxRetries = 2
  JitterMax = 0
  GapTTL = 20
  TailTTL = 0
  BackoffMax = 1
  RespTimeout = 3
  SweepSlack = 1
  BackoffBase = 1
  Modulus = 64
  MaxGaps = 3
  MaxLoss = 2
  Holders <- NoHolders
SPECIFICATION RecoverySpec
PROPERTY
  AllTriedBeforeEviction
