CONSTANTS
  e1 = e1
  HashKey = {h1}
  Endpoint = {e1}
  MaxSeq = 4
  Slots = {t1}
  QueueCap = 1
  Snapshots <- UpToOne
  SeqResetThreshold = 2
  MaxRetries = 1
  JitterMax = 0
  GapTTL = 1
  TailTTL = 1
  BackoffMax = 1
  RespTimeout = 1
  SweepSlack = 1
  BackoffBase = 1
  Modulus = 64
  MaxGaps = 2
SPECIFICATION FairSpec
INVARIANTS WindowExact GapAccounting
PROPERTIES GapResolved TokenReturned FlowForgotten
