CONSTANTS
  e1 = e1
  e2 = e2
  e3 = e3
  HashKey = {h1}
  Endpoint = {e1, e2, e3}
  MaxSeq = 3
  Slots = {t1}
  QueueCap = 1
  Snapshots <- NoneOrThree
  SeqResetThreshold = 3
  MaxRetries = 4
  JitterMax = 0
  GapTTL = 12
  TailTTL = 0
  BackoffMax = 2
  RespTimeout = 1
  SweepSlack = 1
  BackoffBase = 1
  Modulus = 16
  MaxGaps = 1
  MaxLoss = 1
  Holders <- SomeHolders
SPECIFICATION FairRecovery
INVARIANT OneCopy
PROPERTIES DeepestRecovers AllTriedBeforeEviction BacksOff
