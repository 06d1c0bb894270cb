SPECIFICATION WorkerSpec
CONSTANTS
  s0 = s0
  s1 = s1
  s2 = s2
  s3 = s3
  h1 = h1
  h2 = h2
  h3 = h3
  NoKey = NoKey
  Key <- FrameKeys
  Subtrees = {}
  Frames <- TwoSenders
  Reassembled = {}
  ShardInclude = {}
  SubtreeInclude = {}
  SubtreeExclude = {}
  GroupFilter = FALSE
  VerifyPayloadHash = TRUE
  MulticastEgress = FALSE
  HeaderEgress = TRUE
  EgressDedup = TRUE
  Capacity = 4
  TTL = 0
INVARIANT SuppressedWasSent
