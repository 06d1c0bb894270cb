SPECIFICATION WorkerSpec
CONSTANTS
  s0 = s0
  s1 = s1
  s2 = s2
  s3 = s3
  h1 = h1
  h2 = h2
  h3 = h3
  NoKey = NoKey
  Key <- FrameKeys
  Subtrees = {s2}
  Frames <- OneOfEach
  Reassembled <- SomeReassembled
  ShardInclude = {0}
  SubtreeInclude = {s1, s3}
  SubtreeExclude = {s3}
  GroupFilter = TRUE
  VerifyPayloadHash = TRUE
  MulticastEgress = TRUE
  HeaderEgress = TRUE
  EgressDedup = TRUE
  Capacity = 2
  TTL = 1
INVARIANTS TrackerSeesAll FilterHolds SuppressedWasSent NothingLeaks
PROPERTIES  SuppressesOnlyRecent ImplementsWindow
