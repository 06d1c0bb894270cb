CONSTANTS
  site = site
  eth = eth
  gid = gid
  port = port
  grp = grp
  Unset = Unset
  Garbled = Garbled
  MaxShardBits = 3
  Scopes = {site}
  GroupIDs = {gid}
  Interfaces = {eth}
  NumCPU = 2
  MaxWorkers = 2
  FD = {1, 2, 3}
  MaxOther = 1
  Flags <- CommandLines
CHECK_DEADLOCK FALSE
SPECIFICATION FairSpec
INVARIANTS DescriptorsOwned ServesUntilCancelled EgressOutlivesWorker GroupsRight
PROPERTIES ReadyIsTrue ShutdownEnds ComesUp
