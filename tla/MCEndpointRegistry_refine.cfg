SPECIFICATION FairSpec
CONSTANTS
  r1 = r1
  r2 = r2
  a1 = a1
  Nil = Nil
  SeedTier = 255
  InstanceID = {r1, r2}
  Addr = {a1}
  Tiers = {0, 1}
  Preferences = {0, 1}
  Intervals = {1}
  MaxInterval = 1
  SeedAddrs <- OneSeed
PROPERTIES SurvivesLostBeacons ImplementsLiveEndpoints DrainingLeaves SilentLeaves
