SPECIFICATION FairSpec
CONSTANTS
  l1 = l1
  l2 = l2
  Subscribed = {g1, g2}
  OtherGroup = {g3}
  SubtreeID = {s1}
  Source = {p1, p2, p3}
  SenderInclude = {p1, p2}
  SenderExclude = {p2}
  Listener = {l1, l2}
  AnnouncedTTL = {0, 1, 3}
  DefaultTTL = 2
  MaxTTL = 3
  Idle = Idle
INVARIANTS AcceptsOnlyAnnounced AcceptsWhileAnnounced
PROPERTIES UnannouncedForgotten
