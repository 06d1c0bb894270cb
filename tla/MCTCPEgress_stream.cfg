CONSTANTS
  MaxFrames = 4
  Parts = 2
  MaxDials = 3
  SendBuffer = 3
SPECIFICATION FairSpec
INVARIANTS WholeFrames OneConnection ResultIsTrue NoLeak
PROPERTIES SendReturns
