SPECIFICATION Spec
CONSTANTS
  k1 = k1
  k2 = k2
  k3 = k3
  k4 = k4
  NoKey = NoKey
  Key = {k1, k2, k3, k4}
  Capacity = 2
  TTL = 1
INVARIANT LastInsertionsKept
