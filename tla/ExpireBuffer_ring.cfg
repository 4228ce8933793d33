SPECIFICATION Spec
CONSTANTS
  Keys = {k1, k2, k3, k4}
  Addrs = {e1, e2, e3, e4}
  None = None
  Tag = Tag
  Limits = {0, 3}
  LivingTime = 1
  MaxNow = 3
INVARIANT RingMatchesMap
PROPERTIES ImplementsExpiringMap
SYMMETRY BufferSymmetry
CHECK_DEADLOCK FALSE
