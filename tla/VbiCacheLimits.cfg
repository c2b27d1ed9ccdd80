CONSTANTS
  NULL = NULL
  Network = {n1, n2}
  Page = {p1, p2, p3}
  Kind <- MCSizes
  MemoryLimits = {2, 3}
  NetworksLimits = {1, 2}
  MaxRef = 2
  Word = 16

SPECIFICATION Spec
SYMMETRY Perms
CHECK_DEADLOCK FALSE
INVARIANTS CountersExact Linked MemoryBound
PROPERTIES HeldPagesStay CurrentNetworkLast
