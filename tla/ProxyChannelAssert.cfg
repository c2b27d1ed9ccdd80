CONSTANTS
  NULL = NULL
  Client = {c1, c2, c3}
  SubPrio <- MCEqual
  MinDuration <- MCEqual
  Calls = {"request", "return"}
  Prios = {1}
  Services = {TRUE}
  SocketSize = 1

SPECIFICATION Spec
SYMMETRY Perms
INVARIANT OwnerAsserted
CHECK_DEADLOCK FALSE
