CONSTANTS
  NULL = NULL
  Client = {c1, c2}
  SubPrio <- MCEqual
  MinDuration <- MCNone
  Calls = {"request", "again", "service", "close"}
  Prios = {1, 2}
  Services = {TRUE, FALSE}
  SocketSize = 1

SPECIFICATION Spec
SYMMETRY Perms
INVARIANTS CycleBound RpcMatched
