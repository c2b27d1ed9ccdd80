CONSTANTS
  NULL = NULL
  Client = {c1, c2}
  SubPrio <- MCEqual
  MinDuration <- MCNone
  Calls = {"request", "unrequest", "return", "release", "service", "ioctl"}
  Prios = {1, 2}
  Services = {TRUE}
  SocketSize = 1

SPECIFICATION Spec
SYMMETRY Perms
INVARIANTS OneHolder TokenNotLost
