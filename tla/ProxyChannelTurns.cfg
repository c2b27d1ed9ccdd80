CONSTANTS
  NULL = NULL
  Client = {c1, c2}
  SubPrio <- MCEqual
  MinDuration <- MCEqual
  Calls = {"request", "flush"}
  Prios = {1}
  Services = {TRUE}
  SocketSize = 2

SPECIFICATION FairSpec
INVARIANTS OneOwner TokenExclusive
PROPERTY ControlInTurn
