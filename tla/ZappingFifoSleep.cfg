CONSTANTS
  NULL = NULL
  Producer = {p1}
  Consumer = {c1}
  Buffer = {b1, b2}
  Leavers = {}
  TimedWait = {}
  Eof = {}
  MaxHeld = 1

SPECIFICATION FairSpec
PROPERTY ProducerServed
