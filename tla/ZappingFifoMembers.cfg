CONSTANTS
  NULL = NULL
  Producer = {p1}
  Consumer = {c1, c2}
  Buffer = {b1, b2, b3}
  Leavers = {c1, c2, p1}
  TimedWait = {p1}
  Eof = {p1}
  MaxHeld = 1

SPECIFICATION Spec
SYMMETRY Perms
CHECK_DEADLOCK FALSE
INVARIANTS OnePlace NextOnFull
PROPERTIES ImplementsStream EofNotDropped
