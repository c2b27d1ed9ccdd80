CONSTANTS
  NULL = NULL
  Producer = {p1, p2}
  Consumer = {c1, c2}
  Buffer = {b1, b2}
  Leavers = {}
  TimedWait = {}
  Eof = {p1, p2}
  MaxHeld = 1

SPECIFICATION FairSpec
INVARIANT Counted
PROPERTIES EofIsLast FrameServed
