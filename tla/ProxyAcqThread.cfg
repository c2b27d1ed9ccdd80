CONSTANTS
  NULL = NULL
  Thread = {t1, t2}
  Late = {"close"}
  Stuck = FALSE

SPECIFICATION FairSpec
CHECK_DEADLOCK FALSE
INVARIANTS NoUseAfterDelete OneThread ActiveIsAlive BufferRecovered
PROPERTY MainReturns
