CONSTANTS
  NULL = NULL
  c1 = c1
  Client = {c1, c2}
  Buffer = {b1, b2, b3, b4}
  MinBuffers = 1
  ClientBuffers <- MCClientBuffers
  UseThread = FALSE
  StableServices = TRUE
  MallocMayFail = FALSE

SPECIFICATION FairSpec
INVARIANTS NoFault RefCount NoDangling Partition
PROPERTIES QueueDrains ImplementsStream
