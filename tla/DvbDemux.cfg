SPECIFICATION Spec
CONSTANTS
  Inputs <- MCInputs
  Chunks = {1, 11}
  TsSize = 6
  SlicedSize = 4
  Counter = 4
  MaxResets = 1
CHECK_DEADLOCK FALSE
INVARIANTS BuffersFollowStream ChunkingInvisible FrameWhole UndamagedDelivered
PROPERTY BufferConsumed
