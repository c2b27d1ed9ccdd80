CONSTANTS
  Ops = {"service", "token", "notify", "ioctl"}
  RpcLate = {"connect", "service", "token", "notify"}
  UpCap = 1
  DownCap = 4
  MaxCall = 2
  MaxFrame = 3
  MaxInd = 1

SPECIFICATION FairSpec
INVARIANTS WellFramed FramesInOrder RepliesMatch
PROPERTIES CallReturns CloseIsNoticed
