SPECIFICATION Spec
CONSTANTS
  Ids = {1, 2}
  OutCount = 1
  InCount = 1
  MaxPerPeer = 2
  Count = 3
  Window = 2
  AckEvery = 2
  Budget = 3
  Faults = {"reorder"}
  MaxLoss = 1
  MaxAnnounces = 2
  MaxAcks = 2
  MaxSweeps = 1
INVARIANTS BufferInv OkMeansWhole  StruckOffIsHeld
CHECK_DEADLOCK FALSE
