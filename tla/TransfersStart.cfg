SPECIFICATION FairSpec
CONSTANTS
  Ids = {1}
  OutCount = 1
  InCount = 2
  MaxPerPeer = 2
  Count = 3
  Window = 2
  AckEvery = 2
  Budget = 2
  Faults = {}
  MaxLoss = 1
  MaxAnnounces = 3
  MaxAcks = 2
  MaxSweeps = 0
PROPERTY AnnouncementAnswered
CHECK_DEADLOCK FALSE
