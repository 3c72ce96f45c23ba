SPECIFICATION Spec
CONSTANTS
  app = app  worker = worker  tenant = tenant  near = near  far = far
  Threads = {app, worker}
  Neighbours = {tenant}
  Polling = {}
  Shards = 2
  PerCap = 1
  Lanes = 2
  PeerLane <- OneEach
  Attributed = {near}
  PollMax = 2
  Modulus = 16
  Starts <- Worn
  MaxPackets = 2
  MaxBorrows = 1
  Nobody = Nobody
INVARIANTS SlotsAccounted 
PROPERTY InOrder
SYMMETRY Alike
CHECK_DEADLOCK FALSE
