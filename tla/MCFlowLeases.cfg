SPECIFICATION Spec
CONSTANTS
  app = app
  net = net
  Threads = {app, net}
  Addrs = {A, B}
  FlowIds = {1, 2}
  PeerSlots = {p1, p2}
  FlowSlots = {f1, f2}
  OutSlots = {s1, s2}
  InSlots = {i1}
  DirWidth = 2
  Scenarios <- Apart
  NoSlot = NoSlot
  Nobody = Nobody
SYMMETRY Renamings
INVARIANTS ReleasesItsOwn FlowListsExact DirectoryIsThePeers EventsKeepSlots
CHECK_DEADLOCK FALSE
