SPECIFICATION Spec
CONSTANTS
    Readers = {"r"}
    Writers = {"w"}
    Slots = {s0, s1, s2}
    Addrs = {1, 2, 9}
    BcpIds = {4}
    Tags = {3}
    HashRange = 8
    Capacity = 4
    TagCapacity = 2
    Ops = {"register", "remove", "move", "bindid", "bindtag", "unbindtag", "unbindtags"}
    MaxOps = 4
SYMMETRY SlotSymmetry
INVARIANTS
    IndexInv
    HandlesKeepPeers
PROPERTY NoPeerMissed
