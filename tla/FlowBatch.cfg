SPECIFICATION FairSpec
CONSTANTS
    Threads = {F, G}
    F = F
    G = G
    BatchCap = 2
    CloseRaces = FALSE
    MaxSends = 2
    MaxTenants = 2
    MaxRefusals = 1
INVARIANTS BatchInv OnceUnlessRefused
PROPERTY AcceptedLeaves
\* every thread has sent what it may and flushed it
CHECK_DEADLOCK FALSE
