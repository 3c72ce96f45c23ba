SPECIFICATION Spec
CONSTANTS
    StartPk <- Ranks
    Bounds <- Weights
    FreshPks = {1}
    RecvGrant = 1
    Grants = {2}
    MaxAttempts = 2
    MaxPending = 1
INVARIANTS
    SessionsAgree
    GrantSettled
PROPERTIES
    KeysInstalledOnce
    
\* the bounds run out
CHECK_DEADLOCK FALSE
