SPECIFICATION FairSpec
CONSTANTS
    Peers = {A}
    A = A
INVARIANTS
    EpochsApart
    ResolvedMeansDelivered
    GenerationsInOrder
    CursorCoversReleased
PROPERTY GenerationReachesPeer
\* The id may be opened for the last time and closed.
CHECK_DEADLOCK FALSE
