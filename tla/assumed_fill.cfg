SPECIFICATION Spec
CONSTANTS
    Worlds <- MCWorlds
    MaxDisplacements = 2
    MaxAttempts = 2
INVARIANTS
    NothingLost
    PlacedStaysReachable
    AcceptedIsBeatable
    CadeauxKept
PROPERTIES
    SweepWindsDown
CHECK_DEADLOCK FALSE
