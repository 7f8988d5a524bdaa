SPECIFICATION FairSpec
CONSTANTS
    Secrets = {"disco", "dog"}
    Leftovers = {"dog"}
    Meters = {"ammo"}
    Lasting = {FALSE, TRUE}
    Debounce = 2
    Gap = 1
    HoldTicks = 2
    MaxTraps = 3
    MaxMoves = 5
    MaxRestarts = 1
INVARIANTS
    TypeOK
    NothingLeftOn
PROPERTIES
    DrainSticks
    SupersedeLands
    TemporaryEnds
CHECK_DEADLOCK FALSE
