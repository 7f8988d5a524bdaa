SPECIFICATION FairSpec
CONSTANTS
    Secrets = {"disco", "dog"}
    Leftovers = {}
    Meters = {"ammo"}
    Lasting = {FALSE}
    Debounce = 2
    Gap = 1
    HoldTicks = 2
    MaxTraps = 1
    MaxMoves = 5
    MaxRestarts = 1
PROPERTY RevertIsHarmless
CHECK_DEADLOCK FALSE
