SPECIFICATION Spec
CONSTANTS
    Secrets = {"disco", "dog"}
    Leftovers = {}
    Meters = {"ammo"}
    Lasting = {FALSE, TRUE}
    Debounce = 2
    Gap = 1
    HoldTicks = 2
    MaxTraps = 2
    MaxMoves = 5
    MaxRestarts = 1
INVARIANT OneAtATime
CHECK_DEADLOCK FALSE
