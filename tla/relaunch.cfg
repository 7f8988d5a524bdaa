SPECIFICATION Spec
CONSTANTS
    item = item
    item2 = item2
    soul = soul
    other = other
    Levels = {"A", "B"}
    Locs = {item, item2, soul}
    Souls = {soul}
    LevelOf <- SoulInB
    SlotOf <- Slots
    Watchers = {"fast", "slow"}
    MaxPickups = 2
    MaxLaunches = 2
    MaxLoads = 2
    MaxDrops = 0
    LooksBeforeDoors = FALSE
PROPERTY EveryPickupFound
CHECK_DEADLOCK FALSE
