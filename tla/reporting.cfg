SPECIFICATION FairSpec
CONSTANTS
    item = item
    item2 = item2
    soul = soul
    other = other
    Levels = {"A", "B"}
    Locs = {item, soul}
    Souls = {soul}
    LevelOf <- SoulInB
    SlotOf <- Slots
    Watchers = {"fast", "slow"}
    MaxPickups = 2
    MaxLaunches = 2
    MaxLoads = 3
    MaxDrops = 2
    LooksBeforeDoors = FALSE
INVARIANTS
    TypeOK
    MarkedIsOnItsWay
PROPERTIES
    OnlyRecountedMissed
    EveryCheckArrives
CHECK_DEADLOCK FALSE
