SPECIFICATION FairSpec
CONSTANTS
    Threshold = 2
    Kills = {1, 2}
    MaxDeaths = 1
    MaxLinks = 2
    MaxMoves = 2
    MaxEffects = 1
    MaxReconnects = 1
    DeathIsLong = TRUE
    SendsMayFail = TRUE
INVARIANTS
    TypeOK
    PaidFor
    NeverLeftAtZero
PROPERTIES
    NeverEchoed
    KillLands
CHECK_DEADLOCK FALSE
