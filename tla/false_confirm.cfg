SPECIFICATION Spec
CONSTANTS
    Threshold = 1
    Kills = {1}
    MaxDeaths = 0
    MaxLinks = 1
    MaxMoves = 2
    MaxEffects = 1
    MaxReconnects = 0
    DeathIsLong = TRUE
    SendsMayFail = FALSE
PROPERTY StopsOnRespawn
CHECK_DEADLOCK FALSE
