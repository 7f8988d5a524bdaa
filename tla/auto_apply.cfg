SPECIFICATION FairSpec
CONSTANTS
    a = a
    b = b
    Kinds = {"stack"}
    Locs = {}
    KindOf <- Nowhere
    Foreign <- OneEach
    Worth <- OneEach
    Cap <- Large
    Payloads <- MCPayloads
    MaxSent = 1
    MaxDrops = 0
    MaxMoves = 3
    Replays = {1}
    SavesBeforeLeaving = TRUE
PROPERTIES
    Converges
CHECK_DEADLOCK FALSE
