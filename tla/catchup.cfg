SPECIFICATION FairSpec
CONSTANTS
    a = a
    b = b
    Kinds = {"stack", "flag"}
    Locs = {}
    KindOf <- Nowhere
    Foreign <- OneEach
    Worth <- BundleOfTwo
    Cap <- Large
    Payloads <- MCPayloads
    MaxSent = 2
    MaxDrops = 1
    MaxMoves = 4
    Replays = {1, 2}
    SavesBeforeLeaving = TRUE
PROPERTIES
    CatchupRepairs
CHECK_DEADLOCK FALSE
