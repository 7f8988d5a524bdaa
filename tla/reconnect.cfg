SPECIFICATION Spec
CONSTANTS
    a = a
    b = b
    Kinds = {"cadeaux"}
    Locs = {a}
    KindOf <- CadeauxAtA
    Foreign <- OneEach
    Worth <- BundleOfTwo
    Cap <- Large
    Payloads <- MCPayloads
    MaxSent = 2
    MaxDrops = 1
    MaxMoves = 2
    Replays = {1}
    SavesBeforeLeaving = TRUE
INVARIANTS
    ReconnectsStaySafe
CHECK_DEADLOCK FALSE
