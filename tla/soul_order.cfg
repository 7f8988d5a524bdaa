SPECIFICATION Spec
CONSTANTS
    a = a
    b = b
    Kinds = {"soul"}
    Locs = {a}
    KindOf <- SoulAtA
    Foreign <- OneEach
    Worth <- OneEach
    Cap <- Large
    Payloads <- MCPayloads
    MaxSent = 2
    MaxDrops = 0
    MaxMoves = 2
    Replays = {1}
    SavesBeforeLeaving = TRUE
INVARIANTS
    SoulOrderIrrelevant
CHECK_DEADLOCK FALSE
