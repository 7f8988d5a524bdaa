SPECIFICATION FairSpec
CONSTANTS
    a = a
    b = b
    Kinds = {"stack", "cadeaux"}
    Locs = {a, b}
    KindOf <- StackAndCadeaux
    Foreign <- OneEach
    Worth <- BundleOfTwo
    Cap <- Large
    Payloads <- MCPayloads
    MaxSent = 2
    MaxDrops = 1
    MaxMoves = 3
    Replays = {1}
    SavesBeforeLeaving = TRUE
INVARIANTS
    NothingOverGranted
    CadeauxSettle
    NothingSkipped
    CaughtUp
    OnceUnlessDropped
PROPERTIES
    DeliversInOrder
    EverythingHandled
CHECK_DEADLOCK FALSE
