SPECIFICATION Spec
CONSTANTS
    Payloads = {"gad", "poigne"}
    a = a
    b = b
    Levels = {a, b}
    ForeignGads = 1
    MaxSent = 2
    MaxDrops = 1
    MaxMoves = 3
    Replays = {1}
SYMMETRY LevelSymmetry
INVARIANTS
    GadSettles
PROPERTIES
    NeverBackward
CHECK_DEADLOCK FALSE
