SPECIFICATION Spec
CONSTANTS
    Seeds = {s, t}
    Legacy = legacy
    MaxRuns = 3
    MaxPlays = 2
SYMMETRY SeedSymmetry
INVARIANTS
    OneMod
    PureMod
    SaidIsDone
PROPERTIES
    DryRunHarmless
CHECK_DEADLOCK FALSE
