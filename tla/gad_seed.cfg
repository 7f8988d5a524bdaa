SPECIFICATION Spec
CONSTANTS
    Worlds <- MCWorlds
    MaxDisplacements = 2
    MaxAttempts = 2
INVARIANT EverySeedIsBeatable
CHECK_DEADLOCK FALSE
