SPECIFICATION PatchSpec
CONSTANTS
    SecretCode = {1400, 1500}
    OddPatches = {}
    HandTools = {"secret"}
    MaxHand = 2
INVARIANTS
    Loadable
CHECK_DEADLOCK FALSE
