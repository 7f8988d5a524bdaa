SPECIFICATION PatchSpec
CONSTANTS
    SecretCode = {1400, 1500}
    OddPatches = {"gad", "save_path", "secret", "retractor", "pistons"}
    HandTools = {"secret", "retractor", "folder", "pistons"}
    MaxHand = 3
INVARIANTS
    SitesApart
    ImageLoads
    HooksLeadHome
    AllIn
CHECK_DEADLOCK FALSE
