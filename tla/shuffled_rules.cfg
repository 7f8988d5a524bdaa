SPECIFICATION SeedSpec
CONSTANTS
    Seeds <- MCSeeds
    MovedPortals = {"Wast", "Asy1", "Gad1", "Gad2", "London", "Salvage"}
    MovedGates = {"CAGEWAYS", "PATH_7", "FOGOMETERS", "FOGOMETERS_INTERIOR"}
    Gathered <- MCGathered
    Stops <- MCStops
INVARIANT RulesOpenNothingMore
CHECK_DEADLOCK FALSE
