CONSTANTS
    Images = {"factory", "stalls"}
    Factory = "factory"
    Dies = {}
    Stalls = {"stalls"}
    Freezes = {}
    Sectors = 2
    Requests = {"r1"}
    MaxPowerCycles = 0
SPECIFICATION FairSpec
PROPERTIES StalledTrialReverts
CHECK_DEADLOCK FALSE
