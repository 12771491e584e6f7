CONSTANTS
    Images = {"factory", "good", "dies", "stalls", "freezes"}
    Factory = "factory"
    Dies = {"dies"}
    Stalls = {"stalls"}
    Freezes = {"freezes"}
    Sectors = 2
    Requests = {"r1", "r2"}
    MaxPowerCycles = 3
SPECIFICATION FairSpec
INVARIANTS RunsWholeImage KeepsConfirmed
PROPERTIES UploadsEnd FrozenTrialReverts ResetReverts ImplementsTrial
CHECK_DEADLOCK FALSE
