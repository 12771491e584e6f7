CONSTANTS
    MaxMin = 1
    MaxSec = 1
    PeriodMin = 1
    PeriodSec = 1
    ScoreMax = 1
    StoppedAfter = 8
    ChannelCap = 1
    Commands <- StartAndScores
    FirstBoards <- ScoreLeftOrNone
    Buttons = {"min_inc"}
    MayMiss = TRUE
    MayReboot = FALSE
    SecondTicks = 4
    MaxLag = 2
    WireCap = 2
SPECIFICATION Spec
INVARIANTS AnnouncedIsVisible CountingIsReported ScoreTrainsIdle ScoresMirror
PROPERTIES PulseNeverInverts
