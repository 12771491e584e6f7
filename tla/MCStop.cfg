CONSTANTS
    MaxMin = 1
    MaxSec = 1
    PeriodMin = 1
    PeriodSec = 1
    ScoreMax = 1
    StoppedAfter = 8
    ChannelCap = 1
    Commands <- OnlyStop
    FirstBoards <- Counting
    Buttons = {}
    MayMiss = FALSE
    MayReboot = FALSE
    SecondTicks = 4
    MaxLag = 2
    WireCap = 3
SPECIFICATION Spec
PROPERTIES PulseNeverInverts
