CONSTANTS
    MaxMin = 2
    MaxSec = 1
    PeriodMin = 2
    PeriodSec = 1
    ScoreMax = 1
    StoppedAfter = 4
    ChannelCap = 1
    Commands <- OnlySetTimer
    FirstBoards <- StoppedAtPeriod
    Buttons = {}
    MayMiss = FALSE
    MayReboot = FALSE
    SecondTicks = 2
    MaxLag = 1
    WireCap = 2
SPECIFICATION Spec
PROPERTIES SnapshotIsFresh
