CONSTANTS
    MaxMin = 1
    MaxSec = 1
    PeriodMin = 1
    PeriodSec = 1
    ScoreMax = 1
    StoppedAfter = 2
    ChannelCap = 1
    Commands <- TimerCommands
    FirstBoards <- StoppedAtPeriod
    Buttons = {}
    MayMiss = FALSE
    MayReboot = TRUE
    SecondTicks = 1
    MaxLag = 0
    WireCap = 1
SPECIFICATION FairSpec
INVARIANTS TypeOK TrainAddsUp
PROPERTIES ChannelDrains TrainFinishes FreezeIsReported
