CONSTANTS
    MaxMin = 0
    MaxSec = 1
    PeriodMin = 0
    PeriodSec = 1
    ScoreMax = 1
    StoppedAfter = 2
    p1 = p1
    p2 = p2
    Phones = {p1, p2}
    MaxStreams = 1
    KeepAlive = 3
    IdleWait = 4
SPECIFICATION FairSpec
INVARIANTS NoLostWakeup FlipIsDue
PROPERTIES SlotsAreFreed ImplementsFeed EventsSettle
