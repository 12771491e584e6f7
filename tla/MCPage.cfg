CONSTANTS
    ScoreMax = 1
    Posts = {1}
    Polls = {1, 2}
    ChannelCap = 1
    PipeCap = 1
    MaxFaults = 2
SPECIFICATION FairSpec
INVARIANTS NeverUnwatched
PROPERTIES PageCatchesUp
