CONSTANTS
    ChannelCap = 1
    p1 = p1
    p2 = p2
    p3 = p3
    Phones = {p1, p2, p3}
    Workers = 2
    MaxStreams = 1
SPECIFICATION FairWebSpec
INVARIANTS DarkAtMostOnce
PROPERTIES LedSettles HeartbeatBeats ChannelMoves WorkersComeFree
