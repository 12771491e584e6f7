CONSTANTS
    PacketLen = 4
    MinAt = 3
    SecAt = 4
    MaxMin = 1
    MaxSec = 1
    Byte = {0, 1, 8, 9}
    Sof = 9
    Frames <- SomeFrames
    DmaLen = 3
    MaxFaults = 2
SPECIFICATION FairSpec
INVARIANTS InStep AtMostOneWrongTime
PROPERTIES TimeGetsThrough
