CONSTANTS
    a = a
    b = b
    c = c
    Macs = {a, b, c}
    PoolSize = 2
    SeqMod = 4
    MayRestart = TRUE
    MayDuplicate = TRUE
    ServedCap = 5
    NetCap = 2
SPECIFICATION Spec
INVARIANTS OneLeasePerPhone AddressesDiffer
PROPERTIES EvictsLeastRecent
SYMMETRY AnyPhone
