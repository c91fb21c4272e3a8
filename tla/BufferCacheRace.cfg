\* Two threads on sectors of their own: slot identity under concurrent callers.
CONSTANTS
    t1 = t1
    t2 = t2
    NONE = NONE
    Threads <- TwoThreads
    NumBlocks = 2
    NumSectors = 3
    SectorSize = 1
    WriteVals = {2, 3}
    InitByte = 1
    PartialWrites = FALSE
    MaxOps = 2
    Kinds = {"read", "write", "flush"}
    SectorsOf <- OwnSectors
SPECIFICATION Spec
INVARIANT ReadsSeeLastWrite
