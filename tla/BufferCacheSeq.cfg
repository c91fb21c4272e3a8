\* One thread, whole-sector writes: the cache's sequential contract.
CONSTANTS
    t1 = t1
    t2 = t2
    NONE = NONE
    Threads <- OneThread
    NumBlocks = 2
    NumSectors = 3
    SectorSize = 1
    WriteVals = {2, 3}
    InitByte = 1
    PartialWrites = FALSE
    MaxOps = 5
    Kinds = {"read", "write", "flush"}
    SectorsOf <- SharedSectors
SPECIFICATION Spec
INVARIANT TypeOK
INVARIANT ReadsSeeLastWrite
INVARIANT NoLostWrite
PROPERTY CallsReturn
