\* Too few sectors: a failed growth must give back what it took.
CONSTANTS
    ND = 1
    NP = 2
    NumSectors = 9
    BlockSize = 2
    HOME = 1
    Sizes <- GrowSizes
    GarbageVals <- Garbage
    MaxOps = 3
SPECIFICATION Spec
INVARIANT GrowthAtomic
