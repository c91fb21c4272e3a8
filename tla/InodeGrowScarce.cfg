\* Too few sectors for the largest file: growth succeeds through all three
\* regions for smaller files, fails in every region for larger ones, and
\* the rollback walk runs through all of its loops.
CONSTANTS
    ND = 1
    NP = 2
    NumSectors = 12
    BlockSize = 2
    HOME = 1
    Sizes <- GrowSizes
    GarbageVals <- Garbage
    MaxOps = 3
SPECIFICATION Spec
INVARIANT FileMapped
PROPERTY WritesReturn
