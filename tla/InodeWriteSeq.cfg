\* One writer: growth, zero fill and chunked writes keep every byte.
CONSTANTS
    t1 = t1
    t2 = t2
    NONE = NONE
    STALE = STALE
    Threads <- OneThread
    NumSectors = 4
    BlockSize = 2
    HOME = 1
    Reqs <- WriteReqs
    MaxOps = 3
SPECIFICATION Spec
INVARIANT WritesLand
INVARIANT ReadsSeeFileBytes
