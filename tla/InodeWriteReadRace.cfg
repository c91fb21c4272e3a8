\* One reader and one writer: a read starting at the end of the file races
\* the growth that extends it.
CONSTANTS
    t1 = t1
    t2 = t2
    NONE = NONE
    STALE = STALE
    Threads <- TwoThreads
    NumSectors = 5
    BlockSize = 2
    HOME = 1
    Reqs <- WriteReqs
    MaxOps = 1
SPECIFICATION Spec
INVARIANT ReadsSeeFileBytes
