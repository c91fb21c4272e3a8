\* Two writers on one file: each reads the inode before free_map_lock.
CONSTANTS
    t1 = t1
    t2 = t2
    NONE = NONE
    STALE = STALE
    Threads <- TwoThreads
    NumSectors = 5
    BlockSize = 2
    HOME = 1
    Reqs <- WriteReqs
    MaxOps = 1
SPECIFICATION Spec
INVARIANT NoLeakedSectors
