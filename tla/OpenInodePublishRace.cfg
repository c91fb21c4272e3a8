\* Two threads, one file: concurrent inode_open calls against a record not yet initialised.
CONSTANTS
    t1 = t1
    t2 = t2
    s1 = s1
    s2 = s2
    r1 = r1
    r2 = r2
    r3 = r3
    JUNK = JUNK
    NONE = NONE
    Threads <- TwoThreads
    Sectors <- OneSector
    Recs <- TwoRecs
    HSlots = {1}
    MaxOps = 3
SPECIFICATION Spec
CHECK_DEADLOCK FALSE
INVARIANT OpenInodeUnique
