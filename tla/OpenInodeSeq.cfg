\* One thread: reference counting, deferred removal and deny-write.
CONSTANTS
    t1 = t1
    t2 = t2
    s1 = s1
    s2 = s2
    r1 = r1
    r2 = r2
    r3 = r3
    JUNK = JUNK
    NONE = NONE
    Threads <- OneThread
    Sectors <- TwoSectors
    Recs <- TwoRecs
    HSlots = {1, 2}
    MaxOps = 6
SPECIFICATION Spec
INVARIANT OpenCountMatchesHandles
INVARIANT ReleasedOnceWhenUnused
INVARIANT DenyWithinOpen
PROPERTY OpenFilesSpec
