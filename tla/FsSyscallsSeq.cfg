\* Sequences of seven file-system calls of one process on a six-sector device.
SPECIFICATION Spec
CONSTANTS
    a = a
    b = b
    NONE = NONE
    Names <- TwoNames
    Sizes <- FileSizes
    NumSectors = 6
    MaxOps = 7
    Counts = {1}
    SeekPos = {0, 2}
INVARIANT HandlesValid EntriesLive SectorsExclusive
