\* A removed file whose handles are all closed keeps its sectors.
SPECIFICATION Spec
CONSTANTS
    a = a
    b = b
    NONE = NONE
    Names <- TwoNames
    Sizes <- FileSizes
    NumSectors = 5
    MaxOps = 5
    Counts = {1}
    SeekPos = {0, 2}
INVARIANT RemovedReleased
