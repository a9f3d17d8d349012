\* Both heaps, one process at a time.
SPECIFICATION HSpec
CONSTANTS
    Kinds = {"kernel", "user"}
    HProcs = {p1}
    PageUnits = 4
    TablePages = 4
    MaxPages = 11
    Sizes = {2, 3}
    MaxLive = 3
    HPreempt = FALSE
INVARIANTS Tiled BlocksSound InMappedMemory 
\* Out of pages the kernel panics.
CHECK_DEADLOCK FALSE
