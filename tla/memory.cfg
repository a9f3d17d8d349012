CONSTANTS
    Procs = {p1, p2}
    Kernel = Kernel
    First = p1
    p1 = p1
    p2 = p2
    NumFrames = 13
    BootFrames = 1
    PageSize = 2
    TableSize = 2
    FreeSpan = 8
    Base = 24
    ElfBreak = 49
    Top = 30
    MaxStack = 3
    BrkCareful = TRUE
SPECIFICATION Spec
CHECK_DEADLOCK FALSE
INVARIANTS Isolation MappedAreUsed OwnedMapped
