SPECIFICATION Spec
CONSTANTS
    Procs = {p1, p2, p3}
    InitProc = p1
    Fds = {0, 1}
    Keys = {1, 2, 3, 4}
    Names = {n1, n2}
    Preempt = FALSE
    NoName = NoName
    NoProc = NoProc
INVARIANTS RefCounts SameFile
 
