\* Ticks are delivered inside the next_proc of a yield.
SPECIFICATION Spec
CONSTANTS
    Pids = {1, 2, 3}
    InitPid = 1
    Boot = 0
    MaxDepth = 4
    MaxKeys = 0
    Calls = {"block", "fork"}
    Binaries = {"valid"}
    Windows = {"yield"}
    MovlClobbers = {}
INVARIANT ContextIntegrity
