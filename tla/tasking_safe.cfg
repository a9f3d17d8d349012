\* Every system call, two processes, one key; no tick in a window.
SPECIFICATION FairSpec
CONSTANTS
    Pids = {1, 2}
    InitPid = 1
    Boot = 0
    MaxDepth = 5
    MaxKeys = 1
    Calls = {"getpid", "yield", "block", "exec", "fork"}
    Binaries = {"valid", "invalid"}
    Windows = {}
    MovlClobbers = {}
INVARIANTS TypeOK ContextIntegrity UserRunsAsCurrent NoPanic
PROPERTY Served
