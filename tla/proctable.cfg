SPECIFICATION FairSpec
CONSTANTS
    max_pid = 4
    Preempt = FALSE
PROPERTIES  ImplementsPool
