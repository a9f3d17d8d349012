SPECIFICATION Spec
CONSTANTS
    NPids = 3
    MaxLines = 1
    Timeouts = {1}
    Windows = {}
    ReusePids = FALSE
INVARIANTS NoLostLine WaiterHasRequest  ExitRecordedOnce
