SPECIFICATION FairSpec
CONSTANTS
    NPids = 2
    MaxLines = 1
    Timeouts = {2}
    Windows = {}
    ReusePids = FALSE
PROPERTIES PollReturns LineWakes WaitReturns
