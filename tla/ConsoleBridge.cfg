SPECIFICATION FairSpec
CONSTANTS
    l1 = l1
    l2 = l2
    Launchers = {l1, l2}
    None = None
    MaxSeq = 2
    MaxBytes = 2
    MaxAttempts = 2
INVARIANTS TypeOK BoundOnly NoStaleAction NoLostWakeup AnsweredInTruth
PROPERTIES ServiceSpec DispatchReturns PortIsFreed
CHECK_DEADLOCK FALSE
