SPECIFICATION OsFairSpec
CONSTANTS
    l1 = l1
    l2 = l2
    Launchers = {l1, l2}
    None = None
    MaxSeq = 2
    MaxBytes = 1
    MaxAttempts = 1
    MaxWrite = 2
    MaxCalls = 1
    LaunchersMayDie = FALSE
    ServerMayDie = TRUE
INVARIANT ExitEndsOwnBridge
PROPERTY
    CallReturns
CHECK_DEADLOCK FALSE
