SPECIFICATION OsSpec
CONSTANTS
    l1 = l1
    l2 = l2
    Launchers = {l1, l2}
    None = None
    MaxSeq = 2
    MaxBytes = 1
    MaxAttempts = 1
    MaxWrite = 1
    MaxCalls = 1
    LaunchersMayDie = FALSE
    ServerMayDie = TRUE
SYMMETRY LauncherSymmetry
INVARIANT
    WriteAcknowledged
CHECK_DEADLOCK FALSE
