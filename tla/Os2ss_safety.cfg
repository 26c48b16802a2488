SPECIFICATION OsSpec
CONSTANTS
    l1 = l1
    l2 = l2
    Launchers = {l1, l2}
    None = None
    MaxSeq = 2
    MaxBytes = 1
    MaxAttempts = 1
    MaxWrite = 2
    MaxCalls = 1
    LaunchersMayDie = TRUE
    ServerMayDie = FALSE
SYMMETRY LauncherSymmetry
INVARIANTS OsTypeOK WriteAcknowledged ViewStaysMapped StartUpOrdered
CHECK_DEADLOCK FALSE
