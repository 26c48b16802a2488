SPECIFICATION Spec
CONSTANTS
    a1 = a1  a2 = a2  b1 = b1  p = p  q = q  n = n  m = m
    None = None
    Threads = {a1, a2, b1}
    Names = {n, m}
    Orders = {"FIFO"}
    Priorities = {0}
    MaxQueues = 2
    Depth = 2
    MaxSerial = 3
    MaxWrites = 2
    BackendMayFail = TRUE
    Pid <- TwoProcesses
SYMMETRY QueueSymmetry
INVARIANT QTypeOK
INVARIANT SlotIsPinned
INVARIANT EventTellsTruth
INVARIANT NamesOneQueue
PROPERTY WaitEndsRight
