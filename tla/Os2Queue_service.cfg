SPECIFICATION FairSpec
CONSTANTS
    a1 = a1  a2 = a2  b1 = b1  p = p  q = q  n = n  m = m
    None = None
    Threads = {a1, a2, b1}
    Names = {n}
    Orders = {"FIFO", "LIFO", "PRIORITY"}
    Priorities = {0, 1}
    MaxQueues = 1
    Depth = 2
    MaxSerial = 2
    MaxWrites = 3
    BackendMayFail = FALSE
    Pid <- OneProcess
PROPERTIES ServiceSpec ReaderServed ClosedIsReclaimed
CHECK_DEADLOCK FALSE
