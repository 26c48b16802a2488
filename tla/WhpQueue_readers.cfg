\* Three threads on one queue, two priorities.
CONSTANTS
    NThreads = 3
    NMutexes = 0
    NEvents = 0
    MaxTid = 4
    MaxGen = 1
    MaxCount = 1
    Names = {}
    NoName = NoName
    MaxSerial = 2
    NQueues = 1
    Depth = 2
    MaxToken = 2
    QueueNames = {q1}
    Disciplines = {"PRIORITY"}
    Priorities = {0, 1}
    Cells = {c1}

SPECIFICATION QSpec
INVARIANTS QueuesSound
PROPERTIES Delivery
