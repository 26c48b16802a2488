\* Two threads, one queue that posts a named event.
CONSTANTS
    NThreads = 2
    NMutexes = 0
    NEvents = 1
    MaxTid = 3
    MaxGen = 1
    MaxCount = 2
    Names = {n1}
    NoName = NoName
    MaxSerial = 1
    NQueues = 1
    Depth = 2
    MaxToken = 2
    QueueNames = {q1}
    Disciplines = {"LIFO"}
    Priorities = {0}
    Cells = {c1}

SPECIFICATION QSpec
INVARIANTS WaitersBlocked
