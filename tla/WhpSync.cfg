\* Three threads and one mutex that may be named.
CONSTANTS
    NThreads = 3
    NMutexes = 1
    NEvents = 0
    MaxTid = 4
    MaxGen = 1
    MaxCount = 2
    Names = {n1}
    NoName = NoName
    MaxSerial = 2

SPECIFICATION DutifulSpec
INVARIANTS TypeOK OwnerLives WaitersBlocked
PROPERTIES Fifo RequestHonest OwnerDeathTold ServiceSpec RunnableRuns WaitsEnd
