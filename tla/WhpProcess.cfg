\* Two threads, two children.
CONSTANTS
    NThreads = 2
    NMutexes = 0
    NEvents = 0
    MaxTid = 3
    MaxGen = 1
    MaxCount = 1
    Names = {}
    NoName = NoName
    MaxSerial = 2
    NChildren = 2
    MaxPid = 2

SPECIFICATION PFairSpec
INVARIANTS TableSound
PROPERTIES Told ChildCallReturns
