\* Process ids are used again; two children fill a table.
CONSTANTS
    Threads <- TwoAndOne
    MaxProcs = 3
    OsPids = {p1, p2, p3}
    LocalMax = 2
    SharedMax = 2
    MaxSid = 2

SYMMETRY PidSymmetry
SPECIFICATION Spec
INVARIANTS TablesSound ChildrenKept TitleOwn
CHECK_DEADLOCK FALSE
