CONSTANTS
    p1 = p1
    p2 = p2
    usr = usr
    bin = bin
    Names = {usr, bin}
    NInodes = 3
    NBlocks = 4
    NDirect = 1
    MaxFile = 2
    EntriesPerBlock = 3
    Procs = {p1, p2}
    Nobody = Nobody
    NFile = 2
    NOFile = 2
    Calls <- MCCalls
    FdCalls <- MCFdCalls
    InitTrees <- MCTrees
    MaxCalls = 4
SPECIFICATION MCSpec
SYMMETRY MCSymmetry
INVARIANTS
    DiskConsistent
    RefsAgree
    NoPanic
    LocksSafe
PROPERTIES
    FreedUnused
