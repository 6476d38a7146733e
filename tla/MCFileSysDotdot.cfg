CONSTANTS
    p1 = p1
    p2 = p2
    usr = usr
    bin = bin
    Names = {usr, bin}
    NInodes = 3
    NBlocks = 4
    NDirect = 1
    MaxFile = 2
    EntriesPerBlock = 3
    Procs = {p1, p2}
    Nobody = Nobody
    NFile = 2
    NOFile = 2
    Calls <- MCDotCalls
    FdCalls <- MCNoFdCalls
    InitTrees <- MCTreeA
    MaxCalls = 5
SPECIFICATION Spec
SYMMETRY MCSymmetry
INVARIANTS
    NoPanic
