CONSTANTS
    b1 = b1
    b2 = b2
    b3 = b3
    b4 = b4
    b5 = b5
    o1 = o1
    o2 = o2
    o3 = o3
    Blocks <- MCBlocks5
    Values = {0, 1}
    InitialValue = 0
    Ops <- MCOps2
    MaxOpBlocks = 3
    OpWrites = 2
    LogSize = 6
    LogBlocks = 6
SYMMETRY Symmetry
SPECIFICATION Spec
INVARIANTS
    LogInv
    DurableWhenQuiet
    NoLostWakeup
    LogHasRoom
PROPERTIES
    DiskSpec
