CONSTANTS
    p1 = p1
    p2 = p2
    p3 = p3
    c1 = c1
    c2 = c2
    h1 = h1
    h2 = h2
    IntMax = 7
    Slots <- MCSlots3
    Cpus <- MCCpus2
    ClockCpu = c1
    initproc = p1
    NoProc = NoProc
    NoCpu = NoCpu
    NoChan = NoChan
    Ticks = Ticks
    KillPids = {2}
    MaxPid = 4
    SleepArgs = {1}
SYMMETRY SumSymmetry
SPECIFICATION SumSpec
INVARIANTS
    EarliestWins
