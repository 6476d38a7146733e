CONSTANTS
    c1 = c1
    c2 = c2
    p1 = p1
    p2 = p2
    p3 = p3
    Procs = {1, 2, 3}
    Harts <- MCHarts2
    Nobody = Nobody
    BoostPeriod = 2
    Hogs = {1}
SPECIFICATION SumSpec

    
PROPERTIES
    QueueMoves
    RunnableRuns
    SleepersWake
