CONSTANTS
    p1 = p1
    p2 = p2
    p3 = p3
    c1 = c1
    c2 = c2
    Procs <- MCProcs2
    Cpus <- MCCpus1
    ClockCpu = c1
    Nobody = Nobody
    Policies = {"MLFQ"}
SPECIFICATION FairSpec
PROPERTIES
    SleepersWake
CHECK_DEADLOCK FALSE
