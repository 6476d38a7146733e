CONSTANTS
    r1 = r1
    r2 = r2
    w1 = w1
    w2 = w2
    p1 = p1
    p2 = p2
    Nobody = Nobody
    Callers <- MCCallers2
    Blocks = {1, 2, 3}
    Changed = {1}
    NBUF = 2
    NUM = 4
    Readers <- MCReaders1
    Writers <- MCWriters2
    NoProc = NoProc
    Killable = {r1}
    PIPESIZE = 2
    Wrap = 4
    Bytes = {0, 1}
    NoByte = NoByte
    Counts = {1, 3}
SPECIFICATION PipeFairSpec
INVARIANTS
    PipeInv
    CacheInv
    SeesLatest
PROPERTIES
    CallsEnd
    FifoSpec
CHECK_DEADLOCK FALSE
