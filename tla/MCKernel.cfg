CONSTANTS
    p1 = p1
    p2 = p2
    Procs = {p1, p2}
    Readers = {p1, p2}
    Writers = {p2}
    INPUT_BUF_SIZE = 2
    UART_TX_BUF_SIZE = 1
    Wrap = 4
    TxWrap = 2
    OutChars = {"x"}
    MaxCount = 2
    RxSize = 1
    Typed = {"a", "nl", "eof", "BS", "KILL", "PS"}
    Slots = {1, 2}
    NPAGES = 17
    PGSIZE = 2
    PTES = 2
    First = 1
    MaxSize = 8
    MaxGrow = 3
    Programs <- MCPrograms
    MinUnits = 3
    MaxUnits = 8
    MaxAsk = 4
SPECIFICATION SumSpec
INVARIANTS
    ConsoleInv
    MemoryConsistent
PROPERTIES
    KeepsOrder
    FailedCallsUndo
