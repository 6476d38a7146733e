CONSTANTS
    NPAGES = 20
    PGSIZE = 2
    PTES = 2
    Procs = {1, 2}
    First = 1
    MaxSize = 8
    MaxGrow = 3
    Programs <- MCPrograms
SPECIFICATION Spec
CHECK_DEADLOCK FALSE
INVARIANTS
    PagesComeBack
