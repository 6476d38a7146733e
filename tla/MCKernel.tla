------------------------------ MODULE MCKernel -------------------------------
(* The console, memory and the allocator of a user process, side by side:  *)
(* they share nothing, and a behaviour is one of Console, one of Memory or *)
(* one of Malloc, as part says.                                            *)
EXTENDS Console

CONSTANTS p1, p2,
    Slots, NPAGES, PGSIZE, PTES, First, MaxSize, MaxGrow, Programs,
    MinUnits, MaxUnits, MaxAsk

VARIABLES part, free, space, lost, fail, panic, ptr, size, freep, brk, live

M == INSTANCE Memory WITH Procs <- Slots
U == INSTANCE Malloc
(* A program of one segment, and one of two, as in Memory.                 *)
MCPrograms == {<<[vaddr |-> 0, memsz |-> 1]>>,
               <<[vaddr |-> 2, memsz |-> 1], [vaddr |-> 0, memsz |-> 2]>>}

ASSUME M!MemoryAssumption /\ U!MallocAssumption

consoleVars == vars
memoryVars == <<free, space, lost, fail, panic>>
heapVars == <<ptr, size, freep, brk, live>>

SumInit == /\ part \in {"console", "memory", "heap"} /\ Init /\ U!Init
           /\ IF part = "memory" THEN M!Init ELSE /\ free = 0 /\ space = <<>> /\ lost = 0
                                               /\ fail = FALSE /\ panic = FALSE
SumNext ==
    \/ part = "console" /\ Next /\ UNCHANGED <<part, memoryVars, heapVars>>
    \/ part = "memory" /\ M!Next /\ UNCHANGED <<part, consoleVars, heapVars>>
    \/ part = "heap" /\ U!Next /\ UNCHANGED <<part, consoleVars, memoryVars>>

SumSpec == SumInit /\ [][SumNext]_<<part, consoleVars, memoryVars, heapVars>>

(* Memory's MemoryConsistent and Malloc's HeapInv: pages and mappings, and *)
(* the units of a user's heap, are accounted for, and no panic is reached. *)
MemoryConsistent == IF part = "heap" THEN U!HeapInv ELSE part = "memory" => M!MemoryConsistent

(* Memory's FailedCallsUndo: a call that fails leaves memory as it was.    *)
FailedCallsUndo == [][part = "memory" => M!FailureUndoes]_memoryVars

=============================================================================
