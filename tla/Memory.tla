------------------------------- MODULE Memory -------------------------------
(* Who has which page of memory: fork(), exec(), sbrk(), exit() and alarms *)
(* (kernel/proc.c, exec.c, sysproc.c, trap.c) over PageTable.              *)
(*                                                                         *)
(* A call is one step: it works on its own address space, and meets others *)
(* only at the free list, which may run out at any of its allocations.     *)
EXTENDS PageTable

CONSTANTS
    NPAGES,     \* pages that kinit() finds
    Procs,      \* slots of the process table
    First,      \* the slot of the first process
    MaxSize,    \* bound: the largest process
    MaxGrow,    \* bound: the most sbrk() is asked to add or take
    Programs    \* bound: the programs, each a sequence of segments

MemoryAssumption ==
    /\ NPAGES \in Nat /\ PGSIZE \in Nat \ {0} /\ PTES \in Nat \ {0, 1}
    /\ First \in Procs /\ PgUp(MaxSize) <= TRAPFRAME
    /\ \A g \in Programs : \A i \in DOMAIN g :
          g[i].vaddr % PGSIZE = 0 /\ (PgUp(g[i].vaddr + g[i].memsz) + 2) * PGSIZE <= MaxSize

VARIABLES
    free,       \* the length of kmem.freelist
    space,      \* of each slot: its address space, trap frames and alarm
    lost,       \* history: how many pages no pointer leads to
    fail,       \* history: the last call returned -1
    panic

vars == <<free, space, lost, fail, panic>>

(* tf and alarm: the pages of the trap frame and of alarm_trapframe, 1 or  *)
(* 0; armed: alarm_interval > 0; handling: alarm_on_off.                   *)
Unused == [live |-> FALSE, sz |-> 0, nodes |-> {}, leaf |-> {}, user |-> {},
           tf |-> 0, alarm |-> 0, armed |-> FALSE, handling |-> FALSE]

(* The address space of p, with so many of the free pages for this call.   *)
Space(p, left) == [Blank(free, left) EXCEPT !.nodes = space[p].nodes, !.leaf = space[p].leaf,
                                            !.user = space[p].user, !.sz = space[p].sz]
Built(s, m) == [s EXCEPT !.nodes = m.nodes, !.leaf = m.leaf, !.user = m.user, !.sz = m.sz]

-----------------------------------------------------------------------------
NewProc(alarm, m) == [Built(Unused, m) EXCEPT !.live = TRUE, !.tf = 1, !.alarm = alarm]

(* userinit(): the pages of allocproc() and one page of user memory.       *)
First0 == [UserPages(Kalloc(ProcPagetable(Kalloc(Blank(NPAGES, NPAGES)))), {0}, {0})
           EXCEPT !.sz = PGSIZE]
Init ==
    /\ First0.ok
    /\ free = First0.free
    /\ space = [p \in Procs |-> IF p = First THEN NewProc(1, First0) ELSE Unused]
    /\ lost = 0 /\ fail = FALSE /\ panic = FALSE

(* The call ends: slot p is s, and the rest of memory m.                   *)
Ends(p, s, m) == /\ free' = m.free /\ fail' = ~m.ok /\ panic' = (panic \/ m.panic)
                 /\ space' = [space EXCEPT ![p] = s]

Running(p) == space[p].live /\ ~panic

(* freeproc(): the trap frame, the memory and the page table, not the page *)
(* of the alarm, whose pointer stays in the slot.                          *)
Freeproc(m, sz) == Kfree(ProcFreepagetable(m, sz), 1)
Freed(alarm) == [Unused EXCEPT !.alarm = alarm]

(* allocproc(): a trap frame, a page table and, if there is one, a page    *)
(* for the alarm, in this order.                                           *)
Allocproc(left) == ProcPagetable(Kalloc(Blank(free, left)))
AlarmPage(m) == IF m.left = 0 THEN 0 ELSE 1

(* It fails for the want of a trap frame or of a page table.               *)
ForkFails(p, np) == \E left \in 0..free : \E a \in {Allocproc(left)} :
    /\ Running(p) /\ ~space[np].live /\ ~a.ok
    /\ Ends(np, space[np], Kfree(Unfinished(a), IF left = 0 THEN 0 ELSE 1))
    /\ UNCHANGED lost

(* fork(); the alarm's pointer that the slot had is overwritten.           *)
Fork(p, np) == \E left \in 0..free : \E a \in {Allocproc(left)} :
    /\ Running(p) /\ ~space[np].live /\ a.ok
    /\ \E m \in {Uvmcopy(IF a.left = 0 THEN a ELSE Kalloc(a), space[p])} :
          IF m.ok THEN Ends(np, NewProc(AlarmPage(a), [m EXCEPT !.sz = space[p].sz]), m)
          ELSE Ends(np, Freed(AlarmPage(a)), Freeproc(m, 0))
    /\ lost' = lost + space[np].alarm

(* exit() and wait(): all is freed when the parent waits.                  *)
Reap(p) == /\ Running(p) /\ p # First
           /\ Ends(p, Freed(space[p].alarm), Freeproc(Space(p, 0), space[p].sz))
           /\ UNCHANGED lost

(* growproc().                                                             *)
Sbrk(p) == \E n \in 1..MaxGrow, left \in 0..free :
    /\ Running(p) /\ space[p].sz + n <= MaxSize
    /\ \E m \in {Uvmalloc(Space(p, left), space[p].sz, space[p].sz + n)} :
          Ends(p, Built(space[p], m), m)
    /\ UNCHANGED lost

(* Below zero the size wraps and is very large: uvmdealloc() sees nothing  *)
(* to do, and sbrk() succeeds.                                             *)
SbrkDown(p) == \E n \in 1..MaxGrow :
    /\ Running(p)
    /\ \E m \in {IF n > space[p].sz THEN Space(p, 0)
                  ELSE Uvmdealloc(Space(p, 0), space[p].sz, space[p].sz - n)} :
          Ends(p, Built(space[p], m), m)
    /\ UNCHANGED lost

-----------------------------------------------------------------------------
(* exec().                                                                 *)

(* loadseg(), into pages that uvmalloc() has mapped; a size of 0 reads as  *)
(* a failure of uvmalloc().                                                *)
Loadseg(m, seg) == IF ~m.ok THEN m ELSE IF m.sz = 0 THEN Fails(m)
                   ELSE IF CopyOk(m, seg.vaddr, seg.memsz) THEN m ELSE Panics(m)
LoadSegment(m, seg) == IF m.ok THEN Loadseg(Uvmalloc(m, m.sz, seg.vaddr + seg.memsz), seg) ELSE m

(* Two pages at the next page boundary, the first a guard.                 *)
Guarded(m, va) == IF m.ok THEN Uvmclear(m, va) ELSE m
StackAt(m, sz) == Guarded(Uvmalloc(Sized(m, sz), sz, sz + 2 * PGSIZE), sz \div PGSIZE)
Stack(m) == IF m.ok THEN StackAt(m, PgUp(m.sz) * PGSIZE) ELSE m

(* The new image: `done` segments, and the stack when they are all.        *)
Image(g, left, done) ==
    LET l == FoldLeft(LoadSegment, ProcPagetable(Blank(free, left)), SubSeq(g, 1, Min({done, Len(g)})))
    IN IF done < Len(g) THEN l ELSE Stack(l)

(* The header, a read or a check of a segment, or the arguments may be bad *)
(* after any number of segments.  The old image goes when all is well.     *)
ExecFails(p) == \E g \in Programs, left \in 0..free : \E done \in 0..Len(g) :
    /\ Running(p)
    /\ \E m \in {Image(g, left, done)} :
          Ends(p, space[p], Fails(IF TRAPFRAME \in m.leaf THEN ProcFreepagetable(m, m.sz) ELSE Unfinished(m)))
    /\ UNCHANGED lost

Exec(p) == \E g \in Programs, left \in 0..free :
    /\ Running(p)
    /\ \E m \in {Image(g, left, Len(g))} :
          /\ m.ok
          /\ Ends(p, Built(space[p], m),
                  ProcFreepagetable([Space(p, 0) EXCEPT !.free = m.free, !.panic = m.panic], space[p].sz))
    /\ UNCHANGED lost

-----------------------------------------------------------------------------
(* Alarms: usertrap(), sys_sigalarm() and sys_sigreturn().                 *)

Sigalarm(p) == \E on \in BOOLEAN :
    /\ Running(p)
    /\ space' = [space EXCEPT ![p].armed = on, ![p].handling = FALSE]
    /\ fail' = FALSE /\ UNCHANGED <<free, lost, panic>>

(* The tick on which it is due: a new page saves the trap frame.  If the   *)
(* pointer led to one, that is lost.                                       *)
AlarmFires(p) == \E left \in 0..free :
    LET k == Kalloc(Blank(free, left)) IN
    /\ Running(p) /\ space[p].armed /\ ~space[p].handling
    /\ lost' = lost + space[p].alarm
    /\ space' = [space EXCEPT ![p].alarm = IF k.ok THEN 1 ELSE 0, ![p].handling = k.ok]
    /\ free' = k.free
    /\ fail' = FALSE /\ UNCHANGED panic

(* The saved trap frame comes back, and its page is freed.                 *)
Sigreturn(p) ==
    /\ Running(p)
    /\ IF space[p].handling
       THEN /\ free' = free + 1
            /\ space' = [space EXCEPT ![p].alarm = 0, ![p].handling = FALSE]
            /\ fail' = FALSE
       ELSE fail' = TRUE /\ UNCHANGED <<free, space>>
    /\ UNCHANGED <<lost, panic>>

Next == \E p \in Procs :
    \/ \E np \in Procs : Fork(p, np) \/ ForkFails(p, np)
    \/ Reap(p) \/ Sbrk(p) \/ SbrkDown(p) \/ Exec(p) \/ ExecFails(p)
    \/ Sigalarm(p) \/ AlarmFires(p) \/ Sigreturn(p)

Spec == Init /\ [][Next]_vars

-----------------------------------------------------------------------------
(* Properties.                                                             *)

Users(s) == s.leaf \ {TRAMPOLINE, TRAPFRAME}
Held(s) == Cardinality(Users(s)) + Cardinality(s.nodes) + s.tf + s.alarm

TypeOK ==
    /\ {free, lost} \subseteq 0..NPAGES /\ fail \in BOOLEAN /\ panic \in BOOLEAN
    /\ \A p \in Procs : LET s == space[p] IN
        /\ s.sz \in 0..MaxSize /\ s.leaf \subseteq 0..MAXVA - 1 /\ s.user \subseteq Users(s)
        /\ s.handling => s.alarm = 1

(* Every page is in exactly one place: free, in a page table or mapped by  *)
(* one, a trap frame or the page of an alarm, or lost to all pointers.     *)
EachPageOnce == NPAGES = free + lost + SumFunction([p \in Procs |-> Held(space[p])])

(* A live process has its whole size mapped and nothing more, and every    *)
(* entry can be reached through tables; a dead one has nothing mapped.     *)
MappedIsSize == \A p \in Procs : LET s == space[p] IN
    /\ s.leaf = IF s.live THEN (0..PgUp(s.sz) - 1) \cup {TRAMPOLINE, TRAPFRAME} ELSE {}
    /\ \A va \in s.leaf : {<<>>, <<Px(2, va)>>, <<Px(2, va), Px(1, va)>>} \subseteq s.nodes

(* No panic of vm.c or exec.c: remap, not mapped, leaf in freewalk(), no   *)
(* entry to copy or to load into.                                          *)
NoPanic == ~panic

(* Pages and mappings are accounted for, and no panic is reached.          *)
MemoryConsistent == TypeOK /\ EachPageOnce /\ MappedIsSize /\ NoPanic

(* A call that fails leaves the memory of every process as it was; of what *)
(* it had built it keeps page tables of the caller, which exit() frees,    *)
(* and the page that a failed fork() leaves to the alarm of a free slot.   *)
FailureUndoes == fail' /\ ~panic' => \A p \in Procs :
    LET s == space[p]  t == space'[p] IN
    /\ t.leaf = s.leaf /\ t.user = s.user /\ t.sz = s.sz
    /\ s.nodes \subseteq t.nodes /\ (t.nodes # s.nodes => s.live)
FailedCallsUndo == [][FailureUndoes]_vars

(* usertests counts the free pages before and after its tests: with only   *)
(* the first process left, none is lost.                                   *)
PagesComeBack ==
    (\A p \in Procs \ {First} : ~space[p].live) => NPAGES = free + Held(space[First])

-----------------------------------------------------------------------------
(* For TLC: a program of one segment, and one of two of which the first    *)
(* does not begin at 0 and the second is in pages that the first has made  *)
(* uvmalloc() map.                                                         *)
MCPrograms == {<<[vaddr |-> 0, memsz |-> 1]>>,
               <<[vaddr |-> 2, memsz |-> 1], [vaddr |-> 0, memsz |-> 2]>>}

=============================================================================
