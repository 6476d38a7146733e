---------------------------- MODULE Accounting ----------------------------
(* What the kernel counts about processes: the ticks they run, which       *)
(* waitx() reports, and the system calls they make, which getSysCount()    *)
(* adds up over the family of the caller.                                  *)
(*                                                                         *)
(* rtime, etime and syscall_count are fields of a slot of the process      *)
(* table that neither allocproc() nor freeproc() resets; ctime is always   *)
(* 0.  Slot 1 is init.  One system call is counted.                        *)
EXTENDS Integers, FiniteSets, FiniteSetsExt

CONSTANTS
    NPROC, NCPU,
    MaxEvents    \* bound: ticks and calls together

VARIABLES
    state, parent,     \* of each slot
    rtime, etime,
    syscall_count,
    clock,             \* ticks
    update,            \* the slot that update_time() comes to, or 0
    made               \* history: calls of the process and of the children it reaped

vars == <<state, parent, rtime, etime, syscall_count, clock, update, made>>
timeVars == <<rtime, etime, clock, update>>
countVars == <<syscall_count, made>>

Table == 1..NPROC
Children(p) == {q \in Table : parent[q] = p}
Running == {p \in Table : state[p] = "running"}

Init ==
    /\ state = [p \in Table |-> IF p = 1 THEN "runnable" ELSE "unused"]
    /\ parent = [p \in Table |-> 0]
    /\ rtime = [p \in Table |-> 0] /\ etime = [p \in Table |-> 0]
    /\ syscall_count = [p \in Table |-> 0] /\ made = [p \in Table |-> 0]
    /\ clock = 0 /\ update = 0

Events == clock + MapThenSumSet(LAMBDA q : syscall_count[q], Table)

Move(p, from, to) == state[p] = from /\ state' = [state EXCEPT ![p] = to]

-----------------------------------------------------------------------------
(* clockintr() under tickslock: ticks++, then update_time() takes one      *)
(* p->lock after the other.                                                *)

ClockIntr ==
    /\ Events < MaxEvents /\ clock' = clock + 1
    /\ update = 0 /\ update' = 1
    /\ UNCHANGED <<state, parent, rtime, etime, countVars>>

UpdateTime ==
    /\ update # 0
    /\ rtime' = IF state[update] = "running" THEN [rtime EXCEPT ![update] = @ + 1] ELSE rtime
    /\ update' = IF update = NPROC THEN 0 ELSE update + 1
    /\ UNCHANGED <<state, parent, etime, clock, countVars>>

-----------------------------------------------------------------------------
Schedule(p) ==
    /\ Cardinality(Running) < NCPU /\ Move(p, "runnable", "running")
    /\ UNCHANGED <<parent, timeVars, countVars>>

Yield(p) == Move(p, "running", "runnable") /\ UNCHANGED <<parent, timeVars, countVars>>

(* syscall() counts the call in the slot.                                  *)
Syscall(p) ==
    /\ state[p] = "running" /\ Events < MaxEvents
    /\ syscall_count' = [syscall_count EXCEPT ![p] = @ + 1]
    /\ made' = [made EXCEPT ![p] = @ + 1]
    /\ UNCHANGED <<state, parent, timeVars>>

Fork(p) == \E q \in Table :
    /\ state[p] = "running" /\ Move(q, "unused", "runnable")
    /\ parent' = [parent EXCEPT ![q] = p]
    /\ made' = [made EXCEPT ![q] = 0]
    /\ UNCHANGED <<timeVars, syscall_count>>

(* exit() gives the children to init; etime = ticks, without tickslock.    *)
Exit(p) ==
    /\ p # 1 /\ Move(p, "running", "zombie")
    /\ parent' = [q \in Table |-> IF parent[q] = p THEN 1 ELSE parent[q]]
    /\ etime' = [etime EXCEPT ![p] = clock]
    /\ UNCHANGED <<rtime, clock, update, countVars>>

(* waitx() and wait() of a zombie, with freeproc().                        *)
Wait(p) == \E q \in Children(p) :
    /\ state[p] = "running" /\ Move(q, "zombie", "unused")
    /\ parent' = [parent EXCEPT ![q] = 0]
    /\ made' = [made EXCEPT ![p] = @ + made[q], ![q] = 0]
    /\ UNCHANGED <<timeVars, syscall_count>>

Next ==
    \/ ClockIntr \/ UpdateTime
    \/ \E p \in Table : Schedule(p) \/ Yield(p) \/ Syscall(p) \/ Fork(p) \/ Exit(p) \/ Wait(p)

Spec == Init /\ [][Next]_vars

-----------------------------------------------------------------------------
(* What waitx() stores for a zombie as the time spent waiting.             *)
Wtime(q) == etime[q] - rtime[q]

(* getSysCount() with count_syscalls_from_children().                      *)
RECURSIVE GetSysCount(_)
GetSysCount(p) == syscall_count[p] + MapThenSumSet(GetSysCount, Children(p))

RECURSIVE MadeByFamily(_)
MadeByFamily(p) == made[p] + MapThenSumSet(MadeByFamily, Children(p))

Parent(p) == IF p = 0 THEN 0 ELSE parent[p]
RECURSIVE Ancestor(_, _)
Ancestor(p, n) == IF n = 0 THEN p ELSE Ancestor(Parent(p), n - 1)

(* The unsigned difference that waitx() stores as the time spent waiting   *)
(* does not go below 0, although exit() reads ticks while the clock counts *)
(* and rtime is left over from the slot's former processes.                *)
WaitNotNegative == \A q \in Table : state[q] = "zombie" => Wtime(q) >= 0

(* The recursion over the children, which takes no lock, comes to an end:  *)
(* nobody is among his own ancestors.                                      *)
FamilyIsTree == \A p \in Table : Ancestor(p, NPROC) = 0

AccountingInv == WaitNotNegative /\ FamilyIsTree

(* getSysCount() counts the calls of the caller and its children, as       *)
(* REPORT.md says.                                                         *)
CountsFamily == \A p \in Running : GetSysCount(p) = MadeByFamily(p)

=============================================================================
