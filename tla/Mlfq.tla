-------------------------------- MODULE Mlfq --------------------------------
(* The multi-level feedback queue of scheduler() (#ifdef MLFQ in           *)
(* kernel/proc.c) together with the code that spends and refills time      *)
(* slices: usertrap(), kerneltrap(), yield() and sleep().                  *)
(*                                                                         *)
(* The scheduler's loop is taken apart where it lets go of the locks: the  *)
(* test of ticks, the boost, the search of each queue, the dispatch of the *)
(* process found.  The search of one queue, and the boost of all slots,    *)
(* are one step each.  In usertrap() the unlocked p->time_slice-- is a     *)
(* load and a store.  A process that leaves its CPU keeps p->lock until    *)
(* the scheduler has settled its slice.                                    *)
(*                                                                         *)
(* ticks is kept modulo BoostPeriod (48), its only use here; the wrap of   *)
(* the 32-bit counter is left out.  CPUs are assumed to take interrupts    *)
(* while they search (module SchedIntr is about when they do not).         *)
EXTENDS Integers, FiniteSets

CONSTANTS
    Procs,        \* slots of proc[], in table order
    Cpus,
    ClockCpu,     \* hart 0, the one that counts ticks
    Nobody,       \* a null to_run
    BoostPeriod,  \* the 48 of "ticks % 48 == 0"
    Hogs          \* processes that only compute: no system call, no exit

MlfqAssumption ==
    /\ Procs \subseteq Nat /\ IsFiniteSet(Procs)
    /\ ClockCpu \in Cpus
    /\ Nobody \notin Procs
    /\ BoostPeriod \in Nat \ {0}
    /\ Hogs \subseteq Procs

LowestQueue == 3
Queues == 0..LowestQueue
FullSlice(q) == <<1, 2, 4, 8>>[q + 1]        \* 1 << priority

VARIABLES
    st,           \* p->state
    priority,     \* p->priority
    time_slice,   \* p->time_slice
    thread,       \* where p's thread is
    loaded,       \* the value of time_slice usertrap() read
    at,           \* where a CPU is in scheduler()
    to_run,       \* the scheduler's local to_run
    queue,        \* the scheduler's loop counter i
    ticks         \* modulo BoostPeriod

procVars == <<st, priority, time_slice, thread, loaded>>
cpuVars == <<at, to_run, queue>>
vars == <<st, priority, time_slice, thread, loaded, at, to_run, queue, ticks>>

Threads == {"user",    \* in user space
            "kernel",  \* in a system call
            "dec",     \* usertrap(): time_slice read, not yet written
            "expired", \* usertrap(): time_slice is 0, about to yield()
            "rest"}    \* usertrap(): the rest, up to the last yield()

(* "top": head of the inner loop; "boost", "search", "found": as the code; *)
(* "run": on the stack of to_run; "back": returned from swtch().           *)
Places == {"top", "boost", "search", "found", "run", "back"}

Init ==
    /\ st \in [Procs -> {"UNUSED", "RUNNABLE"}]
    /\ priority = [p \in Procs |-> 0]
    /\ time_slice = [p \in Procs |-> 1]
    /\ thread = [p \in Procs |-> "user"]
    /\ loaded = [p \in Procs |-> 0]
    /\ at = [c \in Cpus |-> "top"]
    /\ to_run = [c \in Cpus |-> Nobody]
    /\ queue = [c \in Cpus |-> 0]
    /\ ticks = 0

LockFree(p) == \A c \in Cpus : ~(at[c] = "back" /\ to_run[c] = p)

Go(c, place) == at' = [at EXCEPT ![c] = place]

-----------------------------------------------------------------------------
(* scheduler()                                                             *)

(* Mutant: the boost is left out.                                          *)
TestTicksNoBoost(c) ==
    /\ at[c] = "top"
    /\ Go(c, "search")
    /\ queue' = [queue EXCEPT ![c] = 0]
    /\ UNCHANGED <<procVars, to_run, ticks>>

TestTicks(c) ==
    /\ at[c] = "top"
    /\ Go(c, IF ticks = 0 THEN "boost" ELSE "search")
    /\ queue' = [queue EXCEPT ![c] = 0]
    /\ UNCHANGED <<procVars, to_run, ticks>>

Boosted == {p \in Procs : st[p] \in {"RUNNABLE", "RUNNING"}}

Boost(c) ==
    /\ at[c] = "boost"
    /\ \A p \in Procs : LockFree(p)
    /\ priority' = [p \in Procs |-> IF p \in Boosted THEN 0 ELSE priority[p]]
    /\ time_slice' = [p \in Procs |-> IF p \in Boosted THEN 1 ELSE time_slice[p]]
    /\ Go(c, "search")
    /\ UNCHANGED <<st, thread, loaded, to_run, queue, ticks>>

Ready(q) == {p \in Procs : st[p] = "RUNNABLE" /\ priority[p] = q}

(* The first RUNNABLE slot of queue i; after queue 3 the loop starts over. *)
Found(c) ==
    /\ at[c] = "search"
    /\ \E p \in Ready(queue[c]) :
          /\ \A r \in Ready(queue[c]) : p <= r
          /\ LockFree(p)
          /\ to_run' = [to_run EXCEPT ![c] = p]
    /\ Go(c, "found")
    /\ UNCHANGED <<procVars, queue, ticks>>

NextQueue(c) ==
    /\ at[c] = "search" /\ Ready(queue[c]) = {}
    /\ Go(c, IF queue[c] = LowestQueue THEN "top" ELSE "search")
    /\ queue' = [queue EXCEPT ![c] = IF @ = LowestQueue THEN 0 ELSE @ + 1]
    /\ UNCHANGED <<procVars, to_run, ticks>>

(* to_run's state is tested again under its lock; its queue is not.        *)
Dispatch(c) ==
    /\ at[c] = "found" /\ LockFree(to_run[c])
    /\ IF st[to_run[c]] = "RUNNABLE"
         THEN /\ st' = [st EXCEPT ![to_run[c]] = "RUNNING"]
              /\ Go(c, "run")
              /\ UNCHANGED to_run
         ELSE /\ Go(c, "top")
              /\ to_run' = [to_run EXCEPT ![c] = Nobody]
              /\ UNCHANGED st
    /\ UNCHANGED <<priority, time_slice, thread, loaded, queue, ticks>>

(* Mutant: the slice is left to reach 0 first.                             *)
SpentLate(p) == time_slice[p] = 0

(* --time_slice == 0 *)
Spent(p) == time_slice[p] = 1

NextQueueDown(p) ==
    IF priority[p] < LowestQueue THEN priority[p] + 1 ELSE priority[p]

(* Mutant: the slice is that of the queue the process came from.           *)
SettleOldSlice(c) ==
    LET p == to_run[c]
        q == IF Spent(p) THEN NextQueueDown(p) ELSE priority[p]
    IN  /\ at[c] = "back"
        /\ priority' = [priority EXCEPT ![p] = q]
        /\ time_slice' = [time_slice EXCEPT ![p] =
                             IF Spent(p) THEN FullSlice(priority[p]) ELSE @ - 1]
        /\ to_run' = [to_run EXCEPT ![c] = Nobody]
        /\ Go(c, "top")
        /\ UNCHANGED <<st, thread, loaded, queue, ticks>>

(* Back from swtch(): spend a tick, demote when the slice is used up.      *)
Settle(c) ==
    LET p == to_run[c]
        spent == Spent(p)
        q == IF spent THEN NextQueueDown(p) ELSE priority[p]
    IN  /\ at[c] = "back"
        /\ priority' = [priority EXCEPT ![p] = q]
        /\ time_slice' = [time_slice EXCEPT ![p] = IF spent THEN FullSlice(q)
                                                            ELSE @ - 1]
        /\ to_run' = [to_run EXCEPT ![c] = Nobody]
        /\ Go(c, "top")
        /\ UNCHANGED <<st, thread, loaded, queue, ticks>>

-----------------------------------------------------------------------------
(* The process on its CPU.                                                 *)

On(c, p, t) == at[c] = "run" /\ to_run[c] = p /\ thread[p] = t

(* yield(): RUNNABLE with a full slice, then sched().                      *)
YieldFrom(c, p) ==
    /\ st' = [st EXCEPT ![p] = "RUNNABLE"]
    /\ time_slice' = [time_slice EXCEPT ![p] = FullSlice(priority[p])]
    /\ Go(c, "back")

(* clockintr(), on hart 0 only.                                            *)
CountTick(c) == ticks' = IF c = ClockCpu THEN (ticks + 1) % BoostPeriod
                                         ELSE ticks

(* usertrap(): a timer interrupt; p->time_slice is read ...                *)
TimerInUser(c, p) ==
    /\ On(c, p, "user")
    /\ CountTick(c)
    /\ loaded' = [loaded EXCEPT ![p] = time_slice[p]]
    /\ thread' = [thread EXCEPT ![p] = "dec"]
    /\ UNCHANGED <<st, priority, time_slice, cpuVars>>

(* ... and written back, one less, without p->lock.                        *)
SpendTick(c, p) ==
    /\ On(c, p, "dec")
    /\ time_slice' = [time_slice EXCEPT ![p] = loaded[p] - 1]
    /\ loaded' = [loaded EXCEPT ![p] = 0]
    /\ thread' = [thread EXCEPT ![p] = IF loaded[p] = 1 THEN "expired"
                                                        ELSE "rest"]
    /\ UNCHANGED <<st, priority, cpuVars, ticks>>

YieldExpired(c, p) ==
    /\ On(c, p, "expired")
    /\ YieldFrom(c, p)
    /\ thread' = [thread EXCEPT ![p] = "rest"]
    /\ UNCHANGED <<priority, loaded, to_run, queue, ticks>>

(* The yield() that ends every timer interrupt from user space.            *)
YieldAtEnd(c, p) ==
    /\ On(c, p, "rest")
    /\ YieldFrom(c, p)
    /\ thread' = [thread EXCEPT ![p] = "user"]
    /\ UNCHANGED <<priority, loaded, to_run, queue, ticks>>

(* kerneltrap(): a timer interrupt in a system call yields, unaccounted.   *)
TimerInKernel(c, p) ==
    /\ On(c, p, "kernel")
    /\ CountTick(c)
    /\ YieldFrom(c, p)
    /\ UNCHANGED <<priority, thread, loaded, to_run, queue>>

Syscall(c, p) ==
    /\ p \notin Hogs
    /\ \/ On(c, p, "user") /\ thread' = [thread EXCEPT ![p] = "kernel"]
       \/ On(c, p, "kernel") /\ thread' = [thread EXCEPT ![p] = "user"]
    /\ UNCHANGED <<st, priority, time_slice, loaded, cpuVars, ticks>>

(* sleep() leaves the slice as it is; so does exit().                      *)
Block(c, p) ==
    /\ On(c, p, "kernel")
    /\ \E s \in {"SLEEPING", "ZOMBIE"} : st' = [st EXCEPT ![p] = s]
    /\ Go(c, "back")
    /\ UNCHANGED <<priority, time_slice, thread, loaded, to_run, queue, ticks>>

-----------------------------------------------------------------------------
(* Elsewhere: wakeup(), wait() of the parent, fork() into the slot, a      *)
(* timer interrupt on an idle hart 0.  A pass of the scheduler's loop is   *)
(* short beside a tick, so hart 0 only counts ticks in it when it finds no *)
(* process to run.                                                         *)

Wakeup(p) ==
    /\ st[p] = "SLEEPING" /\ LockFree(p)
    /\ st' = [st EXCEPT ![p] = "RUNNABLE"]
    /\ UNCHANGED <<priority, time_slice, thread, loaded, cpuVars, ticks>>

Reap(p) ==
    /\ st[p] = "ZOMBIE" /\ LockFree(p)
    /\ st' = [st EXCEPT ![p] = "UNUSED"]
    /\ UNCHANGED <<priority, time_slice, thread, loaded, cpuVars, ticks>>

(* allocproc(): queue 0 and a slice of 1.                                  *)
Born(p) ==
    /\ st[p] = "UNUSED" /\ LockFree(p)
    /\ st' = [st EXCEPT ![p] = "RUNNABLE"]
    /\ priority' = [priority EXCEPT ![p] = 0]
    /\ time_slice' = [time_slice EXCEPT ![p] = 1]
    /\ thread' = [thread EXCEPT ![p] = "user"]
    /\ UNCHANGED <<loaded, cpuVars, ticks>>

IdleTick ==
    /\ at[ClockCpu] \notin {"run", "back"}
    /\ \A p \in Procs : st[p] # "RUNNABLE"
    /\ CountTick(ClockCpu)
    /\ UNCHANGED <<procVars, cpuVars>>

Schedule(c) ==
    \/ TestTicks(c) \/ Boost(c) \/ Found(c) \/ NextQueue(c)
    \/ Dispatch(c) \/ Settle(c)

Timer(c, p) == TimerInUser(c, p) \/ TimerInKernel(c, p)
Trap(c, p) == SpendTick(c, p) \/ YieldExpired(c, p) \/ YieldAtEnd(c, p)

Next ==
    \/ \E c \in Cpus : Schedule(c)
    \/ \E c \in Cpus, p \in Procs :
          Timer(c, p) \/ Trap(c, p) \/ Syscall(c, p) \/ Block(c, p)
    \/ \E p \in Procs : Wakeup(p) \/ Reap(p) \/ Born(p)
    \/ IdleTick

Spec == Init /\ [][Next]_vars

(* Every CPU executes its scheduler and its traps, and the timer of a CPU  *)
(* that runs a process fires.                                              *)
Fairness ==
    \A c \in Cpus :
        /\ WF_vars(Schedule(c) \/ \E p \in Procs : Trap(c, p))
        /\ SF_vars(\E p \in Procs : Timer(c, p))

FairSpec == Spec /\ Fairness

-----------------------------------------------------------------------------
(* Values stay in the ranges the declarations intend.                      *)
TypeOK ==
    /\ st \in [Procs -> {"UNUSED", "SLEEPING", "RUNNABLE", "RUNNING", "ZOMBIE"}]
    /\ priority \in [Procs -> Queues]
    /\ time_slice \in [Procs -> 0..FullSlice(LowestQueue)]
    /\ thread \in [Procs -> Threads]
    /\ loaded \in [Procs -> 0..FullSlice(LowestQueue)]
    /\ at \in [Cpus -> Places]
    /\ to_run \in [Cpus -> Procs \cup {Nobody}]
    /\ queue \in [Cpus -> Queues]
    /\ ticks \in 0..(BoostPeriod - 1)

(* A process is on one CPU at most, and the one that runs it knows.        *)
CpuInv ==
    /\ \A c \in Cpus :
          /\ at[c] \in {"found", "run", "back"} => to_run[c] \in Procs
          /\ at[c] = "run" => st[to_run[c]] = "RUNNING"
          /\ at[c] = "back" => st[to_run[c]] # "RUNNING"
    /\ \A c, d \in Cpus :
          /\ at[c] \in {"run", "back"} /\ at[d] \in {"run", "back"}
          /\ to_run[c] = to_run[d]
          => c = d
    /\ \A p \in Procs : st[p] = "RUNNING" =>
          \E c \in Cpus : at[c] = "run" /\ to_run[c] = p

(* usertrap() counts down from at least 1, and a slice is 0 only on the    *)
(* way from there to yield().                                              *)
SpentInv ==
    \A p \in Procs :
        /\ thread[p] \in {"dec", "expired"} => st[p] = "RUNNING"
        /\ thread[p] = "dec" => loaded[p] >= 1
        /\ thread[p] # "expired" => time_slice[p] >= 1

(* A process that waits for the CPU or for an event has some slice left:   *)
(* the tests "time_slice == 0" of usertrap() and scheduler() would never   *)
(* see a slice that had passed below zero, whatever boost and the two      *)
(* decrements did to it on several CPUs.                                   *)
SliceLeft ==
    \A p \in Procs :
        st[p] \in {"RUNNABLE", "SLEEPING"} /\ LockFree(p) => time_slice[p] >= 1

(* time_slice is the "remaining time slice for current priority" (proc.h): *)
(* never more than the priority allows, but for a running process in the   *)
(* rest of its timer trap: a boost on another CPU may come between the     *)
(* load and the store of the decrement, and the yield() that ends the trap *)
(* puts it right.                                                          *)
SliceFitsQueue ==
    \A p \in Procs :
        st[p] # "UNUSED" /\ ~(st[p] = "RUNNING" /\ thread[p] = "rest")
            => time_slice[p] <= FullSlice(priority[p])

(* A process changes queue only one down, or up to queue 0; and what it    *)
(* gets there is the full slice of the new queue.                          *)
QueueMoves ==
    [][\A p \in Procs :
          priority'[p] # priority[p] =>
              /\ priority'[p] \in {0, priority[p] + 1}
              /\ time_slice'[p] = FullSlice(priority'[p])]_vars

(* The boost prevents starvation as long as no more processes compete for  *)
(* the CPU than there are ticks between two boosts: a RUNNABLE process gets *)
(* it.  A boosted process has one tick before it goes down, the first slot *)
(* goes first, and with more of them the last slots never have their turn  *)
(* (the code has 48 ticks and 64 slots).                                   *)
Competing == {p \in Procs : st[p] \in {"RUNNABLE", "RUNNING"}}
NoStarvation ==
    <>[](Cardinality(Competing) <= BoostPeriod)
        => \A p \in Procs : st[p] = "RUNNABLE" ~> st[p] = "RUNNING"

(* A process that only computes uses up its slices and sinks to the lowest *)
(* queue, as REPORT.md says of processes that use their entire time slice. *)
HogsSink == \A p \in Hogs : <>(priority[p] = LowestQueue)

=============================================================================
