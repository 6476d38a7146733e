-------------------------------- MODULE Proc --------------------------------
(***************************************************************************)
(* The process table of the kernel (kernel/proc.c): allocation of slots,   *)
(* fork, exit, wait, kill, sleep and wakeup, and the hand-over of a CPU    *)
(* between the scheduler's stack and a process's kernel stack through      *)
(* swtch, with every lock that protects them.                              *)
(*                                                                         *)
(* Grain.  A step is a stretch of kernel code that runs under locks it     *)
(* takes itself, or from one acquire/release of a lock that outlives the   *)
(* step to the next.  acquire() is a guard: a CPU that spins makes no step.*)
(* Loops over the table that take one p->lock at a time (wakeup, kill, the *)
(* scan of wait) are one step, guarded by the locks of the slots they      *)
(* change; the loops of exit and wait run under wait_lock, the one of      *)
(* clockintr under tickslock, and no process goes to sleep on their        *)
(* channels without those locks.                                           *)
(*                                                                         *)
(* Left out: the data that hangs from a process (page table, trapframe,    *)
(* files, name, xstate, tickets, counters); the sleeps of exit() on the    *)
(* disk while it closes files; the policy that chooses the next process    *)
(* (all three schedulers only run RUNNABLE processes under their lock).    *)
(***************************************************************************)
EXTENDS Integers, FiniteSets

CONSTANTS
    Slots,      \* the entries of proc[NPROC]
    Cpus,       \* the harts
    ClockCpu,   \* hart 0, which runs clockintr()
    initproc,   \* the slot of the first process
    NoProc,     \* a null struct proc *
    NoCpu,      \* "lock is free"
    NoChan,     \* a null sleep channel
    Ticks,      \* the channel &ticks
    KillPids,   \* the arguments user programs give to kill()
    MaxPid,     \* bound: allocpid() is not called beyond it
    SleepArgs   \* the arguments user programs give to sleep()

ASSUME ProcAssumption ==
    /\ initproc \in Slots
    /\ ClockCpu \in Cpus
    /\ NoProc \notin Slots
    /\ NoCpu \notin Cpus
    /\ NoChan \notin Slots
    /\ Ticks \notin Slots
    /\ NoChan # Ticks
    /\ KillPids \subseteq Nat
    /\ MaxPid \in Nat
    /\ SleepArgs \subseteq Nat

VARIABLES
    state,      \* p->state
    pid,        \* p->pid
    parent,     \* p->parent
    chan,       \* p->chan
    killed,     \* p->killed
    pc,         \* where the process's kernel thread is
    np,         \* fork()'s local np
    left,       \* sys_sleep(): ticks still to pass, n - (ticks - ticks0)
    plock,      \* the CPU that holds p->lock
    cproc,      \* c->proc
    ctx,        \* the stack a CPU runs on: the scheduler's or c->proc's
    wait_lock,  \* the process that holds it
    tickslock,  \* the process that holds it
    nextpid

procVars == <<state, pid, parent, chan, killed>>
cpuVars  == <<cproc, ctx>>
spinVars == <<wait_lock, tickslock>>
vars == <<state, pid, parent, chan, killed, pc, np, left, plock, cproc, ctx,
          wait_lock, tickslock, nextpid>>

ProcStates == {"UNUSED", "USED", "SLEEPING", "RUNNABLE", "RUNNING", "ZOMBIE"}

(* The points of the kernel thread at which a step may begin: of no        *)
(* process; new; in user space; in fork(), exit(), wait(), sys_sleep().    *)
ForkPCs == {"f_copy", "f_parent", "f_runnable"}
ExitPCs == {"x_lock", "x_reparent", "x_wake", "x_zombie", "x_done"}
WaitPCs == {"w_lock", "w_scan", "w_check", "w_sleep", "w_slept"}
TickPCs == {"t_begin", "t_lock", "t_check", "t_sleep", "t_slept"}
PCs == {"none", "forkret", "user"} \cup ForkPCs \cup ExitPCs \cup WaitPCs
          \cup TickPCs

(* The points at which the thread holds wait_lock or tickslock.            *)
HoldsWait == {"x_reparent", "x_wake", "x_zombie", "w_scan", "w_check",
              "w_sleep"}
HoldsTicks == {"t_check", "t_sleep"}

(* The points at which it holds no spinlock, so that interrupts are on.    *)
Preemptible == {"user", "f_parent", "f_runnable", "x_lock", "w_lock",
                "t_begin", "t_lock"}

-----------------------------------------------------------------------------
Init ==
    /\ state  = [s \in Slots |-> IF s = initproc THEN "RUNNABLE" ELSE "UNUSED"]
    /\ pid    = [s \in Slots |-> IF s = initproc THEN 1 ELSE 0]
    /\ parent = [s \in Slots |-> NoProc]
    /\ chan   = [s \in Slots |-> NoChan]
    /\ killed = [s \in Slots |-> FALSE]
    /\ pc     = [s \in Slots |-> IF s = initproc THEN "forkret" ELSE "none"]
    /\ np     = [s \in Slots |-> NoProc]
    /\ left   = [s \in Slots |-> 0]
    /\ plock  = [s \in Slots |-> NoCpu]
    /\ cproc  = [c \in Cpus |-> NoProc]
    /\ ctx    = [c \in Cpus |-> "sched"]
    /\ wait_lock = NoProc
    /\ tickslock = NoProc
    /\ nextpid = 2

Children(s) == {q \in Slots : parent[q] = s}
Zombies == {q \in Slots : state[q] = "ZOMBIE"}

Running(c, s) == ctx[c] = "proc" /\ cproc[c] = s

(* CPU c executes the kernel or user code of process s at one of the       *)
(* points at.                                                              *)
Exec(c, s, at) == Running(c, s) /\ plock[s] # c /\ pc[s] \in at

Goto(s, to) == pc' = [pc EXCEPT ![s] = to]

-----------------------------------------------------------------------------
(* The scheduler and swtch().                                              *)

(* scheduler(): take p->lock, make p RUNNING and switch to its stack.      *)
Pick(c, s) ==
    /\ ctx[c] = "sched" /\ cproc[c] = NoProc
    /\ state[s] = "RUNNABLE" /\ plock[s] = NoCpu
    /\ state' = [state EXCEPT ![s] = "RUNNING"]
    /\ plock' = [plock EXCEPT ![s] = c]
    /\ cproc' = [cproc EXCEPT ![c] = s]
    /\ ctx'   = [ctx EXCEPT ![c] = "proc"]
    /\ UNCHANGED <<pid, parent, chan, killed, pc, np, left, spinVars, nextpid>>

(* The thread continues after its swtch() by releasing the lock that the   *)
(* scheduler handed over.                                                  *)
Release(c, s) ==
    /\ Running(c, s) /\ plock[s] = c
    /\ plock' = [plock EXCEPT ![s] = NoCpu]
    /\ UNCHANGED <<state, pid, parent, killed, np, left, cpuVars, spinVars,
                   nextpid>>

(* forkret(): a new process enters user space.                             *)
ForkRet(c, s) ==
    /\ pc[s] = "forkret" /\ Release(c, s)
    /\ Goto(s, "user")
    /\ UNCHANGED chan

(* The end of yield().                                                     *)
YieldReturn(c, s) ==
    /\ pc[s] \in Preemptible /\ Release(c, s)
    /\ UNCHANGED <<pc, chan>>

(* The end of sleep(); its caller's lock is taken by the next step.        *)
SleepReturn(c, s) ==
    /\ pc[s] \in {"w_slept", "t_slept"} /\ Release(c, s)
    /\ chan' = [chan EXCEPT ![s] = NoChan]
    /\ Goto(s, IF pc[s] = "w_slept" THEN "w_lock" ELSE "t_lock")

Resume(c, s) == ForkRet(c, s) \/ YieldReturn(c, s) \/ SleepReturn(c, s)

(* scheduler(), back from swtch(): c->proc = 0, release p->lock.           *)
SchedReturn(c) ==
    /\ ctx[c] = "sched" /\ cproc[c] # NoProc
    /\ plock' = [plock EXCEPT ![cproc[c]] = NoCpu]
    /\ cproc' = [cproc EXCEPT ![c] = NoProc]
    /\ UNCHANGED <<procVars, pc, np, left, ctx, spinVars, nextpid>>

(* Mutant: p->lock is not held across swtch().                             *)
SwitchAwayUnlocked(c, s, st) ==
    /\ plock[s] = NoCpu
    /\ state' = [state EXCEPT ![s] = st]
    /\ ctx' = [ctx EXCEPT ![c] = "sched"]
    /\ UNCHANGED plock

(* What a thread does to leave its CPU: own lock taken, new state, swtch() *)
(* to the scheduler with the lock still held.                              *)
SwitchAway(c, s, st) ==
    /\ plock[s] = NoCpu
    /\ plock' = [plock EXCEPT ![s] = c]
    /\ state' = [state EXCEPT ![s] = st]
    /\ ctx' = [ctx EXCEPT ![c] = "sched"]

(* yield(), from a timer interrupt in user or kernel code.  A killed       *)
(* process exits at that interrupt instead, if it came from user space.    *)
Yield(c, s) ==
    /\ Exec(c, s, Preemptible)
    /\ pc[s] = "user" => ~killed[s]
    /\ SwitchAway(c, s, "RUNNABLE")
    /\ UNCHANGED <<pid, parent, chan, killed, pc, np, left, cproc, spinVars,
                   nextpid>>

(* usertrap(): exit(-1) when the process was killed; init never exits.     *)
TrapKilled(c, s) ==
    /\ Exec(c, s, {"user"}) /\ killed[s] /\ s # initproc
    /\ Goto(s, "x_lock")
    /\ UNCHANGED <<procVars, np, left, plock, cpuVars, spinVars, nextpid>>

(* A system call gets past the first killed() test of usertrap().          *)
Syscall(c, s) == Exec(c, s, {"user"}) /\ ~killed[s]

-----------------------------------------------------------------------------
(* Allocation and release of slots, fork().                                *)

(* allocpid().  Mutant: nextpid stays.                                     *)
AllocpidStuck == UNCHANGED nextpid

Allocpid == nextpid' = nextpid + 1

(* Mutants of freeproc(): a field is not cleared.                          *)
FreeprocKeepsKilled(q) ==
    /\ state'  = [state EXCEPT ![q] = "UNUSED"]
    /\ pid'    = [pid EXCEPT ![q] = 0]
    /\ parent' = [parent EXCEPT ![q] = NoProc]
    /\ chan'   = [chan EXCEPT ![q] = NoChan]
    /\ UNCHANGED killed

FreeprocKeepsParent(q) ==
    /\ state'  = [state EXCEPT ![q] = "UNUSED"]
    /\ pid'    = [pid EXCEPT ![q] = 0]
    /\ chan'   = [chan EXCEPT ![q] = NoChan]
    /\ killed' = [killed EXCEPT ![q] = FALSE]
    /\ UNCHANGED parent

(* freeproc(q); the caller's step sets pc.  Its caller holds q's lock.     *)
Freeproc(q) ==
    /\ state'  = [state EXCEPT ![q] = "UNUSED"]
    /\ pid'    = [pid EXCEPT ![q] = 0]
    /\ parent' = [parent EXCEPT ![q] = NoProc]
    /\ chan'   = [chan EXCEPT ![q] = NoChan]
    /\ killed' = [killed EXCEPT ![q] = FALSE]

(* fork() and allocproc(): slot n is claimed and stays locked.  allocproc  *)
(* does not touch parent, chan and killed.  When there is no UNUSED slot   *)
(* fork() returns -1 and nothing has changed.                              *)
ForkAlloc(c, s, n) ==
    /\ Syscall(c, s)
    /\ state[n] = "UNUSED" /\ plock[n] = NoCpu
    /\ nextpid < MaxPid
    /\ Allocpid
    /\ pid'   = [pid EXCEPT ![n] = nextpid]
    /\ state' = [state EXCEPT ![n] = "USED"]
    /\ plock' = [plock EXCEPT ![n] = c]
    /\ np' = [np EXCEPT ![s] = n]
    /\ pc' = [pc EXCEPT ![s] = "f_copy", ![n] = "forkret"]
    /\ UNCHANGED <<parent, chan, killed, left, cpuVars, spinVars>>

(* allocproc() finds a slot but kalloc() fails: a pid is consumed and the  *)
(* slot is handed back.                                                    *)
ForkAllocFails(c, s, n) ==
    /\ Syscall(c, s)
    /\ state[n] = "UNUSED" /\ plock[n] = NoCpu
    /\ nextpid < MaxPid
    /\ Allocpid
    /\ Freeproc(n)
    /\ UNCHANGED <<pc, np, left, plock, cpuVars, spinVars>>

(* fork(): memory and files copied, release(&np->lock).                    *)
ForkCopied(c, s) ==
    /\ Exec(c, s, {"f_copy"})
    /\ plock' = [plock EXCEPT ![np[s]] = NoCpu]
    /\ Goto(s, "f_parent")
    /\ UNCHANGED <<procVars, np, left, cpuVars, spinVars, nextpid>>

(* fork(): uvmcopy() fails.                                                *)
ForkCopyFails(c, s) ==
    /\ Exec(c, s, {"f_copy"})
    /\ Freeproc(np[s])
    /\ plock' = [plock EXCEPT ![np[s]] = NoCpu]
    /\ pc' = [pc EXCEPT ![np[s]] = "none", ![s] = "user"]
    /\ np' = [np EXCEPT ![s] = NoProc]
    /\ UNCHANGED <<left, cpuVars, spinVars, nextpid>>

ForkParent(c, s) ==
    /\ Exec(c, s, {"f_parent"}) /\ wait_lock = NoProc
    /\ parent' = [parent EXCEPT ![np[s]] = s]
    /\ Goto(s, "f_runnable")
    /\ UNCHANGED <<state, pid, chan, killed, np, left, plock, cpuVars,
                   spinVars, nextpid>>

ForkRunnable(c, s) ==
    /\ Exec(c, s, {"f_runnable"}) /\ plock[np[s]] = NoCpu
    /\ state' = [state EXCEPT ![np[s]] = "RUNNABLE"]
    /\ Goto(s, "user")
    /\ np' = [np EXCEPT ![s] = NoProc]
    /\ UNCHANGED <<pid, parent, chan, killed, left, plock, cpuVars, spinVars,
                   nextpid>>

(* Mutant: the victim is left asleep.                                      *)
KillSilently(c, s, p, k) ==
    /\ Syscall(c, s)
    /\ pid[p] = k /\ plock[p] = NoCpu
    /\ killed' = [killed EXCEPT ![p] = TRUE]
    /\ UNCHANGED <<state, pid, parent, chan, pc, np, left, plock, cpuVars,
                   spinVars, nextpid>>

(* kill(k): the first slot with that pid.                                  *)
Kill(c, s, p, k) ==
    /\ Syscall(c, s)
    /\ pid[p] = k /\ plock[p] = NoCpu
    /\ killed' = [killed EXCEPT ![p] = TRUE]
    /\ state' = IF state[p] = "SLEEPING"
                  THEN [state EXCEPT ![p] = "RUNNABLE"] ELSE state
    /\ UNCHANGED <<pid, parent, chan, pc, np, left, plock, cpuVars, spinVars,
                   nextpid>>

-----------------------------------------------------------------------------
(* wakeup(), exit().                                                       *)

(* wakeup(ch): needs the lock of every sleeper on ch, makes it RUNNABLE.   *)
CanWake(ch) == \A p \in Slots :
                  state[p] = "SLEEPING" /\ chan[p] = ch => plock[p] = NoCpu
Woken(ch) == [p \in Slots |-> IF state[p] = "SLEEPING" /\ chan[p] = ch
                                THEN "RUNNABLE" ELSE state[p]]

(* exit(), up to acquire(&wait_lock): called by the process, or for a      *)
(* fault in user space.  init panics if it gets here.                      *)
ExitCall(c, s) ==
    /\ Syscall(c, s) /\ s # initproc
    /\ Goto(s, "x_lock")
    /\ UNCHANGED <<procVars, np, left, plock, cpuVars, spinVars, nextpid>>

(* Mutant: reparent() is left out.                                         *)
ExitLockNoReparent(c, s) ==
    /\ Exec(c, s, {"x_lock"}) /\ wait_lock = NoProc
    /\ wait_lock' = s
    /\ Goto(s, "x_wake")
    /\ UNCHANGED <<procVars, np, left, plock, cpuVars, tickslock, nextpid>>

ExitLock(c, s) ==
    /\ Exec(c, s, {"x_lock"}) /\ wait_lock = NoProc
    /\ wait_lock' = s
    /\ Goto(s, "x_reparent")
    /\ UNCHANGED <<procVars, np, left, plock, cpuVars, tickslock, nextpid>>

(* reparent(p): children go to init, which is woken if there was one.      *)
ExitReparent(c, s) ==
    /\ Exec(c, s, {"x_reparent"})
    /\ Children(s) # {} => CanWake(initproc)
    /\ parent' = [q \in Slots |-> IF parent[q] = s THEN initproc
                                                   ELSE parent[q]]
    /\ state' = IF Children(s) # {} THEN Woken(initproc) ELSE state
    /\ Goto(s, "x_wake")
    /\ UNCHANGED <<pid, chan, killed, np, left, plock, cpuVars, spinVars,
                   nextpid>>

(* Mutant: the parent is not woken.                                        *)
ExitWakeupLost(c, s) ==
    /\ Exec(c, s, {"x_wake"})
    /\ Goto(s, "x_zombie")
    /\ UNCHANGED <<procVars, np, left, plock, cpuVars, spinVars, nextpid>>

ExitWakeup(c, s) ==
    /\ Exec(c, s, {"x_wake"})
    /\ CanWake(parent[s])
    /\ state' = Woken(parent[s])
    /\ Goto(s, "x_zombie")
    /\ UNCHANGED <<pid, parent, chan, killed, np, left, plock, cpuVars,
                   spinVars, nextpid>>

(* Own lock taken, ZOMBIE, wait_lock released, sched() never to return.    *)
ExitZombie(c, s) ==
    /\ Exec(c, s, {"x_zombie"})
    /\ SwitchAway(c, s, "ZOMBIE")
    /\ wait_lock' = NoProc
    /\ Goto(s, "x_done")
    /\ UNCHANGED <<pid, parent, chan, killed, np, left, cproc, tickslock,
                   nextpid>>

-----------------------------------------------------------------------------
(* wait().                                                                 *)

WaitCall(c, s) ==
    /\ Syscall(c, s)
    /\ Goto(s, "w_lock")
    /\ UNCHANGED <<procVars, np, left, plock, cpuVars, spinVars, nextpid>>

WaitLock(c, s) ==
    /\ Exec(c, s, {"w_lock"}) /\ wait_lock = NoProc
    /\ wait_lock' = s
    /\ Goto(s, "w_scan")
    /\ UNCHANGED <<procVars, np, left, plock, cpuVars, tickslock, nextpid>>

(* Mutant: a child is reaped without a look at its state.                  *)
WaitReapAlive(c, s, q) ==
    /\ Exec(c, s, {"w_scan"})
    /\ parent[q] = s /\ plock[q] = NoCpu
    /\ Freeproc(q)
    /\ pc' = [pc EXCEPT ![q] = "none", ![s] = "user"]
    /\ wait_lock' = NoProc
    /\ UNCHANGED <<np, left, plock, cpuVars, tickslock, nextpid>>

(* A ZOMBIE child is reaped once its lock is free: it has left its stack.  *)
WaitReap(c, s, q) ==
    /\ Exec(c, s, {"w_scan"})
    /\ parent[q] = s /\ state[q] = "ZOMBIE" /\ plock[q] = NoCpu
    /\ Freeproc(q)
    /\ pc' = [pc EXCEPT ![q] = "none", ![s] = "user"]
    /\ wait_lock' = NoProc
    /\ UNCHANGED <<np, left, plock, cpuVars, tickslock, nextpid>>

(* copyout() of the exit status fails: -1, the ZOMBIE stays.  init passes  *)
(* no address.                                                             *)
WaitCopyoutFails(c, s, q) ==
    /\ Exec(c, s, {"w_scan"}) /\ s # initproc
    /\ parent[q] = s /\ state[q] = "ZOMBIE" /\ plock[q] = NoCpu
    /\ Goto(s, "user")
    /\ wait_lock' = NoProc
    /\ UNCHANGED <<procVars, np, left, plock, cpuVars, tickslock, nextpid>>

WaitNoKids(c, s) ==
    /\ Exec(c, s, {"w_scan"}) /\ Children(s) = {}
    /\ Goto(s, "user")
    /\ wait_lock' = NoProc
    /\ UNCHANGED <<procVars, np, left, plock, cpuVars, tickslock, nextpid>>

(* Mutant: wait_lock is released between the scan and sleep().             *)
WaitNoZombieUnlocks(c, s) ==
    /\ Exec(c, s, {"w_scan"})
    /\ Children(s) # {} /\ Children(s) \cap Zombies = {}
    /\ wait_lock' = NoProc
    /\ Goto(s, "w_check")
    /\ UNCHANGED <<procVars, np, left, plock, cpuVars, tickslock, nextpid>>

WaitNoZombie(c, s) ==
    /\ Exec(c, s, {"w_scan"})
    /\ Children(s) # {} /\ Children(s) \cap Zombies = {}
    /\ Goto(s, "w_check")
    /\ UNCHANGED <<procVars, np, left, plock, cpuVars, spinVars, nextpid>>

(* Mutant: wait() does not look at killed.                                 *)
WaitTestNothing(c, s) ==
    /\ Exec(c, s, {"w_check"}) /\ plock[s] = NoCpu
    /\ Goto(s, "w_sleep")
    /\ UNCHANGED <<procVars, np, left, plock, cpuVars, spinVars, nextpid>>

(* if (killed(p)) ...: p->lock is taken and released for the test.         *)
WaitTestKilled(c, s) ==
    /\ Exec(c, s, {"w_check"}) /\ plock[s] = NoCpu
    /\ Goto(s, IF killed[s] THEN "user" ELSE "w_sleep")
    /\ wait_lock' = IF killed[s] THEN NoProc ELSE wait_lock
    /\ UNCHANGED <<procVars, np, left, plock, cpuVars, tickslock, nextpid>>

(* sleep(p, &wait_lock).                                                   *)
WaitSleep(c, s) ==
    /\ Exec(c, s, {"w_sleep"})
    /\ SwitchAway(c, s, "SLEEPING")
    /\ chan' = [chan EXCEPT ![s] = s]
    /\ wait_lock' = NoProc
    /\ Goto(s, "w_slept")
    /\ UNCHANGED <<pid, parent, killed, np, left, cproc, tickslock, nextpid>>

-----------------------------------------------------------------------------
(* sys_sleep(n) and the clock.                                             *)

TickCall(c, s, n) ==
    /\ Syscall(c, s)
    /\ left' = [left EXCEPT ![s] = n]
    /\ Goto(s, "t_begin")
    /\ UNCHANGED <<procVars, np, plock, cpuVars, spinVars, nextpid>>

(* acquire(&tickslock): first with ticks0 = ticks, then after each sleep.  *)
TickLock(c, s) ==
    /\ Exec(c, s, {"t_begin", "t_lock"}) /\ tickslock = NoProc
    /\ tickslock' = s
    /\ Goto(s, "t_check")
    /\ UNCHANGED <<procVars, np, left, plock, cpuVars, wait_lock, nextpid>>

(* The while loop's condition and the killed() test in its body.           *)
TickCheck(c, s) ==
    /\ Exec(c, s, {"t_check"}) /\ plock[s] = NoCpu
    /\ LET stay == left[s] > 0 /\ ~killed[s]
       IN  /\ Goto(s, IF stay THEN "t_sleep" ELSE "user")
           /\ tickslock' = IF stay THEN tickslock ELSE NoProc
           /\ left' = IF stay THEN left ELSE [left EXCEPT ![s] = 0]
    /\ UNCHANGED <<procVars, np, plock, cpuVars, wait_lock, nextpid>>

(* sleep(&ticks, &tickslock).                                              *)
TickSleep(c, s) ==
    /\ Exec(c, s, {"t_sleep"})
    /\ SwitchAway(c, s, "SLEEPING")
    /\ chan' = [chan EXCEPT ![s] = Ticks]
    /\ tickslock' = NoProc
    /\ Goto(s, "t_slept")
    /\ UNCHANGED <<pid, parent, killed, np, left, cproc, wait_lock, nextpid>>

IntrOn(c) == \/ ctx[c] = "sched" /\ cproc[c] = NoProc
             \/ \E s \in Slots : Exec(c, s, Preemptible)

(* ticks++ brings every sys_sleep() nearer to its end.                     *)
Elapsed(s) ==
    IF pc[s] \in {"t_slept", "t_lock"} /\ left[s] > 0 THEN left[s] - 1
                                                       ELSE left[s]

(* Mutant: nobody is woken at a tick.                                      *)
ClockIntrSilent ==
    /\ IntrOn(ClockCpu)
    /\ tickslock = NoProc
    /\ left' = [s \in Slots |-> Elapsed(s)]
    /\ UNCHANGED <<procVars, pc, np, plock, cpuVars, spinVars, nextpid>>

(* clockintr(): ticks++ brings every sys_sleep() nearer to its end, then   *)
(* wakeup(&ticks).                                                         *)
ClockIntr ==
    /\ IntrOn(ClockCpu)
    /\ tickslock = NoProc /\ CanWake(Ticks)
    /\ left' = [s \in Slots |-> Elapsed(s)]
    /\ state' = Woken(Ticks)
    /\ UNCHANGED <<pid, parent, chan, killed, pc, np, plock, cpuVars, spinVars,
                   nextpid>>

-----------------------------------------------------------------------------
Fork(c, s) ==
    \/ \E n \in Slots : ForkAlloc(c, s, n) \/ ForkAllocFails(c, s, n)
    \/ ForkCopied(c, s) \/ ForkCopyFails(c, s)
    \/ ForkParent(c, s) \/ ForkRunnable(c, s)

Exit(c, s) ==
    \/ ExitCall(c, s) \/ TrapKilled(c, s) \/ ExitLock(c, s)
    \/ ExitReparent(c, s) \/ ExitWakeup(c, s) \/ ExitZombie(c, s)

Wait(c, s) ==
    \/ WaitCall(c, s) \/ WaitLock(c, s)
    \/ \E q \in Slots : WaitReap(c, s, q) \/ WaitCopyoutFails(c, s, q)
    \/ WaitNoKids(c, s) \/ WaitNoZombie(c, s)
    \/ WaitTestKilled(c, s) \/ WaitSleep(c, s)

Sleep(c, s) ==
    \/ \E n \in SleepArgs : TickCall(c, s, n)
    \/ TickLock(c, s) \/ TickCheck(c, s) \/ TickSleep(c, s)

Kills(c, s) == \E p \in Slots, k \in KillPids : Kill(c, s, p, k)

Next ==
    \/ \E c \in Cpus : SchedReturn(c)
    \/ \E c \in Cpus, s \in Slots :
          \/ Pick(c, s) \/ Resume(c, s) \/ Yield(c, s)
          \/ Fork(c, s) \/ Exit(c, s) \/ Wait(c, s) \/ Sleep(c, s)
          \/ Kills(c, s)
    \/ ClockIntr

Spec == Init /\ [][Next]_vars

(* Fairness.  The round-robin loop of scheduler() visits every slot, and   *)
(* a RUNNABLE one is run when the loop gets to it: strong, since others    *)
(* occupy the CPU in between.  A thread that holds the CPU makes a step    *)
(* before the timer preempts it: strong, since it is preempted and         *)
(* resumed.  The timer fires for ever, and a pending interrupt is taken    *)
(* when interrupts are on: strong.  init.c calls wait() for ever.          *)
(* Nothing obliges any other program to make a system call, and no         *)
(* allocation has to succeed or fail.                                      *)
Progress(c, s) ==
    \/ TrapKilled(c, s)
    \/ ForkCopied(c, s) \/ ForkParent(c, s) \/ ForkRunnable(c, s)
    \/ ExitLock(c, s) \/ ExitReparent(c, s) \/ ExitWakeup(c, s)
    \/ ExitZombie(c, s)
    \/ WaitLock(c, s) \/ WaitNoKids(c, s) \/ WaitNoZombie(c, s)
    \/ \E q \in Slots : WaitReap(c, s, q)
    \/ WaitTestKilled(c, s) \/ WaitSleep(c, s)
    \/ TickLock(c, s) \/ TickCheck(c, s) \/ TickSleep(c, s)

Fairness ==
    /\ \A c \in Cpus :
          /\ WF_vars(SchedReturn(c) \/ \E s \in Slots : Resume(c, s))
          /\ SF_vars(\E s \in Slots : Yield(c, s))
    /\ \A s \in Slots :
          /\ SF_vars(\E c \in Cpus : Pick(c, s))
          /\ SF_vars(\E c \in Cpus : Progress(c, s))
    /\ SF_vars(\E c \in Cpus : WaitCall(c, initproc))
    /\ SF_vars(ClockIntr)

FairSpec == Spec /\ Fairness

-----------------------------------------------------------------------------
(* Properties.                                                             *)

(* Every variable ranges over the values the C declarations intend.        *)
TypeOK ==
    /\ state \in [Slots -> ProcStates]
    /\ pid \in [Slots -> Nat]
    /\ parent \in [Slots -> Slots \cup {NoProc}]
    /\ chan \in [Slots -> Slots \cup {NoChan, Ticks}]
    /\ killed \in [Slots -> BOOLEAN]
    /\ pc \in [Slots -> PCs]
    /\ np \in [Slots -> Slots \cup {NoProc}]
    /\ left \in [Slots -> Nat]
    /\ plock \in [Slots -> Cpus \cup {NoCpu}]
    /\ cproc \in [Cpus -> Slots \cup {NoProc}]
    /\ ctx \in [Cpus -> {"sched", "proc"}]
    /\ wait_lock \in Slots \cup {NoProc}
    /\ tickslock \in Slots \cup {NoProc}
    /\ nextpid \in Nat

(* A kernel stack is used by one CPU at most, and neither reaped nor given *)
(* to a new process while a CPU still executes on it or is leaving it: the *)
(* purpose of handing p->lock over through swtch().                        *)
StackSafe ==
    /\ \A c, d \in Cpus : cproc[c] = cproc[d] /\ cproc[c] # NoProc => c = d
    /\ \A c \in Cpus : cproc[c] # NoProc =>
          state[cproc[c]] \notin {"UNUSED", "USED"}

(* No exit is lost on a waiting parent: a process asleep in wait() has no  *)
(* ZOMBIE child, whatever the order of its children's exits, of reparent() *)
(* and of its own scan.                                                    *)
NoLostExit ==
    \A p, q \in Slots :
        state[p] = "SLEEPING" /\ chan[p] = p /\ parent[q] = p
            => state[q] # "ZOMBIE"

(* No tick is missed: whoever is asleep in sys_sleep() has ticks left to   *)
(* wait for, although the clock counts and wakes between the test of the   *)
(* while loop and sleep(), and between wakeup() and the next test.         *)
NoMissedTick ==
    \A s \in Slots : state[s] = "SLEEPING" /\ chan[s] = Ticks => left[s] > 0

(* p->parent never dangles: it is a process that can still reap p, and     *)
(* every process but init has one by the time it can run.                  *)
ParentAlive ==
    \A q \in Slots :
        /\ parent[q] # NoProc => state[parent[q]] \notin {"UNUSED", "USED",
                                                           "ZOMBIE"}
        /\ q # initproc /\ state[q] \notin {"UNUSED", "USED"}
              => parent[q] # NoProc

(* The pids in use are pairwise different, whatever failed forks and       *)
(* reused slots came before.                                               *)
PidsUnique ==
    \A p, q \in Slots :
        state[p] # "UNUSED" /\ state[q] # "UNUSED" /\ pid[p] = pid[q] => p = q

(* A new process is not born killed: what freeproc() cleared stays clear   *)
(* while the slot is UNUSED, since allocproc() does not clear it again.    *)
BornUnkilled ==
    [][\A s \in Slots : state[s] = "UNUSED" /\ state'[s] = "USED"
                            => ~killed'[s]]_vars

(* Between its killed() test and sleep() a process does not see a kill()   *)
(* of another CPU, and sleeps although it is killed.                       *)
BeforeSleep == {"w_sleep", "t_sleep"}
Missed(s) == killed[s] /\ (pc[s] \in BeforeSleep \/ state[s] = "SLEEPING")

(* That is the only way to miss a kill: a sleeper is woken by it, and who  *)
(* has been killed and woken does not sleep again.                         *)
KillNoticed ==
    [][\A s \in Slots : Missed(s)' =>
          Missed(s) \/ (pc[s] \in BeforeSleep /\ ~killed[s])]_vars

(* A killed process exits, unless it has missed the kill.                  *)
KilledExits ==
    \A s \in Slots \ {initproc} :
        killed[s] /\ ~Missed(s) /\ state[s] # "UNUSED"
            ~> state[s] \in {"ZOMBIE", "UNUSED"}

(* Every call of sleep(n) ends: the tick that brings it to 0 wakes it, or  *)
(* finds it on its way to the next test; a kill that the sleeper misses on *)
(* another CPU only makes it sleep to its end.                             *)
SleepEnds == \A s \in Slots : pc[s] \in TickPCs ~> pc[s] \notin TickPCs

(* A ZOMBIE that is init's child is reaped.                                *)
InitReaps ==
    \A s \in Slots \ {initproc} :
        state[s] = "ZOMBIE" /\ parent[s] = initproc ~> state[s] = "UNUSED"

=============================================================================
