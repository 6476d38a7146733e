----------------------------- MODULE SchedIntr -----------------------------
(* Interrupt enabling across swtch(): SIE of each CPU, the intena that     *)
(* push_off() records and pop_off() restores (kernel/spinlock.c), and the  *)
(* intr_on() at the head of the scheduler's outer loop.                    *)
(*                                                                         *)
(* A thread leaves its CPU with one lock held, its own, so noff is 1: the  *)
(* interrupts of the scheduler it returns to become what they were when    *)
(* the thread took that lock.  A thread that is dispatched goes on to user *)
(* space, where interrupts are always on; what it does with them on its    *)
(* way through the kernel is left out.  A process computes, sleeps until   *)
(* the next tick, or exits: by a system call, with interrupts on, or from  *)
(* usertrap() after a fault or a kill, with interrupts off.                *)
EXTENDS Naturals

CONSTANTS
    Procs, Cpus, ClockCpu, Nobody,
    Policies        \* the values of SCHEDULER in the Makefile considered

SchedIntrAssumption ==
    /\ ClockCpu \in Cpus
    /\ Nobody \notin Procs
    /\ Policies \subseteq {"RR", "LBS", "MLFQ"}

VARIABLES
    policy,     \* the scheduler this kernel was built with
    st,         \* p->state
    intr,       \* SIE
    intena,     \* c->intena
    running,    \* c->proc
    at          \* "outer": head of the outer loop; "loop": looking for a
                \* process; "proc": on its stack; "back": after swtch()

vars == <<policy, st, intr, intena, running, at>>

Init ==
    /\ policy \in Policies
    /\ st = [p \in Procs |-> "RUNNABLE"]
    /\ intr = [c \in Cpus |-> FALSE]
    /\ intena = [c \in Cpus |-> FALSE]
    /\ running = [c \in Cpus |-> Nobody]
    /\ at = [c \in Cpus |-> "outer"]

LockFree(p) == \A c \in Cpus : ~(at[c] = "back" /\ running[c] = p)

-----------------------------------------------------------------------------
(* Mutant: intr_on() is left out.                                          *)
IntrOnLost(c) ==
    /\ at[c] = "outer"
    /\ at' = [at EXCEPT ![c] = "loop"]
    /\ UNCHANGED <<policy, st, intr, intena, running>>

IntrOn(c) ==
    /\ at[c] = "outer"
    /\ intr' = [intr EXCEPT ![c] = TRUE]
    /\ at' = [at EXCEPT ![c] = "loop"]
    /\ UNCHANGED <<policy, st, intena, running>>

(* The end of a pass over the table.  MLFQ has an inner for (;;) around    *)
(* its pass and never gets back to the outer one.                          *)
EndOfPass(c) ==
    /\ at[c] = "loop" /\ policy # "MLFQ"
    /\ at' = [at EXCEPT ![c] = "outer"]
    /\ UNCHANGED <<policy, st, intr, intena, running>>

Dispatch(c, p) ==
    /\ at[c] = "loop" /\ st[p] = "RUNNABLE" /\ LockFree(p)
    /\ st' = [st EXCEPT ![p] = "RUNNING"]
    /\ running' = [running EXCEPT ![c] = p]
    /\ at' = [at EXCEPT ![c] = "proc"]
    /\ intr' = [intr EXCEPT ![c] = TRUE]
    /\ UNCHANGED <<policy, intena>>

(* acquire(&p->lock) where interrupts are as enabled says, then sched().   *)
Leave(c, p, enabled) ==
    /\ at[c] = "proc" /\ running[c] = p
    /\ intr' = [intr EXCEPT ![c] = FALSE]
    /\ intena' = [intena EXCEPT ![c] = enabled]
    /\ at' = [at EXCEPT ![c] = "back"]
    /\ UNCHANGED <<policy, running>>

(* release(&p->lock) in scheduler().  A round-robin pass then looks at the *)
(* slots it has not come to; the other policies start a new pass.          *)
Back(c) ==
    /\ at[c] = "back"
    /\ intr' = [intr EXCEPT ![c] = intena[c]]
    /\ running' = [running EXCEPT ![c] = Nobody]
    /\ at' = [at EXCEPT ![c] = IF policy = "LBS" THEN "outer" ELSE "loop"]
    /\ UNCHANGED <<policy, st, intena>>

-----------------------------------------------------------------------------
(* sys_sleep().                                                            *)
SleepTick(c, p) == Leave(c, p, TRUE) /\ st' = [st EXCEPT ![p] = "SLEEPING"]

(* exit().                                                                 *)
Exit(c, p) == /\ \E enabled \in BOOLEAN : Leave(c, p, enabled)
              /\ st' = [st EXCEPT ![p] = "ZOMBIE"]

(* clockintr() on hart 0: wakeup(&ticks).                                  *)
AfterTick(c) == [p \in Procs |-> IF c = ClockCpu /\ st[p] = "SLEEPING"
                                   THEN "RUNNABLE" ELSE st[p]]
CanWake == \A p \in Procs : st[p] = "SLEEPING" => LockFree(p)

(* A timer interrupt in a process: the tick, then yield() in the trap.     *)
TimerInProc(c, p) ==
    /\ CanWake
    /\ Leave(c, p, FALSE)
    /\ st' = [AfterTick(c) EXCEPT ![p] = "RUNNABLE"]

(* A timer interrupt in the scheduler, if it has interrupts on.            *)
TimerInSched(c) ==
    /\ at[c] = "loop" /\ intr[c]
    /\ CanWake
    /\ st' = AfterTick(c)
    /\ UNCHANGED <<policy, intr, intena, running, at>>

Timer(c) == TimerInSched(c) \/ \E p \in Procs : TimerInProc(c, p)
Scheduler(c) == IntrOn(c) \/ Back(c) \/ \E p \in Procs : Dispatch(c, p)

Next ==
    \E c \in Cpus :
        \/ Scheduler(c) \/ EndOfPass(c) \/ Timer(c)
        \/ \E p \in Procs : SleepTick(c, p) \/ Exit(c, p)

Spec == Init /\ [][Next]_vars

(* The scheduler's loop goes on, and the timer of hart 0, which is always  *)
(* armed, interrupts it when it can.                                       *)
Fairness ==
    /\ \A c \in Cpus : WF_vars(Scheduler(c)) /\ WF_vars(EndOfPass(c))
    /\ SF_vars(Timer(ClockCpu))

FairSpec == Spec /\ Fairness

-----------------------------------------------------------------------------
(* The values of the variables.                                            *)
TypeOK ==
    /\ policy \in Policies
    /\ st \in [Procs -> {"RUNNABLE", "RUNNING", "SLEEPING", "ZOMBIE"}]
    /\ intr \in [Cpus -> BOOLEAN] /\ intena \in [Cpus -> BOOLEAN]
    /\ running \in [Cpus -> Procs \cup {Nobody}]
    /\ at \in [Cpus -> {"outer", "loop", "proc", "back"}]

(* Time goes on: whoever sleeps until the next tick is woken by it, even   *)
(* when the last process to leave hart 0 did so with interrupts off and    *)
(* there is nothing to run.                                                *)
SleepersWake == \A p \in Procs : st[p] = "SLEEPING" ~> st[p] # "SLEEPING"

=============================================================================
