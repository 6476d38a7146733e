------------------------------- MODULE ProcInv -------------------------------
(* The inductive invariant of Proc, in named parts: who may be where, and  *)
(* which lock is held, at each point of the kernel threads.                *)
EXTENDS Proc

Slept == {"w_slept", "t_slept"}

(* Points at which a thread can only be while it executes on a CPU.        *)
OnCpuOnly == {"f_copy", "x_reparent", "x_wake", "x_zombie", "w_scan",
              "w_check", "w_sleep", "t_check", "t_sleep"}

(* A CPU on a process's stack runs a RUNNING process, no two run the same, *)
(* and every RUNNING process has its CPU.                                  *)
CpuInv ==
    /\ \A c \in Cpus : ctx[c] = "proc" =>
          cproc[c] \in Slots /\ state[cproc[c]] = "RUNNING"
    /\ \A c, d \in Cpus : cproc[c] = cproc[d] /\ cproc[c] # NoProc => c = d
    /\ \A s \in Slots : state[s] = "RUNNING" => \E c \in Cpus : Running(c, s)

(* From SwitchAway to SchedReturn the CPU owns the lock of the process it  *)
(* leaves, and nobody else owns the lock of a process.                     *)
LockInv ==
    /\ \A c \in Cpus : ctx[c] = "sched" /\ cproc[c] # NoProc =>
          /\ plock[cproc[c]] = c
          /\ state[cproc[c]] \in {"SLEEPING", "RUNNABLE", "ZOMBIE"}
    /\ \A s \in Slots, c \in Cpus : plock[s] = c =>
          \/ cproc[c] = s
          \/ \E f \in Slots : Running(c, f) /\ pc[f] = "f_copy" /\ np[f] = s
    /\ \A f \in Slots, c \in Cpus :
          pc[f] = "f_copy" /\ Running(c, f) => plock[np[f]] = c

(* What p->state says about the thread.                                    *)
PcInv ==
    \A s \in Slots :
        /\ state[s] = "UNUSED" <=> pc[s] = "none"
        /\ state[s] = "USED" => pc[s] = "forkret"
        /\ state[s] = "ZOMBIE" <=> pc[s] = "x_done"
        /\ state[s] = "SLEEPING" => pc[s] \in Slept
        /\ pc[s] \in OnCpuOnly =>
              state[s] = "RUNNING" /\ \A c \in Cpus : Running(c, s) => plock[s] # c
        /\ state[s] = "RUNNING" /\ pc[s] \in Slept \cup {"forkret"} =>
              \A c \in Cpus : Running(c, s) => plock[s] = c

(* A sleeping thread waits on the channel of its loop.                     *)
ChanInv ==
    \A s \in Slots :
        /\ state[s] = "SLEEPING" /\ pc[s] = "w_slept" => chan[s] = s
        /\ state[s] = "SLEEPING" /\ pc[s] = "t_slept" => chan[s] = Ticks

(* Who holds wait_lock and tickslock.                                      *)
SpinInv ==
    /\ \A s \in Slots : wait_lock = s <=> pc[s] \in HoldsWait
    /\ \A s \in Slots : tickslock = s <=> pc[s] \in HoldsTicks

(* fork()'s np is a USED slot of its own; a USED slot is some fork()'s np. *)
ForkInv ==
    /\ \A f \in Slots :
          /\ np[f] # NoProc <=> pc[f] \in ForkPCs
          /\ np[f] # NoProc => state[np[f]] = "USED"
          /\ pc[f] \in {"f_copy", "f_parent"} => parent[np[f]] = NoProc
          /\ pc[f] = "f_runnable" => parent[np[f]] = f
    /\ \A f, g \in Slots : np[f] = np[g] /\ np[f] # NoProc => f = g
    /\ \A s \in Slots : state[s] = "USED" => \E f \in Slots : np[f] = s

(* Parents are alive, and still ahead of reparent() in exit().             *)
ParentInv ==
    /\ pc[initproc] \notin ExitPCs \cup {"none"}
    /\ state[initproc] # "USED"
    /\ \A q \in Slots :
          /\ parent[q] # NoProc =>
                /\ state[q] # "UNUSED"
                /\ pc[parent[q]] \notin {"none", "x_wake", "x_zombie", "x_done"}
                /\ state[parent[q]] # "USED"
          /\ q # initproc /\ state[q] \notin {"UNUSED", "USED"} =>
                parent[q] # NoProc

(* Why no exit is lost: between its scan and its sleep wait() has no       *)
(* ZOMBIE child, and between its wakeup and ZOMBIE an exiting process has  *)
(* no sleeping parent.                                                     *)
ExitInv ==
    \A p, q \in Slots : parent[q] = p =>
        /\ pc[p] \in {"w_check", "w_sleep"} => state[q] # "ZOMBIE"
        /\ state[p] = "SLEEPING" /\ pc[p] = "w_slept" =>
              state[q] # "ZOMBIE" /\ pc[q] # "x_zombie"

(* sys_sleep() sleeps, and is about to sleep, only with ticks to wait for. *)
TickInv ==
    \A s \in Slots :
        (state[s] = "SLEEPING" /\ pc[s] = "t_slept") \/ pc[s] = "t_sleep"
            => left[s] > 0

PidInv ==
    /\ \A s \in Slots : state[s] # "UNUSED" => pid[s] \in 1..(nextpid - 1)
    /\ \A s \in Slots : state[s] = "UNUSED" => pid[s] = 0
    /\ PidsUnique

IInv ==
    /\ TypeOK
    /\ CpuInv /\ LockInv /\ PcInv /\ ChanInv /\ SpinInv
    /\ ForkInv /\ ParentInv /\ ExitInv /\ PidInv /\ TickInv

==============================================================================
