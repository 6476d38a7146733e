----------------------------- MODULE ProcProofs -----------------------------
(* Proofs about Proc, for any number of slots and CPUs: the inductive      *)
(* invariant of ProcInv, one lemma for each of its parts and in it one     *)
(* step for each group of actions, and the safety properties it implies.   *)
(* Then about Mlfq, as it is instantiated in MCSched.                      *)
EXTENDS ProcRefines, MCSched, TLAPS

(* The invariant holds when the first process is ready to run.             *)
LEMMA IInvInit == Init => IInv
  BY ProcAssumption
     DEF ProcAssumption, Init, IInv, TypeOK, CpuInv, LockInv, PcInv, ChanInv,
         SpinInv, ForkInv, ParentInv, ExitInv, PidInv, PidsUnique, TickInv,
         Running, ProcStates, PCs, ForkPCs, ExitPCs, WaitPCs, TickPCs, HoldsWait,
         HoldsTicks, Slept, OnCpuOnly

(* The type invariant is preserved by every step.                          *)
LEMMA TypeOKNext ==
  ASSUME IInv, [Next]_vars
  PROVE  TypeOK'
<1> USE ProcAssumption DEF ProcAssumption, IInv, TypeOK, Exec, Running, Goto,
       procVars, cpuVars, spinVars, ProcStates, PCs, ForkPCs, ExitPCs,
       WaitPCs, TickPCs, HoldsWait, HoldsTicks, Preemptible, Slept, OnCpuOnly
<1>0. CASE UNCHANGED vars
  BY <1>0 DEF vars
<1>1. ASSUME NEW c \in Cpus, NEW s \in Slots, Pick(c, s) \/ Resume(c, s) \/
       Yield(c, s) PROVE TypeOK'
  BY <1>1 DEF Pick, Resume, ForkRet, YieldReturn, SleepReturn, Release, Yield,
         SwitchAway
<1>2. ASSUME NEW c \in Cpus, SchedReturn(c) PROVE TypeOK'
  BY <1>2 DEF SchedReturn
<1>3. ASSUME NEW c \in Cpus, NEW s \in Slots, Fork(c, s) PROVE TypeOK'
  <2>1. ASSUME NEW n \in Slots, ForkAlloc(c, s, n) PROVE TypeOK'
    BY <2>1 DEF ForkAlloc, Allocpid, Syscall
  <2>2. ASSUME NEW n \in Slots, ForkAllocFails(c, s, n) PROVE TypeOK'
    BY <2>2 DEF ForkAllocFails, Allocpid, Freeproc, Syscall
  <2>3. CASE ForkCopied(c, s)
    BY <2>3 DEF ForkCopied
  <2>4. CASE ForkCopyFails(c, s)
    BY <2>4 DEF ForkCopyFails, Freeproc
  <2>5. CASE ForkParent(c, s)
    BY <2>5 DEF ForkParent
  <2>6. CASE ForkRunnable(c, s)
    BY <2>6 DEF ForkRunnable
  <2> QED
    BY <1>3, <2>1, <2>2, <2>3, <2>4, <2>5, <2>6 DEF Fork
<1>4. ASSUME NEW c \in Cpus, NEW s \in Slots, Exit(c, s) PROVE TypeOK'
  BY <1>4 DEF Exit, ExitCall, TrapKilled, ExitLock, ExitReparent, ExitWakeup,
         ExitZombie, SwitchAway, CanWake, Woken, Children, Syscall
<1>5. ASSUME NEW c \in Cpus, NEW s \in Slots, Wait(c, s) PROVE TypeOK'
  <2>1. CASE WaitCall(c, s) \/ WaitLock(c, s)
    BY <2>1 DEF WaitCall, WaitLock, Syscall
  <2>2. ASSUME NEW q \in Slots, WaitReap(c, s, q) PROVE TypeOK'
    BY <2>2 DEF WaitReap, Freeproc
  <2>3. ASSUME NEW q \in Slots, WaitCopyoutFails(c, s, q) PROVE TypeOK'
    BY <2>3 DEF WaitCopyoutFails
  <2>4. CASE WaitNoKids(c, s) \/ WaitNoZombie(c, s)
    BY <2>4 DEF WaitNoKids, WaitNoZombie, Children, Zombies
  <2>5. CASE WaitTestKilled(c, s)
    BY <2>5 DEF WaitTestKilled
  <2>6. CASE WaitSleep(c, s)
    BY <2>6 DEF WaitSleep, SwitchAway
  <2> QED
    BY <1>5, <2>1, <2>2, <2>3, <2>4, <2>5, <2>6 DEF Wait
<1>6. ASSUME NEW c \in Cpus, NEW s \in Slots, Sleep(c, s) PROVE TypeOK'
  BY <1>6 DEF Sleep, TickCall, TickLock, TickCheck, TickSleep, SwitchAway,
         Syscall
<1>7. ASSUME NEW c \in Cpus, NEW s \in Slots, Kills(c, s) PROVE TypeOK'
  BY <1>7 DEF Kills, Kill, Syscall
<1>8. CASE ClockIntr
  BY <1>8 DEF ClockIntr, Elapsed, CanWake, Woken
<1> QED
  BY <1>0, <1>1, <1>2, <1>3, <1>4, <1>5, <1>6, <1>7, <1>8 DEF Next

(* CPUs and the processes they run stay matched: no step gives a stack to  *)
(* two CPUs.                                                               *)
LEMMA CpuInvNext ==
  ASSUME IInv, [Next]_vars
  PROVE  CpuInv'
<1> USE ProcAssumption DEF ProcAssumption, IInv, TypeOK, CpuInv, LockInv,
       PcInv, ForkInv, Exec, Running, Goto, procVars, cpuVars, spinVars,
       ProcStates, PCs, ForkPCs, ExitPCs, WaitPCs, TickPCs, HoldsWait,
       HoldsTicks, Preemptible, Slept, OnCpuOnly
<1>0. CASE UNCHANGED vars
  BY <1>0 DEF vars
<1>1. ASSUME NEW c \in Cpus, NEW s \in Slots, Pick(c, s) \/ Resume(c, s) \/
       Yield(c, s) PROVE CpuInv'
  <2>1. CASE Pick(c, s)
    BY <2>1 DEF Pick
  <2>2. CASE Resume(c, s)
    BY <2>2 DEF Resume, ForkRet, YieldReturn, SleepReturn, Release
  <2>3. CASE Yield(c, s)
    BY <2>3 DEF Yield, SwitchAway
  <2> QED
    BY <1>1, <2>1, <2>2, <2>3
<1>2. ASSUME NEW c \in Cpus, SchedReturn(c) PROVE CpuInv'
  BY <1>2 DEF SchedReturn
<1>3. ASSUME NEW c \in Cpus, NEW s \in Slots, Fork(c, s) PROVE CpuInv'
  <2>1. ASSUME NEW n \in Slots, ForkAlloc(c, s, n) PROVE CpuInv'
    BY <2>1 DEF ForkAlloc, Syscall
  <2>2. ASSUME NEW n \in Slots, ForkAllocFails(c, s, n) PROVE CpuInv'
    BY <2>2 DEF ForkAllocFails, Freeproc, Syscall
  <2>3. CASE ForkCopied(c, s)
    BY <2>3 DEF ForkCopied
  <2>4. CASE ForkCopyFails(c, s)
    BY <2>4 DEF ForkCopyFails, Freeproc
  <2>5. CASE ForkParent(c, s)
    BY <2>5 DEF ForkParent
  <2>6. CASE ForkRunnable(c, s)
    BY <2>6 DEF ForkRunnable
  <2> QED
    BY <1>3, <2>1, <2>2, <2>3, <2>4, <2>5, <2>6 DEF Fork
<1>4. ASSUME NEW c \in Cpus, NEW s \in Slots, Exit(c, s) PROVE CpuInv'
  BY <1>4 DEF Exit, ExitCall, TrapKilled, ExitLock, ExitReparent, ExitWakeup,
         ExitZombie, SwitchAway, CanWake, Woken, Children, Syscall
<1>5. ASSUME NEW c \in Cpus, NEW s \in Slots, Wait(c, s) PROVE CpuInv'
  <2>1. CASE WaitCall(c, s) \/ WaitLock(c, s)
    BY <2>1 DEF WaitCall, WaitLock, Syscall
  <2>2. ASSUME NEW q \in Slots, WaitReap(c, s, q) PROVE CpuInv'
    BY <2>2 DEF WaitReap, Freeproc
  <2>3. ASSUME NEW q \in Slots, WaitCopyoutFails(c, s, q) PROVE CpuInv'
    BY <2>3 DEF WaitCopyoutFails
  <2>4. CASE WaitNoKids(c, s) \/ WaitNoZombie(c, s)
    BY <2>4 DEF WaitNoKids, WaitNoZombie, Children, Zombies
  <2>5. CASE WaitTestKilled(c, s)
    BY <2>5 DEF WaitTestKilled
  <2>6. CASE WaitSleep(c, s)
    BY <2>6 DEF WaitSleep, SwitchAway
  <2> QED
    BY <1>5, <2>1, <2>2, <2>3, <2>4, <2>5, <2>6 DEF Wait
<1>6. ASSUME NEW c \in Cpus, NEW s \in Slots, Sleep(c, s) PROVE CpuInv'
  BY <1>6 DEF Sleep, TickCall, TickLock, TickCheck, TickSleep, SwitchAway,
         Syscall
<1>7. ASSUME NEW c \in Cpus, NEW s \in Slots, Kills(c, s) PROVE CpuInv'
  BY <1>7 DEF Kills, Kill, Syscall
<1>8. CASE ClockIntr
  BY <1>8 DEF ClockIntr, CanWake, Woken
<1> QED
  BY <1>0, <1>1, <1>2, <1>3, <1>4, <1>5, <1>6, <1>7, <1>8 DEF Next

(* The lock handed over through swtch() keeps its owner until SchedReturn. *)
LEMMA LockInvNext ==
  ASSUME IInv, [Next]_vars
  PROVE  LockInv'
<1> USE ProcAssumption DEF ProcAssumption, IInv, TypeOK, CpuInv, LockInv,
       PcInv, ForkInv, Exec, Running, Goto, procVars, cpuVars, spinVars,
       ProcStates, PCs, ForkPCs, ExitPCs, WaitPCs, TickPCs, HoldsWait,
       HoldsTicks, Preemptible, Slept, OnCpuOnly
<1>0. CASE UNCHANGED vars
  BY <1>0 DEF vars
<1>1. ASSUME NEW c \in Cpus, NEW s \in Slots, Pick(c, s) \/ Resume(c, s) \/
       Yield(c, s) PROVE LockInv'
  <2>1. CASE Pick(c, s)
    BY <2>1 DEF Pick
  <2>2. CASE Resume(c, s)
    BY <2>2 DEF Resume, ForkRet, YieldReturn, SleepReturn, Release
  <2>3. CASE Yield(c, s)
    BY <2>3 DEF Yield, SwitchAway
  <2> QED
    BY <1>1, <2>1, <2>2, <2>3
<1>2. ASSUME NEW c \in Cpus, SchedReturn(c) PROVE LockInv'
  BY <1>2 DEF SchedReturn
<1>3. ASSUME NEW c \in Cpus, NEW s \in Slots, Fork(c, s) PROVE LockInv'
  <2>1. ASSUME NEW n \in Slots, ForkAlloc(c, s, n) PROVE LockInv'
    BY <2>1 DEF ForkAlloc, Syscall
  <2>2. ASSUME NEW n \in Slots, ForkAllocFails(c, s, n) PROVE LockInv'
    BY <2>2 DEF ForkAllocFails, Freeproc, Syscall
  <2>3. CASE ForkCopied(c, s)
    BY <2>3 DEF ForkCopied
  <2>4. CASE ForkCopyFails(c, s)
    BY <2>4 DEF ForkCopyFails, Freeproc
  <2>5. CASE ForkParent(c, s)
    BY <2>5 DEF ForkParent
  <2>6. CASE ForkRunnable(c, s)
    BY <2>6 DEF ForkRunnable
  <2> QED
    BY <1>3, <2>1, <2>2, <2>3, <2>4, <2>5, <2>6 DEF Fork
<1>4. ASSUME NEW c \in Cpus, NEW s \in Slots, Exit(c, s) PROVE LockInv'
  <2>1. CASE ExitCall(c, s) \/ TrapKilled(c, s) \/ ExitLock(c, s)
    BY <2>1 DEF ExitCall, TrapKilled, ExitLock, Syscall
  <2>2. CASE ExitReparent(c, s)
    BY <2>2 DEF ExitReparent, CanWake, Woken, Children
  <2>3. CASE ExitWakeup(c, s)
    BY <2>3 DEF ExitWakeup, CanWake, Woken
  <2>4. CASE ExitZombie(c, s)
    BY <2>4 DEF ExitZombie, SwitchAway
  <2> QED
    BY <1>4, <2>1, <2>2, <2>3, <2>4 DEF Exit
<1>5. ASSUME NEW c \in Cpus, NEW s \in Slots, Wait(c, s) PROVE LockInv'
  <2>1. CASE WaitCall(c, s) \/ WaitLock(c, s)
    BY <2>1 DEF WaitCall, WaitLock, Syscall
  <2>2. ASSUME NEW q \in Slots, WaitReap(c, s, q) PROVE LockInv'
    BY <2>2 DEF WaitReap, Freeproc
  <2>3. ASSUME NEW q \in Slots, WaitCopyoutFails(c, s, q) PROVE LockInv'
    BY <2>3 DEF WaitCopyoutFails
  <2>4. CASE WaitNoKids(c, s) \/ WaitNoZombie(c, s)
    BY <2>4 DEF WaitNoKids, WaitNoZombie, Children, Zombies
  <2>5. CASE WaitTestKilled(c, s)
    BY <2>5 DEF WaitTestKilled
  <2>6. CASE WaitSleep(c, s)
    BY <2>6 DEF WaitSleep, SwitchAway
  <2> QED
    BY <1>5, <2>1, <2>2, <2>3, <2>4, <2>5, <2>6 DEF Wait
<1>6. ASSUME NEW c \in Cpus, NEW s \in Slots, Sleep(c, s) PROVE LockInv'
  <2>1. ASSUME NEW n \in SleepArgs, TickCall(c, s, n) PROVE LockInv'
    BY <2>1 DEF TickCall, Syscall
  <2>2. CASE TickLock(c, s)
    BY <2>2 DEF TickLock
  <2>3. CASE TickCheck(c, s)
    BY <2>3 DEF TickCheck
  <2>4. CASE TickSleep(c, s)
    BY <2>4 DEF TickSleep, SwitchAway
  <2> QED
    BY <1>6, <2>1, <2>2, <2>3, <2>4 DEF Sleep
<1>7. ASSUME NEW c \in Cpus, NEW s \in Slots, Kills(c, s) PROVE LockInv'
  BY <1>7 DEF Kills, Kill, Syscall
<1>8. CASE ClockIntr
  BY <1>8 DEF ClockIntr, CanWake, Woken
<1> QED
  BY <1>0, <1>1, <1>2, <1>3, <1>4, <1>5, <1>6, <1>7, <1>8 DEF Next

(* State and program point of a thread stay consistent.                    *)
LEMMA PcInvNext ==
  ASSUME IInv, [Next]_vars
  PROVE  PcInv'
<1> USE ProcAssumption DEF ProcAssumption, IInv, TypeOK, CpuInv, LockInv,
       PcInv, ForkInv, Exec, Running, Goto, procVars, cpuVars, spinVars,
       ProcStates, PCs, ForkPCs, ExitPCs, WaitPCs, TickPCs, HoldsWait,
       HoldsTicks, Preemptible, Slept, OnCpuOnly
<1>0. CASE UNCHANGED vars
  BY <1>0 DEF vars
<1>1. ASSUME NEW c \in Cpus, NEW s \in Slots, Pick(c, s) \/ Resume(c, s) \/
       Yield(c, s) PROVE PcInv'
  BY <1>1 DEF Pick, Resume, ForkRet, YieldReturn, SleepReturn, Release, Yield,
         SwitchAway
<1>2. ASSUME NEW c \in Cpus, SchedReturn(c) PROVE PcInv'
  BY <1>2 DEF SchedReturn
<1>3. ASSUME NEW c \in Cpus, NEW s \in Slots, Fork(c, s) PROVE PcInv'
  <2>1. ASSUME NEW n \in Slots, ForkAlloc(c, s, n) PROVE PcInv'
    BY <2>1 DEF ForkAlloc, Syscall
  <2>2. ASSUME NEW n \in Slots, ForkAllocFails(c, s, n) PROVE PcInv'
    BY <2>2 DEF ForkAllocFails, Freeproc, Syscall
  <2>3. CASE ForkCopied(c, s)
    BY <2>3 DEF ForkCopied
  <2>4. CASE ForkCopyFails(c, s)
    BY <2>4 DEF ForkCopyFails, Freeproc
  <2>5. CASE ForkParent(c, s)
    BY <2>5 DEF ForkParent
  <2>6. CASE ForkRunnable(c, s)
    BY <2>6 DEF ForkRunnable
  <2> QED
    BY <1>3, <2>1, <2>2, <2>3, <2>4, <2>5, <2>6 DEF Fork
<1>4. ASSUME NEW c \in Cpus, NEW s \in Slots, Exit(c, s) PROVE PcInv'
  BY <1>4 DEF Exit, ExitCall, TrapKilled, ExitLock, ExitReparent, ExitWakeup,
         ExitZombie, SwitchAway, CanWake, Woken, Children, Syscall
<1>5. ASSUME NEW c \in Cpus, NEW s \in Slots, Wait(c, s) PROVE PcInv'
  BY <1>5 DEF Wait, WaitCall, WaitLock, WaitReap, WaitCopyoutFails,
         WaitNoKids, WaitNoZombie, WaitTestKilled, WaitSleep, SwitchAway,
         Freeproc, Children, Zombies, Syscall
<1>6. ASSUME NEW c \in Cpus, NEW s \in Slots, Sleep(c, s) PROVE PcInv'
  BY <1>6 DEF Sleep, TickCall, TickLock, TickCheck, TickSleep, SwitchAway,
         Syscall
<1>7. ASSUME NEW c \in Cpus, NEW s \in Slots, Kills(c, s) PROVE PcInv'
  BY <1>7 DEF Kills, Kill, Syscall
<1>8. CASE ClockIntr
  BY <1>8 DEF ClockIntr, CanWake, Woken
<1> QED
  BY <1>0, <1>1, <1>2, <1>3, <1>4, <1>5, <1>6, <1>7, <1>8 DEF Next

(* A sleeper stays on the channel of its own loop.                         *)
LEMMA ChanInvNext ==
  ASSUME IInv, [Next]_vars
  PROVE  ChanInv'
<1> USE ProcAssumption DEF ProcAssumption, IInv, TypeOK, PcInv, ChanInv, Exec,
       Running, Goto, procVars, cpuVars, spinVars, ProcStates, PCs, ForkPCs,
       ExitPCs, WaitPCs, TickPCs, HoldsWait, HoldsTicks, Preemptible, Slept,
       OnCpuOnly
<1>0. CASE UNCHANGED vars
  BY <1>0 DEF vars
<1>1. ASSUME NEW c \in Cpus, NEW s \in Slots, Pick(c, s) \/ Resume(c, s) \/
       Yield(c, s) PROVE ChanInv'
  BY <1>1 DEF Pick, Resume, ForkRet, YieldReturn, SleepReturn, Release, Yield,
         SwitchAway
<1>2. ASSUME NEW c \in Cpus, SchedReturn(c) PROVE ChanInv'
  BY <1>2 DEF SchedReturn
<1>3. ASSUME NEW c \in Cpus, NEW s \in Slots, Fork(c, s) PROVE ChanInv'
  BY <1>3 DEF Fork, ForkAlloc, ForkAllocFails, ForkCopied, ForkCopyFails,
         ForkParent, ForkRunnable, Freeproc, Syscall
<1>4. ASSUME NEW c \in Cpus, NEW s \in Slots, Exit(c, s) PROVE ChanInv'
  BY <1>4 DEF Exit, ExitCall, TrapKilled, ExitLock, ExitReparent, ExitWakeup,
         ExitZombie, SwitchAway, CanWake, Woken, Children, Syscall
<1>5. ASSUME NEW c \in Cpus, NEW s \in Slots, Wait(c, s) PROVE ChanInv'
  BY <1>5 DEF Wait, WaitCall, WaitLock, WaitReap, WaitCopyoutFails,
         WaitNoKids, WaitNoZombie, WaitTestKilled, WaitSleep, SwitchAway,
         Freeproc, Children, Zombies, Syscall
<1>6. ASSUME NEW c \in Cpus, NEW s \in Slots, Sleep(c, s) PROVE ChanInv'
  BY <1>6 DEF Sleep, TickCall, TickLock, TickCheck, TickSleep, SwitchAway,
         Syscall
<1>7. ASSUME NEW c \in Cpus, NEW s \in Slots, Kills(c, s) PROVE ChanInv'
  BY <1>7 DEF Kills, Kill, Syscall
<1>8. CASE ClockIntr
  BY <1>8 DEF ClockIntr, CanWake, Woken
<1> QED
  BY <1>0, <1>1, <1>2, <1>3, <1>4, <1>5, <1>6, <1>7, <1>8 DEF Next

(* wait_lock and tickslock are held exactly where the code is between      *)
(* acquire and release.                                                    *)
LEMMA SpinInvNext ==
  ASSUME IInv, [Next]_vars
  PROVE  SpinInv'
<1> USE ProcAssumption DEF ProcAssumption, IInv, TypeOK, PcInv, SpinInv,
       CpuInv, ForkInv, Exec, Running, Goto, procVars, cpuVars, spinVars,
       ProcStates, PCs, ForkPCs, ExitPCs, WaitPCs, TickPCs, HoldsWait,
       HoldsTicks, Preemptible, Slept, OnCpuOnly
<1>0. CASE UNCHANGED vars
  BY <1>0 DEF vars
<1>1. ASSUME NEW c \in Cpus, NEW s \in Slots, Pick(c, s) \/ Resume(c, s) \/
       Yield(c, s) PROVE SpinInv'
  BY <1>1 DEF Pick, Resume, ForkRet, YieldReturn, SleepReturn, Release, Yield,
         SwitchAway
<1>2. ASSUME NEW c \in Cpus, SchedReturn(c) PROVE SpinInv'
  BY <1>2 DEF SchedReturn
<1>3. ASSUME NEW c \in Cpus, NEW s \in Slots, Fork(c, s) PROVE SpinInv'
  <2>1. ASSUME NEW n \in Slots, ForkAlloc(c, s, n) PROVE SpinInv'
    BY <2>1 DEF ForkAlloc, Syscall
  <2>2. ASSUME NEW n \in Slots, ForkAllocFails(c, s, n) PROVE SpinInv'
    BY <2>2 DEF ForkAllocFails, Freeproc, Syscall
  <2>3. CASE ForkCopied(c, s)
    BY <2>3 DEF ForkCopied
  <2>4. CASE ForkCopyFails(c, s)
    BY <2>4 DEF ForkCopyFails, Freeproc
  <2>5. CASE ForkParent(c, s)
    BY <2>5 DEF ForkParent
  <2>6. CASE ForkRunnable(c, s)
    BY <2>6 DEF ForkRunnable
  <2> QED
    BY <1>3, <2>1, <2>2, <2>3, <2>4, <2>5, <2>6 DEF Fork
<1>4. ASSUME NEW c \in Cpus, NEW s \in Slots, Exit(c, s) PROVE SpinInv'
  BY <1>4 DEF Exit, ExitCall, TrapKilled, ExitLock, ExitReparent, ExitWakeup,
         ExitZombie, SwitchAway, CanWake, Woken, Children, Syscall
<1>5. ASSUME NEW c \in Cpus, NEW s \in Slots, Wait(c, s) PROVE SpinInv'
  BY <1>5 DEF Wait, WaitCall, WaitLock, WaitReap, WaitCopyoutFails,
         WaitNoKids, WaitNoZombie, WaitTestKilled, WaitSleep, SwitchAway,
         Freeproc, Children, Zombies, Syscall
<1>6. ASSUME NEW c \in Cpus, NEW s \in Slots, Sleep(c, s) PROVE SpinInv'
  BY <1>6 DEF Sleep, TickCall, TickLock, TickCheck, TickSleep, SwitchAway,
         Syscall
<1>7. ASSUME NEW c \in Cpus, NEW s \in Slots, Kills(c, s) PROVE SpinInv'
  BY <1>7 DEF Kills, Kill, Syscall
<1>8. CASE ClockIntr
  BY <1>8 DEF ClockIntr, CanWake, Woken
<1> QED
  BY <1>0, <1>1, <1>2, <1>3, <1>4, <1>5, <1>6, <1>7, <1>8 DEF Next

(* A slot under construction belongs to one fork().                        *)
LEMMA ForkInvNext ==
  ASSUME IInv, [Next]_vars
  PROVE  ForkInv'
<1> USE ProcAssumption DEF ProcAssumption, IInv, TypeOK, PcInv, ForkInv,
       ParentInv, CpuInv, Exec, Running, Goto, procVars, cpuVars, spinVars,
       ProcStates, PCs, ForkPCs, ExitPCs, WaitPCs, TickPCs, HoldsWait,
       HoldsTicks, Preemptible, Slept, OnCpuOnly
<1>0. CASE UNCHANGED vars
  BY <1>0 DEF vars
<1>1. ASSUME NEW c \in Cpus, NEW s \in Slots, Pick(c, s) \/ Resume(c, s) \/
       Yield(c, s) PROVE ForkInv'
  BY <1>1 DEF Pick, Resume, ForkRet, YieldReturn, SleepReturn, Release, Yield,
         SwitchAway
<1>2. ASSUME NEW c \in Cpus, SchedReturn(c) PROVE ForkInv'
  BY <1>2 DEF SchedReturn
<1>3. ASSUME NEW c \in Cpus, NEW s \in Slots, Fork(c, s) PROVE ForkInv'
  <2>1. ASSUME NEW n \in Slots, ForkAlloc(c, s, n) PROVE ForkInv'
    BY <2>1 DEF ForkAlloc, Syscall
  <2>2. ASSUME NEW n \in Slots, ForkAllocFails(c, s, n) PROVE ForkInv'
    BY <2>2 DEF ForkAllocFails, Freeproc, Syscall
  <2>3. CASE ForkCopied(c, s)
    BY <2>3 DEF ForkCopied
  <2>4. CASE ForkCopyFails(c, s)
    BY <2>4 DEF ForkCopyFails, Freeproc
  <2>5. CASE ForkParent(c, s)
    BY <2>5 DEF ForkParent
  <2>6. CASE ForkRunnable(c, s)
    BY <2>6 DEF ForkRunnable
  <2> QED
    BY <1>3, <2>1, <2>2, <2>3, <2>4, <2>5, <2>6 DEF Fork
<1>4. ASSUME NEW c \in Cpus, NEW s \in Slots, Exit(c, s) PROVE ForkInv'
  BY <1>4 DEF Exit, ExitCall, TrapKilled, ExitLock, ExitReparent, ExitWakeup,
         ExitZombie, SwitchAway, CanWake, Woken, Children, Syscall
<1>5. ASSUME NEW c \in Cpus, NEW s \in Slots, Wait(c, s) PROVE ForkInv'
  BY <1>5 DEF Wait, WaitCall, WaitLock, WaitReap, WaitCopyoutFails,
         WaitNoKids, WaitNoZombie, WaitTestKilled, WaitSleep, SwitchAway,
         Freeproc, Children, Zombies, Syscall
<1>6. ASSUME NEW c \in Cpus, NEW s \in Slots, Sleep(c, s) PROVE ForkInv'
  BY <1>6 DEF Sleep, TickCall, TickLock, TickCheck, TickSleep, SwitchAway,
         Syscall
<1>7. ASSUME NEW c \in Cpus, NEW s \in Slots, Kills(c, s) PROVE ForkInv'
  BY <1>7 DEF Kills, Kill, Syscall
<1>8. CASE ClockIntr
  BY <1>8 DEF ClockIntr, CanWake, Woken
<1> QED
  BY <1>0, <1>1, <1>2, <1>3, <1>4, <1>5, <1>6, <1>7, <1>8 DEF Next

(* No parent pointer is left behind by exit().                             *)
LEMMA ParentInvNext ==
  ASSUME IInv, [Next]_vars
  PROVE  ParentInv'
<1> USE ProcAssumption DEF ProcAssumption, IInv, TypeOK, PcInv, ForkInv,
       ParentInv, CpuInv, SpinInv, Exec, Running, Goto, procVars, cpuVars,
       spinVars, ProcStates, PCs, ForkPCs, ExitPCs, WaitPCs, TickPCs,
       HoldsWait, HoldsTicks, Preemptible, Slept, OnCpuOnly
<1>0. CASE UNCHANGED vars
  BY <1>0 DEF vars
<1>1. ASSUME NEW c \in Cpus, NEW s \in Slots, Pick(c, s) \/ Resume(c, s) \/
       Yield(c, s) PROVE ParentInv'
  BY <1>1 DEF Pick, Resume, ForkRet, YieldReturn, SleepReturn, Release, Yield,
         SwitchAway
<1>2. ASSUME NEW c \in Cpus, SchedReturn(c) PROVE ParentInv'
  BY <1>2 DEF SchedReturn
<1>3. ASSUME NEW c \in Cpus, NEW s \in Slots, Fork(c, s) PROVE ParentInv'
  <2>1. ASSUME NEW n \in Slots, ForkAlloc(c, s, n) PROVE ParentInv'
    BY <2>1 DEF ForkAlloc, Syscall
  <2>2. ASSUME NEW n \in Slots, ForkAllocFails(c, s, n) PROVE ParentInv'
    BY <2>2 DEF ForkAllocFails, Freeproc, Syscall
  <2>3. CASE ForkCopied(c, s)
    BY <2>3 DEF ForkCopied
  <2>4. CASE ForkCopyFails(c, s)
    BY <2>4 DEF ForkCopyFails, Freeproc
  <2>5. CASE ForkParent(c, s)
    BY <2>5 DEF ForkParent
  <2>6. CASE ForkRunnable(c, s)
    BY <2>6 DEF ForkRunnable
  <2> QED
    BY <1>3, <2>1, <2>2, <2>3, <2>4, <2>5, <2>6 DEF Fork
<1>4. ASSUME NEW c \in Cpus, NEW s \in Slots, Exit(c, s) PROVE ParentInv'
  BY <1>4 DEF Exit, ExitCall, TrapKilled, ExitLock, ExitReparent, ExitWakeup,
         ExitZombie, SwitchAway, CanWake, Woken, Children, Syscall
<1>5. ASSUME NEW c \in Cpus, NEW s \in Slots, Wait(c, s) PROVE ParentInv'
  BY <1>5 DEF Wait, WaitCall, WaitLock, WaitReap, WaitCopyoutFails,
         WaitNoKids, WaitNoZombie, WaitTestKilled, WaitSleep, SwitchAway,
         Freeproc, Children, Zombies, Syscall
<1>6. ASSUME NEW c \in Cpus, NEW s \in Slots, Sleep(c, s) PROVE ParentInv'
  BY <1>6 DEF Sleep, TickCall, TickLock, TickCheck, TickSleep, SwitchAway,
         Syscall
<1>7. ASSUME NEW c \in Cpus, NEW s \in Slots, Kills(c, s) PROVE ParentInv'
  BY <1>7 DEF Kills, Kill, Syscall
<1>8. CASE ClockIntr
  BY <1>8 DEF ClockIntr, CanWake, Woken
<1> QED
  BY <1>0, <1>1, <1>2, <1>3, <1>4, <1>5, <1>6, <1>7, <1>8 DEF Next

(* Neither scan-then-sleep in wait() nor wakeup-then-ZOMBIE in exit()      *)
(* loses an exit.                                                          *)
LEMMA ExitInvNext ==
  ASSUME IInv, [Next]_vars
  PROVE  ExitInv'
<1> USE ProcAssumption DEF ProcAssumption, IInv, TypeOK, PcInv, ForkInv,
       ParentInv, CpuInv, SpinInv, ExitInv, ChanInv, Exec, Running, Goto,
       procVars, cpuVars, spinVars, ProcStates, PCs, ForkPCs, ExitPCs,
       WaitPCs, TickPCs, HoldsWait, HoldsTicks, Preemptible, Slept, OnCpuOnly
<1>0. CASE UNCHANGED vars
  BY <1>0 DEF vars
<1>1. ASSUME NEW c \in Cpus, NEW s \in Slots, Pick(c, s) \/ Resume(c, s) \/
       Yield(c, s) PROVE ExitInv'
  BY <1>1 DEF Pick, Resume, ForkRet, YieldReturn, SleepReturn, Release, Yield,
         SwitchAway
<1>2. ASSUME NEW c \in Cpus, SchedReturn(c) PROVE ExitInv'
  BY <1>2 DEF SchedReturn
<1>3. ASSUME NEW c \in Cpus, NEW s \in Slots, Fork(c, s) PROVE ExitInv'
  BY <1>3 DEF Fork, ForkAlloc, ForkAllocFails, ForkCopied, ForkCopyFails,
         ForkParent, ForkRunnable, Freeproc, Syscall
<1>4. ASSUME NEW c \in Cpus, NEW s \in Slots, Exit(c, s) PROVE ExitInv'
  BY <1>4 DEF Exit, ExitCall, TrapKilled, ExitLock, ExitReparent, ExitWakeup,
         ExitZombie, SwitchAway, CanWake, Woken, Children, Syscall
<1>5. ASSUME NEW c \in Cpus, NEW s \in Slots, Wait(c, s) PROVE ExitInv'
  BY <1>5 DEF Wait, WaitCall, WaitLock, WaitReap, WaitCopyoutFails,
         WaitNoKids, WaitNoZombie, WaitTestKilled, WaitSleep, SwitchAway,
         Freeproc, Children, Zombies, Syscall
<1>6. ASSUME NEW c \in Cpus, NEW s \in Slots, Sleep(c, s) PROVE ExitInv'
  BY <1>6 DEF Sleep, TickCall, TickLock, TickCheck, TickSleep, SwitchAway,
         Syscall
<1>7. ASSUME NEW c \in Cpus, NEW s \in Slots, Kills(c, s) PROVE ExitInv'
  BY <1>7 DEF Kills, Kill, Syscall
<1>8. CASE ClockIntr
  BY <1>8 DEF ClockIntr, CanWake, Woken
<1> QED
  BY <1>0, <1>1, <1>2, <1>3, <1>4, <1>5, <1>6, <1>7, <1>8 DEF Next

(* Pids in use stay different.                                             *)
LEMMA PidInvNext ==
  ASSUME IInv, [Next]_vars
  PROVE  PidInv'
<1> USE ProcAssumption DEF ProcAssumption, IInv, TypeOK, PcInv, ForkInv,
       PidInv, PidsUnique, Exec, Running, Goto, procVars, cpuVars, spinVars,
       ProcStates, PCs, ForkPCs, ExitPCs, WaitPCs, TickPCs, HoldsWait,
       HoldsTicks, Preemptible, Slept, OnCpuOnly
<1>0. CASE UNCHANGED vars
  BY <1>0 DEF vars
<1>1. ASSUME NEW c \in Cpus, NEW s \in Slots, Pick(c, s) \/ Resume(c, s) \/
       Yield(c, s) PROVE PidInv'
  BY <1>1 DEF Pick, Resume, ForkRet, YieldReturn, SleepReturn, Release, Yield,
         SwitchAway
<1>2. ASSUME NEW c \in Cpus, SchedReturn(c) PROVE PidInv'
  BY <1>2 DEF SchedReturn
<1>3. ASSUME NEW c \in Cpus, NEW s \in Slots, Fork(c, s) PROVE PidInv'
  <2>1. ASSUME NEW n \in Slots, ForkAlloc(c, s, n) PROVE PidInv'
    BY <2>1 DEF ForkAlloc, Allocpid, Syscall
  <2>2. ASSUME NEW n \in Slots, ForkAllocFails(c, s, n) PROVE PidInv'
    BY <2>2 DEF ForkAllocFails, Allocpid, Freeproc, Syscall
  <2>3. CASE ForkCopied(c, s)
    BY <2>3 DEF ForkCopied
  <2>4. CASE ForkCopyFails(c, s)
    BY <2>4 DEF ForkCopyFails, Freeproc
  <2>5. CASE ForkParent(c, s)
    BY <2>5 DEF ForkParent
  <2>6. CASE ForkRunnable(c, s)
    BY <2>6 DEF ForkRunnable
  <2> QED
    BY <1>3, <2>1, <2>2, <2>3, <2>4, <2>5, <2>6 DEF Fork
<1>4. ASSUME NEW c \in Cpus, NEW s \in Slots, Exit(c, s) PROVE PidInv'
  <2>1. CASE ExitCall(c, s) \/ TrapKilled(c, s) \/ ExitLock(c, s)
    BY <2>1 DEF ExitCall, TrapKilled, ExitLock, Syscall
  <2>2. CASE ExitReparent(c, s)
    BY <2>2 DEF ExitReparent, CanWake, Woken, Children
  <2>3. CASE ExitWakeup(c, s)
    BY <2>3 DEF ExitWakeup, CanWake, Woken
  <2>4. CASE ExitZombie(c, s)
    BY <2>4 DEF ExitZombie, SwitchAway
  <2> QED
    BY <1>4, <2>1, <2>2, <2>3, <2>4 DEF Exit
<1>5. ASSUME NEW c \in Cpus, NEW s \in Slots, Wait(c, s) PROVE PidInv'
  <2>1. CASE WaitCall(c, s) \/ WaitLock(c, s)
    BY <2>1 DEF WaitCall, WaitLock, Syscall
  <2>2. ASSUME NEW q \in Slots, WaitReap(c, s, q) PROVE PidInv'
    BY <2>2 DEF WaitReap, Freeproc
  <2>3. ASSUME NEW q \in Slots, WaitCopyoutFails(c, s, q) PROVE PidInv'
    BY <2>3 DEF WaitCopyoutFails
  <2>4. CASE WaitNoKids(c, s) \/ WaitNoZombie(c, s)
    BY <2>4 DEF WaitNoKids, WaitNoZombie, Children, Zombies
  <2>5. CASE WaitTestKilled(c, s)
    BY <2>5 DEF WaitTestKilled
  <2>6. CASE WaitSleep(c, s)
    BY <2>6 DEF WaitSleep, SwitchAway
  <2> QED
    BY <1>5, <2>1, <2>2, <2>3, <2>4, <2>5, <2>6 DEF Wait
<1>6. ASSUME NEW c \in Cpus, NEW s \in Slots, Sleep(c, s) PROVE PidInv'
  <2>1. ASSUME NEW n \in SleepArgs, TickCall(c, s, n) PROVE PidInv'
    BY <2>1 DEF TickCall, Syscall
  <2>2. CASE TickLock(c, s)
    BY <2>2 DEF TickLock
  <2>3. CASE TickCheck(c, s)
    BY <2>3 DEF TickCheck
  <2>4. CASE TickSleep(c, s)
    BY <2>4 DEF TickSleep, SwitchAway
  <2> QED
    BY <1>6, <2>1, <2>2, <2>3, <2>4 DEF Sleep
<1>7. ASSUME NEW c \in Cpus, NEW s \in Slots, Kills(c, s) PROVE PidInv'
  BY <1>7 DEF Kills, Kill, Syscall
<1>8. CASE ClockIntr
  BY <1>8 DEF ClockIntr, CanWake, Woken
<1> QED
  BY <1>0, <1>1, <1>2, <1>3, <1>4, <1>5, <1>6, <1>7, <1>8 DEF Next

(* Only a tick shortens the wait, and it wakes every sleeper of sys_sleep. *)
LEMMA TickInvNext ==
  ASSUME IInv, [Next]_vars
  PROVE  TickInv'
<1> USE ProcAssumption DEF ProcAssumption, IInv, TypeOK, PcInv, ChanInv,
       SpinInv, TickInv, ForkInv, CpuInv, Exec, Running, Goto, procVars,
       cpuVars, spinVars, HoldsTicks, Slept, OnCpuOnly
<1>0. CASE UNCHANGED vars
  BY <1>0 DEF vars
<1>1. ASSUME NEW c \in Cpus, NEW s \in Slots, Pick(c, s) \/ Resume(c, s) \/
       Yield(c, s) PROVE TickInv'
  BY <1>1 DEF Pick, Resume, ForkRet, YieldReturn, SleepReturn, Release, Yield,
         SwitchAway
<1>2. ASSUME NEW c \in Cpus, SchedReturn(c) PROVE TickInv'
  BY <1>2 DEF SchedReturn
<1>3. ASSUME NEW c \in Cpus, NEW s \in Slots, Fork(c, s) PROVE TickInv'
  BY <1>3 DEF Fork, ForkAlloc, ForkAllocFails, ForkCopied, ForkCopyFails,
         ForkParent, ForkRunnable, Freeproc, Syscall
<1>4. ASSUME NEW c \in Cpus, NEW s \in Slots, Exit(c, s) PROVE TickInv'
  BY <1>4 DEF Exit, ExitCall, TrapKilled, ExitLock, ExitReparent, ExitWakeup,
         ExitZombie, SwitchAway, CanWake, Woken, Children, Syscall
<1>5. ASSUME NEW c \in Cpus, NEW s \in Slots, Wait(c, s) PROVE TickInv'
  BY <1>5 DEF Wait, WaitCall, WaitLock, WaitReap, WaitCopyoutFails,
         WaitNoKids, WaitNoZombie, WaitTestKilled, WaitSleep, SwitchAway,
         Freeproc, Children, Zombies, Syscall
<1>6. ASSUME NEW c \in Cpus, NEW s \in Slots, Sleep(c, s) PROVE TickInv'
  <2>1. ASSUME NEW n \in SleepArgs, TickCall(c, s, n) PROVE TickInv'
    BY <2>1 DEF TickCall, Syscall
  <2>2. CASE TickLock(c, s)
    BY <2>2 DEF TickLock
  <2>3. CASE TickCheck(c, s)
    BY <2>3 DEF TickCheck
  <2>4. CASE TickSleep(c, s)
    BY <2>4 DEF TickSleep, SwitchAway
  <2> QED
    BY <1>6, <2>1, <2>2, <2>3, <2>4 DEF Sleep
<1>7. ASSUME NEW c \in Cpus, NEW s \in Slots, Kills(c, s) PROVE TickInv'
  BY <1>7 DEF Kills, Kill, Syscall
<1>8. CASE ClockIntr
  BY <1>8 DEF ClockIntr, Elapsed, CanWake, Woken
<1> QED
  BY <1>0, <1>1, <1>2, <1>3, <1>4, <1>5, <1>6, <1>7, <1>8 DEF Next

-----------------------------------------------------------------------------
(* IInv is an invariant of the process table.                              *)
THEOREM Invariance == Spec => []IInv
<1>1. IInv /\ [Next]_vars => IInv'
  BY TypeOKNext, CpuInvNext, LockInvNext, PcInvNext, ChanInvNext, SpinInvNext,
     ForkInvNext, ParentInvNext, ExitInvNext, PidInvNext, TickInvNext
     DEF IInv
<1> QED
  BY <1>1, IInvInit, PTL DEF Spec

(* Every variable keeps its type.                                          *)
THEOREM TypeCorrect == Spec => []TypeOK
<1>1. IInv => TypeOK
  BY DEF IInv
<1> QED
  BY <1>1, Invariance, PTL

(* No kernel stack is executed by two CPUs, nor reused while a CPU is on   *)
(* it or leaving it.                                                       *)
THEOREM StackSafety == Spec => []StackSafe
<1>1. IInv => StackSafe
  BY DEF IInv, TypeOK, CpuInv, LockInv, StackSafe
<1> QED
  BY <1>1, Invariance, PTL

(* A parent asleep in wait() has no ZOMBIE child.                          *)
THEOREM ExitsAreNoticed == Spec => []NoLostExit
<1>1. IInv => NoLostExit
  BY ProcAssumption DEF ProcAssumption, IInv, TypeOK, PcInv, ChanInv, ExitInv,
     NoLostExit, Slept
<1> QED
  BY <1>1, Invariance, PTL

(* Nobody sleeps in sys_sleep() past the end of his wait.                  *)
THEOREM TicksAreNoticed == Spec => []NoMissedTick
<1>1. IInv => NoMissedTick
  BY ProcAssumption DEF ProcAssumption, IInv, TypeOK, PcInv, ChanInv, TickInv,
     NoMissedTick, Slept
<1> QED
  BY <1>1, Invariance, PTL

(* No process is orphaned: its parent is alive and can still reap it.      *)
THEOREM NoOrphans == Spec => []ParentAlive
<1>1. IInv => ParentAlive
  BY ProcAssumption DEF ProcAssumption, IInv, TypeOK, PcInv, ParentInv,
     ParentAlive
<1> QED
  BY <1>1, Invariance, PTL

(* Two processes never share a pid.                                        *)
THEOREM UniquePids == Spec => []PidsUnique
<1>1. IInv => PidsUnique
  BY DEF IInv, PidInv
<1> QED
  BY <1>1, Invariance, PTL

-----------------------------------------------------------------------------
(* A kill is missed only if it comes between the killed() test of a        *)
(* process and its sleep(), on any number of CPUs: all other sleepers are  *)
(* woken, and who has been killed does not pass the test.                  *)
THEOREM KillsAreNoticed == Spec => KillNoticed
<1> DEFINE Seen(s) == Missed(s)' => Missed(s) \/ (pc[s] \in BeforeSleep /\ ~killed[s])
<1>1. ASSUME IInv, [Next]_vars, NEW s \in Slots PROVE Seen(s)
  <2> USE <1>1, ProcAssumption DEF ProcAssumption, IInv, TypeOK, CpuInv, PcInv, ForkInv, Exec,
          Running, Goto, procVars, cpuVars, spinVars, Missed, BeforeSleep, ForkPCs,
          OnCpuOnly, Slept, ProcStates
  <2>0. CASE UNCHANGED vars
    BY <2>0 DEF vars
  <2>1. ASSUME NEW c \in Cpus, NEW q \in Slots, Pick(c, q) \/ Resume(c, q) PROVE Seen(s)
    BY <2>1 DEF Pick, Resume, ForkRet, YieldReturn, SleepReturn, Release
  <2>9. ASSUME NEW c \in Cpus, NEW q \in Slots, Yield(c, q) PROVE Seen(s)
    BY <2>9 DEF Yield, SwitchAway
  <2>2. ASSUME NEW c \in Cpus, SchedReturn(c) PROVE Seen(s)
    BY <2>2 DEF SchedReturn
  <2>3. ASSUME NEW c \in Cpus, NEW q \in Slots, Fork(c, q) PROVE Seen(s)
    BY <2>3 DEF Fork, ForkAlloc, ForkAllocFails, ForkCopied, ForkCopyFails,
           ForkParent, ForkRunnable, Freeproc, Syscall
  <2>4. ASSUME NEW c \in Cpus, NEW q \in Slots, Exit(c, q) PROVE Seen(s)
    BY <2>4 DEF Exit, ExitCall, TrapKilled, ExitLock, ExitReparent, ExitWakeup,
           ExitZombie, SwitchAway, Woken, Children, Syscall
  <2>5. ASSUME NEW c \in Cpus, NEW q \in Slots, Wait(c, q) PROVE Seen(s)
    BY <2>5 DEF Wait, WaitCall, WaitLock, WaitReap, WaitCopyoutFails, WaitNoKids,
           WaitNoZombie, WaitTestKilled, WaitSleep, SwitchAway, Freeproc, Syscall
  <2>6. ASSUME NEW c \in Cpus, NEW q \in Slots, Sleep(c, q) PROVE Seen(s)
    BY <2>6 DEF Sleep, TickCall, TickLock, TickCheck, TickSleep, SwitchAway, Syscall
  <2>7. ASSUME NEW c \in Cpus, NEW q \in Slots, Kills(c, q) PROVE Seen(s)
    BY <2>7 DEF Kills, Kill, Syscall
  <2>8. CASE ClockIntr
    BY <2>8 DEF ClockIntr, Woken
  <2> HIDE DEF Seen, IInv, TypeOK, CpuInv, PcInv, ForkInv
  <2>10. CASE Next
    BY <2>10, <2>1, <2>2, <2>3, <2>4, <2>5, <2>6, <2>7, <2>8, <2>9, Zenon DEF Next
  <2> QED
    BY <2>0, <2>10
<1>2. IInv /\ [Next]_vars => [\A s \in Slots : Seen(s)]_vars
  BY <1>1, Zenon
<1> QED
  BY <1>2, Invariance, PTL DEF Spec, KillNoticed

-----------------------------------------------------------------------------
(* The refinement of ProcLife                                              *)

Alive == {"SLEEPING", "RUNNABLE", "RUNNING"}

(* Nothing that ProcLife speaks of changes: processes go to sleep, wake    *)
(* up, run and lose their CPU.                                             *)
Quiet ==
    /\ UNCHANGED <<pid, parent, nextpid>>
    /\ state' \in [Slots -> ProcStates]
    /\ \A s \in Slots : state'[s] = state[s] \/ {state[s], state'[s]} \subseteq Alive

(* What the refinement needs beyond IInv: the pid of init, and the bound   *)
(* of allocpid().                                                          *)
LifeInv ==
    /\ IInv
    /\ pid[initproc] = 1
    /\ \A s \in Slots : state[s] = "USED" => pid[s] <= MaxPid

(* Every step is Quiet or one of fork(), exit() or wait() that is not.     *)
LEMMA QuietOrNot ==
  ASSUME IInv, [Next]_vars
  PROVE  \/ Quiet
         \/ \E c \in Cpus, s \in Slots :
               \/ \E n \in Slots : ForkAlloc(c, s, n) \/ ForkAllocFails(c, s, n)
                                   \/ WaitReap(c, s, n)
               \/ ForkCopyFails(c, s) \/ ForkParent(c, s) \/ ForkRunnable(c, s)
               \/ ExitReparent(c, s) \/ ExitZombie(c, s)
<1> USE DEF IInv, TypeOK, CpuInv, ProcStates, procVars, cpuVars, spinVars, Quiet, Alive
<1>0. CASE UNCHANGED vars
  BY <1>0 DEF vars
<1>1. ASSUME NEW c \in Cpus, NEW s \in Slots, Pick(c, s) \/ Resume(c, s)
      PROVE  Quiet
  BY <1>1 DEF Pick, Resume, ForkRet, YieldReturn, SleepReturn, Release
<1>2. ASSUME NEW c \in Cpus, SchedReturn(c) PROVE Quiet
  BY <1>2 DEF SchedReturn
<1>3. ASSUME NEW c \in Cpus, NEW s \in Slots, Running(c, s),
             NEW new \in {"RUNNABLE", "SLEEPING"}, SwitchAway(c, s, new),
             UNCHANGED <<pid, parent, nextpid>>
      PROVE  Quiet
  BY <1>3 DEF SwitchAway, Running
<1>4. ASSUME NEW c \in Cpus, NEW s \in Slots, Yield(c, s) PROVE Quiet
  BY <1>3, <1>4 DEF Yield, Exec
<1>5. ASSUME NEW c \in Cpus, NEW s \in Slots, ForkCopied(c, s) PROVE Quiet
  BY <1>5 DEF ForkCopied
<1>6. ASSUME NEW c \in Cpus, NEW s \in Slots,
             \/ ExitCall(c, s) \/ TrapKilled(c, s) \/ ExitLock(c, s) \/ ExitWakeup(c, s)
      PROVE  Quiet
  BY <1>6 DEF ExitCall, TrapKilled, ExitLock, ExitWakeup, Woken
<1>7. ASSUME NEW c \in Cpus, NEW s \in Slots,
             \/ WaitCall(c, s) \/ WaitLock(c, s) \/ WaitNoKids(c, s) \/ WaitNoZombie(c, s)
             \/ WaitTestKilled(c, s) \/ \E q \in Slots : WaitCopyoutFails(c, s, q)
      PROVE  Quiet
  BY <1>7 DEF WaitCall, WaitLock, WaitNoKids, WaitNoZombie, WaitTestKilled,
     WaitCopyoutFails
<1>8. ASSUME NEW c \in Cpus, NEW s \in Slots, WaitSleep(c, s) \/ TickSleep(c, s)
      PROVE  Quiet
  BY <1>3, <1>8 DEF WaitSleep, TickSleep, Exec
<1>9. ASSUME NEW c \in Cpus, NEW s \in Slots,
             \/ TickLock(c, s) \/ TickCheck(c, s) \/ \E n \in SleepArgs : TickCall(c, s, n)
      PROVE  Quiet
  BY <1>9 DEF TickLock, TickCheck, TickCall
<1>10. ASSUME NEW c \in Cpus, NEW s \in Slots, Kills(c, s) PROVE Quiet
  BY <1>10 DEF Kills, Kill
<1>11. CASE ClockIntr
  BY <1>11 DEF ClockIntr, Woken
<1> HIDE DEF Quiet, IInv
<1> QED
  BY <1>0, <1>1, <1>2, <1>4, <1>5, <1>6, <1>7, <1>8, <1>9, <1>10, <1>11, Zenon
     DEF Next, Fork, Exit, Wait, Sleep

(* Steps that stutter.                                                     *)
LEMMA QuietStutters ==
  ASSUME Quiet
  PROVE  UNCHANGED Life!lifeVars
<1>1. Living' = Living /\ Zombies' = Zombies /\ Built' = Built
  BY DEF Quiet, Alive, Living, Zombies, Built
<1>2. UsedPids' = UsedPids /\ LivingPids' = LivingPids /\ ZombiePids' = ZombiePids
  BY <1>1 DEF Quiet, UsedPids, LivingPids, ZombiePids
<1>3. Family' = Family
  BY <1>1 DEF Quiet, Family
<1> QED
  BY <1>2, <1>3 DEF Life!lifeVars

(* LifeInv is inductive.                                                   *)
LEMMA LifeInvNext == LifeInv /\ [Next]_vars => LifeInv'
<1> SUFFICES ASSUME LifeInv, [Next]_vars PROVE LifeInv'
  OBVIOUS
<1>1. IInv'
  BY TypeOKNext, CpuInvNext, LockInvNext, PcInvNext, ChanInvNext, SpinInvNext,
     ForkInvNext, ParentInvNext, ExitInvNext, PidInvNext, TickInvNext
     DEF IInv, LifeInv
<1>2. state[initproc] \notin {"UNUSED", "USED", "ZOMBIE"}
  BY ProcAssumption DEF ProcAssumption, LifeInv, IInv, ParentInv, PcInv, ExitPCs
<1> DEFINE Rest == pid'[initproc] = 1
                   /\ \A s \in Slots : state'[s] = "USED" => pid'[s] <= MaxPid
<1> USE ProcAssumption DEF ProcAssumption, LifeInv, IInv, TypeOK, PcInv, ForkInv, PidInv,
        procVars
<1>3. ASSUME Quiet PROVE Rest
  BY <1>2, <1>3 DEF Quiet, Alive
<1>4. ASSUME NEW c \in Cpus, NEW s \in Slots, NEW n \in Slots, ForkAlloc(c, s, n)
      PROVE  Rest
  BY <1>2, <1>4 DEF ForkAlloc
<1>5. ASSUME NEW c \in Cpus, NEW s \in Slots, NEW n \in Slots, ForkAllocFails(c, s, n)
      PROVE  Rest
  BY <1>2, <1>5 DEF ForkAllocFails, Freeproc
<1>6. ASSUME NEW c \in Cpus, NEW s \in Slots, NEW n \in Slots, WaitReap(c, s, n)
      PROVE  Rest
  BY <1>2, <1>6 DEF WaitReap, Freeproc
<1>7. ASSUME NEW c \in Cpus, NEW s \in Slots, ForkCopyFails(c, s) PROVE Rest
  BY <1>2, <1>7 DEF ForkCopyFails, Freeproc, Exec, ForkPCs
<1>8. ASSUME NEW c \in Cpus, NEW s \in Slots, ForkParent(c, s) \/ ForkRunnable(c, s)
      PROVE  Rest
  BY <1>8 DEF ForkParent, ForkRunnable
<1>9. ASSUME NEW c \in Cpus, NEW s \in Slots, ExitReparent(c, s) \/ ExitZombie(c, s)
      PROVE  Rest
  BY <1>9 DEF ExitReparent, ExitZombie, SwitchAway, Woken
<1>10. Rest
  <2> HIDE DEF Rest
  <2>1. Quiet => Rest
    BY <1>3 DEF Rest
  <2>2. IInv
    OBVIOUS
  <2> HIDE DEF LifeInv, IInv, PcInv, ForkInv, PidInv, TypeOK
  <2> QED
    BY <2>1, <2>2, <1>4, <1>5, <1>6, <1>7, <1>8, <1>9, QuietOrNot, Zenon
<1> QED
  BY <1>1, <1>10

(* The pids in use, and who holds them.                                    *)
LEMMA Pids ==
  ASSUME LifeInv
  PROVE  /\ nextpid \in Nat /\ nextpid >= 2
         /\ \A s \in Slots : state[s] # "UNUSED" => pid[s] \in 1..(nextpid - 1)
         /\ \A s, q \in Slots : state[s] # "UNUSED" /\ state[q] # "UNUSED" /\ s # q
                                   => pid[s] # pid[q]
         /\ initproc \in Living
         /\ \A q \in Slots : state[q] = "UNUSED" => parent[q] = NoProc
         /\ \A q \in Built : parent[q] # NoProc => parent[q] \in Living
<1> USE ProcAssumption DEF ProcAssumption, LifeInv, IInv, TypeOK, PidInv, PidsUnique,
        ParentInv, PcInv, ExitPCs, ProcStates
<1>1. state[initproc] \notin {"UNUSED", "USED", "ZOMBIE"}
  OBVIOUS
<1>2. \A q \in Slots : parent[q] # NoProc =>
         parent[q] \in Slots /\ state[parent[q]] \notin {"UNUSED", "USED", "ZOMBIE"}
  OBVIOUS
<1>3. nextpid >= 2
  BY <1>1
<1>4. initproc \in Living
  BY <1>1 DEF Living
<1>5. \A q \in Slots : parent[q] # NoProc => parent[q] \in Living
  BY <1>2 DEF Living
<1> QED
  BY <1>3, <1>4, <1>5 DEF Built

(* fork() takes a pid for a process that it still builds; it has no parent *)
(* until then.                                                             *)
LEMMA BuildStutters ==
  ASSUME LifeInv, NEW c \in Cpus, NEW s \in Slots,
         ForkParent(c, s) \/ \E n \in Slots : ForkAlloc(c, s, n)
  PROVE  UNCHANGED Life!lifeVars
<1>1. ASSUME NEW n \in Slots, ForkAlloc(c, s, n)
      PROVE  UNCHANGED Life!lifeVars
  <2>1. /\ state[n] = "UNUSED" /\ nextpid' = nextpid + 1
        /\ pid' = [pid EXCEPT ![n] = nextpid] /\ state' = [state EXCEPT ![n] = "USED"]
        /\ parent' = parent
    BY <1>1 DEF ForkAlloc, Allocpid
  <2> USE Pids DEF LifeInv, IInv, TypeOK
  <2>2. Living' = Living /\ Zombies' = Zombies /\ Built' = Built \ {n} /\ n \in Built
    BY <2>1 DEF Living, Zombies, Built
  <2>3. LivingPids' = LivingPids /\ ZombiePids' = ZombiePids
    BY <2>1, <2>2 DEF LivingPids, ZombiePids, Living, Zombies
  <2>4. UsedPids' = UsedPids
    <3> DEFINE U == {pid[q] : q \in Slots \ Built}
    <3>1. U' = U \cup {nextpid}
      BY <2>1, <2>2 DEF Built
    <3>2. 1..(nextpid' - 1) = (1..(nextpid - 1)) \cup {nextpid}
      BY <2>1
    <3>3. UsedPids' = (1..(nextpid' - 1)) \ U' /\ UsedPids = (1..(nextpid - 1)) \ U
      BY DEF UsedPids
    <3>4. nextpid \notin 1..(nextpid - 1)
      OBVIOUS
    <3> HIDE DEF U
    <3> QED
      BY <3>1, <3>2, <3>3, <3>4
  <2>5. Family' = Family
    <3> DEFINE K == {q \in Built : parent[q] # NoProc}
    <3>1. K' = K
      BY <2>1, <2>2
    <3>2. \A q \in K : pid'[q] = pid[q] /\ pid'[parent'[q]] = pid[parent[q]]
      BY <2>1 DEF Living, Built
    <3>3. /\ Family = {<<pid[parent[q]], pid[q]>> : q \in K}
          /\ Family' = {<<pid'[parent'[q]], pid'[q]>> : q \in K'}
      BY DEF Family
    <3> HIDE DEF K
    <3> QED
      BY <3>1, <3>2, <3>3
  <2> QED
    BY <2>3, <2>4, <2>5 DEF Life!lifeVars
<1>2. CASE ForkParent(c, s)
  <2>1. /\ UNCHANGED <<state, pid, nextpid>> /\ np[s] \in Slots \ Built
        /\ \A q \in Built : parent'[q] = parent[q]
    BY <1>2 DEF ForkParent, Exec, LifeInv, IInv, TypeOK, ForkInv, ForkPCs, Built
  <2>2. Living' = Living /\ Zombies' = Zombies /\ Built' = Built
    BY <2>1 DEF Living, Zombies, Built
  <2>3. UsedPids' = UsedPids /\ LivingPids' = LivingPids /\ ZombiePids' = ZombiePids
    BY <2>1, <2>2 DEF UsedPids, LivingPids, ZombiePids
  <2>4. Family' = Family
    BY <2>1, <2>2 DEF Family
  <2> QED
    BY <2>3, <2>4 DEF Life!lifeVars
<1> QED
  BY <1>1, <1>2

(* A fork() that fails has used a pid up.                                  *)
LEMMA FailureSimulates ==
  ASSUME LifeInv, NEW c \in Cpus, NEW s \in Slots,
         ForkCopyFails(c, s) \/ \E n \in Slots : ForkAllocFails(c, s, n)
  PROVE  \E x \in 1..MaxPid : Life!FailedFork(x)
<1> USE Pids DEF LifeInv, IInv, TypeOK
<1>1. ASSUME NEW n \in Slots, ForkAllocFails(c, s, n)
      PROVE  \E x \in 1..MaxPid : Life!FailedFork(x)
  <2>1. /\ state[n] = "UNUSED" /\ nextpid' = nextpid + 1 /\ nextpid < MaxPid
        /\ state' = state /\ pid' = pid /\ parent' = parent
    BY <1>1 DEF ForkAllocFails, Allocpid, Freeproc, PidInv
  <2>2. Living' = Living /\ Zombies' = Zombies /\ Built' = Built
    BY <2>1 DEF Living, Zombies, Built
  <2>3. LivingPids' = LivingPids /\ ZombiePids' = ZombiePids /\ Family' = Family
    BY <2>1, <2>2 DEF LivingPids, ZombiePids, Family
  <2>4. UsedPids' = UsedPids \cup {nextpid} /\ nextpid \notin UsedPids
    <3> DEFINE below == 1..(nextpid - 1)
               forked == {pid[q] : q \in Slots \ Built}
    <3>1. below' = below \cup {nextpid} /\ nextpid \notin below
      BY <2>1
    <3>2. nextpid \notin forked
      BY <2>1 DEF Built, PidInv
    <3>3. forked' = forked
      BY <2>1, <2>2
    <3>4. UsedPids = below \ forked /\ UsedPids' = below' \ forked'
      BY DEF UsedPids
    <3> HIDE DEF below, forked
    <3> QED
      BY <3>1, <3>2, <3>3, <3>4
  <2>5. nextpid \in 1..MaxPid
    BY <2>1, ProcAssumption DEF ProcAssumption
  <2> QED
    BY <2>3, <2>4, <2>5 DEF Life!FailedFork
<1>2. CASE ForkCopyFails(c, s)
  <2> DEFINE n == np[s]
             x == pid[n]
  <2>1. n \in Slots /\ state[n] = "USED" /\ parent[n] = NoProc /\ x \in 1..MaxPid
    BY <1>2, ProcAssumption DEF ProcAssumption, ForkCopyFails, Exec, ForkInv, ForkPCs
  <2>2. /\ state' = [state EXCEPT ![n] = "UNUSED"] /\ nextpid' = nextpid
        /\ pid' = [pid EXCEPT ![n] = 0] /\ parent' = parent
    BY <1>2, <2>1 DEF ForkCopyFails, Freeproc
  <2> HIDE DEF n
  <2>3. Living' = Living /\ Zombies' = Zombies /\ Built' = Built \cup {n} /\ n \notin Built
    BY <2>1, <2>2 DEF Living, Zombies, Built
  <2>4. LivingPids' = LivingPids /\ ZombiePids' = ZombiePids
    BY <2>1, <2>2, <2>3 DEF LivingPids, ZombiePids, Living, Zombies
  <2>5. UsedPids' = UsedPids \cup {x} /\ x \notin UsedPids
    <3>1. {pid[q] : q \in Slots \ Built}' = {pid[q] : q \in Slots \ Built} \ {x}
      BY <2>1, <2>2, <2>3 DEF Built
    <3>2. x \in {pid[q] : q \in Slots \ Built} /\ x \in 1..(nextpid - 1)
      BY <2>1 DEF Built
    <3> QED
      BY <3>1, <3>2, <2>2 DEF UsedPids
  <2>6. Family' = Family
    <3>1. {q \in Built : parent[q] # NoProc}' = {q \in Built : parent[q] # NoProc}
      BY <2>1, <2>2, <2>3
    <3>2. \A q \in Built : parent[q] # NoProc =>
             pid'[q] = pid[q] /\ pid'[parent[q]] = pid[parent[q]]
      BY <2>1, <2>2 DEF Living, Built
    <3> QED
      BY <3>1, <3>2, <2>2 DEF Family
  <2> QED
    BY <2>1, <2>4, <2>5, <2>6 DEF Life!FailedFork
<1> QED
  BY <1>1, <1>2

(* fork() is done: a new process, a child of the one that called it.       *)
LEMMA RunnableSimulates ==
  ASSUME LifeInv, NEW c \in Cpus, NEW s \in Slots, ForkRunnable(c, s)
  PROVE  \E x \in 1..MaxPid, p \in LivingPids : Life!Fork(p, x)
<1> USE Pids DEF LifeInv, IInv, TypeOK
<1> DEFINE n == np[s]
           x == pid[n]
<1>1. /\ n \in Slots /\ state[n] = "USED" /\ parent[n] = s /\ x \in 1..MaxPid
      /\ state[s] = "RUNNING" /\ n # s
  BY ProcAssumption
     DEF ProcAssumption, ForkRunnable, Exec, Running, ForkInv, ForkPCs, CpuInv
<1>2. /\ state' = [state EXCEPT ![n] = "RUNNABLE"] /\ nextpid' = nextpid
      /\ pid' = pid /\ parent' = parent
  BY DEF ForkRunnable
<1> HIDE DEF n
<1>3. /\ Living' = Living \cup {n} /\ Zombies' = Zombies
      /\ Built' = Built \cup {n} /\ n \notin Built /\ s \in Living
  BY <1>1, <1>2 DEF Living, Zombies, Built
<1>4. LivingPids' = LivingPids \cup {x} /\ pid[s] \in LivingPids /\ ZombiePids' = ZombiePids
  BY <1>2, <1>3 DEF LivingPids, ZombiePids
<1>5. UsedPids' = UsedPids \cup {x} /\ x \notin UsedPids
  <2>1. {pid[q] : q \in Slots \ Built}' = {pid[q] : q \in Slots \ Built} \ {x}
    BY <1>1, <1>2, <1>3 DEF Built
  <2>2. x \in {pid[q] : q \in Slots \ Built} /\ x \in 1..(nextpid - 1)
    BY <1>1 DEF Built
  <2> QED
    BY <2>1, <2>2, <1>2 DEF UsedPids
<1>6. Family' = Family \cup {<<pid[s], x>>}
  <2>1. {q \in Built : parent[q] # NoProc}' = {q \in Built : parent[q] # NoProc} \cup {n}
    BY <1>1, <1>2, <1>3, ProcAssumption DEF ProcAssumption
  <2> QED
    BY <2>1, <1>1, <1>2 DEF Family
<1> QED
  BY <1>1, <1>4, <1>5, <1>6 DEF Life!Fork

(* The process that exits: alive, not init, with a pid of its own.         *)
LEMMA Exiting ==
  ASSUME LifeInv, NEW c \in Cpus, NEW s \in Slots, Exec(c, s, ExitPCs)
  PROVE  /\ state[s] = "RUNNING" /\ s # initproc
         /\ pid[s] \in LivingPids \ {1}
         /\ \A q \in Slots : parent[q] # NoProc /\ q \in Built =>
               (pid[parent[q]] = pid[s] <=> parent[q] = s)
<1> USE Pids DEF LifeInv, IInv, TypeOK
<1>1. state[s] = "RUNNING" /\ s # initproc /\ s \in Living
  BY DEF Exec, Running, CpuInv, ParentInv, Living
<1>2. pid[s] \in LivingPids /\ pid[s] # 1
  BY <1>1, ProcAssumption DEF ProcAssumption, LivingPids, Living
<1>3. \A q \in Living : pid[q] = pid[s] <=> q = s
  BY <1>1 DEF Living
<1> QED
  BY <1>1, <1>2, <1>3

(* reparent() gives the children of a process that exits to init.          *)
LEMMA ReparentSimulates ==
  ASSUME LifeInv, NEW c \in Cpus, NEW s \in Slots, ExitReparent(c, s)
  PROVE  \E p \in LivingPids : Life!Disown(p)
<1> USE DEF LifeInv, IInv, TypeOK
<1>1. /\ pid[s] \in LivingPids \ {1}
      /\ \A q \in Slots : parent[q] # NoProc /\ q \in Built =>
            (pid[parent[q]] = pid[s] <=> parent[q] = s)
  BY Exiting DEF ExitReparent, Exec, ExitPCs
<1>2. /\ UNCHANGED <<pid, nextpid>>
      /\ parent' = [q \in Slots |-> IF parent[q] = s THEN initproc ELSE parent[q]]
      /\ state' \in [Slots -> ProcStates]
      /\ \A q \in Slots : state'[q] = state[q] \/ {state[q], state'[q]} \subseteq Alive
  BY DEF ExitReparent, Woken, Alive, ProcStates
<1>3. Living' = Living /\ Zombies' = Zombies /\ Built' = Built
  BY <1>2 DEF Alive, Living, Zombies, Built
<1>4. UsedPids' = UsedPids /\ LivingPids' = LivingPids /\ ZombiePids' = ZombiePids
  BY <1>2, <1>3 DEF UsedPids, LivingPids, ZombiePids
<1> DEFINE Kids == {q \in Built : parent[q] # NoProc}
<1>5. Kids' = Kids
  BY <1>2, <1>3, ProcAssumption DEF ProcAssumption, Built
<1>6. \A q \in Kids : pid'[parent'[q]] = IF pid[parent[q]] = pid[s] THEN 1
                                         ELSE pid[parent[q]]
  BY <1>1, <1>2 DEF Built
<1>7. Family' = {<<IF f[1] = pid[s] THEN 1 ELSE f[1], f[2]>> : f \in Family}
  <2> DEFINE Heir(f) == <<IF f[1] = pid[s] THEN 1 ELSE f[1], f[2]>>
             Kin(q)  == <<pid[parent[q]], pid[q]>>
  <2>1. Family = {Kin(q) : q \in Kids}
    BY DEF Family
  <2>2. Family' = {<<pid'[parent'[q]], pid'[q]>> : q \in Kids'}
    BY DEF Family
  <2> HIDE DEF Kids
  <2>3. \A q \in Kids : <<pid'[parent'[q]], pid'[q]>> = Heir(Kin(q))
    BY <1>2, <1>6
  <2>4. Family' = {Heir(Kin(q)) : q \in Kids}
    BY <2>2, <2>3, <1>5
  <2> HIDE DEF Heir, Kin
  <2>5. Family' = {Heir(f) : f \in Family}
    BY <2>1, <2>4
  <2> QED
    BY <2>5 DEF Heir
<1> QED
  BY <1>1, <1>4, <1>7 DEF Life!Disown

(* A process becomes a ZOMBIE, with no children left.                      *)
LEMMA ZombieSimulates ==
  ASSUME LifeInv, NEW c \in Cpus, NEW s \in Slots, ExitZombie(c, s)
  PROVE  \E p \in LivingPids : Life!Exit(p)
<1> USE DEF LifeInv, IInv, TypeOK
<1>1. /\ pid[s] \in LivingPids \ {1} /\ state[s] = "RUNNING"
      /\ \A q \in Slots : parent[q] # NoProc /\ q \in Built =>
            (pid[parent[q]] = pid[s] <=> parent[q] = s)
  BY Exiting DEF ExitZombie, Exec, ExitPCs
<1>2. UNCHANGED <<pid, parent, nextpid>> /\ state' = [state EXCEPT ![s] = "ZOMBIE"]
  BY DEF ExitZombie, SwitchAway
<1>3. /\ Living' = Living \ {s} /\ Zombies' = Zombies \cup {s} /\ Built' = Built
      /\ s \in Living
  BY <1>1, <1>2 DEF Living, Zombies, Built
<1>4. \A q \in Slots : parent[q] # s
  BY ProcAssumption DEF ProcAssumption, ParentInv, ExitZombie, Exec
<1>5. UsedPids' = UsedPids /\ Family' = Family
  BY <1>2, <1>3 DEF UsedPids, Family
<1>6. ZombiePids' = ZombiePids \cup {pid[s]}
  BY <1>2, <1>3 DEF ZombiePids
<1>7. LivingPids' = LivingPids \ {pid[s]}
  <2>1. \A q \in Living : pid[q] = pid[s] <=> q = s
    BY <1>3, Pids DEF Living
  <2> QED
    BY <2>1, <1>2, <1>3 DEF LivingPids
<1>8. \A f \in Family : f[1] # pid[s]
  <2> SUFFICES ASSUME NEW q \in Built, parent[q] # NoProc PROVE pid[parent[q]] # pid[s]
    BY DEF Family
  <2> QED
    BY <1>1, <1>4 DEF Built
<1> QED
  BY <1>1, <1>5, <1>6, <1>7, <1>8 DEF Life!Exit

(* wait() frees a ZOMBIE child.                                            *)
LEMMA ReapSimulates ==
  ASSUME LifeInv, NEW c \in Cpus, NEW s \in Slots, NEW n \in Slots, WaitReap(c, s, n)
  PROVE  \E p \in LivingPids, x \in ZombiePids : Life!Reap(p, x)
<1> USE Pids DEF LifeInv, IInv, TypeOK
<1> DEFINE x == pid[n]
<1>1. /\ state[n] = "ZOMBIE" /\ parent[n] = s /\ state[s] = "RUNNING" /\ s # n
      /\ s # NoProc
  BY ProcAssumption DEF ProcAssumption, WaitReap, Exec, Running, CpuInv
<1>2. /\ state' = [state EXCEPT ![n] = "UNUSED"] /\ nextpid' = nextpid
      /\ pid' = [pid EXCEPT ![n] = 0] /\ parent' = [parent EXCEPT ![n] = NoProc]
  BY DEF WaitReap, Freeproc
<1>3. /\ Living' = Living /\ Zombies' = Zombies \ {n} /\ Built' = Built
      /\ n \in Zombies /\ n \in Built /\ s \in Living
  BY <1>1, <1>2 DEF Living, Zombies, Built
<1>4. LivingPids' = LivingPids /\ pid[s] \in LivingPids
  BY <1>1, <1>2, <1>3 DEF LivingPids, Living
<1>5. ZombiePids' = ZombiePids \ {x} /\ x \in ZombiePids
  <2>1. \A q \in Zombies : pid[q] = x <=> q = n
    BY <1>1 DEF Zombies
  <2> QED
    BY <2>1, <1>2, <1>3 DEF ZombiePids, Zombies
<1>6. UsedPids' = UsedPids
  <2>1. {pid[q] : q \in Slots \ Built}' = {pid[q] : q \in Slots \ Built}
    BY <1>2, <1>3
  <2> QED
    BY <2>1, <1>2 DEF UsedPids
<1>7. Family' = Family \ {<<pid[s], x>>} /\ <<pid[s], x>> \in Family
  <2> DEFINE Kids == {q \in Built : parent[q] # NoProc}
  <2>1. Kids' = Kids \ {n} /\ n \in Kids
    BY <1>1, <1>2, <1>3 DEF Built
  <2>2. \A q \in Kids : q # n => pid[q] # x /\ pid'[q] = pid[q] /\ parent'[q] = parent[q]
    BY <1>1, <1>2 DEF Built
  <2>3. \A q \in Kids : q # n => pid'[parent[q]] = pid[parent[q]]
    BY <1>1, <1>2 DEF Living
  <2>4. Family = {<<pid[parent[q]], pid[q]>> : q \in Kids}
    BY DEF Family
  <2>5. Family' = {<<pid'[parent'[q]], pid'[q]>> : q \in Kids'}
    BY DEF Family
  <2> HIDE DEF Kids
  <2> QED
    BY <1>1, <2>1, <2>2, <2>3, <2>4, <2>5
<1> QED
  BY <1>4, <1>5, <1>6, <1>7 DEF Life!Reap

LEMMA LifeInit == Init => LifeInv /\ Life!Init
<1> SUFFICES ASSUME Init PROVE LifeInv /\ Life!Init
  OBVIOUS
<1>1. LifeInv
  BY IInvInit, ProcAssumption DEF ProcAssumption, LifeInv, Init
<1>2. Living = {initproc} /\ Zombies = {} /\ Built = Slots
  BY ProcAssumption DEF ProcAssumption, Init, Living, Zombies, Built
<1>3. LivingPids = {1} /\ ZombiePids = {} /\ Family = {}
  BY <1>2, ProcAssumption DEF ProcAssumption, Init, LivingPids, ZombiePids, Family
<1>4. UsedPids = {1}
  <2>1. 1..(nextpid - 1) = {1}
    BY DEF Init
  <2> QED
    BY <2>1, <1>2 DEF UsedPids
<1> QED
  BY <1>1, <1>3, <1>4 DEF Life!Init

LEMMA LifeStep == LifeInv /\ [Next]_vars => [Life!Next]_(Life!lifeVars)
<1> SUFFICES ASSUME LifeInv, [Next]_vars
             PROVE  Life!Next \/ UNCHANGED Life!lifeVars
  OBVIOUS
<1>1. IInv
  BY DEF LifeInv
<1>2. \A x \in 1..MaxPid : Life!FailedFork(x) => Life!Next
  BY DEF Life!Next
<1> QED
  BY <1>1, <1>2, QuietOrNot, QuietStutters, BuildStutters, FailureSimulates,
     RunnableSimulates, ReparentSimulates, ZombieSimulates, ReapSimulates, Zenon
     DEF Life!Next

(* fork(), exit() and wait() on any number of CPUs and slots: every pid is *)
(* used once, every process exits once and is reaped once, by the parent   *)
(* it had or by init, and has a parent alive until then.                   *)
THEOREM TableImplementsLife == Spec => LifeSpec
  BY LifeInit, LifeInvNext, LifeStep, PTL DEF Spec, LifeSpec, Life!Spec

-----------------------------------------------------------------------------
(* The multi-level feedback queue, for any number of processes and any     *)
(* boost period: slices end, on any number of CPUs, and with one CPU they  *)
(* are never longer than the queue allows.                                 *)

(* 1 << priority for the four queues.                                      *)
LEMMA FullSlices ==
  /\ \A q \in M!Queues : M!FullSlice(q) \in 1..8
  /\ M!FullSlice(0) = 1 /\ M!FullSlice(M!LowestQueue) = 8
  /\ \A q \in M!Queues : q + 1 \in M!Queues => M!FullSlice(q) <= M!FullSlice(q + 1)
<1>1. \A q \in M!Queues : q = 0 \/ q = 1 \/ q = 2 \/ q = 3
  BY DEF M!Queues, M!LowestQueue
<1>2. M!FullSlice(0) = 1 /\ M!FullSlice(1) = 2 /\ M!FullSlice(2) = 4 /\ M!FullSlice(3) = 8
  BY DEF M!FullSlice
<1> QED
  BY <1>1, <1>2 DEF M!Queues, M!LowestQueue

(* The invariant for any number of CPUs.                                   *)
AnyCpus == M!TypeOK /\ M!CpuInv /\ M!SpentInv

LEMMA AnyCpusInit == M!Init => AnyCpus
<1> SUFFICES ASSUME M!Init PROVE AnyCpus
  OBVIOUS
<1> USE MlfqAssumption, FullSlices DEF MlfqAssumption, M!MlfqAssumption, M!Init, M!Queues, M!LowestQueue
<1>1. M!TypeOK
  BY DEF M!TypeOK, M!Threads, M!Places
<1>2. M!CpuInv
  BY DEF M!CpuInv
<1>3. M!SpentInv
  BY DEF M!SpentInv
<1> QED
  BY <1>1, <1>2, <1>3 DEF AnyCpus

(* Slices, queues and counters stay in their ranges.                       *)
LEMMA TypeNext ==
  ASSUME AnyCpus, M!Next
  PROVE  M!TypeOK'
<1> USE MlfqAssumption DEF MlfqAssumption, M!MlfqAssumption, AnyCpus, M!TypeOK, M!Threads, M!Places,
        M!procVars, M!cpuVars
<1>0. /\ \A q \in M!Queues : M!FullSlice(q) \in 0..M!FullSlice(M!LowestQueue)
      /\ 1 \in 0..M!FullSlice(M!LowestQueue) /\ M!FullSlice(M!LowestQueue) = 8
      /\ 0 \in M!Queues /\ M!LowestQueue = 3
      /\ \A q \in M!Queues : q < M!LowestQueue => q + 1 \in M!Queues
  BY FullSlices DEF M!Queues, M!LowestQueue
<1>1. ASSUME NEW c \in Harts, M!Schedule(c) PROVE M!TypeOK'
  <2>1. CASE M!TestTicks(c)
    BY <1>0, <2>1 DEF M!TestTicks, M!Go
  <2>2. CASE M!Boost(c)
    BY <1>0, <2>2 DEF M!Boost, M!Go
  <2>3. CASE M!Found(c)
    BY <2>3 DEF M!Found, M!Ready, M!Go
  <2>4. CASE M!NextQueue(c)
    <3>1. queue[c] # M!LowestQueue => queue[c] < M!LowestQueue
      BY DEF M!Queues, M!LowestQueue
    <3> QED
      BY <1>0, <2>4, <3>1 DEF M!NextQueue, M!Go
  <2>5. CASE M!Dispatch(c)
    BY <2>5 DEF M!Dispatch, M!Go
  <2>6. CASE M!Settle(c)
    <3>1. to_run[c] \in Procs /\ time_slice[to_run[c]] >= 1
      BY <2>6 DEF M!Settle, M!CpuInv, M!SpentInv
    <3> DEFINE p == to_run[c]
               q == IF M!Spent(p) THEN M!NextQueueDown(p) ELSE priority[p]
    <3>2. q \in M!Queues
      BY <1>0, <3>1 DEF M!NextQueueDown
    <3>3. priority' = [priority EXCEPT ![p] = q]
      BY <2>6 DEF M!Settle
    <3>4. time_slice' = [time_slice EXCEPT ![p] = IF M!Spent(p) THEN M!FullSlice(q) ELSE @ - 1]
      BY <2>6 DEF M!Settle
    <3>5. /\ UNCHANGED <<st, thread, loaded, queue, ticks>>
          /\ to_run' = [to_run EXCEPT ![c] = Nobody]
          /\ at' = [at EXCEPT ![c] = "top"]
      BY <2>6 DEF M!Settle, M!Go
    <3> HIDE DEF p, q
    <3>6. (IF M!Spent(p) THEN M!FullSlice(q) ELSE time_slice[p] - 1)
            \in 0..M!FullSlice(M!LowestQueue)
      <4>1. p \in Procs /\ time_slice[p] >= 1
        BY <3>1 DEF p
      <4>3. time_slice[p] \in 0..8
        BY <1>0, <4>1
      <4>2. M!FullSlice(q) \in 0..8
        BY <1>0, <3>2
      <4> QED
        BY <1>0, <4>1, <4>2, <4>3
    <3> QED
      BY <3>2, <3>3, <3>4, <3>5, <3>6
  <2> QED
    BY <1>1, <2>1, <2>2, <2>3, <2>4, <2>5, <2>6 DEF M!Schedule
<1>2. ASSUME NEW c \in Harts, M!CountTick(c) PROVE ticks' \in 0..(BoostPeriod - 1)
  BY <1>2, SMT DEF M!CountTick
<1>3. ASSUME NEW c \in Harts, NEW p \in Procs, M!YieldFrom(c, p)
      PROVE  /\ st' \in [Procs -> {"UNUSED", "SLEEPING", "RUNNABLE", "RUNNING", "ZOMBIE"}]
             /\ time_slice' \in [Procs -> 0..M!FullSlice(M!LowestQueue)]
             /\ at' \in [Harts -> M!Places]
  BY <1>0, <1>3 DEF M!YieldFrom, M!Go
<1>4. ASSUME NEW c \in Harts, NEW p \in Procs,
             M!Timer(c, p) \/ M!Trap(c, p) \/ M!Syscall(c, p) \/ M!Block(c, p)
      PROVE  M!TypeOK'
  <2>1. CASE M!TimerInUser(c, p)
    BY <1>2, <2>1 DEF M!TimerInUser
  <2>2. CASE M!TimerInKernel(c, p)
    BY <1>2, <1>3, <2>2 DEF M!TimerInKernel
  <2>3. CASE M!SpendTick(c, p)
    <3>1. loaded[p] >= 1
      BY <2>3 DEF M!SpendTick, M!On, M!SpentInv
    <3>2. loaded[p] - 1 \in 0..M!FullSlice(M!LowestQueue)
      BY <3>1, <1>0
    <3> QED
      BY <1>0, <2>3, <3>2 DEF M!SpendTick
  <2>4. CASE M!YieldExpired(c, p)
    BY <1>3, <2>4 DEF M!YieldExpired
  <2>5. CASE M!YieldAtEnd(c, p)
    BY <1>3, <2>5 DEF M!YieldAtEnd
  <2>6. CASE M!Syscall(c, p)
    BY <2>6 DEF M!Syscall
  <2>7. CASE M!Block(c, p)
    BY <2>7 DEF M!Block, M!Go
  <2> QED
    BY <1>4, <2>1, <2>2, <2>3, <2>4, <2>5, <2>6, <2>7 DEF M!Timer, M!Trap
<1>5. ASSUME NEW p \in Procs, M!Wakeup(p) \/ M!Reap(p) \/ M!Born(p) PROVE M!TypeOK'
  BY <1>0, <1>5 DEF M!Wakeup, M!Reap, M!Born
<1>6. CASE M!IdleTick
  BY <1>2, <1>6 DEF M!IdleTick
<1> QED
  BY <1>1, <1>4, <1>5, <1>6 DEF M!Next

(* p->lock and the status in it keep a process on one CPU.                  *)
LEMMA CpuNext ==
  ASSUME AnyCpus, M!Next
  PROVE  M!CpuInv'
<1> USE MlfqAssumption DEF MlfqAssumption, M!MlfqAssumption, AnyCpus, M!TypeOK, M!CpuInv, M!Places, M!LockFree,
        M!procVars, M!cpuVars
<1>1. ASSUME NEW c \in Harts, M!Schedule(c) PROVE M!CpuInv'
  <2>1. CASE M!TestTicks(c)
    BY <2>1 DEF M!TestTicks, M!Go
  <2>2. CASE M!Boost(c)
    BY <2>2 DEF M!Boost, M!Go
  <2>3. CASE M!Found(c)
    BY <2>3 DEF M!Found, M!Ready, M!Go
  <2>4. CASE M!NextQueue(c)
    BY <2>4 DEF M!NextQueue, M!Go
  <2>5. CASE M!Dispatch(c)
    <3>1. CASE st[to_run[c]] = "RUNNABLE"
      <4>1. to_run[c] \in Procs /\ at[c] = "found"
        BY <2>5 DEF M!Dispatch
      <4>2. /\ st' = [st EXCEPT ![to_run[c]] = "RUNNING"]
            /\ at' = [at EXCEPT ![c] = "run"] /\ to_run' = to_run
        BY <2>5, <3>1 DEF M!Dispatch, M!Go
      <4>3. \A d \in Harts : at[d] \in {"run", "back"} => to_run[d] # to_run[c]
        BY <2>5, <3>1 DEF M!Dispatch
      <4> QED
        BY <4>1, <4>2, <4>3
    <3>2. CASE st[to_run[c]] # "RUNNABLE"
      BY <2>5, <3>2 DEF M!Dispatch, M!Go
    <3> QED
      BY <3>1, <3>2
  <2>6. CASE M!Settle(c)
    BY <2>6 DEF M!Settle, M!Go
  <2> QED
    BY <1>1, <2>1, <2>2, <2>3, <2>4, <2>5, <2>6 DEF M!Schedule
<1>2. ASSUME NEW c \in Harts, NEW p \in Procs, at[c] = "run", to_run[c] = p,
             NEW s \in {"RUNNABLE", "SLEEPING", "ZOMBIE"},
             st' = [st EXCEPT ![p] = s], M!Go(c, "back"), to_run' = to_run
      PROVE  M!CpuInv'
  BY <1>2 DEF M!Go
<1>3. ASSUME NEW c \in Harts, NEW p \in Procs,
             M!Timer(c, p) \/ M!Trap(c, p) \/ M!Syscall(c, p) \/ M!Block(c, p)
      PROVE  M!CpuInv'
  <2>1. CASE M!TimerInKernel(c, p) \/ M!YieldExpired(c, p) \/ M!YieldAtEnd(c, p)
    <3>1. st' = [st EXCEPT ![p] = "RUNNABLE"] /\ M!Go(c, "back") /\ to_run' = to_run
      BY <2>1 DEF M!TimerInKernel, M!YieldExpired, M!YieldAtEnd, M!YieldFrom
    <3>2. at[c] = "run" /\ to_run[c] = p
      BY <2>1 DEF M!TimerInKernel, M!YieldExpired, M!YieldAtEnd, M!On
    <3> QED
      BY <1>2, <3>1, <3>2
  <2>2. CASE M!Block(c, p)
    <3>1. PICK s \in {"SLEEPING", "ZOMBIE"} : st' = [st EXCEPT ![p] = s]
      BY <2>2 DEF M!Block
    <3>2. at[c] = "run" /\ to_run[c] = p /\ M!Go(c, "back") /\ to_run' = to_run
      BY <2>2 DEF M!Block, M!On
    <3> QED
      BY <1>2, <3>1, <3>2
  <2>3. CASE M!TimerInUser(c, p) \/ M!SpendTick(c, p) \/ M!Syscall(c, p)
    <3>1. UNCHANGED <<st, at, to_run>>
      BY <2>3 DEF M!TimerInUser, M!SpendTick, M!Syscall
    <3> QED
      BY <3>1
  <2> QED
    BY <1>3, <2>1, <2>2, <2>3 DEF M!Timer, M!Trap
<1>4. ASSUME NEW p \in Procs, M!Wakeup(p) \/ M!Reap(p) \/ M!Born(p) PROVE M!CpuInv'
  <2>1. /\ \A c \in Harts : at[c] \in {"run", "back"} => to_run[c] # p
        /\ st[p] # "RUNNING" /\ UNCHANGED <<at, to_run>>
    BY <1>4 DEF M!Wakeup, M!Reap, M!Born
  <2>2. \E s \in {"RUNNABLE", "UNUSED"} : st' = [st EXCEPT ![p] = s]
    BY <1>4 DEF M!Wakeup, M!Reap, M!Born
  <2> QED
    BY <2>1, <2>2
<1>5. CASE M!IdleTick
  BY <1>5 DEF M!IdleTick
<1> QED
  BY <1>1, <1>3, <1>4, <1>5 DEF M!Next

(* A slice is used up only by the process that is about to yield.          *)
LEMMA SpentNext ==
  ASSUME AnyCpus, M!Next
  PROVE  M!SpentInv'
<1> USE MlfqAssumption DEF MlfqAssumption, M!MlfqAssumption, AnyCpus, M!TypeOK, M!CpuInv, M!SpentInv, M!Threads,
        M!Places, M!procVars, M!cpuVars
<1>0. /\ \A q \in M!Queues : M!FullSlice(q) \in 1..8
      /\ M!FullSlice(M!LowestQueue) = 8 /\ M!LowestQueue = 3
      /\ \A q \in M!Queues : q < M!LowestQueue => q + 1 \in M!Queues
  BY FullSlices DEF M!Queues, M!LowestQueue
<1>1. ASSUME NEW c \in Harts, M!Schedule(c) PROVE M!SpentInv'
  <2>1. CASE M!TestTicks(c) \/ M!Found(c) \/ M!NextQueue(c)
    BY <2>1 DEF M!TestTicks, M!Found, M!NextQueue
  <2>2. CASE M!Boost(c)
    BY <2>2 DEF M!Boost
  <2>3. CASE M!Dispatch(c)
    BY <2>3 DEF M!Dispatch
  <2>4. CASE M!Settle(c)
    <3>1. to_run[c] \in Procs /\ st[to_run[c]] # "RUNNING"
      BY <2>4 DEF M!Settle
    <3> DEFINE p == to_run[c]
               q == IF M!Spent(p) THEN M!NextQueueDown(p) ELSE priority[p]
    <3>2. q \in M!Queues
      <4>0. p \in Procs /\ priority \in [Procs -> M!Queues]
        BY <3>1
      <4>1. /\ priority[p] \in M!Queues
            /\ priority[p] # M!LowestQueue => priority[p] < M!LowestQueue
        <5> HIDE DEF p
        <5> QED
          BY <4>0, Z3 DEF M!Queues, M!LowestQueue
      <4> QED
        BY <1>0, <4>1 DEF M!NextQueueDown
    <3>3. time_slice' = [time_slice EXCEPT ![p] = IF M!Spent(p) THEN M!FullSlice(q) ELSE @ - 1]
      BY <2>4 DEF M!Settle
    <3>4. UNCHANGED <<st, thread, loaded>>
      BY <2>4 DEF M!Settle
    <3> HIDE DEF p, q
    <3>5. time_slice[p] >= 1 /\ time_slice[p] \in 0..8
      BY <3>1, <1>0 DEF p
    <3>6. M!FullSlice(q) \in 1..8
      BY <1>0, <3>2
    <3>7. time_slice'[p] >= 1
      BY <3>1, <3>3, <3>5, <3>6 DEF M!Spent, p
    <3> QED
      BY <3>3, <3>4, <3>7
  <2> QED
    BY <1>1, <2>1, <2>2, <2>3, <2>4 DEF M!Schedule
<1>2. ASSUME NEW c \in Harts, NEW p \in Procs, M!YieldFrom(c, p), loaded' = loaded,
             NEW t \in {"rest", "user", "kernel"}, thread' = [thread EXCEPT ![p] = t]
      PROVE  M!SpentInv'
  <2>1. M!FullSlice(priority[p]) \in 1..8
    BY <1>0
  <2> QED
    BY <1>2, <2>1 DEF M!YieldFrom
<1>3. ASSUME NEW c \in Harts, NEW p \in Procs,
             M!Timer(c, p) \/ M!Trap(c, p) \/ M!Syscall(c, p) \/ M!Block(c, p)
      PROVE  M!SpentInv'
  <2>1. CASE M!YieldExpired(c, p) \/ M!YieldAtEnd(c, p)
    BY <1>2, <2>1 DEF M!YieldExpired, M!YieldAtEnd
  <2>2. CASE M!TimerInKernel(c, p)
    <3>1. thread' = [thread EXCEPT ![p] = "kernel"]
      BY <2>2 DEF M!TimerInKernel, M!On
    <3> QED
      BY <1>2, <2>2, <3>1 DEF M!TimerInKernel
  <2>3. CASE M!Block(c, p)
    BY <2>3 DEF M!Block, M!On
  <2>4. CASE M!TimerInUser(c, p)
    BY <2>4 DEF M!TimerInUser, M!On
  <2>5. CASE M!SpendTick(c, p)
    <3>1. loaded[p] \in 1..8 /\ st[p] = "RUNNING"
      BY <1>0, <2>5 DEF M!SpendTick, M!On
    <3> QED
      BY <2>5, <3>1 DEF M!SpendTick, M!On
  <2>6. CASE M!Syscall(c, p)
    BY <2>6 DEF M!Syscall, M!On
  <2> QED
    BY <1>3, <2>1, <2>2, <2>3, <2>4, <2>5, <2>6 DEF M!Timer, M!Trap
<1>4. ASSUME NEW p \in Procs, M!Wakeup(p) \/ M!Reap(p) PROVE M!SpentInv'
  BY <1>4 DEF M!Wakeup, M!Reap
<1>5. ASSUME NEW p \in Procs, M!Born(p) PROVE M!SpentInv'
  BY <1>5 DEF M!Born
<1>6. CASE M!IdleTick
  BY <1>6 DEF M!IdleTick
<1> QED
  BY <1>1, <1>3, <1>4, <1>5, <1>6 DEF M!Next

LEMMA AnyCpusNext == AnyCpus /\ [M!Next]_mlfqVars => AnyCpus'
<1>1. ASSUME AnyCpus, M!Next PROVE AnyCpus'
  BY <1>1, TypeNext, CpuNext, SpentNext DEF AnyCpus
<1>2. ASSUME AnyCpus, UNCHANGED mlfqVars PROVE AnyCpus'
  BY <1>2 DEF AnyCpus, M!TypeOK, M!CpuInv, M!SpentInv, mlfqVars, M!vars
<1> QED
  BY <1>1, <1>2

-----------------------------------------------------------------------------
(* Slices against the queue                                                *)

(* Only the trap that stores a slice from before a boost may have more     *)
(* than its queue allows, and it yields before it ends.                    *)
LEMMA FitNext ==
  ASSUME AnyCpus, M!SliceFitsQueue, M!Next
  PROVE  M!SliceFitsQueue'
<1> USE MlfqAssumption DEF MlfqAssumption, M!MlfqAssumption, AnyCpus, M!TypeOK, M!CpuInv, M!SpentInv,
        M!SliceFitsQueue, M!Threads, M!Places, M!procVars, M!cpuVars
<1>0. /\ \A q \in M!Queues : M!FullSlice(q) \in 1..8
      /\ M!FullSlice(0) = 1 /\ 0 \in M!Queues
      /\ M!FullSlice(M!LowestQueue) = 8 /\ M!LowestQueue = 3
      /\ \A q \in M!Queues : q < M!LowestQueue => q + 1 \in M!Queues
  BY FullSlices DEF M!Queues, M!LowestQueue
<1>1. ASSUME NEW c \in Harts, M!Schedule(c) PROVE M!SliceFitsQueue'
  <2>1. CASE M!TestTicks(c) \/ M!Found(c) \/ M!NextQueue(c)
    BY <2>1 DEF M!TestTicks, M!Found, M!NextQueue
  <2>2. CASE M!Boost(c)
    BY <1>0, <2>2 DEF M!Boost
  <2>3. CASE M!Dispatch(c)
    <3>1. \A p \in Procs : st'[p] = st[p] \/ (st[p] = "RUNNABLE" /\ st'[p] = "RUNNING")
      BY <2>3 DEF M!Dispatch
    <3> QED
      BY <2>3, <3>1 DEF M!Dispatch
  <2>4. CASE M!Settle(c)
    <3>1. to_run[c] \in Procs /\ st[to_run[c]] # "RUNNING"
      BY <2>4 DEF M!Settle
    <3> DEFINE p == to_run[c]
               q == IF M!Spent(p) THEN M!NextQueueDown(p) ELSE priority[p]
    <3>2. q \in M!Queues
      BY <1>0, <3>1 DEF M!NextQueueDown
    <3>3. /\ time_slice' = [time_slice EXCEPT ![p] = IF M!Spent(p) THEN M!FullSlice(q) ELSE @ - 1]
          /\ priority' = [priority EXCEPT ![p] = q]
          /\ UNCHANGED <<st, thread, loaded>>
      BY <2>4 DEF M!Settle
    <3>4. ~M!Spent(p) => q = priority[p]
      OBVIOUS
    <3> HIDE DEF p, q
    <3>5. p \in Procs /\ st[p] # "RUNNING"
      BY <3>1 DEF p
    <3>6. M!FullSlice(q) \in 1..8 /\ time_slice[p] \in 0..8
      BY <1>0, <3>2, <3>5
    <3>7. st[p] # "UNUSED" => time_slice'[p] <= M!FullSlice(q)
      BY <3>3, <3>4, <3>5, <3>6
    <3> QED
      BY <3>3, <3>5, <3>7
  <2> QED
    BY <1>1, <2>1, <2>2, <2>3, <2>4 DEF M!Schedule
<1>2. ASSUME NEW c \in Harts, NEW p \in Procs, M!YieldFrom(c, p),
             UNCHANGED <<priority, loaded>>,
             NEW t \in {"rest", "user", "kernel"}, thread' = [thread EXCEPT ![p] = t]
      PROVE  M!SliceFitsQueue'
  <2>2. /\ time_slice' = [time_slice EXCEPT ![p] = M!FullSlice(priority[p])]
        /\ \A r \in Procs : r # p => st'[r] = st[r]
    BY <1>2 DEF M!YieldFrom
  <2> HIDE <1>0
  <2>3. M!FullSlice(priority[p]) \in Int
    BY FullSlices
  <2> SUFFICES ASSUME NEW r \in Procs, st'[r] # "UNUSED",
                      ~(st'[r] = "RUNNING" /\ thread'[r] = "rest")
               PROVE  time_slice'[r] <= M!FullSlice(priority[r])
    BY <1>2
  <2>4. CASE r = p
    BY <2>2, <2>3, <2>4
  <2>5. CASE r # p
    BY <1>2, <2>2, <2>5
  <2> QED
    BY <2>4, <2>5
<1>3. ASSUME NEW c \in Harts, NEW p \in Procs,
             M!Timer(c, p) \/ M!Trap(c, p) \/ M!Syscall(c, p) \/ M!Block(c, p)
      PROVE  M!SliceFitsQueue'
  <2>0. M!On(c, p, thread[p]) => st[p] # "UNUSED"
    BY DEF M!On
  <2>1. CASE M!YieldExpired(c, p) \/ M!YieldAtEnd(c, p) \/ M!TimerInKernel(c, p)
    <3>1. M!YieldFrom(c, p) /\ UNCHANGED <<priority, loaded>>
      BY <2>1 DEF M!YieldExpired, M!YieldAtEnd, M!TimerInKernel
    <3>2. PICK t \in {"rest", "user", "kernel"} : thread' = [thread EXCEPT ![p] = t]
      BY <2>1 DEF M!YieldExpired, M!YieldAtEnd, M!TimerInKernel, M!On
    <3> HIDE DEF M!SliceFitsQueue, M!TypeOK, AnyCpus, M!CpuInv, M!SpentInv
    <3> QED
      BY <1>2, <3>1, <3>2
  <2>3. CASE M!Block(c, p)
    BY <2>0, <2>3 DEF M!Block, M!On
  <2>4. CASE M!TimerInUser(c, p)
    BY <2>0, <2>4 DEF M!TimerInUser, M!On
  <2>5. CASE M!SpendTick(c, p)
    <3>1. M!FullSlice(priority[p]) \in 1..8 /\ loaded[p] \in 0..8
      BY <1>0
    <3>2. /\ time_slice' = [time_slice EXCEPT ![p] = loaded[p] - 1]
          /\ UNCHANGED <<st, priority>> /\ st[p] = "RUNNING"
          /\ \A r \in Procs : r # p => thread'[r] = thread[r]
          /\ loaded[p] = 1 \/ thread'[p] = "rest"
      BY <2>5 DEF M!SpendTick, M!On
    <3> HIDE <1>0
    <3> QED
      BY <3>1, <3>2
  <2>6. CASE M!Syscall(c, p)
    BY <2>6 DEF M!Syscall, M!On
  <2> QED
    BY <1>3, <2>1, <2>3, <2>4, <2>5, <2>6 DEF M!Timer, M!Trap
<1>4. ASSUME NEW p \in Procs, M!Wakeup(p) \/ M!Reap(p) PROVE M!SliceFitsQueue'
  BY <1>4 DEF M!Wakeup, M!Reap
<1>5. ASSUME NEW p \in Procs, M!Born(p) PROVE M!SliceFitsQueue'
  BY <1>0, <1>5 DEF M!Born
<1>6. CASE M!IdleTick
  BY <1>6 DEF M!IdleTick
<1> QED
  BY <1>1, <1>3, <1>4, <1>5, <1>6 DEF M!Next

-----------------------------------------------------------------------------
(* The theorems                                                            *)

LEMMA AnyCpusInvariant == M!Spec => []AnyCpus
<1>1. AnyCpus /\ [M!Next]_(M!vars) => AnyCpus'
  BY AnyCpusNext DEF mlfqVars, M!vars
<1> QED
  BY <1>1, AnyCpusInit, PTL DEF M!Spec

(* On any number of CPUs, whatever a boost and the two decrements do to a  *)
(* slice at once: it never passes below zero, and who waits has some left. *)
THEOREM SlicesEnd == M!Spec => [](M!TypeOK /\ M!SliceLeft)
<1>1. AnyCpus => M!TypeOK /\ M!SliceLeft
  BY DEF AnyCpus, M!TypeOK, M!SpentInv, M!SliceLeft
<1> QED
  BY <1>1, AnyCpusInvariant, PTL

(* A process moves one queue down or back to the top, and has the full     *)
(* slice of its queue then.                                                *)
THEOREM QueuesMove == M!Spec => QueueMoves
<1> DEFINE Moves(p) ==
        priority'[p] # priority[p] =>
            /\ priority'[p] \in {0, priority[p] + 1}
            /\ time_slice'[p] = M!FullSlice(priority'[p])
<1>1. AnyCpus /\ [M!Next]_(M!vars) => [\A p \in Procs : Moves(p)]_(M!vars)
  <2> SUFFICES ASSUME AnyCpus, M!Next, NEW p \in Procs, priority'[p] # priority[p]
               PROVE  Moves(p)
    BY Zenon
  <2> USE FullSlices DEF AnyCpus, M!TypeOK, M!procVars, M!cpuVars
  <2>1. ASSUME NEW c \in Harts, M!Boost(c) PROVE Moves(p)
    BY <2>1 DEF M!Boost
  <2>2. ASSUME NEW c \in Harts, M!Settle(c) PROVE Moves(p)
    BY <2>2 DEF M!Settle, M!Spent, M!NextQueueDown
  <2>3. ASSUME NEW r \in Procs, M!Born(r) PROVE Moves(p)
    BY <2>3 DEF M!Born
  <2>4. \/ \E c \in Harts : M!Boost(c) \/ M!Settle(c)
        \/ \E r \in Procs : M!Born(r)
    BY DEF M!Next, M!Schedule, M!TestTicks, M!Found, M!NextQueue, M!Dispatch,
           M!Timer, M!TimerInUser,
       M!TimerInKernel, M!Trap, M!SpendTick, M!YieldExpired, M!YieldAtEnd,
       M!Syscall, M!Block, M!Wakeup,
       M!Reap, M!IdleTick
  <2> QED
    BY <2>1, <2>2, <2>3, <2>4
<1> QED
  BY <1>1, AnyCpusInvariant, PTL DEF M!Spec, QueueMoves, M!QueueMoves

(* The other part of the run.                                              *)
LEMMA IntrTypes ==
  /\ S!Init => S!TypeOK
  /\ S!TypeOK /\ [S!Next]_intrVars => S!TypeOK'
<1> USE DEF S!TypeOK
<1>1. S!Init => S!TypeOK
  BY DEF S!Init
<1>2. ASSUME S!TypeOK, S!Next PROVE S!TypeOK'
  <2> PICK c \in {c1, c2} :
        \/ S!Scheduler(c) \/ S!EndOfPass(c) \/ S!Timer(c)
        \/ \E p \in {p1, p2, p3} : S!SleepTick(c, p) \/ S!Exit(c, p)
    BY <1>2 DEF S!Next
  <2> USE <1>2
  <2>1. CASE S!IntrOn(c)
    BY <2>1 DEF S!IntrOn
  <2>2. CASE S!Back(c)
    BY <2>2 DEF S!Back
  <2>3. ASSUME NEW p \in {p1, p2, p3}, S!Dispatch(c, p) PROVE S!TypeOK'
    BY <2>3 DEF S!Dispatch
  <2>4. CASE S!EndOfPass(c)
    BY <2>4 DEF S!EndOfPass
  <2>5. S!AfterTick(c) \in [{p1, p2, p3} -> {"RUNNABLE", "RUNNING", "SLEEPING", "ZOMBIE"}]
    BY DEF S!AfterTick
  <2>6. CASE S!TimerInSched(c)
    BY <2>5, <2>6 DEF S!TimerInSched
  <2>7. ASSUME NEW p \in {p1, p2, p3}, NEW e \in BOOLEAN, S!Leave(c, p, e)
        PROVE  /\ policy' \in {"RR", "LBS"}
               /\ intr' \in [{c1, c2} -> BOOLEAN] /\ intena' \in [{c1, c2} -> BOOLEAN]
               /\ running' \in [{c1, c2} -> {p1, p2, p3} \cup {Nobody}]
               /\ place' \in [{c1, c2} -> {"outer", "loop", "proc", "back"}]
    BY <2>7 DEF S!Leave
  <2>8. ASSUME NEW p \in {p1, p2, p3}, S!TimerInProc(c, p) PROVE S!TypeOK'
    <3>1. status' \in [{p1, p2, p3} -> {"RUNNABLE", "RUNNING", "SLEEPING", "ZOMBIE"}]
      BY <2>5, <2>8 DEF S!TimerInProc
    <3> QED
      BY <2>7, <2>8, <3>1 DEF S!TimerInProc
  <2>9. ASSUME NEW p \in {p1, p2, p3}, S!SleepTick(c, p) \/ S!Exit(c, p)
        PROVE  S!TypeOK'
    <3>1. status' \in [{p1, p2, p3} -> {"RUNNABLE", "RUNNING", "SLEEPING", "ZOMBIE"}]
      BY <2>9 DEF S!SleepTick, S!Exit
    <3>2. \E e \in BOOLEAN : S!Leave(c, p, e)
      BY <2>9 DEF S!SleepTick, S!Exit
    <3> QED
      BY <2>7, <3>1, <3>2
  <2> QED
    BY <2>1, <2>2, <2>3, <2>4, <2>6, <2>8, <2>9 DEF S!Scheduler, S!Timer
<1>3. ASSUME S!TypeOK, UNCHANGED intrVars PROVE S!TypeOK'
  BY <1>3 DEF intrVars
<1> QED
  BY <1>1, <1>2, <1>3

(* On any number of CPUs a slice is within what the queue of the process   *)
(* allows, from 1 on when the process waits: a boost of another CPU        *)
(* between the load and the store of usertrap() puts a slice read before   *)
(* it into queue 0, but not beyond the yield() that ends the trap.         *)
THEOREM SlicesAlwaysFit == SumSpec => []SlicesFit
<1> DEFINE Inv == AnyCpus /\ M!SliceFitsQueue /\ S!TypeOK
<1>1. SumInit => Inv
  <2> SUFFICES ASSUME SumInit PROVE Inv
    OBVIOUS
  <2>1. M!Init /\ S!Init
    BY Zenon DEF SumInit
  <2>2. AnyCpus /\ S!TypeOK
    BY <2>1, AnyCpusInit, IntrTypes, Zenon
  <2>3. \A p \in Procs : time_slice[p] = 1 /\ priority[p] = 0
    BY <2>1 DEF M!Init
  <2>4. M!SliceFitsQueue
    BY <2>3, FullSlices DEF M!SliceFitsQueue
  <2> QED
    BY <2>2, <2>4
<1>2. Inv /\ [SumNext]_allVars => Inv'
  <2> SUFFICES ASSUME Inv, [SumNext]_allVars PROVE Inv'
    OBVIOUS
  <2>1. \/ M!Next /\ UNCHANGED intrVars
        \/ S!Next /\ UNCHANGED mlfqVars
        \/ UNCHANGED mlfqVars /\ UNCHANGED intrVars
    <3>1. CASE SumNext
      BY <3>1, Zenon DEF SumNext
    <3>2. CASE UNCHANGED allVars
      BY <3>2, Zenon DEF allVars
    <3> QED
      BY <3>1, <3>2, Zenon
  <2>2. AnyCpus' /\ S!TypeOK'
    BY <2>1, AnyCpusNext, IntrTypes
  <2>3. CASE M!Next
    BY <2>2, <2>3, FitNext
  <2>4. CASE UNCHANGED mlfqVars
    <3>1. M!SliceFitsQueue'
      BY <2>4 DEF mlfqVars, M!vars, M!SliceFitsQueue
    <3> QED
      BY <2>2, <3>1
  <2> QED
    BY <2>1, <2>3, <2>4
<1>3. Inv => SlicesFit
  BY DEF AnyCpus, M!TypeOK, M!SpentInv, M!SliceLeft, SlicesFit
<1> QED
  BY <1>1, <1>2, <1>3, PTL DEF SumSpec

=============================================================================
