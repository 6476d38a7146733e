------------------------------ MODULE MCSched -------------------------------
(* The two models of scheduling, side by side: a behaviour is one of Mlfq  *)
(* or one of SchedIntr, as part says.                                      *)

CONSTANTS Procs, Harts, Nobody, BoostPeriod, Hogs, c1, c2, p1, p2, p3

VARIABLES st, priority, time_slice, thread, loaded, at, to_run, queue, ticks
VARIABLES part, policy, status, intr, intena, running, place

MCHarts1 == {c1}
MCHarts2 == {c1, c2}

M == INSTANCE Mlfq WITH Cpus <- Harts, ClockCpu <- c1
S == INSTANCE SchedIntr WITH Procs <- {p1, p2, p3}, Cpus <- {c1, c2}, ClockCpu <- c1,
                             Policies <- {"RR", "LBS"}, st <- status, at <- place

ASSUME MlfqAssumption == M!MlfqAssumption
ASSUME SchedIntrAssumption == S!SchedIntrAssumption

mlfqVars == <<st, priority, time_slice, thread, loaded, at, to_run, queue, ticks>>
intrVars == <<policy, status, intr, intena, running, place>>
allVars == <<part, mlfqVars, intrVars>>

(* Of Mlfq a behaviour is one of all processes on one hart, or one of the  *)
(* first two on both.                                                      *)
SumInit == /\ part \in {"one hart", "two harts", "SchedIntr"} /\ M!Init /\ S!Init
           /\ part # "SchedIntr" => policy = "RR"
           /\ \A p \in Procs : st[p] = "RUNNABLE" <=> part = "one hart" \/ p \in {1, 2}
SumNext ==
    \/ /\ part = "one hart" /\ M!Next /\ \A c \in Harts \ {c1} : at'[c] = at[c]
       /\ UNCHANGED <<part, intrVars>>
    \/ /\ part = "two harts" /\ M!Next /\ \A p \in Procs \ {1, 2} : st'[p] = st[p]
       /\ UNCHANGED <<part, intrVars>>
    \/ part = "SchedIntr" /\ S!Next /\ UNCHANGED <<part, mlfqVars>>

(* The fairness of the part that is taken.                                 *)
SumFairness ==
    /\ WF_mlfqVars(part = "one hart" /\ (M!Schedule(c1) \/ \E p \in Procs : M!Trap(c1, p)))
    /\ SF_mlfqVars(part = "one hart" /\ \E p \in Procs : M!Timer(c1, p))
    /\ \A c \in {c1, c2} : /\ WF_intrVars(part = "SchedIntr" /\ S!Scheduler(c))
                           /\ WF_intrVars(part = "SchedIntr" /\ S!EndOfPass(c))
    /\ SF_intrVars(part = "SchedIntr" /\ S!Timer(c1))

SumSpec == SumInit /\ [][SumNext]_allVars /\ SumFairness

(* Types, and SliceLeft and SliceFitsQueue of Mlfq: the slice of a process *)
(* that waits is at least 1, and at most what its queue allows; with what  *)
(* makes them inductive.                                                   *)
SlicesFit ==
    /\ M!TypeOK /\ S!TypeOK /\ M!CpuInv /\ M!SpentInv
    /\ M!SliceLeft /\ M!SliceFitsQueue

(* Mlfq's QueueMoves: down by one queue, or up to queue 0 by the boost.    *)
QueueMoves == M!QueueMoves

(* Mlfq's NoStarvation.                                                    *)
RunnableRuns == part = "one hart" => M!NoStarvation

(* Mlfq's HogsSink, which fails: a process that only computes stays up.    *)
HogsGoDown == part = "one hart" => M!HogsSink

(* SchedIntr's SleepersWake: time goes on under round robin and lottery.   *)
SleepersWake == part = "SchedIntr" => S!SleepersWake

=============================================================================
