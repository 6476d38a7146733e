---------------------------- MODULE MCProcSafety ----------------------------
(* Three models of processes, side by side: the process table, the lottery *)
(* that chooses from it, and what is counted in it.  A behaviour is one of *)
(* Proc, Lottery or Accounting, as part says.                              *)
EXTENDS MCProc

CONSTANTS h1, h2,    \* the harts of the lottery
          IntMax

VARIABLES
    part,
    lst, tickets, born, fork, child, scan, slot, total, ticket, count, winner, quiet,
    now, forks,
    ast, family, rtime, etime, syscall_count, clock, update, made

L == INSTANCE Lottery WITH NPROC <- 2, Cpus <- {h1, h2}, Numbers <- {0, 2},
                           MaxTime <- 1, MaxForks <- 2, st <- lst, ticks <- now
A == INSTANCE Accounting WITH NPROC <- 3, NCPU <- 2, MaxEvents <- 2,
                              state <- ast, parent <- family

SumSymmetry == Symmetry \cup Permutations({h1, h2})

ASSUME L!LotteryAssumption

tableVars == vars
lotteryVars == <<lst, tickets, born, fork, child, scan, slot, total, ticket, count, winner,
                 quiet, now, forks>>
accountVars == <<ast, family, rtime, etime, syscall_count, clock, update, made>>

AllInit == Init /\ L!Init /\ A!Init
SumInit == part \in {"table", "lottery", "account"} /\ AllInit
SumNext ==
    \/ part = "table" /\ Next /\ UNCHANGED <<part, lotteryVars, accountVars>>
    \/ part = "lottery" /\ L!Next /\ UNCHANGED <<part, tableVars, accountVars>>
    \/ part = "account" /\ A!Next /\ UNCHANGED <<part, tableVars, lotteryVars>>

SumSpec == SumInit /\ [][SumNext]_<<part, tableVars, lotteryVars, accountVars>>

(* The table with its fairness, for a run of its own.  A behaviour is one  *)
(* of the clock's CPU alone, without sys_sleep(), or one of all CPUs, with *)
(* two processes only.                                                     *)
OneCpu == /\ \A c \in Cpus \ {ClockCpu} : ctx'[c] = "sched"
          /\ \A s \in Slots : pc'[s] # "t_begin"
TableInit == part \in {"one CPU", "all CPUs"} /\ AllInit
TableNext == /\ Next /\ (IF part = "one CPU" THEN OneCpu ELSE nextpid' <= 3)
             /\ UNCHANGED <<part, lotteryVars, accountVars>>
TableFairSpec == /\ TableInit /\ [][TableNext]_<<part, tableVars, lotteryVars, accountVars>>
                 /\ Fairness

(* The fairness of Lottery, for a run of its own.                          *)
LotteryFairSpec == SumSpec /\ part = "lottery"
                           /\ \A c \in {h1, h2} : WF_lotteryVars(L!Scheduler(c))

(* Lottery's LotteryInv and Accounting's AccountingInv: no process runs    *)
(* twice, the times of waitx() do not go below 0, families are trees.      *)
SlotsAccounted == /\ part = "lottery" => L!LotteryInv
                  /\ part = "account" => A!AccountingInv

(* Lottery's DrawIsFair: the chance to win goes with the tickets.          *)
DrawIsFair == part = "lottery" => L!DrawIsFair

(* Lottery's EarliestWins, as REPORT.md has it.                            *)
EarliestWins == part = "lottery" => L!EarliestWins

(* Lottery's SomebodyRuns, under LotteryFairSpec: no CPU is idle for good  *)
(* while a process could run.                                              *)
SomebodyRuns == L!SomebodyRuns

(* Accounting's CountsFamily, as REPORT.md has it.                         *)
CountsFamily == part = "account" => A!CountsFamily

=============================================================================
