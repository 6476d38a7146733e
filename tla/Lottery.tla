------------------------------ MODULE Lottery ------------------------------
(* The lottery scheduler (LBS in kernel/proc.c) and the tickets it draws   *)
(* from: settickets(), and fork(), which gives them to the child late.     *)
(*                                                                         *)
(* Each CPU passes twice over the process table, one slot and one p->lock  *)
(* at a time: it counts the tickets, draws one, and looks for its holder.  *)
(* Nothing holds the table still in between.  rand() is any number.  An    *)
(* int is at most IntMax and wraps.                                        *)
EXTENDS Integers, FiniteSets, FiniteSetsExt

CONSTANTS
    NPROC, Cpus,
    IntMax,      \* the largest int
    Numbers,     \* bound: arguments of settickets()
    MaxTime,     \* bound: ticks
    MaxForks     \* bound: calls of fork()

LotteryAssumption ==
    /\ NPROC \in Nat \ {0} /\ IntMax \in Nat \ {0} /\ Numbers \subseteq Int
    /\ MaxTime \in Nat /\ MaxForks \in Nat

VARIABLES
    st, tickets, born,  \* p->state, p->tickets, p->creation_time
    fork, child,        \* how far p is in fork(), and its np
    scan, slot,         \* what a CPU does, and the slot it comes to
    total, ticket, count, winner,   \* locals of scheduler()
    quiet,              \* history: no process has moved during the scan
    ticks, forks

procVars == <<st, tickets, born, fork, child>>
cpuVars == <<scan, slot, total, ticket, count, winner>>
vars == <<procVars, cpuVars, quiet, ticks, forks>>

Table == 1..NPROC
Int32(n) == ((n + IntMax + 1) % (2 * (IntMax + 1))) - (IntMax + 1)

(* userinit() has made the first process.                                  *)
Init ==
    /\ st = [p \in Table |-> IF p = 1 THEN "runnable" ELSE "unused"]
    /\ tickets = [p \in Table |-> IF p = 1 THEN 1 ELSE 0]
    /\ born = [p \in Table |-> 0]
    /\ fork = [p \in Table |-> "none"] /\ child = [p \in Table |-> 0]
    /\ scan = [c \in Cpus |-> "total"] /\ slot = [c \in Cpus |-> 1]
    /\ total = [c \in Cpus |-> 0] /\ ticket = [c \in Cpus |-> 0]
    /\ count = [c \in Cpus |-> 0] /\ winner = [c \in Cpus |-> 0]
    /\ quiet = [c \in Cpus |-> TRUE]
    /\ ticks = 0 /\ forks = 0

-----------------------------------------------------------------------------
(* scheduler()                                                             *)

(* The locals of a pass are gone when it is over.                          *)
PassOver(c, place, w) ==
    /\ scan' = [scan EXCEPT ![c] = place] /\ slot' = [slot EXCEPT ![c] = 1]
    /\ ticket' = [ticket EXCEPT ![c] = 0] /\ count' = [count EXCEPT ![c] = 0]
    /\ winner' = [winner EXCEPT ![c] = w]

(* for (;;) begins again.                                                  *)
Again(c) == /\ PassOver(c, "total", 0)
            /\ total' = [total EXCEPT ![c] = 0]

At(c, place) == scan[c] = place /\ slot[c] \in Table
Through(c, place) == scan[c] = place /\ slot[c] = NPROC + 1

CountSlot(c) == LET p == slot[c] IN
    /\ At(c, "total")
    /\ total' = IF st[p] = "runnable" THEN [total EXCEPT ![c] = Int32(@ + tickets[p])]
                ELSE total
    /\ slot' = [slot EXCEPT ![c] = @ + 1]
    /\ UNCHANGED <<procVars, scan, ticket, count, winner, quiet, ticks, forks>>

Draw(c) ==
    /\ Through(c, "total") /\ total[c] > 0
    /\ \E t \in 0..(total[c] - 1) : ticket' = [ticket EXCEPT ![c] = t]
    /\ total' = [total EXCEPT ![c] = 0]
    /\ scan' = [scan EXCEPT ![c] = "pick"] /\ slot' = [slot EXCEPT ![c] = 1]
    /\ UNCHANGED <<procVars, count, winner, quiet, ticks, forks>>

NoTickets(c) ==
    /\ Through(c, "total") /\ total[c] <= 0
    /\ Again(c) /\ quiet' = [quiet EXCEPT ![c] = TRUE]
    /\ UNCHANGED <<procVars, ticks, forks>>

(* Mutant: the ticket of the next holder counts as the last one's.         *)
ReachedEarly(c, n) == n >= ticket[c]

Reached(c, n) == n > ticket[c]

(* The first slot that reaches the drawn ticket wins, unless a later one   *)
(* with as many tickets was there earlier.                                 *)
Beats(p, w) == w = 0 \/ (tickets[p] = tickets[w] /\ born[p] < born[w])

PickSlot(c) ==
    LET p == slot[c]
        n == IF st[p] = "runnable" THEN Int32(count[c] + tickets[p]) ELSE count[c]
    IN
    /\ At(c, "pick")
    /\ count' = [count EXCEPT ![c] = n]
    /\ winner' = IF st[p] = "runnable" /\ Reached(c, n) /\ Beats(p, winner[c])
                 THEN [winner EXCEPT ![c] = p] ELSE winner
    /\ slot' = [slot EXCEPT ![c] = @ + 1]
    /\ UNCHANGED <<procVars, scan, total, ticket, quiet, ticks, forks>>

(* Mutant: the winner is run without a second look at its state.           *)
StillThereUntested(c) == winner[c] # 0

StillThere(c) == winner[c] # 0 /\ st[winner[c]] = "runnable"

(* No scan is quiet in which a process moves.                              *)
Moves == quiet' = [c \in Cpus |-> FALSE]

RunWinner(c) ==
    /\ Through(c, "pick") /\ StillThere(c)
    /\ st' = [st EXCEPT ![winner[c]] = "running"]
    /\ PassOver(c, "runs", winner[c])
    /\ Moves
    /\ UNCHANGED <<tickets, born, fork, child, total, ticks, forks>>

NoWinner(c) ==
    /\ Through(c, "pick") /\ ~StillThere(c)
    /\ Again(c) /\ quiet' = [quiet EXCEPT ![c] = TRUE]
    /\ UNCHANGED <<procVars, ticks, forks>>

-----------------------------------------------------------------------------
(* The process that runs on c.                                             *)

Runs(c, p) == scan[c] = "runs" /\ winner[c] = p
InUser(c, p) == Runs(c, p) /\ fork[p] = "none"

(* swtch() back to scheduler(): after yield(), or in sleep() and exit(),   *)
(* which fork() does not call.  A zombie (see Proc) counts as unused.      *)
Leave(c, p, state) ==
    /\ Runs(c, p) /\ (state = "runnable" \/ fork[p] = "none")
    /\ st' = [st EXCEPT ![p] = state]
    /\ Again(c) /\ quiet' = [d \in Cpus |-> d = c]
    /\ UNCHANGED <<tickets, born, fork, child, ticks, forks>>

(* settickets(): a number that is not positive is refused.                 *)
SetTickets(c, p) == \E n \in Numbers :
    /\ InUser(c, p) /\ n > 0
    /\ tickets' = [tickets EXCEPT ![p] = n]
    /\ Moves
    /\ UNCHANGED <<st, born, fork, child, cpuVars, ticks, forks>>

(* allocproc() in fork(): one ticket and the time.                         *)
Fork(c, p) == \E q \in Table :
    /\ InUser(c, p) /\ st[q] = "unused" /\ forks < MaxForks /\ forks' = forks + 1
    /\ st' = [st EXCEPT ![q] = "used"]
    /\ tickets' = [tickets EXCEPT ![q] = 1] /\ born' = [born EXCEPT ![q] = ticks]
    /\ fork' = [fork EXCEPT ![p] = "used"] /\ child' = [child EXCEPT ![p] = q]
    /\ Moves
    /\ UNCHANGED <<cpuVars, ticks>>

ForkRunnable(c, p) ==
    /\ Runs(c, p) /\ fork[p] = "used"
    /\ st' = [st EXCEPT ![child[p]] = "runnable"]
    /\ fork' = [fork EXCEPT ![p] = "born"]
    /\ Moves
    /\ UNCHANGED <<tickets, born, child, cpuVars, ticks, forks>>

(* The child may run, end and be replaced before it gets the tickets.      *)
ForkTickets(c, p) ==
    /\ Runs(c, p) /\ fork[p] = "born"
    /\ tickets' = [tickets EXCEPT ![child[p]] = tickets[p]]
    /\ fork' = [fork EXCEPT ![p] = "none"] /\ child' = [child EXCEPT ![p] = 0]
    /\ Moves
    /\ UNCHANGED <<st, born, cpuVars, ticks, forks>>

Moved(p, from, to) ==
    /\ st[p] = from /\ st' = [st EXCEPT ![p] = to]
    /\ Moves
    /\ UNCHANGED <<tickets, born, fork, child, cpuVars, ticks, forks>>

Wakeup(p) == Moved(p, "sleeping", "runnable")

Tick ==
    /\ ticks < MaxTime /\ ticks' = ticks + 1
    /\ UNCHANGED <<procVars, cpuVars, quiet, forks>>

Scheduler(c) == \/ CountSlot(c) \/ Draw(c) \/ NoTickets(c)
                \/ PickSlot(c) \/ RunWinner(c) \/ NoWinner(c)

Process(c, p) ==
    \/ \E state \in {"runnable", "sleeping", "unused"} : Leave(c, p, state)
    \/ SetTickets(c, p) \/ Fork(c, p) \/ ForkRunnable(c, p) \/ ForkTickets(c, p)

Next ==
    \/ \E c \in Cpus : Scheduler(c) \/ \E p \in Table : Process(c, p)
    \/ \E p \in Table : Wakeup(p)
    \/ Tick

Spec == Init /\ [][Next]_vars

(* A CPU that is not running a process goes on looking for one.            *)
FairSpec == Spec /\ \A c \in Cpus : WF_vars(Scheduler(c))

-----------------------------------------------------------------------------
TypeOK ==
    /\ st \in [Table -> {"unused", "used", "sleeping", "runnable", "running"}]
    /\ tickets \in [Table -> 0..IntMax] /\ born \in [Table -> 0..MaxTime]
    /\ fork \in [Table -> {"none", "used", "born"}] /\ child \in [Table -> 0..NPROC]
    /\ scan \in [Cpus -> {"total", "pick", "runs"}] /\ slot \in [Cpus -> 1..(NPROC + 1)]
    /\ winner \in [Cpus -> 0..NPROC]

(* Two CPUs whose lotteries have the same winner do not both run it: a     *)
(* process is RUNNING while just one CPU runs it.                          *)
RunsOnce == \A p \in Table :
    Cardinality({c \in Cpus : Runs(c, p)}) = IF st[p] = "running" THEN 1 ELSE 0

LotteryInv == TypeOK /\ RunsOnce

Runnables == {p \in Table : st[p] = "runnable"}
TicketsUpTo(p) == MapThenSumSet(LAMBDA q : tickets[q], {q \in Runnables : q <= p})
Holder(t) == Min({p \in Runnables : TicketsUpTo(p) > t})
Decided(c) == Through(c, "pick") /\ quiet[c]

(* The chance to win goes with the tickets: as long as no process moves    *)
(* during a scan there is a winner, and it has as many tickets as the      *)
(* holder of the ticket that was drawn.                                    *)
DrawIsFair == \A c \in Cpus :
    Decided(c) => winner[c] # 0 /\ tickets[winner[c]] = tickets[Holder(ticket[c])]

(* Of the processes with as many tickets the one that arrived first wins,  *)
(* as REPORT.md says.                                                      *)
EarliestWins == \A c \in Cpus : Decided(c) =>
    \A p \in Runnables : tickets[p] = tickets[winner[c]] => born[winner[c]] <= born[p]

(* A CPU is never idle for good while a process could run.                 *)
SomebodyRuns == (Runnables # {}) ~> (\E c \in Cpus : scan[c] = "runs")

=============================================================================
