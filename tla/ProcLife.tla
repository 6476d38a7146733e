------------------------------ MODULE ProcLife ------------------------------
(* What fork, exit and wait promise, by pid and without slots, locks or    *)
(* CPUs: every process is born once, has one living parent until that      *)
(* parent reaps it, exits once, and passes its children to init first.     *)
CONSTANT Pids      \* what allocpid() may return

VARIABLES
    used,       \* pids given out for good: to a process or to a failed fork
    living,     \* processes that have not exited
    zombies,    \* processes that exited and were not waited for
    family      \* <<parent, child>>

lifeVars == <<used, living, zombies, family>>

Init ==
    /\ used = {1} /\ living = {1} /\ zombies = {} /\ family = {}

Fork(p, x) ==
    /\ p \in living /\ x \notin used
    /\ used' = used \cup {x}
    /\ living' = living \cup {x}
    /\ family' = family \cup {<<p, x>>}
    /\ UNCHANGED zombies

FailedFork(x) ==
    /\ x \notin used
    /\ used' = used \cup {x}
    /\ UNCHANGED <<living, zombies, family>>

(* An exiting process gives its children to init.                          *)
Disown(p) ==
    /\ p \in living \ {1}
    /\ family' = {<<IF f[1] = p THEN 1 ELSE f[1], f[2]>> : f \in family}
    /\ UNCHANGED <<used, living, zombies>>

Exit(p) ==
    /\ p \in living \ {1}
    /\ \A f \in family : f[1] # p
    /\ living' = living \ {p}
    /\ zombies' = zombies \cup {p}
    /\ UNCHANGED <<used, family>>

Reap(p, x) ==
    /\ p \in living /\ x \in zombies /\ <<p, x>> \in family
    /\ zombies' = zombies \ {x}
    /\ family' = family \ {<<p, x>>}
    /\ UNCHANGED <<used, living>>

Next ==
    \/ \E p \in living : Disown(p) \/ Exit(p)
    \/ \E p \in living, x \in zombies : Reap(p, x)
    \/ \E x \in Pids : FailedFork(x) \/ \E p \in living : Fork(p, x)

Spec == Init /\ [][Next]_lifeVars

=============================================================================
