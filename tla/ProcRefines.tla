---------------------------- MODULE ProcRefines ----------------------------
(* The process table implements ProcLife: a slot stands for the process    *)
(* whose pid it holds, and a slot that fork() still builds for none.       *)
EXTENDS ProcInv

Living == {s \in Slots : state[s] \in {"SLEEPING", "RUNNABLE", "RUNNING"}}
Built == {s \in Slots : state[s] # "USED"}

UsedPids == (1..(nextpid - 1)) \ {pid[s] : s \in Slots \ Built}
LivingPids == {pid[s] : s \in Living}
ZombiePids == {pid[s] : s \in Zombies}
Family == {<<pid[parent[q]], pid[q]>> :
              q \in {r \in Built : parent[r] # NoProc}}

Life == INSTANCE ProcLife WITH Pids <- 1..MaxPid, used <- UsedPids,
                               living <- LivingPids,
                               zombies <- ZombiePids, family <- Family

(* fork, exit and wait keep the promises of ProcLife: no pid is used       *)
(* twice, nobody is reaped alive or twice, no process is left without a    *)
(* living parent, whatever the interleaving on several CPUs.               *)
LifeSpec == Life!Spec

=============================================================================
