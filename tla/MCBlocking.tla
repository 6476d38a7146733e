----------------------------- MODULE MCBlocking -----------------------------
(* The two models of processes that sleep until others wake them, side by  *)
(* side: pipes, and the buffer cache over the disk driver.  A behaviour is *)
(* one of Pipe or one of BufCache, as part says.                           *)
EXTENDS Pipe

CONSTANTS
    r1, r2, w1, w2,     \* processes of Pipe
    p1, p2, Callers, Blocks, Changed, NBUF, NUM, Nobody     \* of BufCache

VARIABLES part, free, info, avail, busy, used, pending, inIntr, bdisk, content, bdata,
          rw, chain, waiting, blockno, valid, refcnt, pinned, lru, slk, at, want, buf,
          dirty, last

MCReaders1 == {r1}
MCReaders2 == {r1, r2}
MCWriters2 == {w1, w2}

MCCallers2 == {p1, p2}

B == INSTANCE CacheProofs WITH Procs <- Callers, data <- bdata, asleep <- waiting, pc <- at

ASSUME DiskAssumption == B!Constants

pipeVars == vars
diskVars == <<free, info, avail, busy, used, pending, inIntr, bdisk, content, bdata, rw,
              chain, waiting, blockno, valid, refcnt, pinned, lru, slk, at, want, buf,
              dirty, last>>

SumInit == part \in {"pipe", "disk"} /\ Init /\ B!Init
SumNext ==
    \/ part = "pipe" /\ Next /\ UNCHANGED <<part, diskVars>>
    \/ part = "disk" /\ B!Next /\ UNCHANGED <<part, pipeVars>>

SumSpec == SumInit /\ [][SumNext]_<<part, pipeVars, diskVars>>

(* The fairness of Pipe; that of BufCache makes a run of its own.          *)
PipeFairSpec == SumSpec /\ \A p \in Procs : SF_pipeVars(part = "pipe" /\ Step(p))
DiskFairSpec == SumSpec /\ part = "disk" /\ B!Fairness

(* BufCache's CacheInv: one buffer a block, nothing lost, no wakeup either. *)
CacheInv == part = "disk" => B!CacheInv

(* BufCache's SeesLatest: who holds a block sees what was last put into it. *)
SeesLatest == part = "disk" => B!SeesLatest

(* BufCache's RequestEnds, under DiskFairSpec: what the device has been told of ends.          *)
RequestEnds == B!RequestEnds

=============================================================================
