------------------------------ MODULE BufCache ------------------------------
(* The buffer cache (kernel/bio.c) and the sleep locks of its buffers      *)
(* (kernel/sleeplock.c), over the driver of VirtioDisk.                    *)
(*                                                                         *)
(* A step is a stretch under bcache.lock, under the spinlock inside a      *)
(* sleep lock, or of the driver.  A caller does with a buffer what the     *)
(* kernel does: read, change and write it back at once, or change and pin  *)
(* it (log_write), and write and unpin it later (install_trans).           *)
EXTENDS VirtioDisk

CONSTANTS
    Nobody,
    Changed     \* bound: the blocks that callers change

BufCacheAssumption ==
    /\ Nobody \notin Procs
    /\ Blocks \subseteq Nat \ {0}

VARIABLES
    blockno, valid, refcnt,  \* of each buffer
    pinned,    \* the buffers with a reference of the log
    lru,       \* the list of bcache.head, most recently used first
    slk,       \* the holder of b->lock
    pc,        \* where a process is
    want,      \* the block it asked for
    buf,       \* the buffer it has
    dirty,     \* it has changed the buffer, and neither written nor pinned it
    last       \* history: what was last put into each block

cacheVars == <<blockno, valid, refcnt, pinned, lru>>
callVars == <<pc, want, buf, dirty, last>>
vars == <<virtioVars, asleep, cacheVars, slk, callVars>>

PCs == {"idle", "bget", "lock", "locked", "read", "have", "write", "unref"}

Init ==
    /\ VirtioInit /\ asleep = {}
    /\ blockno = [b \in Bufs |-> 0] /\ valid = [b \in Bufs |-> FALSE]
    /\ refcnt = [b \in Bufs |-> 0] /\ pinned = {}
    /\ lru = [n \in Bufs |-> NBUF + 1 - n]
    /\ slk = [b \in Bufs |-> Nobody]
    /\ pc = [p \in Procs |-> "idle"] /\ want = [p \in Procs |-> 0]
    /\ buf = [p \in Procs |-> 0] /\ dirty = [p \in Procs |-> FALSE]
    /\ last = [k \in Blocks |-> 0]

Step(p, from, to) == /\ pc[p] = from /\ p \notin asleep
                     /\ pc' = [pc EXCEPT ![p] = to]

PinnedBlock(k) == \E b \in pinned : blockno[b] = k

(* bound: callers ask for a block only while those in use, pinned or asked *)
(* for leave a buffer; the code counts on NBUF being large enough.         *)
Demand == Cardinality(pinned \cup ({buf[q] : q \in Procs} \ {0}))
          + Cardinality({q \in Procs : pc[q] = "bget" /\ ~PinnedBlock(want[q])})

Bread(p) == \E k \in Blocks :
    /\ Demand < Cardinality(Bufs) \/ PinnedBlock(k)
    /\ Step(p, "idle", "bget") /\ want' = [want EXCEPT ![p] = k]
    /\ UNCHANGED <<virtioVars, asleep, cacheVars, slk, buf, dirty, last>>

Cached(k) == {b \in Bufs : blockno[b] = k}

(* bget(), the block is cached: the reference is taken under bcache.lock,  *)
(* before the sleep lock is waited for.                                    *)
BgetHit(p) == \E b \in Cached(want[p]) :
    /\ Step(p, "bget", "lock")
    /\ refcnt' = [refcnt EXCEPT ![b] = @ + 1]
    /\ buf' = [buf EXCEPT ![p] = b]
    /\ UNCHANGED <<virtioVars, asleep, blockno, valid, pinned, lru, slk, want, dirty, last>>

Unused == {b \in Bufs : refcnt[b] = 0}

(* The buffer without references that was used longest ago.                *)
Victim == lru[Max({n \in Bufs : lru[n] \in Unused})]

(* Not cached: a buffer is recycled; what it held stays in it, not valid.  *)

(* Mutant: the recycled buffer counts as read.                             *)
BgetMissValid(p) ==
    /\ Step(p, "bget", "lock") /\ Cached(want[p]) = {} /\ Unused # {}
    /\ blockno' = [blockno EXCEPT ![Victim] = want[p]]
    /\ refcnt' = [refcnt EXCEPT ![Victim] = 1]
    /\ buf' = [buf EXCEPT ![p] = Victim]
    /\ UNCHANGED <<virtioVars, asleep, valid, pinned, lru, slk, want, dirty, last>>

BgetMiss(p) ==
    /\ Step(p, "bget", "lock") /\ Cached(want[p]) = {} /\ Unused # {}
    /\ blockno' = [blockno EXCEPT ![Victim] = want[p]]
    /\ valid' = [valid EXCEPT ![Victim] = FALSE]
    /\ refcnt' = [refcnt EXCEPT ![Victim] = 1]
    /\ buf' = [buf EXCEPT ![p] = Victim]
    /\ UNCHANGED <<virtioVars, asleep, pinned, lru, slk, want, dirty, last>>

-----------------------------------------------------------------------------
(* Sleep locks.                                                            *)

LockWaiters(b) == {p \in Procs : pc[p] = "lock" /\ buf[p] = b}

AcquireSleep(p) ==
    /\ Step(p, "lock", "locked") /\ slk[buf[p]] = Nobody
    /\ slk' = [slk EXCEPT ![buf[p]] = p]
    /\ UNCHANGED <<virtioVars, asleep, cacheVars, want, buf, dirty, last>>

AcquireSleepWaits(p) ==
    /\ Step(p, "lock", "lock") /\ slk[buf[p]] # Nobody
    /\ asleep' = asleep \cup {p}
    /\ UNCHANGED <<virtioVars, cacheVars, slk, callVars>>

(* brelse(), first half: releasesleep().                                   *)
ReleaseSleep(p) ==
    /\ Step(p, "have", "unref") /\ ~dirty[p]
    /\ slk' = [slk EXCEPT ![buf[p]] = Nobody]
    /\ asleep' = asleep \ LockWaiters(buf[p])
    /\ UNCHANGED <<virtioVars, cacheVars, want, buf, dirty, last>>

(* lru with b moved to its front.                                          *)
ToFront(b) == LET n == CHOOSE m \in Bufs : lru[m] = b IN
    [m \in Bufs |-> IF m = 1 THEN b ELSE IF m <= n THEN lru[m - 1] ELSE lru[m]]

(* brelse(), second half: a buffer without references goes to the front.   *)
Unref(p) == LET b == buf[p] IN
    /\ Step(p, "unref", "idle")
    /\ refcnt' = [refcnt EXCEPT ![b] = @ - 1]
    /\ lru' = IF refcnt[b] = 1 THEN ToFront(b) ELSE lru
    /\ buf' = [buf EXCEPT ![p] = 0] /\ want' = [want EXCEPT ![p] = 0]
    /\ UNCHANGED <<virtioVars, asleep, blockno, valid, pinned, slk, dirty, last>>

-----------------------------------------------------------------------------
(* bread() reads a buffer that is not valid; bwrite(), bpin(), bunpin().   *)

StartRw(p) == Goto(p, "start") /\ UNCHANGED <<free, info, deviceVars, inIntr, bdisk, chain>>

ReadNeeded(p) ==
    /\ Step(p, "locked", "read") /\ ~valid[buf[p]] /\ StartRw(p)
    /\ UNCHANGED <<asleep, cacheVars, slk, want, buf, dirty, last>>

ReadCached(p) ==
    /\ Step(p, "locked", "have") /\ valid[buf[p]]
    /\ UNCHANGED <<virtioVars, asleep, cacheVars, slk, want, buf, dirty, last>>

ReadDone(p) ==
    /\ rw[p] = "out" /\ Step(p, "read", "have")
    /\ valid' = [valid EXCEPT ![buf[p]] = TRUE]
    /\ UNCHANGED <<virtioVars, asleep, blockno, refcnt, pinned, lru, slk, want, buf, dirty, last>>

Change(p) == LET b == buf[p] IN
    /\ Step(p, "have", "have") /\ ~dirty[p] /\ want[p] \in Changed
    /\ data' = [data EXCEPT ![b] = 1 - @] /\ last' = [last EXCEPT ![want[p]] = 1 - data[b]]
    /\ dirty' = [dirty EXCEPT ![p] = TRUE]
    /\ UNCHANGED <<driverVars, asleep, cacheVars, slk, want, buf>>

(* log_write() pins the buffer once.                                       *)
Bpin(p) == LET b == buf[p] IN
    /\ Step(p, "have", "have") /\ dirty[p]
    /\ refcnt' = IF b \in pinned THEN refcnt ELSE [refcnt EXCEPT ![b] = @ + 1]
    /\ pinned' = pinned \cup {b}
    /\ dirty' = [dirty EXCEPT ![p] = FALSE]
    /\ UNCHANGED <<virtioVars, asleep, blockno, valid, lru, slk, want, buf, last>>

Bwrite(p) ==
    /\ Step(p, "have", "write") /\ (dirty[p] \/ buf[p] \in pinned) /\ StartRw(p)
    /\ UNCHANGED <<asleep, cacheVars, slk, want, buf, dirty, last>>

(* Mutant: the pin is taken off, the reference stays.                      *)
WriteDoneKeeps(p) ==
    /\ rw[p] = "out" /\ Step(p, "write", "have")
    /\ dirty' = [dirty EXCEPT ![p] = FALSE]
    /\ pinned' = pinned \ {buf[p]}
    /\ UNCHANGED <<virtioVars, asleep, blockno, valid, refcnt, lru, slk, want, buf, last>>

(* After the write a pinned buffer is unpinned, as install_trans() does.   *)
WriteDone(p) == LET b == buf[p] IN
    /\ rw[p] = "out" /\ Step(p, "write", "have")
    /\ dirty' = [dirty EXCEPT ![p] = FALSE]
    /\ refcnt' = IF b \in pinned THEN [refcnt EXCEPT ![b] = @ - 1] ELSE refcnt
    /\ pinned' = pinned \ {b}
    /\ UNCHANGED <<virtioVars, asleep, blockno, valid, lru, slk, want, buf, last>>

-----------------------------------------------------------------------------
Driver(p) ==
    /\ \/ pc[p] \in {"read", "write"} /\ Submit(p, buf[p], blockno[buf[p]], pc[p] = "write")
       \/ SubmitFull(p) \/ Finish(p) \/ WaitAgain(p)
    /\ UNCHANGED <<cacheVars, slk, callVars>>

(* kill() wakes a sleeper, wherever it sleeps.                             *)
Kill(p) == p \in asleep /\ asleep' = asleep \ {p}
           /\ UNCHANGED <<virtioVars, cacheVars, slk, callVars>>

Serve(p) == BgetHit(p) \/ BgetMiss(p) \/ AcquireSleep(p) \/ AcquireSleepWaits(p)
            \/ ReadNeeded(p) \/ ReadCached(p) \/ ReadDone(p) \/ WriteDone(p)
            \/ Unref(p) \/ Driver(p)

Use(p) == Bread(p) \/ ReleaseSleep(p) \/ Change(p) \/ Bpin(p) \/ Bwrite(p)

Hardware == (Device \/ Interrupt) /\ UNCHANGED <<cacheVars, slk, callVars>>

Next == (\E p \in Procs : Serve(p) \/ Use(p) \/ Kill(p)) \/ Hardware

(* A process in the kernel goes on, the device serves what it has been     *)
(* told of, and its interrupt is taken.                                    *)
Fairness ==
    /\ \A p \in Procs : SF_vars(Serve(p))
    /\ WF_vars(DeviceTake /\ UNCHANGED <<cacheVars, slk, callVars>>)
    /\ WF_vars(DeviceDone /\ UNCHANGED <<cacheVars, slk, callVars>>)
    /\ WF_vars(Interrupt /\ UNCHANGED <<cacheVars, slk, callVars>>)

Spec == Init /\ [][Next]_vars
FairSpec == Spec /\ Fairness

-----------------------------------------------------------------------------
(* Properties.                                                             *)

TypeOK ==
    /\ DriverTypeOK
    /\ blockno \in [Bufs -> Blocks \cup {0}] /\ valid \in [Bufs -> BOOLEAN]
    /\ refcnt \in [Bufs -> Nat] /\ pinned \subseteq Bufs
    /\ lru \in [Bufs -> Bufs] /\ \A b \in Bufs : \E n \in Bufs : lru[n] = b
    /\ slk \in [Bufs -> Procs \cup {Nobody}]
    /\ pc \in [Procs -> PCs] /\ dirty \in [Procs -> BOOLEAN]
    /\ want \in [Procs -> Blocks \cup {0}] /\ buf \in [Procs -> Bufs \cup {0}]
    /\ last \in [Blocks -> {0, 1}]

(* Who holds a block sees what was last put into it, whichever buffer it   *)
(* came through and whether it is on disk or only pinned.                  *)
SeesLatest == \A p \in Procs :
    pc[p] = "have" => blockno[buf[p]] = want[p] /\ data[buf[p]] = last[want[p]]

(* Where a process has a buffer, and where it has it locked.               *)
Referring == PCs \ {"idle", "bget"}
Holding == {"locked", "read", "have", "write"}

(* A process has a buffer of the block it asked for, valid once it is read. *)
CallOK(p) ==
    /\ pc[p] # "idle" => want[p] \in Blocks
    /\ IF pc[p] \in Referring
       THEN buf[p] \in Bufs /\ blockno[buf[p]] = want[p] ELSE buf[p] = 0
    /\ rw[p] # "out" => pc[p] \in {"read", "write"}
    /\ dirty[p] => pc[p] \in {"have", "write"}
    /\ pc[p] \in {"have", "write"} => valid[buf[p]]
    /\ pc[p] = "read" => ~valid[buf[p]]
    /\ p \in asleep => rw[p] \in {"full", "wait"} \/ pc[p] = "lock"

(* One process holds it locked: who changes it, or has the driver at it.   *)
LockInv == \A b \in Bufs, p \in Procs :
    slk[b] = p <=> buf[p] = b /\ pc[p] \in Holding

CallInv == (\A p \in Procs : CallOK(p)) /\ LockInv

(* A block is in one buffer, and whoever waits for it or pins it has a     *)
(* reference, so that it is not recycled.                                  *)
OneBuffer ==
    /\ \A b, c \in Bufs : blockno[b] = blockno[c] /\ blockno[b] # 0 => b = c
    /\ \A b \in Bufs : refcnt[b] = Cardinality({p \in Procs : buf[p] = b})
                                   + (IF b \in pinned THEN 1 ELSE 0)
    /\ \A b \in Bufs : valid[b] => blockno[b] # 0
    /\ \A b \in pinned : valid[b]

(* The driver is asked for what its caller holds.                          *)
AsksForHeld == \A p \in Procs : rw[p] = "wait" =>
    info[chain[p][1]] = [buf |-> buf[p], blk |-> want[p], write |-> pc[p] = "write"]

(* bget() finds a buffer (no panic "bget: no buffers") as long as there    *)
(* are as many as are in use, pinned or asked for: none leaks.             *)
BufferForAll == \A p \in Procs :
    pc[p] = "bget" => Cached(want[p]) # {} \/ Unused # {}

(* The blocks asked for and not in a buffer in use: an unused buffer each. *)
Needed == {want[p] : p \in {q \in Procs : pc[q] = "bget"}}
          \ {blockno[b] : b \in Bufs \ Unused}
EnoughBuffers == Cardinality(Needed) <= Cardinality(Unused)

(* A valid buffer has what was last put into its block.                    *)
BufferLatest == \A b \in Bufs : valid[b] => data[b] = last[blockno[b]]

(* So has the disk, unless the buffer is pinned or its holder is still to  *)
(* write it or pin it.                                                     *)
Unwritten(b) == b \in pinned \/ \E p \in Procs : dirty[p] /\ buf[p] = b
DiskLatest == \A k \in Blocks :
    content[k] = last[k] \/ \E b \in Bufs : blockno[b] = k /\ Unwritten(b)

(* The device has done the request of p, which is not finished yet: what   *)
(* it read is the latest, and what it wrote is on disk.                    *)
Served(p) == /\ pc[p] \in {"read", "write"}
             /\ \/ rw[p] = "out"
                \/ rw[p] = "wait" /\ chain[p][1] \notin ToSet(avail) \cup busy
ServedOK(p) == Served(p) =>
    IF pc[p] = "read" THEN data[buf[p]] = last[want[p]] ELSE content[want[p]] = last[want[p]]

Coherent == BufferLatest /\ DiskLatest /\ \A p \in Procs : ServedOK(p)

(* Nobody sleeps after what it waits for has come: the sleep lock, three   *)
(* descriptors, or the completion of its request.                          *)
HasReason(p) ==
    CASE rw[p] = "full" -> Cardinality(free) < 3
      [] rw[p] = "wait" -> buf[p] \in bdisk
      [] OTHER -> slk[buf[p]] # Nobody
SleepersHaveReason == \A p \in asleep : HasReason(p)

(* Buffers, references, descriptors and requests are all accounted for, and *)
(* no wakeup is lost.                                                      *)
CacheInv == /\ TypeOK /\ CallInv /\ OneBuffer /\ BufferForAll /\ EnoughBuffers
            /\ DescsConserved /\ ChainInv /\ RequestsAccounted /\ AsksForHeld
            /\ InterruptComes /\ SleepersHaveReason /\ Coherent

(* A request that the device has been told of ends, and its caller goes on *)
(* (sleep locks are not fair, so who waits for one has no such promise).   *)
RequestEnds == \A p \in Procs : (rw[p] = "wait") ~> (rw[p] = "out")

=============================================================================
