-------------------------------- MODULE Log --------------------------------
(* The write-ahead log of the file system (kernel/log.c): operations that  *)
(* share a transaction, the group commit in end_op(), and recovery.        *)
(*                                                                         *)
(* A disk write of one block is one step, and the machine may crash before *)
(* and after it: memory is lost, the disk is not.  A block is modified and *)
(* passed to log_write() under its buffer lock, in one step.  A logged     *)
(* block is pinned, so what bread() returns for it is what was written;    *)
(* the cache as a whole is the function cache from blocks to contents.     *)
(* Left out: the replacement of buffers, the contents of blocks beyond     *)
(* equality, torn writes of a block (the header is one block).             *)
EXTENDS Naturals, Sequences, FiniteSets

CONSTANTS
    Blocks,         \* home blocks of the file system
    Values,         \* contents of a block
    InitialValue,
    Ops,            \* the threads that perform file-system operations
    MaxOpBlocks,    \* MAXOPBLOCKS: what begin_op() reserves for one operation
    OpWrites,       \* what the longest operation writes, as filewrite() cuts it
    LogSize,        \* LOGSIZE: entries of the header
    LogBlocks       \* log.size, from the superblock: header and log blocks

ASSUME LogAssumption ==
    /\ InitialValue \in Values
    /\ MaxOpBlocks \in Nat \ {0}
    /\ OpWrites \in 0..MaxOpBlocks
    /\ LogSize \in Nat
    /\ LogBlocks \in Nat
    /\ IsFiniteSet(Ops)

VARIABLES
    home,       \* disk: home blocks
    logged,     \* disk: blocks of the log, by position
    head,       \* disk: the header block, as the sequence of block numbers
    cache,      \* memory: buffer contents
    lh,         \* memory: log.lh
    op,         \* where each operation is
    wrote,      \* the blocks an operation has written
    committing, \* log.committing
    phase,      \* the point in commit() or recover_from_log()
    tail,       \* the loop counter of write_log() and install_trans()
    panicked

diskVars == <<home, logged, head>>
vars == <<home, logged, head, cache, lh, op, wrote, committing, phase, tail,
          panicked>>

(* Where an operation is: not in one; in begin_op(), about to test for     *)
(* room; asleep on &log; between begin_op() and end_op().                  *)
OpStates == {"out", "begin", "asleep", "in"}
CommitPhases == {"write_log", "write_head", "install", "clear", "done"}
RecoveryPhases == {"r_head", "r_install", "r_clear"}

Outstanding == {o \in Ops : op[o] = "in"}

Rng(s) == {s[i] : i \in DOMAIN s}

Init ==
    /\ home = [b \in Blocks |-> InitialValue]
    /\ logged = [i \in 1..LogSize |-> InitialValue]
    /\ head = <<>>
    /\ cache = home
    /\ lh = <<>>
    /\ op = [o \in Ops |-> "out"]
    /\ wrote = [o \in Ops |-> {}]
    /\ committing = FALSE
    /\ phase = "idle"
    /\ tail = 1
    /\ panicked = FALSE

(* The kernel runs, and file-system calls may be made.                     *)
Up == ~panicked /\ phase \notin RecoveryPhases

Woken == [o \in Ops |-> IF op[o] = "asleep" THEN "begin" ELSE op[o]]

-----------------------------------------------------------------------------
CallBeginOp(o) ==
    /\ Up /\ op[o] = "out"
    /\ op' = [op EXCEPT ![o] = "begin"]
    /\ UNCHANGED <<diskVars, cache, lh, wrote, committing, phase, tail, panicked>>

(* One pass of begin_op()'s loop.                                          *)
(* Mutant: this operation itself is not counted.                           *)
RoomForOthers == Len(lh) + Cardinality(Outstanding) * MaxOpBlocks <= LogSize

Room == Len(lh) + (Cardinality(Outstanding) + 1) * MaxOpBlocks <= LogSize

BeginOp(o) ==
    /\ Up /\ op[o] = "begin"
    /\ op' = [op EXCEPT ![o] = IF ~committing /\ Room THEN "in" ELSE "asleep"]
    /\ UNCHANGED <<diskVars, cache, lh, wrote, committing, phase, tail, panicked>>

(* An operation writes at most OpWrites different blocks: filewrite() cuts *)
(* a write into pieces of three blocks' length, which may touch four, with *)
(* an indirect block, the bitmap block and the inode: seven of ten.        *)
MayWrite(o, b) == Cardinality(wrote[o] \cup {b}) <= OpWrites

LogFull == Len(lh) >= LogSize \/ Len(lh) + 1 >= LogBlocks

(* Mutant: no absorption, a block is logged once for every write.          *)
LogWriteTwice(o, b, v) ==
    /\ Up /\ op[o] = "in" /\ MayWrite(o, b)
    /\ ~LogFull
    /\ cache' = [cache EXCEPT ![b] = v]
    /\ lh' = Append(lh, b)
    /\ wrote' = [wrote EXCEPT ![o] = @ \cup {b}]
    /\ UNCHANGED <<diskVars, op, committing, phase, tail, panicked>>

(* A block is modified and log_write() absorbs it or adds it to log.lh, or *)
(* panics with "too big a transaction", which it tests before absorption.  *)
LogWrite(o, b, v) ==
    /\ Up /\ op[o] = "in" /\ MayWrite(o, b)
    /\ IF LogFull
         THEN panicked' = TRUE /\ UNCHANGED <<cache, lh, wrote>>
         ELSE /\ cache' = [cache EXCEPT ![b] = v]
              /\ lh' = IF b \in Rng(lh) THEN lh ELSE Append(lh, b)
              /\ wrote' = [wrote EXCEPT ![o] = @ \cup {b}]
              /\ UNCHANGED panicked
    /\ UNCHANGED <<diskVars, op, committing, phase, tail>>

(* end_op() of an operation that is not the last.                          *)
EndOp(o) ==
    /\ Up /\ op[o] = "in" /\ Outstanding # {o}
    /\ op' = [Woken EXCEPT ![o] = "out"]
    /\ wrote' = [wrote EXCEPT ![o] = {}]
    /\ UNCHANGED <<diskVars, cache, lh, committing, phase, tail, panicked>>

(* Mutant: the last end_op() does not commit.                              *)
EndLastOpNoCommit(o) ==
    /\ Up /\ op[o] = "in" /\ Outstanding = {o}
    /\ op' = [op EXCEPT ![o] = "out"]
    /\ wrote' = [wrote EXCEPT ![o] = {}]
    /\ UNCHANGED <<diskVars, cache, lh, committing, phase, tail, panicked>>

(* end_op() of the last: it goes on to commit().                           *)
EndLastOp(o) ==
    /\ Up /\ op[o] = "in" /\ Outstanding = {o}
    /\ op' = [op EXCEPT ![o] = "out"]
    /\ wrote' = [wrote EXCEPT ![o] = {}]
    /\ committing' = TRUE
    /\ phase' = IF lh = <<>> THEN "done" ELSE "write_log"
    /\ tail' = 1
    /\ UNCHANGED <<diskVars, cache, lh, panicked>>

-----------------------------------------------------------------------------
(* commit().                                                               *)

WriteLog ==
    /\ Up /\ phase = "write_log"
    /\ logged' = [logged EXCEPT ![tail] = cache[lh[tail]]]
    /\ IF tail < Len(lh) THEN tail' = tail + 1 /\ UNCHANGED phase
                         ELSE tail' = 1 /\ phase' = "write_head"
    /\ UNCHANGED <<home, head, cache, lh, op, wrote, committing, panicked>>

(* The true point at which the transaction commits.                        *)
WriteHead ==
    /\ Up /\ phase = "write_head"
    /\ head' = lh
    /\ phase' = "install"
    /\ UNCHANGED <<home, logged, cache, lh, op, wrote, committing, tail, panicked>>

(* One block of install_trans(); the buffer gets the same contents.        *)
InstallTrans(next) ==
    /\ home' = [home EXCEPT ![lh[tail]] = logged[tail]]
    /\ cache' = [cache EXCEPT ![lh[tail]] = logged[tail]]
    /\ IF tail < Len(lh) THEN tail' = tail + 1 /\ UNCHANGED phase
                         ELSE tail' = 1 /\ phase' = next
    /\ UNCHANGED <<logged, head, lh, op, wrote, committing, panicked>>

Install == Up /\ phase = "install" /\ InstallTrans("clear")

Clear ==
    /\ Up /\ phase = "clear"
    /\ lh' = <<>>
    /\ head' = <<>>
    /\ phase' = "done"
    /\ UNCHANGED <<home, logged, cache, op, wrote, committing, tail, panicked>>

(* Mutant: no wakeup after the commit.                                     *)
CommitDoneSilent ==
    /\ Up /\ phase = "done"
    /\ committing' = FALSE
    /\ phase' = "idle"
    /\ UNCHANGED <<diskVars, cache, lh, op, wrote, tail, panicked>>

(* end_op(), after commit().                                               *)
CommitDone ==
    /\ Up /\ phase = "done"
    /\ committing' = FALSE
    /\ phase' = "idle"
    /\ op' = Woken
    /\ UNCHANGED <<diskVars, cache, lh, wrote, tail, panicked>>

-----------------------------------------------------------------------------
(* A crash, or the reboot after a panic: the boot sequence comes to        *)
(* recover_from_log() with empty memory.                                   *)
Crash ==
    /\ phase' = "r_head"
    /\ cache' = home
    /\ lh' = <<>>
    /\ op' = [o \in Ops |-> "out"]
    /\ wrote' = [o \in Ops |-> {}]
    /\ committing' = FALSE
    /\ tail' = 1
    /\ panicked' = FALSE
    /\ UNCHANGED diskVars

(* Mutant: recovery forgets a committed transaction.                       *)
ReadHeadForgets ==
    /\ phase = "r_head"
    /\ lh' = head
    /\ phase' = "r_clear"
    /\ UNCHANGED <<diskVars, cache, op, wrote, committing, tail, panicked>>

ReadHead ==
    /\ phase = "r_head"
    /\ lh' = head
    /\ phase' = IF head = <<>> THEN "r_clear" ELSE "r_install"
    /\ UNCHANGED <<diskVars, cache, op, wrote, committing, tail, panicked>>

RecoverInstall == phase = "r_install" /\ InstallTrans("r_clear")

RecoverClear ==
    /\ phase = "r_clear"
    /\ lh' = <<>>
    /\ head' = <<>>
    /\ phase' = "idle"
    /\ UNCHANGED <<home, logged, cache, op, wrote, committing, tail, panicked>>

Operation(o) ==
    \/ CallBeginOp(o) \/ BeginOp(o) \/ EndOp(o) \/ EndLastOp(o)
    \/ \E b \in Blocks, v \in Values : LogWrite(o, b, v)

Commit == WriteLog \/ WriteHead \/ Install \/ Clear \/ CommitDone

Recover == ReadHead \/ RecoverInstall \/ RecoverClear

Next == (\E o \in Ops : Operation(o)) \/ Commit \/ Recover \/ Crash

Spec == Init /\ [][Next]_vars

-----------------------------------------------------------------------------
(* What recovery makes of home blocks hm, given the header and the log.    *)
Recovered(hd, lg, hm) ==
    [b \in Blocks |-> IF b \in Rng(hd)
                        THEN lg[CHOOSE i \in DOMAIN hd : hd[i] = b]
                        ELSE hm[b]]

Durable == Recovered(head, logged, home)

View == IF phase \in RecoveryPhases THEN Durable ELSE cache

Disk == INSTANCE AtomicDisk WITH durable <- Durable, view <- View,
                                 active <- Outstanding

(* Every variable keeps its type.                                          *)
TypeOK ==
    /\ home \in [Blocks -> Values] /\ cache \in [Blocks -> Values]
    /\ logged \in [1..LogSize -> Values]
    /\ head \in Seq(Blocks) /\ lh \in Seq(Blocks)
    /\ op \in [Ops -> OpStates]
    /\ wrote \in [Ops -> SUBSET Blocks]
    /\ committing \in BOOLEAN /\ panicked \in BOOLEAN
    /\ phase \in {"idle"} \cup CommitPhases \cup RecoveryPhases
    /\ tail \in Nat \ {0}

(* Transactions are atomic over crashes, also during commit and recovery:  *)
(* the log implements AtomicDisk.                                          *)
DiskSpec == Disk!Spec

(* When the last end_op() has returned, its transaction is on the disk.    *)
DurableWhenQuiet == phase = "idle" /\ Outstanding = {} => Durable = cache

(* No operation sleeps in begin_op() with nobody left to wake it.          *)
NoLostWakeup ==
    (\E o \in Ops : op[o] = "asleep") => committing \/ Outstanding # {}

(* The reservations of begin_op() suffice: no operation in progress finds  *)
(* the log full, with a new block or with one that is logged already,      *)
(* although log_write() counts the header among the blocks of the log and  *)
(* begin_op() does not.                                                    *)
LogHasRoom == \A o \in Outstanding, b \in Blocks : MayWrite(o, b) => ~LogFull

-----------------------------------------------------------------------------
(* The inductive invariant behind DiskSpec.                                *)

Injective(s) == \A i, j \in DOMAIN s : s[i] = s[j] => i = j

(* The blocks not in the transaction are the same in the cache and at      *)
(* home; its first n blocks have been copied: from the cache to the log,   *)
(* or from the log home.                                                   *)
OthersClean == \A b \in Blocks \ Rng(lh) : cache[b] = home[b]
CopiedToLog(n) == \A i \in 1..n : logged[i] = cache[lh[i]]
CopiedHome(n) == \A i \in 1..n : home[lh[i]] = logged[i]

PhaseInv ==
    /\ phase \in {"idle", "write_log", "write_head", "done", "r_head"} => OthersClean
    /\ phase \in {"idle", "write_log", "write_head", "done"} => head = <<>>
    /\ phase \in {"install", "clear", "r_install", "r_clear"} => head = lh
    /\ phase \in {"done", "r_head"} => lh = <<>>
    /\ phase \in {"write_log", "write_head", "install", "r_install"} =>
          tail \in 1..Len(lh)
    /\ phase \in {"write_head", "r_head"} => tail = 1
    /\ phase = "write_log" => CopiedToLog(tail - 1)
    /\ phase \in {"write_head", "install"} => CopiedToLog(Len(lh))
    /\ phase = "install" => OthersClean
    /\ phase \in {"install", "r_install"} => CopiedHome(tail - 1)
    /\ phase \in {"clear", "r_clear"} => CopiedHome(Len(lh))
    /\ phase \in {"clear", "r_install", "r_clear"} => cache = home

(* The log entries promised to the operations in progress and not yet used *)
(* fit behind those in use.                                                *)
Promised == {e \in Outstanding \X (1..MaxOpBlocks) : e[2] > Cardinality(wrote[e[1]])}

RoomInv ==
    /\ Len(lh) + Cardinality(Promised) <= LogSize
    /\ \A o \in Ops : op[o] # "in" => wrote[o] = {}
    /\ \A o \in Ops : /\ IsFiniteSet(wrote[o]) /\ wrote[o] \subseteq Rng(lh)
                      /\ Cardinality(wrote[o]) <= OpWrites

LogInv ==
    /\ TypeOK
    /\ RoomInv
    /\ Injective(lh) /\ Injective(head)
    /\ Len(lh) <= LogSize /\ Len(head) <= LogSize
    /\ committing <=> phase \in CommitPhases
    /\ phase # "idle" => Outstanding = {}
    /\ phase = "idle" /\ Outstanding = {} => lh = <<>>
    /\ PhaseInv

=============================================================================
