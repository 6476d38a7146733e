# Verification of Extended-XV6

This directory holds a formal model of the Extended-XV6 repository: the RISC-V
xv6 kernel with its lottery and MLFQ schedulers, alarms and system-call
counters (`src/initial-xv6/`), and two small network programs
(`src/networks/`). The modules are written in TLA+, small instances of them
are checked with TLC, and the properties that matter most are proved for every
value of the constants with TLAPS.

`PROJECT.json` lists the runs, which source lines each definition stands for,
the mutants that show that the properties bite, the hazards of the code and the
theorems.

- Check a model: `tlc -workers 2 -config MCLog.cfg MCLog`
- Check a proof: `tlapm LogProofs.tla`

## 1. Inventory

Paths are relative to `src/initial-xv6/src/kernel/` unless they start with
`networks/` or `user/`.

| component | state | operations | what makes it hard | correct when |
|---|---|---|---|---|
| process table and life cycle (`proc.c`, `sysproc.c`) | `proc[NPROC]`: state, pid, parent, chan, killed; `nextpid`; `wait_lock` | allocproc, freeproc, fork, exit, reparent, wait/waitx, kill, sleep, wakeup, sys_sleep | every CPU runs it; test-then-sleep; slots are recycled; kill is asynchronous | no lost wakeup, no dangling parent, unique pids, killed processes exit, zombies are reaped |
| dispatch and context switch (`proc.c`, `swtch.S`) | `cpus[]`: proc, context, noff, intena | scheduler, sched, yield, forkret | `p->lock` is acquired on one stack and released on another | a kernel stack is used by one CPU |
| MLFQ (`proc.c`, `trap.c`) | priority, time_slice, ticks | search, dispatch, demote, boost, the slice of usertrap and yield | the slice is written from four places, one without a lock | slices fit the queue and never pass 0, nobody starves, hogs sink |
| lottery (`proc.c`) | tickets, creation_time | settickets, draw | the draw is not atomic with the count or the dispatch | only RUNNABLE processes win; tickets are inherited |
| interrupt nesting (`spinlock.c`) | SIE, noff, intena | push_off, pop_off, intr_on | carried across swtch | an idle CPU can take the timer interrupt |
| write-ahead log (`log.c`) | log.lh, outstanding, committing; header and log blocks on disk | begin_op, log_write, end_op, commit, recovery | group commit; a crash anywhere, also in recovery | transactions are atomic and durable, reservations suffice, no lost wakeup |
| buffer cache, sleep locks (`bio.c`, `sleeplock.c`) | LRU list, refcnt, valid; locked, pid | bget, bread, bwrite, brelse, bpin | reuse of a buffer between lookup and lock; pinned buffers | one buffer per block; a referenced buffer is not recycled |
| virtio driver (`virtio_disk.c`) | descriptors, avail and used rings | virtio_disk_rw, interrupt | completion races submission; descriptors run out | a request completes once and its descriptors return |
| inodes, directories, files (`fs.c`, `file.c`, `sysfile.c`) | itable, nlink, ref, ftable | ialloc, iget, ilock, iput, link, unlink, open, dup, close | unlink while open; iput drops the lock before truncating; crash with an open unlinked file | nlink and ref agree with use; blocks are freed once |
| pipes (`pipe.c`) | ring of PIPESIZE bytes, nread, nwrite, readopen, writeopen | pipewrite, piperead, pipeclose | two sleep channels; kill; faults in the middle; wrapping indices | a bounded FIFO queue; nobody sleeps without reason |
| alarms (`sysproc.c`, `trap.c`) | alarm_interval, ticks, alarm_on_off, alarm_trapframe | sigalarm, delivery, sigreturn | reentrancy, exec, fork and exit during a handler | the interrupted context comes back exactly once |
| accounting (`proc.c`, `syscall.c`) | rtime, etime, syscall_count[] | update_time, waitx, getSysCount | recycled slots, reaped children | counts are those of the living tree |
| console and UART (`console.c`, `uart.c`) | ring buffers r, w, e; uart_tx_r, uart_tx_w | consoleread, consolewrite, consoleintr, uartputc, uartstart, uartintr | interrupt against process; line editing; wrapping indices | characters are neither lost nor repeated, neither direction gets stuck |
| mkfs (`../mkfs/mkfs.c`) | freeinode, freeblock, the image | ialloc, iappend, the fix of the root's size | it must agree with fs.c | the kernel finds a consistent disk |
| user allocator (`user/umalloc.c`) | the circular free list, freep | malloc, free, morecore | any order of calls | no unit is lost or given out twice |
| page allocator, virtual memory, exec (`kalloc.c`, `vm.c`, `exec.c`) | free list, page tables | kalloc, kfree, uvm*, fork, exec, sbrk | allocation fails at any point of every call | pages are owned once, a failed call undoes what it did |
| traps, system calls (`trap.c`, `syscall.c`) | trapframe, SIE, killed | usertrap, kerneltrap, clockintr, devintr | where a timer interrupt arrives | a killed process exits; ticks advance |
| boot, exec, library, user programs | - | - | - | clients, hardware set-up or sequential code |
| reliable messages (`networks/partB`) | packets[], received_chunks, the retry loop | send_with_retry, receive and reassemble | loss, delay, duplication by retransmission | an acknowledged chunk has arrived; a message is delivered whole |
| tic-tac-toe (`networks/partA`) | board, players, current player | move, play again | moves from anybody, UDP loss | the players alternate; both see the result |

How they interact. Processes, interrupt handlers and the scheduler of each CPU
share the tables above through spinlocks. sleep() and wakeup() connect
everything that waits: wait() with exit(), sys_sleep() with clockintr(), the
two ends of a pipe, begin_op() with end_op(), the driver with its interrupt;
kill() cuts into all of them. The timer interrupt enters through usertrap() or
kerneltrap() and ends in yield(). The file system calls the log, the log the
buffer cache, the cache the driver. The network programs are separate: two
processes that share nothing but datagrams.

## 2. Modules

| module | models |
|---|---|
| `Proc` | process table, locks and context switch |
| `ProcInv` | the inductive invariant of `Proc`, in named parts |
| `ProcLife`, `ProcRefines` | the life cycle by pid, and the mapping of `Proc` onto it |
| `Mlfq`, `SchedIntr`, `Lottery` | the MLFQ scheduler and its slices; interrupts around swtch() for the three schedulers; the lottery and its tickets |
| `Accounting` | what waitx() and getSysCount() report |
| `AtomicDisk`, `Log` | what the log promises, and the log block by block |
| `VirtioDisk`, `BufCache` | the driver and the device; the buffer cache with its sleep locks over them |
| `Inode`, `FileSys`, `Mkfs` | inodes, blocks and directories as operators; the file system calls over them; the image they start from |
| `AtomicPipe`, `Pipe` | what a pipe promises, and the pipe byte by byte |
| `LineDevice`, `Console` | what a terminal promises, and the console over the UART |
| `PageTable`, `Memory` | page tables as operators; fork, exec, sbrk, exit and alarms over them |
| `Malloc` | the allocator of a user process |
| `ReliableUdp`, `TicTacToe` | the two network programs |
| `ProcProofs`, `LogProofs`, `CacheProofs`, `BlockingProofs`, `NetProofs`, `ConsoleProofs`, `InodeProofs`, `FileSysProofs` | theorems, about `Proc`, `ProcRefines` and `Mlfq`, `Log`, `BufCache` with `VirtioDisk`, `Pipe`, `TicTacToe` and `ReliableUdp`, `Console`, `Inode`, `FileSys` |
| `MC*` | values for TLC |

Composition. `FileSys` is built over `Inode`, `BufCache` over `VirtioDisk`,
`Memory` over `PageTable`: in each pair the second calls what the first
defines. `FileSys` takes a call between begin_op() and end_op() as durable
together or not at all, which is what `Log` shows of them by implementing
`AtomicDisk`; `Log` in turn takes from `BufCache` that a pinned buffer stays
and that who holds a block sees its latest contents (`SeesLatest`, theorem
`LatestSeen`).

Components that share nothing are checked side by side in one run
(`MCProcSafety`, `MCSched`, `MCBlocking`, `MCKernel`, `MCNet`). Such a module
has a variable `part` that says, from the initial state on, which of the models
the behaviour belongs to; the others stay in their initial states. The states
are the sum of the states of the parts, not their product, and a property of a
part is stated as `part = ... => property`, or holds of the initial state in
which the other parts leave it.

### Proc

A step is a stretch of kernel code under locks that it takes and releases
itself, or from one acquire or release of a longer-held lock to the next. A
thread's place is `pc`; `plock`, `wait_lock` and `tickslock` are the spinlocks
that outlive a step; `ctx` and `cproc` say which stack each CPU is on. The hand-over through
swtch() is visible: `SwitchAway` leaves a process's stack with its lock held,
and `SchedReturn` releases that lock on the scheduler's stack; `Pick` and
`ForkRet` do it the other way.

| actions | code |
|---|---|
| Pick, SwitchAway, SchedReturn, ForkRet, Yield, YieldReturn, SleepReturn | scheduler, sched, forkret, yield, sleep |
| ForkAlloc, ForkAllocFails, ForkCopied, ForkCopyFails, ForkParent, ForkRunnable | allocproc and fork; a fork may run out of memory at either point |
| ExitCall, ExitLock, ExitReparent, ExitWakeup, ExitZombie, TrapKilled | exit, and the tests of killed in usertrap |
| WaitCall, WaitLock, WaitReap, WaitCopyoutFails, WaitNoKids, WaitNoZombie, WaitTestKilled, WaitSleep | wait (waitx differs only in what it reports) |
| Kill | kill |
| TickCall, TickLock, TickCheck, TickSleep, ClockIntr | sys_sleep and clockintr |

Left out: what hangs from a process (pages, files, names, xstate); the sleep of exit()
on the disk while it closes files; which process the scheduler prefers.

`ProcLife` states the life cycle without slots, locks or CPUs: a pid is born
once, has one living parent, exits once after its children went to init, and is
reaped once by the parent. `ProcRefines` maps the table to it (`living` = the pids of
slots that sleep, run or are runnable, `zombies` = those of ZOMBIE slots,
`family` = the pairs that `parent` names), and `LifeSpec` says that `Proc` implements it.

### Mlfq

The loop of scheduler() is cut at its critical sections (test of ticks, boost,
search of one queue, dispatch, settling of the slice), and usertrap()'s
`p->time_slice--` into a load and a store, because it holds no lock. ticks is
counted modulo the boost period.

### SchedIntr

SIE, intena and the place of each CPU; a process only computes, sleeps until
the next tick or exits with interrupts on or off. `policy` is the value of
SCHEDULER the kernel was built with and never changes.

### Lottery

Each CPU goes twice over the table, one slot and one p->lock at a time:
`CountSlot` adds up tickets, `Draw` takes a number below the total (rand() is any
number), `PickSlot` looks for its holder, `RunWinner` takes the winner's lock
again and looks at its state again. The totals are ints that wrap at `IntMax`.
`ForkTickets` is the assignment at `proc.c:379`, which comes after the child is
RUNNABLE and has no lock. A zombie counts as an unused slot; `Proc` tells the
two apart.

### Accounting

`rtime`, `etime` and `syscall_count` belong to slots; nothing resets them when a
slot is used again, and ctime is always 0 (allocproc sets creation_time, a
different field). `ClockIntr` is the tick with the slots of update_time() one by
one, during which processes move; `GetSysCount` follows the parent pointers as
the recursion does.

### Log

Each disk write of one block is a step; `Crash` may come between any two,
during recovery too, and keeps only `home`, `logged` and `head`. `AtomicDisk`
has three actions that matter: Write changes what operations read, Sync makes
it all durable at a moment when no operation is in progress, Crash takes back
what was not. The mapping defines *durable* as what recovery would make of the
disk at this moment; so the linearisation point of a commit is the write of the
header, and every other step of commit and recovery is a stutter.

### VirtioDisk and BufCache

`VirtioDisk` has the descriptors, the two rings, the callers that sleep for
descriptors or for completion, the interrupt handler with its loop taken apart,
and as its environment a device that takes requests, finishes them in any
order and raises its interrupt. `BufCache` runs bget() (hit, or the least
recently used buffer without references), acquiresleep(), bread(), bwrite(),
bpin(), bunpin() and the two halves of brelse() over it. kill() wakes a sleeper
anywhere. The callers are those of the kernel: read, change and write a block,
or change and pin it now and write and unpin it later. Buffers are the slots
1 to `NBUF` of bcache.buf; the list of binit() and brelse() is the function
`lru`, which gives the order of last use.

### Inode, FileSys and Mkfs

`Inode` defines on a record `s` (disk, bitmap, directory entries, inode table)
what the functions of fs.c do to it: ialloc, iget, idup, ilock's read, iupdate,
itrunc, balloc, bmap with its indirect block, readi, writei, dirlookup, dirlink. A
block holds one unit of a file or `EntriesPerBlock` entries; the table has one
entry for each inode. `Readi` allocates a block that is missing below size, in memory alone, as
bmap() does for readers too; `Dirlookup`, `Dirlink` and the calls that read a directory or a
file go through it, and a lookup that finds no entry has read the directory to its end.

`FileSys` gives each process a place `pc`, the call it makes, the path that is
left and an agenda of unlocks and puts that it owes. A step runs from one
acquisition of an inode's sleep lock, or of itable.lock in iput(), to the next.
The three parts of iput() (test of ref and nlink, truncation, drop) are steps,
and so are each element of namex(), each turn of the loop in filewrite() and
each close in exit(). open, mkdir, mknod, link, unlink, chdir, exec, close, dup, read,
write, pipe, fork and exit are all there, with their failures. `Crash` clears all
memory between calls.

`Mkfs` is the host program on the same records: ialloc() and iappend() with
its two counters, the entries of the root, and the correction of the root's
size at the end, which rounds up a size that is already a whole number of blocks. `FirstBoot` is
what `user/init.c` does first: an open() of the console that reads the root to its end, and the
mknod() that writes it back.

### Pipe

Any number of readers and writers. pi->lock is held over the loops, which are
taken apart byte by byte because kill() does not take that lock. copyin() and
copyout() may fail at every byte. nread and nwrite wrap at `Wrap` (2^32). The
two loops of piperead are the places "wait" and "copy". `AtomicPipe` is a
queue with two ends that close once.

### Console

Input: `Key` and `Getc` bring a character to consoleintr(), which edits the ring
(`Backspace`, `KillLine`, `Store`; end of line, end of file and a full ring make
it ready) and owes echoes; readers take characters up to a line end, their
count or a fault. Output: writers fill the ring, uartstart() moves it to the UART
when a writer or the interrupt calls it; the echo goes to the UART past the
ring. uartstart's and uartputc_sync's tests of the transmitter are steps apart
from their writes. `LineDevice` is a queue of lines in one direction and of
characters in the other.

### PageTable and Memory

`PageTable` computes on an address space (tables, leaf entries, user pages) with
a number of free pages what walk, mappages, uvmalloc, uvmdealloc, uvmcopy,
uvmunmap, freewalk and uvmclear do, the undoing of a failure included. A call
of `Memory` chooses how many of the free pages it finds (`left`), so that it
runs out at each of its allocations. `Exec` builds the new image segment by segment and
fails at any of them; `AlarmFires`, `Sigalarm` and `Sigreturn` move the page of
the saved trap frame. `lost` counts the pages that no pointer leads to.

### Malloc

The headers of one heap; an address is a number of units, base is 0. free()
finds the place by address from freep on and joins both ways, malloc() takes
the first fit or asks sbrk(), which grows the heap at its end or fails.

### ReliableUdp and TicTacToe

`ReliableUdp`: both nodes with their send loop, receive loop and packet array. A datagram that
is lost stays in `net` for ever, so loss needs no action; delay and reordering
come from the choice of the next one received; duplicates from retransmission.
The programs do not look at the length of what they receive, so an
acknowledgement may be stored as a chunk, and a chunk may pass for an
acknowledgement; the model keeps both. `total_chunks` of a datagram too short
to hold one is any value.

`TicTacToe`: the server and any clients over either transport; the first two to come are the
players. Over UDP others may come later (a player that is started again is another client, with a port
of its own), and the server takes what they send as it takes the players' lines. Messages are
their kinds ("turn", "again", "agreed", "end"). A TCP client may receive several at
once and looks at the first kind it searches for; over UDP each comes alone, in
the order sent or not at all, and the server takes whatever comes for the move
of the current player. `Quit` is a user who leaves.

## 3. Runs

| run | instance | shows |
|---|---|---|
| `proc_safety` | `Proc`: 3 slots, 2 CPUs, 4 pids, kill(2), sleep(1); `Lottery`: 2 slots, 2 CPUs; `Accounting`: 3 slots | `IInv`, `StackSafe`, `NoLostExit`, `NoMissedTick`, `ParentAlive`, `PidsUnique`, `BornUnkilled`, `KillNoticed`; the table implements `ProcLife`; `DrawIsFair`: in a scan during which nothing moves the number of winning draws of a process is its tickets, but for ties; `SlotsAccounted`: no process is run by two CPUs, no waiting time is negative, the families are trees on which the recursion ends |
| `proc_live` | `Proc`: 3 slots, 2 CPUs, 4 pids | `KilledExits`: a killed process exits, unless it has missed the kill on its way to sleep (§6); init reaps |
| `sched` | `Mlfq`: 3 processes on 1 CPU or 2 on 2 CPUs, boost every 2 ticks; `SchedIntr`: 3 processes, 2 CPUs, round robin and lottery | slices stay within 1 and 2^priority (`SlicesFit`), queue moves are single demotions or boosts with a full slice, a RUNNABLE process runs unless more compete than there are ticks between boosts; sleepers are woken by the clock |
| `log` | 2 operations that reserve 3 blocks and write up to 2, a log of 6 with its header, 5 blocks, 2 contents | `LogInv`, `DurableWhenQuiet`, `NoLostWakeup`, `LogHasRoom`; the log implements `AtomicDisk` |
| `blocking` | `Pipe`: 2 writers, 1 reader who may be killed, 2 bytes, `Wrap` = 4, sizes 1 and 3; `BufCache`: 2 processes, 2 buffers, 3 blocks, 4 descriptors | `PipeInv` (nobody sleeps without reason), `CallsEnd`, the ring is a FIFO queue; `CacheInv`: one buffer a block, references, descriptors and requests accounted for, no wakeup and no interrupt lost; `SeesLatest` |
| `fs` | 2 processes, 3 inodes, 4 blocks, 2 files, 4 calls | `DiskConsistent`, `RefsAgree`, `NoPanic`, `LocksSafe` (no ring of inode locks; iput()'s acquiresleep() never waits), `FreedUnused`; from two trees, and from what init makes of the images of mkfs |
| `kernel` | `Console`: 2 readers, 1 writer, rings of 2 and 1; `Memory`: 2 slots, 17 pages; `Malloc`: 8 units | `ConsoleInv`, and the rings implement `LineDevice` (`KeepsOrder`); `MemoryConsistent`: every page is in one place, a process has its size mapped, no panic, the user's heap is whole; `FailedCallsUndo` |
| `net` | `ReliableUdp`: a message of 2 chunks, an answer of 1, 2 tries, an array of 3; `TicTacToe`: 2 players, 2 games, 1 loss, and over UDP a third client | `AckedHasArrived`, `MessageEnds`; `GameLegal`, `FirstGameGoesOn` |
| `sched_intr_mlfq` | 2 processes, 1 CPU, MLFQ | **violated**: time may stop |
| `lottery_tie` | as `proc_safety` | **violated**: the later of two equals may win |
| `fs_dotdot` | 5 calls on directories | **violated**: a panic |
| `memory_leak` | 2 slots, 20 pages | **violated**: pages are lost |

Further configurations, each with one question, for use by hand:

| configuration | module | shows |
|---|---|---|
| `MCBlockingDisk.cfg` | `MCBlocking` | `RequestEnds`: a request that the device has been told of ends |
| `MCProcSleep.cfg` | `MCProc` | `SleepEnds`: every sleep(n) ends, with two processes on one CPU; on two CPUs the fairness assumed lets one process lose every race for `tickslock`, a spinlock without a queue, and the property fails |
| `MCLotteryLive.cfg` | `MCProcSafety` | `SomebodyRuns`: a CPU that looks for a process finds one; violated with `IntMax = 2`, when the tickets of two processes exceed INT_MAX |
| `MCLogFull.cfg` | `MCLog` | `LogHasRoom` violated by operations that write all that is reserved for them |
| `MCPipeKill.cfg` | `MCBlocking` | `ReadersSeeData` violated |

Three more properties are refuted by a listed configuration in which they are
the one INVARIANT or PROPERTY: `CountsFamily` (`MCProcSafety.cfg`),
`DeliveredWhole` (`MCNet.cfg`), and `HogsGoDown` (`MCSched.cfg` with `Procs = {1}`,
the hog, and `BoostPeriod = 48`).

Bounds, and why they are enough.

- *Proc*: three slots are init, a parent and a child, so that reparenting, reuse
  of a slot and an exit in either order happen; two CPUs give every pair
  of steps in parallel. `MaxPid` = 4 lets a slot be allocated, freed and
  allocated again. Slots other than init are symmetric (`SYMMETRY`, only in the
  run without liveness). One sleep of one tick meets clockintr at each of the
  places of sys_sleep(). The proofs remove all of these bounds for safety.
- *Lottery*: two slots, two CPUs, tickets 1 and 2, two forks and a tick: a slot
  is used again during a scan, and two CPUs draw the same winner. *Accounting*:
  init, a child and a grandchild, two ticks or calls.
- *Mlfq*: a boost period of 2 is shorter than the slices of queues 2 and 3, so
  a boost falls at every point of a slice. All four queues are there. Three processes are more
  than the ticks between two boosts, as 64 slots are more than 48 ticks: then the last slot
  starves (§6), and `RunnableRuns` claims progress only while fewer compete. Two CPUs race for
  the slots and for the unlocked slice, with two processes and without liveness.
- *SchedIntr*: three processes on two CPUs let hart 0 idle while hart 1 works.
- *Log*: the proportions of the code, smaller. `param.h` reserves 10 of 30 blocks for an
  operation, mkfs makes a log of LOGSIZE blocks, the header among them (`LogBlocks = LogSize`),
  and the largest operation writes 7: filewrite() cuts a write into pieces of three blocks,
  which touch four with an indirect block, the bitmap and the inode (`OpWrites`). Here 3 of 6
  are reserved and 2 written, so that two operations fill what may be reserved, with blocks in
  common or not. The proofs remove the bounds.
- *BufCache*: three blocks for two buffers force replacement, four descriptors
  make the second request wait for the first. Callers ask for a block only while
  buffers are left (`Demand`): that the rest of the kernel keeps to that is not
  shown, that bget() then finds a buffer is (`EnoughBuffers`). The proofs remove
  the other bounds.
- *FileSys*: three inodes are the root, a directory in it and a file, or two
  directories one in the other. A file has one direct and one indirect block
  (`NDirect` 1, `MaxFile` 2), three entries fill a block, four blocks run out.
  Two files and two descriptors each run out too. Four calls of two
  processes overlap in every way; five of one kind give `fs_dotdot`. Images of
  mkfs without a file or with one of up to two units, after the first two calls of init on
  them, start with one call left. One file makes the entries of the root a whole block, so that
  mkfs adds a block that is not there (§6).
- *Pipe*: a write of 3 into a pipe of 2 fills it, sleeps and goes on; `Wrap` is
  two times round; two writers compete for room and for the lock. A second
  reader is in `MCPipeKill.cfg`.
- *Console*: a ring of 2 becomes full with and without a line end, indices wrap after
  two rounds, a reader of two competes with another.
- *Memory*: a page of 2 bytes, two entries for each table, a process of at most
  four pages: a process spans two tables, and 17 pages are enough for two
  processes and an exec, and few enough to run out everywhere.
- *Malloc*: requests of 1 to 4 units with morecore() at 3, up to 8 units: joins above, below,
  both and neither, whole blocks and tails, a heap grown three times.
- *ReliableUdp*: two chunks are the least that can be confused; two tries are
  the least that retransmit. MAX_CHUNKS = 3 ends a receiver by its array too.
- *TicTacToe*: six cells for each player, enough to win, lose and draw; two
  games for the rematch. A third client comes over UDP while nothing is lost; the game goes on
  beside it for two moves, which is enough for a second prompt and a move out of turn.

Mutants: each property of a passing run has a variant of one definition
(`Mutant:` in the comments), a plausible slip such as a forgotten wakeup or
reset, under which TLC finds it violated.

## 4. Fairness, and why the code justifies it

- *Proc*: a CPU that can finish a switch does (weak). A RUNNABLE slot is picked
  and a thread in the kernel advances if it can again and again (strong): the
  round-robin scan comes past every slot, and a spinlock that is released again
  and again is taken at last. The timer is always armed, so Yield and ClockIntr
  happen. Nothing obliges a program to call anything, except init, whose loop
  (`user/init.c`) calls wait() for ever.
- *Mlfq*: the scheduler and traps advance, and the timer of a CPU that runs a
  process fires. No fairness is assumed of the choice of a process: that is
  what `RunnableRuns` shows.
- *SchedIntr*: the scheduler's loop advances; hart 0's timer fires if it is
  unmasked again and again.
- *Lottery* (`MCLotteryLive.cfg`): each CPU's loop advances. Nothing is assumed of rand().
- *Pipe*: strong fairness of each process's steps inside the kernel, for the
  same reason as in Proc: pi->lock is never held over a sleep. Nobody is obliged
  to read, write or close.
- *BufCache* (`MCBlockingDisk.cfg`): the device serves what it has been told of and
  interrupts, the interrupt is taken (weak); a process that has a request goes
  on (strong). Sleep locks are not fair, so nothing is claimed for who waits for one.
- *ReliableUdp*: programs go on and select() returns; the network owes nothing.
- *Log*, *FileSys*, *Console* and *TicTacToe* have no liveness property: lost
  wakeups are excluded by `NoLostWakeup`, `LocksSafe`, `ConsoleInv` and
  `FirstGameGoesOn`. For the console one would not hold: keys are echoed
  before the ring is started again, so that typing can hold up writers for as long as it goes on.

## 5. Proofs

The theorems hold for every value of the constants under the named assumptions of the modules,
which give the constants their types, say that null values are not slots, and where it matters
that there are finitely many processes: `ProcAssumption`, `LogAssumption`,
`ReliableUdpAssumption`, `PipeAssumption`, `MlfqAssumption`, `TicTacToeAssumption`,
`ConsoleAssumption`, `FileSysAssumption`. `CacheProofs` takes `VirtioAssumption` and
`BufCacheAssumption` as hypotheses of its theorems. What a theorem assumes beyond that is in its
statement and explained here.

**ProcProofs** - `IInv` is inductive; from it follow `TypeCorrect`,
`StackSafety`, `ExitsAreNoticed`, `TicksAreNoticed`, `NoOrphans`, `UniquePids` and, as a
property of steps, `KillsAreNoticed`: on any number of CPUs the one way for a process to be killed and
asleep is a kill() between its test of killed and its sleep(). None of the
properties is inductive alone. `StackSafe` needs to know which CPU holds
p->lock at each point (`LockInv`), hence where each thread is (`PcInv`).
`NoLostExit` needs `ExitInv`: between its scan and its sleep wait() has no
ZOMBIE child, and between its wakeup and the ZOMBIE state an exiting child has
no sleeping parent. That holds because both are inside wait_lock (`SpinInv`).
`ParentAlive` needs to know that a parent beyond reparent() has no children, and
that init never exits. `PidsUnique` needs the pids below nextpid. The step
proof has one lemma per part, and in it one step per action.

`TableImplementsLife` proves in the same module that the table implements the
life cycle by pid (`LifeSpec`). It needs IInv at both ends of a step: for a
birth, that the pid handed out was never used, for an exit, that the children have
gone to init before the state becomes ZOMBIE, for a reap, that the slot freed
belongs to a child of the caller and to nobody else (`PidsUnique`). All steps but
`ForkParent`, `ExitReparent`, `ExitZombie`, `WaitReap` and the failed copy of a
fork leave `living`, `zombies` and `family` alone; one lemma says so for all of them.

ProcProofs extends `MCSched` too, which instantiates `Mlfq`. Of its queues, `SlicesEnd` and
`QueuesMove` for any number of processes and CPUs: a slice is never 0 where it would be
decremented, and a queue is left only downwards by one or by the boost. `SlicesAlwaysFit` is
`SlicesFit` for any number of CPUs. The load and the store of the unlocked `time_slice--` are
two steps, and a boost of another CPU in between leaves a process in queue 0 with the slice
of a lower queue; but only in the rest of its timer trap (`SliceFitsQueue` excepts it), since
the yield() at the end of the trap puts the slice right before anybody else may run it. `AnyCpus`
has what this needs: a process is on one CPU at most (`CpuInv`), and what usertrap() has loaded
is at least 1 (`SpentInv`).

**LogProofs** - `LogInv` is inductive; `LogImplementsAtomicDisk` proves the
refinement, initial states and every step; `QuietIsDurable`, `WakeupNotLost`
and `ReservationsSuffice` follow. `PhaseInv` says for each point of commit and
recovery how far the copies have come: blocks outside the transaction are equal
in cache and at home, the first `tail - 1` blocks are in the log, or at home.
It has to speak of the disk as a second crash would find it, which is why
recovery's own phases are in it. `RoomInv` counts: entries in use plus entries
promised to operations in progress never exceed LOGSIZE; the proof is about
cardinalities of sets of promises. `WakeupNotLost` assumes that one operation
fits into the log. `ReservationsSuffice` assumes of the sizes what `param.h`, `mkfs.c:25` and
filewrite() give: a log of LOGSIZE blocks with its header, more of them than one operation
reserves, and operations that write fewer than they reserve (7 of 10). The reserve that is left
over makes up for the block of the header: `SoloInv` has that the operation that writes finds
its own unused reservation besides those of the others. Without it the property fails
(`MCLogFull.cfg`).

**CacheProofs** - `CacheInv` is inductive as it stands, since the parts it
needs are properties in their own right: `CacheSafe`, and from it `LatestSeen`,
for any number of processes, buffers, blocks and descriptors.
- *Locks* (`LockInv`, `CallOK`): where a process is in its call decides which
  buffer it refers to and whether it holds its lock.
- *References* (`OneBuffer`): refcnt is the number of processes that refer to
  the buffer plus its pin. The proof is about cardinalities; it shows that a
  buffer with refcnt 0 is named by nobody when bget() takes it for another
  block, and that no block is in two buffers.
- *Enough buffers* (`EnoughBuffers`): under `Demand` the blocks asked for and
  pinned never outnumber the buffers, hence the second loop of bget() finds one
  with refcnt 0: an injection from the buffers in use into the blocks needed.
  That the victim is the least recently used one that is free comes from the
  least element of a set of numbers, by well-founded induction of the library.
- *Descriptors* (`ChainInv`, `DescsConserved`): the chains of two requests
  are disjoint, and what no chain uses is free.
- *Requests* (`RequestsAccounted`, `OnTheirWay`): a request that has been told to the
  device is in exactly one of the available ring, the device, the used ring,
  or done; with `AsksForHeld`, only for a buffer whose lock its caller holds.
- *Wakeups* (`HasReason`): who sleeps has a cause that will wake it: a lock
  that is held, descriptors that are taken, a request on its way.
- *Contents* (`Coherent`): a valid buffer has the latest contents of its block, and
  the disk has them unless a change is still to be written (`Unwritten`);
  a request that is finished but not yet looked at has moved the data (`Served`).

**BlockingProofs** - of the pipe, for any numbers of readers and writers, any PIPESIZE, and
indices that wrap at any multiple of PIPESIZE beyond it. `PipeSafe`: PipeInv holds while no
writer has been killed. The condition is not one of convenience: finding 7 is what happens
otherwise. The
inductive invariant (`KillInv`) says for each place who must have been woken.
`PipeImplementsFifo` has no condition: the ring is a FIFO queue with kills and faults at
any byte. Its lemmas are about the ring: how many bytes `nwrite - nread` modulo `Wrap`
stands for, and that the contents shift by one when a byte is taken.
`CacheIsSafe` and `LatestIsSeen` carry the theorems of CacheProofs over to the
composition of `MCBlocking`, in which `BufCache` is instantiated.

**NetProofs** - of the game, `GameIsLegal` and `FirstGameIsPlayed`: whatever cells the two clients
may choose, however many games they play, whoever leaves, however many datagrams
are lost and whichever other clients send to a server that takes datagrams from anybody. The
board is legal in every case; that only the player whose turn it is is heard (`OneTalks`) is stated
for as long as no third client has come, because the first JOIN of one breaks it (§6). The
parts of the invariant about the mail have that condition (`TwoCame`). The inductive
invariant `GameInv` is mostly about the mail, and not about the board:

- `OneEach`: a client has at most one line under way. It answers what it is asked, and
  it is asked again only after its line has been read.
- `LinesOK`, `PromptsOK`: what may be under way, for each place of the server. After a second
  game has been agreed on, "agreed" may still be unread when the next prompt comes, so a
  client holds at most two messages.
- `AnswersOK`: over UDP an answer counts as that of player 1 or 2 in the order in which
  the datagrams come. Still nobody's line is left behind: each answer was read from a
  client that has nothing under way any more.
- `FirstGameInv` and `NobodyAnswers`: who is waited for has left, has been asked and
  is about to receive, or has answered. That is what fails in a second game (§6). A
  stranger's datagram costs a prompt more, never one less, so this part needs no condition.

The board needs a lemma on the counts of the symbols (`Placed`): a symbol on a free cell
is one more of its kind and wins nothing for the other player.

Of the reliable transfer, `AcknowledgedArrived` for any message and any number of
retries. The subtle case is the server's answer, which has number 1 and may be
taken for the acknowledgement of chunk 1. `AnswerInv`: the server sends data
only after it has heard something. `FirstInv`: while the client is at chunk 1,
nothing but chunk 1 can have reached the server. Hence what the server has
heard is chunk 1. The theorem assumes an answer of one chunk, which is what
the fixed text of `server.c` makes.

**ConsoleProofs** - for any readers and writers, any sizes of the two rings, and indices
that wrap at any multiple of the size beyond it (2^32 and 2^64 in the code).
`ConsoleSafe`: `ConsoleInv` always holds. `ConsoleImplementsLineDevice`: the rings, read
through their indices, are the sequences of `LineDevice`; a step takes, erases, stores, puts
or sends one character (control-U: a line), or changes neither ring (`RingMoves`).
The inductive invariant `IInv` adds to `ConsoleInv`

- that the three indices keep their order round the ring (`NReady <= NTyped`), and that no
  line end is among the characters that can still be edited (`InputInv`). With that control-U
  stops at what is ready and nowhere before (`KillsLine`), although the loop in the code looks
  for a line end;
- where everybody is (`PlaceInv`): who sleeps is in consoleread() or uartputc(), who holds
  uart_tx_lock is in uartstart(), and the interrupt handler holds cons.lock only while it
  still has input to look at. That is why an interrupt that has begun will start the ring;
- who has found the transmitter idle and not yet written to it (`SendInv`): at most the
  holder of uart_tx_lock, with a character to send, and the handler with an echo.

The arithmetic is in the first lemmas: an index that has wrapped names the same cell, since the
size divides the range (`WrapKeepsCell`), and two places of the ring are two cells
(`CellsDiffer`). `RingPut`, `RingDrop` and `RingTake` are about any ring and serve both.

**FileSysProofs** - for any finite set of processes, any numbers of files, descriptors, inodes
and blocks, any programs and any initial trees, with crashes between calls. `ReferencesAreCounted`:
`ref` of an inode is the number of open files, current directories, calls and puts still owed that
name it, and `ref` of a file the number of its descriptors. Hence iput() and fileclose() free
nothing that is in use, and a process that exits leaks nothing. `PutNeverBlocks`: the comment
at `fs.c:343` is right, the acquiresleep() under itable.lock never waits.

`RefsAgree` is not inductive alone; `FilesAgree` states the invariant that is. `FilesInv` adds

- `At`: which of cur, ip and dp a call has in hand at each of its places. This is where
  every early return is accounted for: what it had is on the agenda or was given back;
- `AgendaOK`: only the first todo can be half done (truncated and not yet dropped), and
  an unlock is followed by the put of the same inode (iunlockput);
- whose each lock is (`Locks`): its holder has the inode in hand, or owes the unlock;
- that a dead process has neither descriptors nor a directory, and that a file without references
  names no inode, so that filealloc() forgets nothing.

The counting is done once. A step moves the share of one process only (`ProcessMoves`,
`DescriptorsMove`): what it has in hand, owes and lives in. `CallStep` and `FilesStep` therefore
ask of an action only that `ref` and that share change by as much; there is one lemma per action
that shows it. The lemmas below are about cardinalities (`OneChange`, `FamilyChange`) and, in
InodeProofs, about what the operators of `Inode` do to `ref` and to the entries. For
`PutNeverBlocks`, who holds the lock has a reference besides the one that is being put, so `ref`
is at least 2.

The second half of the module is about the tree on the disk; what each operation of `Inode` does
to it is in InodeProofs. `DiskConsistent`, `NoPanic`,
`LocksSafe` and `FreedUnused` follow from `TreeInv`, which is inductive together with `FilesInv`:

- `DiskOK(fs, Extra)`: links and entries. An inode has at least as many links as entries name it
  and children say ".." to it, and one more for each call in flight (`Extra`) that has counted a
  link it has not written yet (sys_link()) or removed an entry it has not uncounted yet
  (sys_unlink()). "At least", because what is created in a removed directory keeps its link
  (§6). A directory has one name (`OneName`), only directories have entries (`LeafOK`), and the
  entries lead down (`Acyclic`: a rank of inodes that falls on the way to a directory). Blocks
  have one owner and are marked (`BlocksOK`), and a free inode owns nothing (`FreeOK`);
- `LockedOK`, `OpenOK`: a locked or open inode has been read and still has a type;
- `Own`, `Alone`: what a call knows of the inodes it has in hand at each place; nobody else has
  reached the inode of create() before its entry is written.

`NoCircularWait` follows from the tree: who holds the lock of one inode and waits for another is
in dirlookup() or dirlink() and waits for a child of it, so a ring of waiting calls would be a cycle
of directories. For `FreedUnused`, a link that has gone to 0 means that no entry is left, and
`RefsAgree` that no file or directory refers to the inode.

The four theorems assume `[]UpIsKnown`: whenever a lookup finds ".." in a directory, the inode
it says still has a link, or is open or somebody's current directory. That is exactly what fails
in finding 3, where it is a panic (`MCFileSysDotdot.cfg`), so they do not hold without it. It is
not empty: TLC finds it an invariant of `MCFileSys`, whose programs do go up with `..`, and
`KnownWithoutUps` proves it for all programs that never name "..". `SafeWithoutUps` states all
four for those without a condition.

No read finds a block missing. dirlookup(), dirlink(), isdirempty() and readi() would allocate
it (`Readi`), which would leave a block that no inode on disk has, and panic where there is
none. `OwnOK` therefore has that what lies below size is in a block (`Filled`); writei() keeps
it because it starts at size or below, and only makes size larger after the block is there.
From that `ReadsAll` and `DirlookupIs` of InodeProofs follow, and `LockReads` here.

`NoPanic` is about six panics: "ilock: no type", "dirlookup not DIR", "dirlookup read", "dirlink
read", "isdirempty: readi" and "unlink: nlink < 1". "unlink: writei" cannot happen where
"dirlookup read" cannot, but is not stated; "iget: no inodes", "freeing free block", "bmap: out
of range" and the tests of arguments in ilock() and iunlock() are not part of the model.

`FileSysAssumption` says that there are finitely many processes and names, that a call names an
operation and its paths are sequences of names, and that the initial trees are in order
(`TreeOK`, `Filled` included). That is so of the images of mkfs once init has made the console:
the assumption `MkfsInOrder` of `MCFileSys`, which TLC evaluates for every list of files of the
bound. It is not so before that (`OpenLeaks`, §6).

Only model-checked, and why:

- everything about liveness, as well as ENABLED: out of the prover's reach;
- what a recursive definition or a fold computes for every input: `DrawIsFair`
  (a sum over the table) and `SlotsAccounted` (`Accounting` has a RECURSIVE operator);
- `Memory` and `Malloc`: what they account for is defined by folds over the slots
  and the heap, hence again induction over data;
- that no lookup of ".." finds a removed directory, for programs that name ".." and never
  remove a directory somebody is in (`UpIsKnown`, above): it depends on the program.

## 6. Findings

The first four are runs that TLC finds violated.

1. `sched_intr_mlfq`: the MLFQ scheduler loops inside the outer loop and never
   repeats intr_on() (`proc.c:517`). If the last process to leave hart 0 exits
   with interrupts off and the others sleep, no tick comes again.
2. `lottery_tie`: the winner gives way to an earlier arrival with as many
   tickets only if that one is in a later slot (`proc.c:612-627`); `REPORT.md:57`
   says that the earlier arrival is preferred.
3. `fs_dotdot`: unlink() of a directory takes the link that its ".." is to the parent
   (`sysfile.c:225-228`), but a process may still be in it. mkdir a, mkdir a/b,
   chdir a/b, unlink /a/b, unlink /a: the inode of a is free, and chdir("..")
   ends in panic "ilock: no type" (`fs.c:314-315`).
4. `memory_leak`: the page that allocproc() takes for alarm_trapframe
   (`proc.c:174`) is never freed by freeproc() and overwritten by the next
   allocproc() of the slot or by the first alarm (`trap.c:109`).
   `usertests.c:3067` tests that no free pages are lost.

The next are properties that a further configuration refutes.

5. `HogsGoDown`: yield() refills the slice (`proc.c:701`) at every tick from user
   space, so a process in queue 1 or below never uses it up by computing;
   `REPORT.md:69` says that it is demoted.
6. `MCLogFull.cfg`: mkfs counts the header as one of LOGSIZE blocks
   (`mkfs.c:25`), so the reservations of begin_op() exceed the log by one.
   The system calls of today write fewer blocks than MAXOPBLOCKS, so they do not meet the
   panic (`LogHasRoom`); three operations that use all that they may would.
7. `MCPipeKill.cfg`: a writer that is killed in pipewrite() returns without
   wakeup(&pi->nread) (`pipe.c:84-87`), also after it has written bytes.
8. `DeliveredWhole`: the receiver counts datagrams and not chunks
   (`server.c:53`), so a retransmission makes it finish early.
9. `SomebodyRuns` with `IntMax = 2`: total_tickets is an int and settickets() takes any
   positive one. Two processes whose tickets sum to more than INT_MAX make the
   total negative, and no CPU schedules anybody any more (`proc.c:606`).
10. `CountsFamily`: what a child has counted is gone when it is reaped,
    which is before the parent of `user/syscount.c` asks. `REPORT.md:8` speaks of
    the calls of "a process and its children".

Differences noted while modelling that have no run of their own:

- *Processes.* On several CPUs, and the Makefile boots three, kill() may slip between the
  victim's test of killed and its sleep() in wait() and sys_sleep(): neither holds p->lock over
  both. The victim then sleeps on although it is killed, until something else wakes it, in
  wait() perhaps for ever. `KillNoticed` has that a kill is missed in no other way, and
  `KilledExits` that without it a killed process exits. consoleread() and piperead() have the
  same window (`console.c:92`, `pipe.c:113`).
- kill(0) marks an UNUSED slot, since it compares only the pid (`proc.c:788`),
  and allocproc() does not clear the mark: the next process in the slot is born
  killed. `KillPids` of the runs leaves 0 out, and `BornUnkilled` is about those only.
- *MLFQ.* The boost comes every 48 ticks (`proc.c:527`), makes every RUNNABLE process the first
  in queue 0 for one tick, and the scan begins at slot 0. With more than 48 processes of the 64
  that do not sleep, those in the last slots are never reached before the next boost, although
  `REPORT.md:70` says that it prevents starvation. `RunnableRuns` has that with fewer of them
  nobody starves. A process that sleeps before each tick is never demoted (`QueueMoves` allows that).
- The comment at `proc.c:581` and `REPORT.md` give the slices 4, 8 and 16 for
  queues 1 to 3; `1 << priority` is 2, 4 and 8.
- The boost passes over sleeping processes (`proc.c:532`); `REPORT.md:70` says
  that it moves all of them.
- *Lottery.* The tickets of the parent are copied after the child is RUNNABLE
  (`proc.c:379`): the child may have called settickets() by then, or be gone and its slot in use again.
- *Accounting.* ctime, rtime, etime and syscall_count are never reset for a slot
  that is used again, so waitx() reports the time of all processes the slot has
  served. A waitx() that fails copies uninitialised values out. The recursion
  over the family may be as deep as NPROC on a kernel stack of one page.
- *Files.* A file that is created in a removed directory, or by mkdir in one, is
  leaked; a crash leaks the inode of an open file without a name. The
  root of an image whose entries fill their block is one block longer than its
  data (`mkfs.c:166`), and bmap() allocates that block when the root is first read to its end,
  in memory and in the bitmap but without iupdate() (`fs.c:389`). On a new disk that is init's
  open() of the console; the mknod() after it writes the inode back. A crash in between loses the block
  (`OpenLeaks`), and with no block free the lookup panics. The image that the Makefile makes has
  fewer than 64 entries, less than a block, and is not affected.
- *Memory.* sbrk() below zero changes nothing and succeeds (`proc.c:320-322`,
  against the comment at `proc.c:305-306`). `proc.c:175` tests trapframe where
  alarm_trapframe is meant. sigalarm() in a handler clears alarm_on_off, so
  that sigreturn() returns -1 and the interrupted context is lost; the return
  value of sigreturn() overwrites the a0 it has restored (`syscall.c:149`);
  argint() returns the argument, so that `argint(...) < 0` tests its sign.
- *Tic-tac-toe.* In a second game over TCP the "Your turn" may arrive in the same recv() as the
  response and is not looked at; over UDP the server waits for two JOINs that
  nobody sends. The answers over UDP count in the order they come, whoever sent them, and so
  do the moves (`udpServer.c:101`): the JOIN of a third client, or of a player who starts again,
  is read as a bad move, the player whose turn it is gets a second prompt, and the second line it
  then sends is made the other player's move.

## 7. Not modelled, and why

- *Pure data*: the bytes of inodes, superblock, page-table entries and ELF
  files, printf, string functions. No two actors share state through them.
- *Hardware*: the amoswap of acquire() (a guard here), register set-up at
  boot and in the drivers, the memory model beyond locks.
- *The kernel's own page table and the boot code*: they run once, before anything concurrent.
- *Limits*: the panic when all NINODE entries of the inode table are in use
  (the table of `Inode` has one for each inode); that a transaction never pins all NBUF buffers.
- *The shell*, *user programs and tests*: they are the clients; a model lets any program make any call.
- *ramdisk.c* is not linked.

## 8. Plan

Done: every component of the inventory that keeps state together with others
has a module that is checked; the process table with its life cycle, the log, the buffer
cache over the driver, the pipe, the console, the MLFQ slices, the file system calls with their
reference counts, links and locks, the game and the UDP transfer have proofs.
What is left, in the order of importance:

1. `BufCache` under the demand of `Log` instead of a bound, which would show
   how many buffers a transaction needs.
2. Crashes inside a call of `FileSys`, through `AtomicDisk` instead of the
   assumption that they fall between calls.
