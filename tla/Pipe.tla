-------------------------------- MODULE Pipe --------------------------------
(* Pipes (kernel/pipe.c): any number of processes in pipewrite() and       *)
(* piperead() on one pipe, and pipeclose() by the last that holds an end.  *)
(*                                                                         *)
(* pi->lock is held from acquire to release or sleep; the loops under it   *)
(* are taken apart byte by byte because kill() does not need the lock.     *)
(* sleep() and wakeup() are those of proc.c: going to sleep and releasing  *)
(* pi->lock are one step.  nread and nwrite are kept modulo Wrap (2^32).   *)
(* A process holds one end only.  copyin() and copyout() may fail at any   *)
(* byte.                                                                   *)
EXTENDS Naturals, Sequences

CONSTANTS
    Readers, Writers,   \* the processes that hold the two ends
    NoProc,
    Killable,           \* those that may be killed
    PIPESIZE,
    Wrap,               \* nread and nwrite are uints modulo Wrap
    Bytes, NoByte,
    Counts              \* bound: the sizes n of a read or a write

ASSUME PipeAssumption ==
    /\ Readers \cap Writers = {} /\ NoProc \notin Readers \cup Writers
    /\ Readers # {} /\ Writers # {}
    /\ Killable \subseteq Readers \cup Writers
    /\ PIPESIZE \in Nat \ {0}
    /\ Wrap \in Nat /\ Wrap > PIPESIZE /\ Wrap % PIPESIZE = 0
    /\ Counts \subseteq Nat
    /\ NoByte \notin Bytes

Procs == Readers \cup Writers

VARIABLES
    data, nread, nwrite, readopen, writeopen,  \* struct pipe
    lock,      \* the holder of pi->lock, or NoProc
    holds,     \* the processes whose file is still open
    pc,        \* where a process is
    n, i,      \* the argument and the loop variable of its call
    asleep,    \* the processes that are SLEEPING
    killed,    \* p->killed
    out        \* the byte copied out last

bufVars == <<data, nread, nwrite, out>>
endVars == <<readopen, writeopen, holds>>
vars == <<data, nread, nwrite, readopen, writeopen, lock, holds, pc, n, i,
          asleep, killed, out>>

(* "loop": in the while of pipewrite(); "wait", "copy": in the two loops   *)
(* of piperead(); "sleep": about to sleep; "slept": in sleep().            *)
PCs == {"idle", "lock", "loop", "wait", "copy", "sleep", "slept"}

Init ==
    /\ data = [k \in 0..(PIPESIZE - 1) |-> NoByte]
    /\ nread = 0 /\ nwrite = 0 /\ readopen = TRUE /\ writeopen = TRUE
    /\ lock = NoProc /\ holds = Procs
    /\ pc = [p \in Procs |-> "idle"]
    /\ n = [p \in Procs |-> 0] /\ i = [p \in Procs |-> 0]
    /\ asleep = {} /\ killed = {} /\ out = NoByte

Empty == nread = nwrite

(* Mutant: the pipe holds a byte more than its array.                      *)
FullLate == nwrite = (nread + PIPESIZE + 1) % Wrap

Full == nwrite = (nread + PIPESIZE) % Wrap

Goto(p, place) == pc' = [pc EXCEPT ![p] = place]
At(p, place) == pc[p] = place /\ lock = p

(* Return: wakeup() of the processes in woken, release(&pi->lock).         *)
Return(p, woken) ==
    /\ Goto(p, "idle")
    /\ asleep' = asleep \ woken
    /\ lock' = NoProc
    /\ n' = [n EXCEPT ![p] = 0] /\ i' = [i EXCEPT ![p] = 0]

-----------------------------------------------------------------------------
(* A read or write of k bytes; a killed process does not get this far.     *)
Call(p, k) ==
    /\ pc[p] = "idle" /\ p \in holds /\ p \notin killed
    /\ Goto(p, "lock")
    /\ n' = [n EXCEPT ![p] = k]
    /\ UNCHANGED <<bufVars, endVars, lock, i, asleep, killed>>

(* acquire(&pi->lock), at the start and at the end of sleep().             *)
Lock(p) ==
    /\ pc[p] \in {"lock", "slept"} /\ p \notin asleep /\ lock = NoProc
    /\ lock' = p
    /\ Goto(p, IF p \in Writers THEN "loop" ELSE "wait")
    /\ UNCHANGED <<bufVars, endVars, n, i, asleep, killed>>

(* sleep(chan, &pi->lock): writers sleep on nwrite, readers on nread.      *)
Sleep(p) ==
    /\ At(p, "sleep")
    /\ asleep' = asleep \cup {p}
    /\ lock' = NoProc
    /\ Goto(p, "slept")
    /\ UNCHANGED <<bufVars, endVars, n, i, killed>>

-----------------------------------------------------------------------------
(* pipewrite()                                                             *)

WriteAll(w) ==
    /\ At(w, "loop") /\ i[w] = n[w]
    /\ Return(w, Readers)
    /\ UNCHANGED <<bufVars, endVars, killed>>

(* No reader, or killed: -1, and nobody is woken.                          *)
WriteGivesUp(w) ==
    /\ At(w, "loop") /\ i[w] < n[w] /\ (~readopen \/ w \in killed)
    /\ Return(w, {})
    /\ UNCHANGED <<bufVars, endVars, killed>>

WriteGoesOn(w) ==
    At(w, "loop") /\ i[w] < n[w] /\ readopen /\ w \notin killed

WriteFull(w) ==
    /\ WriteGoesOn(w) /\ Full
    /\ asleep' = asleep \ Readers
    /\ Goto(w, "sleep")
    /\ UNCHANGED <<bufVars, endVars, lock, n, i, killed>>

WriteByte(w, b) ==
    /\ WriteGoesOn(w) /\ ~Full
    /\ data' = [data EXCEPT ![nwrite % PIPESIZE] = b]
    /\ nwrite' = (nwrite + 1) % Wrap
    /\ i' = [i EXCEPT ![w] = @ + 1]
    /\ UNCHANGED <<nread, out, endVars, lock, pc, n, asleep, killed>>

(* copyin() fails: a short write.                                          *)
WriteFault(w) ==
    /\ WriteGoesOn(w) /\ ~Full
    /\ Return(w, Readers)
    /\ UNCHANGED <<bufVars, endVars, killed>>

-----------------------------------------------------------------------------
(* piperead()                                                              *)

(* Nothing to read yet and somebody may still write: sleep, or -1.         *)
ReadEmpty(r) ==
    /\ At(r, "wait") /\ Empty /\ writeopen
    /\ IF r \in killed THEN Return(r, {})
       ELSE Goto(r, "sleep") /\ UNCHANGED <<lock, n, i, asleep>>
    /\ UNCHANGED <<bufVars, endVars, killed>>

ReadReady(r) ==
    /\ At(r, "wait") /\ (~Empty \/ ~writeopen)
    /\ Goto(r, "copy")
    /\ UNCHANGED <<bufVars, endVars, lock, n, i, asleep, killed>>

TakeByte ==
    /\ out' = data[nread % PIPESIZE]
    /\ nread' = (nread + 1) % Wrap

ReadByte(r) ==
    /\ At(r, "copy") /\ i[r] < n[r] /\ ~Empty
    /\ TakeByte
    /\ i' = [i EXCEPT ![r] = @ + 1]
    /\ UNCHANGED <<data, nwrite, endVars, lock, pc, n, asleep, killed>>

(* copyout() fails: the byte has left the pipe all the same.               *)
ReadFault(r) ==
    /\ At(r, "copy") /\ i[r] < n[r] /\ ~Empty
    /\ TakeByte
    /\ Return(r, Writers)
    /\ UNCHANGED <<data, nwrite, endVars, killed>>

(* Mutant: writers are woken by readers only when the pipe is empty.       *)
ReadEndLazy(r) ==
    /\ At(r, "copy") /\ (i[r] = n[r] \/ Empty)
    /\ Return(r, IF Empty THEN Writers ELSE {})
    /\ UNCHANGED <<bufVars, endVars, killed>>

ReadEnd(r) ==
    /\ At(r, "copy") /\ (i[r] = n[r] \/ Empty)
    /\ Return(r, Writers)
    /\ UNCHANGED <<bufVars, endVars, killed>>

-----------------------------------------------------------------------------
(* fileclose(), also by exit(): the last of its kind calls pipeclose().    *)

(* Mutant: pipeclose() wakes nobody.                                       *)
CloseSilent(p) ==
    /\ pc[p] = "idle" /\ p \in holds /\ lock = NoProc
    /\ holds' = holds \ {p}
    /\ writeopen' = (writeopen /\ holds' \cap Writers # {})
    /\ readopen' = (readopen /\ holds' \cap Readers # {})
    /\ UNCHANGED <<bufVars, lock, pc, n, i, asleep, killed>>

Close(p) ==
    /\ pc[p] = "idle" /\ p \in holds /\ lock = NoProc
    /\ holds' = holds \ {p}
    /\ writeopen' = (writeopen /\ holds' \cap Writers # {})
    /\ readopen' = (readopen /\ holds' \cap Readers # {})
    /\ asleep' = asleep \ ((IF writeopen' # writeopen THEN Readers ELSE {})
                           \cup (IF readopen' # readopen THEN Writers ELSE {}))
    /\ UNCHANGED <<bufVars, lock, pc, n, i, killed>>

(* kill(): sets killed and wakes a sleeper.                                *)
Kill(p) ==
    /\ p \in Killable \ killed
    /\ killed' = killed \cup {p}
    /\ asleep' = asleep \ {p}
    /\ UNCHANGED <<bufVars, endVars, lock, pc, n, i>>

-----------------------------------------------------------------------------
Write(w) ==
    \/ WriteAll(w) \/ WriteGivesUp(w) \/ WriteFull(w)
    \/ (\E b \in Bytes : WriteByte(w, b)) \/ WriteFault(w)
Read(r) ==
    ReadEmpty(r) \/ ReadReady(r) \/ ReadByte(r) \/ ReadFault(r) \/ ReadEnd(r)
Step(p) ==
    \/ Lock(p) \/ Sleep(p)
    \/ p \in Writers /\ Write(p)
    \/ p \in Readers /\ Read(p)

Next ==
    \E p \in Procs :
        (\E k \in Counts : Call(p, k)) \/ Step(p) \/ Close(p) \/ Kill(p)

Spec == Init /\ [][Next]_vars

(* A process in the kernel goes on, and one that spins on pi->lock gets it *)
(* at last.  Nothing obliges a program to read, write, close or be killed. *)
Fairness == \A p \in Procs : SF_vars(Step(p))

FairSpec == Spec /\ Fairness

-----------------------------------------------------------------------------
(* The values of the variables.                                            *)
TypeOK ==
    /\ data \in [0..(PIPESIZE - 1) -> Bytes \cup {NoByte}]
    /\ nread \in 0..(Wrap - 1) /\ nwrite \in 0..(Wrap - 1)
    /\ readopen \in BOOLEAN /\ writeopen \in BOOLEAN
    /\ lock \in Procs \cup {NoProc}
    /\ holds \subseteq Procs /\ asleep \subseteq Procs
    /\ killed \subseteq Procs
    /\ pc \in [Procs -> PCs]
    /\ n \in [Procs -> Nat] /\ i \in [Procs -> Nat]
    /\ out \in Bytes \cup {NoByte}

(* Nobody sleeps through what he waits for: a reader is asleep only while  *)
(* the pipe is empty and can still be written, a writer only while it is   *)
(* full and can still be read, or else the process inside will wake him    *)
(* before it leaves.                                                       *)
SleepersHaveReason ==
    /\ \A r \in asleep \cap Readers :
          (Empty /\ writeopen) \/ \E w \in Writers : At(w, "loop")
    /\ \A w \in asleep \cap Writers :
          (Full /\ readopen) \/ \E r \in Readers : At(r, "copy")

(* Who is where: pi->lock is held by the one process inside and by nobody  *)
(* else, and every process in a call has its end open.                     *)
Inside == {"loop", "wait", "copy", "sleep"}
PlaceInv ==
    /\ \A p \in Procs :
          /\ pc[p] \in Inside <=> lock = p
          /\ pc[p] = "loop" => p \in Writers
          /\ pc[p] \in {"wait", "copy"} => p \in Readers
          /\ pc[p] # "idle" => p \in holds
          /\ p \in asleep => pc[p] = "slept"
          /\ i[p] <= n[p] /\ (pc[p] = "idle" => i[p] = 0)
    /\ readopen <=> holds \cap Readers # {}
    /\ writeopen <=> holds \cap Writers # {}

(* Who is about to sleep has not let the reason go: the check and sleep()  *)
(* are under pi->lock.                                                     *)
SleepReason ==
    /\ \A r \in Readers : pc[r] = "sleep" => Empty /\ writeopen
    /\ \A w \in Writers : pc[w] = "sleep" => Full /\ readopen

(* The bytes from nread up to nwrite, the counters taken modulo Wrap: the  *)
(* ring is never overfull, and what it holds has been written.             *)
Used == (nwrite + Wrap - nread) % Wrap
Cell(k) == (nread + k - 1) % PIPESIZE
RingInv ==
    /\ Used <= PIPESIZE
    /\ \A k \in 1..Used : data[Cell(k)] \in Bytes

(* Nobody sleeps through a wakeup, with what that rests on: the types, the *)
(* lock, the ends and the ring.                                            *)
PipeInv ==
    TypeOK /\ PlaceInv /\ SleepReason /\ RingInv /\ SleepersHaveReason

(* A reader sleeps while the pipe is empty ("DOC: pipe-empty"), not longer *)
(* than the process that fills it is inside.                               *)
ReadersSeeData ==
    \A r \in asleep \cap Readers : lock = NoProc => Empty

(* The end of file reaches every reader, and writers learn that nobody     *)
(* reads any more: calls on a pipe whose other end is closed return.       *)
CallsEnd ==
    /\ \A r \in Readers : ~writeopen /\ pc[r] # "idle" ~> pc[r] = "idle"
    /\ \A w \in Writers : ~readopen /\ pc[w] # "idle" ~> pc[w] = "idle"

(* The ring with its wrapping indices is a bounded FIFO queue.             *)
Fifo == INSTANCE AtomicPipe WITH
            Size <- PIPESIZE,
            q <- [k \in 1..Used |-> data[Cell(k)]]
FifoSpec == Fifo!Spec

=============================================================================
