----------------------------- MODULE VirtioDisk -----------------------------
(* The disk driver (kernel/virtio_disk.c) and, as its environment, the     *)
(* device.  A caller gives it a buffer that it alone may touch (see        *)
(* BufCache) and sleeps until the device is done with it.                  *)
(*                                                                         *)
(* disk.vdisk_lock is held from acquire to sleep or release, so what the   *)
(* driver does in between is a step; the loop of the interrupt handler is  *)
(* taken apart, because the device goes on meanwhile.  kill() may wake any *)
(* sleeper.  The rings hold NUM entries and a request takes three of NUM   *)
(* descriptors, so they never wrap onto live entries and are sequences.    *)
EXTENDS Naturals, Sequences, FiniteSets, SequencesExt, FiniteSetsExt

CONSTANTS
    Procs,
    NBUF,      \* buffers
    Blocks,    \* the blocks of the disk
    NUM        \* descriptors

VirtioAssumption == NUM \in Nat /\ NUM >= 3 /\ NBUF \in Nat /\ IsFiniteSet(Procs)

VARIABLES
    free,      \* the descriptors with disk.free[i]
    info,      \* disk.info[i].b and the operation of the chain that i heads
    avail,     \* heads told to the device and not yet taken
    busy,      \* heads that the device works on
    used,      \* completed heads that the handler has not come to
    pending,   \* the device's interrupt is pending
    inIntr,    \* the handler holds disk.vdisk_lock
    bdisk,     \* the buffers with b->disk = 1
    content,   \* what the disk holds
    data,      \* b->data
    rw,        \* where a process is in virtio_disk_rw()
    chain,     \* its idx[]
    asleep     \* the processes that sleep, here or in a sleep lock

driverVars == <<free, info, avail, busy, used, pending, inIntr, bdisk, content, rw, chain>>
deviceVars == <<avail, busy, used, pending, content, data>>
virtioVars == <<free, info, avail, busy, used, pending, inIntr, bdisk,
                content, data, rw, chain>>

Bufs == 1..NBUF
Descs == 0..(NUM - 1)
NoOp == [buf |-> 0, blk |-> 0, write |-> FALSE]

VirtioInit ==
    /\ free = Descs /\ info = [i \in Descs |-> NoOp]
    /\ avail = <<>> /\ busy = {} /\ used = <<>> /\ pending = FALSE /\ inIntr = FALSE
    /\ bdisk = {}
    /\ content = [b \in Blocks |-> 0] /\ data = [b \in Bufs |-> 0]
    /\ rw = [p \in Procs |-> "out"] /\ chain = [p \in Procs |-> <<>>]

At(p, place) == rw[p] = place /\ p \notin asleep /\ ~inIntr
Goto(p, place) == rw' = [rw EXCEPT ![p] = place]

(* The sleepers on &disk.free[0] and on a buffer.                          *)
WantDescs == {p \in Procs : rw[p] = "full"}
Awaiting(b) == {p \in Procs : rw[p] = "wait" /\ info[chain[p][1]].buf = b}

(* alloc_desc() takes the lowest free descriptor.                          *)
Lowest3 ==
    LET i == Min(free)
        j == Min(free \ {i})
    IN  <<i, j, Min(free \ {i, j})>>

(* alloc3_desc() succeeds: the chain is filled in and its head passed to   *)
(* the device; the caller sleeps, as only the handler clears b->disk.      *)
Submit(p, b, blk, write) ==
    /\ (rw[p] = "start" \/ rw[p] = "full") /\ p \notin asleep /\ ~inIntr
    /\ Cardinality(free) >= 3
    /\ free' = free \ ToSet(Lowest3)
    /\ chain' = [chain EXCEPT ![p] = Lowest3]
    /\ info' = [info EXCEPT ![Lowest3[1]] = [buf |-> b, blk |-> blk, write |-> write]]
    /\ bdisk' = bdisk \cup {b}
    /\ avail' = Append(avail, Lowest3[1])
    /\ Goto(p, "wait") /\ asleep' = asleep \cup {p}
    /\ UNCHANGED <<busy, used, pending, inIntr, content, data>>

(* alloc3_desc() fails: what it took goes back, with a wakeup for each, and *)
(* the caller sleeps on &disk.free[0].                                     *)
SubmitFull(p) ==
    /\ (rw[p] = "start" \/ rw[p] = "full") /\ p \notin asleep /\ ~inIntr
    /\ Cardinality(free) < 3
    /\ asleep' = (IF free = {} THEN asleep ELSE asleep \ WantDescs) \cup {p}
    /\ Goto(p, "full")
    /\ UNCHANGED <<free, info, deviceVars, inIntr, bdisk, chain>>

(* After b->disk = 0: free_chain(), with its wakeups.                      *)
Finish(p) ==
    /\ At(p, "wait") /\ info[chain[p][1]].buf \notin bdisk
    /\ info' = [info EXCEPT ![chain[p][1]] = NoOp]
    /\ free' = free \cup ToSet(chain[p])
    /\ chain' = [chain EXCEPT ![p] = <<>>]
    /\ asleep' = asleep \ WantDescs
    /\ Goto(p, "out")
    /\ UNCHANGED <<deviceVars, inIntr, bdisk>>

(* Woken by kill() while the device still has the buffer.                  *)
WaitAgain(p) ==
    /\ At(p, "wait") /\ info[chain[p][1]].buf \in bdisk
    /\ asleep' = asleep \cup {p}
    /\ UNCHANGED virtioVars

-----------------------------------------------------------------------------
(* The device: it takes requests, serves them in any order, and raises its *)
(* interrupt.                                                              *)

DeviceTake ==
    /\ avail # <<>>
    /\ busy' = busy \cup {Head(avail)} /\ avail' = Tail(avail)
    /\ UNCHANGED <<free, info, used, pending, inIntr, bdisk, content, data, rw, chain, asleep>>

DeviceDone == \E h \in busy : LET r == info[h] IN
    /\ busy' = busy \ {h} /\ used' = Append(used, h) /\ pending' = TRUE
    /\ content' = IF r.write THEN [content EXCEPT ![r.blk] = data[r.buf]] ELSE content
    /\ data' = IF r.write THEN data ELSE [data EXCEPT ![r.buf] = content[r.blk]]
    /\ UNCHANGED <<free, info, avail, inIntr, bdisk, rw, chain, asleep>>

-----------------------------------------------------------------------------
(* virtio_disk_intr(): acknowledge, then look at the used ring until it is *)
(* empty.                                                                  *)

IntrEnter ==
    /\ pending /\ ~inIntr /\ inIntr' = TRUE /\ pending' = FALSE
    /\ UNCHANGED <<free, info, avail, busy, used, bdisk, content, data, rw, chain, asleep>>

IntrOne == LET b == info[Head(used)].buf IN
    /\ inIntr /\ used # <<>>
    /\ used' = Tail(used)
    /\ bdisk' = bdisk \ {b} /\ asleep' = asleep \ Awaiting(b)
    /\ UNCHANGED <<free, info, avail, busy, pending, inIntr, content, data, rw, chain>>

(* The used ring has been gone through.                                    *)
IntrLeave ==
    /\ inIntr /\ used = <<>> /\ inIntr' = FALSE
    /\ UNCHANGED <<free, info, deviceVars, bdisk, rw, chain, asleep>>

Interrupt == IntrEnter \/ IntrOne \/ IntrLeave
Device == DeviceTake \/ DeviceDone

-----------------------------------------------------------------------------
(* Properties.                                                             *)

RwPlaces == {"out", "start", "full", "wait"}
Request == [buf : Bufs \cup {0}, blk : Blocks \cup {0}, write : BOOLEAN]

DriverTypeOK ==
    /\ free \subseteq Descs /\ busy \subseteq Descs /\ info \in [Descs -> Request]
    /\ avail \in Seq(Descs) /\ used \in Seq(Descs)
    /\ pending \in BOOLEAN /\ inIntr \in BOOLEAN /\ bdisk \subseteq Bufs
    /\ content \in [Blocks -> {0, 1}] /\ data \in [Bufs -> {0, 1}]
    /\ rw \in [Procs -> RwPlaces] /\ chain \in [Procs -> Seq(Descs)]
    /\ asleep \subseteq Procs

(* Every descriptor is free or in one chain, and the three of a chain come *)
(* back together: none leaks when alloc3_desc() fails half way, and none   *)
(* is freed twice ("free_desc 2").                                         *)
DescsConserved ==
    /\ \A p, q \in Procs : p # q => ToSet(chain[p]) \cap ToSet(chain[q]) = {}
    /\ \A p \in Procs : ToSet(chain[p]) \cap free = {}
    /\ free \cup UNION {ToSet(chain[p]) : p \in Procs} = Descs

(* A process has a chain just while its request is with the device.        *)
ChainInv == \A p \in Procs :
    IF rw[p] = "wait" THEN chain[p] # <<>> ELSE chain[p] = <<>>

(* The requests told to the device that virtio_disk_intr() has not come to. *)
OnTheirWay == ToSet(avail) \cup busy \cup ToSet(used)

(* A buffer is marked as the device's just while its request is on its way *)
(* to the device, there, or on its way back, and it is in one place.       *)
RequestsAccounted ==
    /\ bdisk = {info[h].buf : h \in OnTheirWay}
    /\ OnTheirWay \subseteq {chain[p][1] : p \in {q \in Procs : rw[q] = "wait"}}
    /\ IsInjective(avail) /\ IsInjective(used)
    /\ ToSet(avail) \cap busy = {}
    /\ (ToSet(avail) \cup busy) \cap ToSet(used) = {}

(* What the device has finished is looked at: the handler is at it, or the *)
(* interrupt is still to come.                                             *)
InterruptComes == used # <<>> => pending \/ inIntr

=============================================================================
