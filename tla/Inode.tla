------------------------------- MODULE Inode -------------------------------
(* Inodes, block allocation and directories (kernel/fs.c), as operations   *)
(* on a record s that holds the disk and the inode table:                  *)
(*   s.disk   what the inode blocks say (as read through the log)          *)
(*   s.used   the blocks that the bitmap marks in use                      *)
(*   s.dir    what the entries of each directory say                       *)
(*   s.mem    the copies in itable, s.valid and s.ref as there             *)
(* Blocks hold one unit of a file or EntriesPerBlock directory entries.    *)
(* The table is indexed by inum: iget() scans it under itable.lock, so an  *)
(* inode has one entry.  A block is named by its number, 0 is none.        *)
EXTENDS Naturals, Sequences, FiniteSets, FiniteSetsExt, SequencesExt

CONSTANTS
    Names,            \* names in directories, other than "." and ".."
    NInodes,          \* sb.ninodes
    NBlocks,          \* blocks that balloc() can find free
    NDirect,          \* NDIRECT
    MaxFile,          \* MAXFILE
    EntriesPerBlock   \* BSIZE / sizeof(struct dirent)

ASSUME InodeAssumption ==
    /\ NInodes \in Nat \ {0} /\ NBlocks \in Nat /\ NDirect \in Nat
    /\ MaxFile \in Nat /\ EntriesPerBlock \in Nat /\ EntriesPerBlock >= 2
    /\ IsFiniteSet(Names) /\ Names \cap {".", ".."} = {}

Inums == 1..NInodes
Blocks == 1..NBlocks
ROOTINO == 1
Types == {"none", "dir", "file", "device", "badDevice"}

Dinode == [type : Types, nlink : Nat, size : Nat, data : Seq(Blocks),
           ind : 0..NBlocks]
FreeInode == [type |-> "none", nlink |-> 0, size |-> 0, data |-> <<>>, ind |-> 0]
Directory == [ents : [Names -> 0..NInodes], dotdot : 0..NInodes]
NoEntries == [ents |-> [n \in Names |-> 0], dotdot |-> 0]

BlocksOf(d) == ToSet(d.data) \cup ({d.ind} \ {0})

(* The state after boot: the table is empty.                               *)
Booted(disk, used, dir) ==
    [disk |-> disk, used |-> used, dir |-> dir,
     mem |-> [i \in Inums |-> FreeInode], valid |-> [i \in Inums |-> FALSE],
     ref |-> [i \in Inums |-> 0]]

-----------------------------------------------------------------------------
(* The inode table.                                                        *)

Iget(s, i) == IF s.ref[i] > 0 THEN [s EXCEPT !.ref[i] = @ + 1]
              ELSE [s EXCEPT !.ref[i] = 1, !.valid[i] = FALSE]

Idup(s, i) == [s EXCEPT !.ref[i] = @ + 1]

(* The last line of iput(): an entry without references is free, and what  *)
(* it still says does not matter.                                          *)
Unref(s, i) ==
    IF s.ref[i] > 1 THEN [s EXCEPT !.ref[i] = @ - 1]
    ELSE [s EXCEPT !.ref[i] = 0, !.valid[i] = FALSE, !.mem[i] = FreeInode]

(* What ilock() does once it holds the sleep lock.                         *)
Ilock(s, i) == IF s.valid[i] THEN s
               ELSE [s EXCEPT !.valid[i] = TRUE, !.mem[i] = s.disk[i]]

Iupdate(s, i) == [s EXCEPT !.disk[i] = s.mem[i]]

FreeInums(s) == {i \in Inums : s.disk[i].type = "none"}

(* ialloc(): a free inode is claimed on disk and referenced.               *)
Ialloc(s, i, type) ==
    Iget([s EXCEPT !.disk[i] = [FreeInode EXCEPT !.type = type]], i)

(* ip->nlink = n, ip->nlink++ and ip->nlink--, each with its iupdate(ip).  *)
SetNlink(s, i, n) == Iupdate([s EXCEPT !.mem[i].nlink = n], i)

(* Mutant: a new link is not counted.                                      *)
Uncounted(s, i) == Iupdate(s, i)

MoreLinks(s, i) == SetNlink(s, i, s.mem[i].nlink + 1)
FewerLinks(s, i) == SetNlink(s, i, s.mem[i].nlink - 1)

-----------------------------------------------------------------------------
(* Blocks and contents.  Results are [ok, s].                              *)

FreeBlocks(s) == Blocks \ s.used

Balloc(s, b) == [s EXCEPT !.used = @ \cup {b}]

(* bmap() for the block after the last one: the indirect block may have    *)
(* to come first, and stays if there is no room for the data.              *)
Bmap(s, i) ==
    LET needInd == Len(s.mem[i].data) >= NDirect /\ s.mem[i].ind = 0
        b == Min(FreeBlocks(s))
        s1 == IF needInd THEN [Balloc(s, b) EXCEPT !.mem[i].ind = b] ELSE s
        c == Min(FreeBlocks(s1))
    IN  IF FreeBlocks(s) = {} THEN [ok |-> FALSE, s |-> s]
        ELSE IF FreeBlocks(s1) = {} THEN [ok |-> FALSE, s |-> s1]
        ELSE [ok |-> TRUE,
              s |-> [Balloc(s1, c) EXCEPT !.mem[i].data = Append(@, c)]]

(* itrunc(): all blocks are freed, and with them the contents.             *)
Itrunc(s, i) ==
    Iupdate([s EXCEPT !.used = @ \ BlocksOf(s.mem[i]), !.dir[i] = NoEntries,
                !.mem[i] = [@ EXCEPT !.size = 0, !.data = <<>>, !.ind = 0]], i)

PerBlock(d) == IF d.type = "dir" THEN EntriesPerBlock ELSE 1

(* readi() of the unit at off: below size, a block that is missing is      *)
(* allocated, in memory alone; without one there is nothing to read.       *)
Readi(s, i, off) ==
    LET d == s.mem[i]
    IN  IF off >= d.size THEN [ok |-> FALSE, s |-> s]
        ELSE IF off \div PerBlock(d) < Len(d.data) THEN [ok |-> TRUE, s |-> s]
        ELSE Bmap(s, i)

(* All of them, one after the other.  No more than the last block of an    *)
(* inode can be missing, see Mkfs, so the last unit stands for the others. *)
ReadAll(s, i) == IF s.mem[i].size = 0 THEN [ok |-> TRUE, s |-> s]
                 ELSE Readi(s, i, s.mem[i].size - 1)

(* writei() of one unit at off: nothing beyond the end or the largest      *)
(* file; the inode is written back even if the block could not be had.     *)
Writei(s, i, off) ==
    LET d == s.mem[i]
        b == off \div PerBlock(d)
        w == IF b < Len(d.data) THEN [ok |-> TRUE, s |-> s] ELSE Bmap(s, i)
        s1 == IF w.ok THEN [w.s EXCEPT !.mem[i].size = Max({@, off + 1})] ELSE w.s
    IN  IF off > d.size \/ b >= MaxFile THEN [ok |-> FALSE, s |-> s]
        ELSE [ok |-> w.ok, s |-> Iupdate(s1, i)]

(* What the entries of a directory say of a name: 0 if there is none.      *)
EntryAt(s, d, n) == CASE n = "."  -> d
                      [] n = ".." -> s.dir[d].dotdot
                      [] OTHER    -> s.dir[d].ents[n]

Entries(s, d) == {n \in Names : s.dir[d].ents[n] # 0}

(* dirlookup(): only a name that is not there makes it read all entries;   *)
(* not ok is the panic "dirlookup read".                                   *)
Dirlookup(s, d, n) ==
    LET i == EntryAt(s, d, n)
        r == IF i = 0 THEN ReadAll(s, d) ELSE [ok |-> TRUE, s |-> s]
    IN  [ok |-> r.ok, s |-> r.s, i |-> i]

(* dirlink(): after the lookup any slot that is not in use lies in a block *)
(* that is there, so the number of slots in use stands for the offset of   *)
(* the first one that is not.                                              *)
Dirlink(s, d, n, i) ==
    LET e == Dirlookup(s, d, n)
        w == Writei(e.s, d, 2 + Cardinality(Entries(s, d)))
    IN  IF e.i # 0 THEN [ok |-> FALSE, s |-> s]
        ELSE IF ~w.ok THEN w
        ELSE [ok |-> TRUE, s |-> [w.s EXCEPT !.dir[d].ents[n] = i]]

(* dirlink() of "." and "..", which share a block.                         *)
MakeDots(s, i, parent) ==
    LET w1 == Writei(s, i, 0)
        w2 == Writei(w1.s, i, 1)
    IN  IF w1.ok THEN [ok |-> TRUE, s |-> [w2.s EXCEPT !.dir[i].dotdot = parent]]
        ELSE w1

-----------------------------------------------------------------------------
(* A disk in order.                                                        *)

(* The entries that name i, "." and ".." apart, and the directories in     *)
(* use whose ".." it is.                                                   *)
NamingIn(dir, i) == {x \in Inums \X Names : dir[x[1]].ents[x[2]] = i}
ChildrenIn(dir, i) == {d \in Inums : dir[d].dotdot = i /\ NamingIn(dir, d) # {}}

(* What lies below size is in a block.                                     *)
Filled(d) == \A off \in 0..(d.size - 1) : off \div PerBlock(d) < Len(d.data)

(* A block belongs to one inode, and the bitmap marks just those that do.  *)
OwnOK(d) == IsInjective(d.data) /\ d.ind \notin ToSet(d.data) /\ Filled(d)

BlocksOK(s) ==
    /\ s.used = UNION {BlocksOf(s.disk[i]) : i \in Inums}
    /\ \A i \in Inums : /\ OwnOK(s.disk[i])
                        /\ \A j \in Inums \ {i} : BlocksOf(s.disk[i]) \cap BlocksOf(s.disk[j]) = {}

(* There is nothing in a free inode, and entries only in a directory.      *)
FreeOK(s) == \A i \in Inums : s.disk[i].type = "none" => s.disk[i] = FreeInode
LeafOK(s) == \A i \in Inums : s.disk[i].type # "dir" => s.dir[i] = NoEntries

(* A directory has one name, in its parent.                                *)
OneName(s) == \A i \in Inums : s.disk[i].type = "dir" => \A x \in NamingIn(s.dir, i) :
    s.dir[i].dotdot = x[1] /\ \A y \in NamingIn(s.dir, i) : x = y

(* Directories can be numbered such that a path goes down.                 *)
Below(s, rank) == \A d \in Inums, n \in Names :
    LET i == s.dir[d].ents[n]
    IN  i # 0 /\ s.disk[i].type = "dir" => rank[i] < rank[d]

=============================================================================
