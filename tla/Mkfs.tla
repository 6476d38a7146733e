-------------------------------- MODULE Mkfs --------------------------------
(* The file system that mkfs/mkfs.c writes on the host and the kernel       *)
(* finds at its first boot: an image m with the two counters of mkfs,       *)
(* freeinode and freeblock.  Blocks are counted from the first data block.  *)
EXTENDS Inode

EmptyImage == [disk |-> [i \in Inums |-> FreeInode], dir |-> [i \in Inums |-> NoEntries],
               freeinode |-> ROOTINO, freeblock |-> 1]

(* ialloc() of mkfs: the next inode, named once.                           *)
ClaimInode(m, type) ==
    [m EXCEPT !.disk[m.freeinode] = [FreeInode EXCEPT !.type = type, !.nlink = 1],
              !.freeinode = @ + 1]

(* iappend() of a unit: the indirect block comes before the first block    *)
(* that it holds.                                                          *)
Iappend(m, i) ==
    LET d == m.disk[i]
        fresh == d.size \div PerBlock(d) >= Len(d.data)
        needInd == fresh /\ Len(d.data) >= NDirect /\ d.ind = 0
        b == IF needInd THEN m.freeblock + 1 ELSE m.freeblock
    IN  [m EXCEPT !.freeblock = IF fresh THEN b + 1 ELSE @,
            !.disk[i] = [d EXCEPT !.size = @ + 1,
                           !.ind = IF needInd THEN m.freeblock ELSE @,
                           !.data = IF fresh THEN Append(@, b) ELSE @]]

(* A file of the host: its inode, its entry in the root, its contents.     *)
AddFile(m, file) ==
    LET i == m.freeinode
        named == Iappend([ClaimInode(m, "file") EXCEPT !.dir[ROOTINO].ents[file.name] = i],
                         ROOTINO)
    IN  FoldLeft(LAMBDA w, u : Iappend(w, i), named, [u \in 1..file.units |-> u])

(* The root with its "." and "..".                                         *)
RootImage ==
    Iappend(Iappend([ClaimInode(EmptyImage, "dir") EXCEPT !.dir[ROOTINO].dotdot = ROOTINO],
                    ROOTINO), ROOTINO)

(* The size of the root is made whole blocks, one more if it was whole:    *)
(* that one is not there.                                                  *)
FixRootSize(m) ==
    [m EXCEPT !.disk[ROOTINO].size = (@ \div EntriesPerBlock + 1) * EntriesPerBlock]

(* balloc() of mkfs: the bitmap marks all blocks before freeblock.         *)
Mkfs(files) ==
    LET m == FixRootSize(FoldLeft(AddFile, RootImage, files))
    IN  [disk |-> m.disk, dir |-> m.dir, used |-> 1..(m.freeblock - 1)]

(* The first boot on image t: the root is the current directory of init,   *)
(* whose open() of the console n does not find it, and reads the root to   *)
(* its end; its mknod() makes it, and so writes the root back.             *)
FirstBoot(t, n) ==
    LET boot == Ilock(Iget(Booted(t.disk, t.used, t.dir), ROOTINO), ROOTINO)
        open == Dirlookup(boot, ROOTINO, n)
        i == Min(FreeInums(open.s))
        mknod == Dirlink(SetNlink(Ilock(Ialloc(open.s, i, "device"), i), i, 1), ROOTINO, n, i)
    IN  [opened |-> open.s,
         ok |-> open.ok /\ FreeInums(open.s) # {} /\ mknod.ok, s |-> mknod.s]

=============================================================================
