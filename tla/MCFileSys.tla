----------------------------- MODULE MCFileSys -----------------------------
(* Instances of FileSys for TLC.                                           *)
EXTENDS FileSys, Mkfs, TLC

CONSTANTS p1, p2, usr, bin

MCSymmetry == Permutations({p1, p2})

Rel(elems) == [abs |-> FALSE, elems |-> elems]
Abs(elems) == [abs |-> TRUE, elems |-> elems]

MCOpen(path, create, omode) ==
    [op |-> "open", path |-> path, type |-> "file", create |-> create, omode |-> omode]
MCMake(op, path, type) == [op |-> op, path |-> path, type |-> type]
MCCall(op, path) == [op |-> op, path |-> path]
MCLink(path, new) == [op |-> "link", path |-> path, new |-> new]

(* Disks: a directory usr in the root, and in it a file bin or nothing.    *)
MCDir(blk, n, k) == [FreeInode EXCEPT !.type = "dir", !.nlink = 1 + n, !.size = 2 + k,
                                      !.data = <<blk>>]
MCFile(blk) == [FreeInode EXCEPT !.type = "file", !.nlink = 1, !.size = 1, !.data = <<blk>>]
MCTree(withB) == [
    disk |-> [i \in Inums |->
                CASE i = 1 -> MCDir(1, 1, 1)
                  [] i = 2 -> MCDir(2, 0, IF withB THEN 1 ELSE 0)
                  [] i = 3 /\ withB -> MCFile(3)
                  [] OTHER -> FreeInode],
    used |-> IF withB THEN 1..3 ELSE 1..2,
    dir  |-> [i \in Inums |->
                CASE i = 1 -> [ents |-> [n \in Names |-> IF n = usr THEN 2 ELSE 0], dotdot |-> 1]
                  [] i = 2 -> [ents |-> [n \in Names |-> IF n = bin /\ withB THEN 3 ELSE 0],
                               dotdot |-> 1]
                  [] OTHER -> NoEntries]]
MCTrees == {MCTree(FALSE), MCTree(TRUE)}
MCTreeA == {MCTree(FALSE)}

(* What mkfs writes for no file or one; one file makes the entries of the  *)
(* root a whole number of blocks, and its last block is missing.           *)
MCFileLists == {<<>>} \cup {<<[name |-> usr, units |-> n]>> : n \in 0..2}
MCImages == {Mkfs(files) : files \in MCFileLists}

(* What init's first calls make of them, where the blocks last: bin stands *)
(* for the console.                                                        *)
MCBoots == {FirstBoot(t, bin) : t \in {m \in MCImages : m.used \subseteq Blocks}}
MCFits == {b.s : b \in {c \in MCBoots : c.ok}}

(* They are in order, as FileSys assumes of the disk it starts with.       *)
ASSUME MkfsInOrder == \A s \in MCFits : TreeOK(s)

(* Between the two calls some are not: open() has allocated a block that   *)
(* no inode on disk has, and a crash would leak it.                        *)
ASSUME OpenLeaks == \E b \in MCBoots : b.ok /\ ~BlocksOK(b.opened)

(* FileSys on any of the trees, and for the last call of the bound on what *)
(* the first boot made of any image of mkfs.                               *)
MCInit == \/ Init
          \/ /\ \E t \in MCFits : fs = References(Booted(t.disk, t.used, t.dir))
             /\ lk = [i \in Inums |-> Nobody]
             /\ ft = [f \in FileIds |-> FreeFile]
             /\ ofile = [p \in Procs |-> [d \in Fds |-> 0]]
             /\ cwd = [p \in Procs |-> ROOTINO]
             /\ pc = [p \in Procs |-> "idle"]
             /\ l = [p \in Procs |-> Local0]
             /\ calls = MaxCalls - 1
MCSpec == MCInit /\ [][Next]_vars

MCCalls == {
    MCOpen(Rel(<<usr, bin>>), TRUE, "w"), MCOpen(Rel(<<bin>>), TRUE, "trunc"),
    MCOpen(Rel(<<usr>>), FALSE, "r"),
    MCMake("mkdir", Rel(<<bin>>), "dir"), MCMake("mkdir", Rel(<<usr, bin>>), "dir"),
    MCMake("mknod", Rel(<<bin>>), "badDevice"),
    MCCall("unlink", Rel(<<usr>>)), MCCall("unlink", Rel(<<bin>>)),
    MCCall("unlink", Abs(<<usr, bin>>)), MCCall("unlink", Rel(<<usr, ".">>)),
    MCLink(Abs(<<usr, bin>>), Rel(<<bin>>)),
    MCCall("chdir", Rel(<<usr>>)), MCCall("chdir", Rel(<<"..">>)),
    MCCall("exec", Abs(<<usr, bin>>)) }

MCNoFdCalls == {}
MCFdCalls == {"close", "dup", "read", "write", "pipe", "fork", "exit"}

(* A process that stays in a directory while it is removed, and its parent *)
(* after it.                                                               *)
MCDotCalls == {
    MCMake("mkdir", Rel(<<usr, bin>>), "dir"), MCCall("chdir", Rel(<<usr, bin>>)),
    MCCall("unlink", Abs(<<usr, bin>>)), MCCall("unlink", Abs(<<usr>>)),
    MCCall("chdir", Rel(<<"..">>)) }

=============================================================================
