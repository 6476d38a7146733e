------------------------------ MODULE FileSys ------------------------------
(* The file system calls (kernel/sysfile.c, kernel/file.c, and what fork() *)
(* and exit() do with files) over the operations of Inode.                 *)
(*                                                                         *)
(* A step runs from one acquisition of an inode's sleep lock, or of        *)
(* itable.lock in iput(), to the next.  A call is inside begin_op() and    *)
(* end_op() wherever the code is; module Log shows that what happens       *)
(* between them is durable together or not at all, so that a crash is a    *)
(* crash between calls.  Puts and unlocks that a call still owes before it *)
(* goes on at pc are its agenda.                                           *)
EXTENDS Inode

CONSTANTS
    Procs,            \* the processes other than init
    Nobody,
    NFile, NOFile,    \* NFILE, NOFILE
    Calls,            \* the calls with a path that programs make
    FdCalls,          \* bound: the calls without
    InitTrees,        \* bound: what is on the disk at first
    MaxCalls          \* bound: calls and crashes

PathNames == Names \cup {".", ".."}

(* What the calls before the start have left: on the image of mkfs, the    *)
(* first of init.                                                          *)
TreeOK(t) ==
    /\ t.disk \in [Inums -> Dinode] /\ t.dir \in [Inums -> Directory]
    /\ t.used \subseteq Blocks
    /\ BlocksOK(t) /\ FreeOK(t) /\ LeafOK(t) /\ OneName(t)
    /\ \E rank \in [Inums -> 0..NInodes] : Below(t, rank)
    /\ \A i \in Inums : t.disk[i].nlink >=
          Cardinality(NamingIn(t.dir, i)) + Cardinality(ChildrenIn(t.dir, i))
            + (IF i = ROOTINO THEN 1 ELSE 0)
    /\ t.disk[ROOTINO].type = "dir"

ASSUME FileSysAssumption ==
    /\ IsFiniteSet(Procs) /\ Nobody \notin Procs
    /\ NFile \in Nat /\ NOFile \in Nat /\ MaxCalls \in Nat
    /\ \A c \in Calls :
         /\ c.op \in {"open", "mkdir", "mknod", "unlink", "link", "chdir", "exec"}
         /\ c.path.elems \in Seq(PathNames)
         /\ c.op = "open" => c.create \in BOOLEAN /\ c.type = "file"
         /\ c.op = "mkdir" => c.type = "dir"
         /\ c.op = "mknod" => c.type \in {"device", "badDevice"}
         /\ c.op = "link" => c.new.elems \in Seq(PathNames)
    /\ \A t \in InitTrees : TreeOK(t)

VARIABLES
    fs,      \* disk and inode table, see Inode
    lk,      \* the holder of each ip->lock, or Nobody
    ft,      \* ftable: [ref, type, ip, off, writable]
    ofile,   \* p->ofile
    cwd,     \* p->cwd
    pc, l,   \* where a process is in the kernel, and its locals
    calls    \* calls and crashes so far (bound)

vars == <<fs, lk, ft, ofile, cwd, pc, l, calls>>
fileVars == <<ft, ofile>>

FileIds == 1..NFile
Fds == 0..(NOFile - 1)
FreeFile == [ref |-> 0, type |-> "none", ip |-> 0, off |-> 0, writable |-> FALSE]

PCs == {"idle", "dead", "walk", "open", "made", "create", "exists", "new",
        "unlink", "unlinkChild", "unlinkLast", "link", "linkEntry", "linkBad",
        "chdir", "chdirDone", "exec", "write", "exit"}

(* call: the call; path: what is left of the path; cur: ip in namex();     *)
(* parent: nameiparent(); ip, dp: the inodes the call holds; agenda: what  *)
(* it has to unlock and put; f, n: the file and the count of a write.      *)
NoCall == [op |-> "none"]
Local0 == [call |-> NoCall, path |-> <<>>, parent |-> FALSE, cur |-> 0,
           ip |-> 0, dp |-> 0, agenda |-> <<>>, f |-> 0, n |-> 0]

Ready(p, place) == pc[p] = place /\ l[p].agenda = <<>>
Goto(p, place) == pc' = [pc EXCEPT ![p] = place]
Set(p, locals) == l' = [l EXCEPT ![p] = locals]
Todo(op, i) == [op |-> op, i |-> i]
Owe(agenda) == [Local0 EXCEPT !.agenda = agenda]
Lock(p, i) == lk[i] = Nobody /\ lk' = [lk EXCEPT ![i] = p]
Unlock(i) == lk' = [lk EXCEPT ![i] = Nobody]
(* ilock() and iunlock() in one step.                                      *)
Visit(i) == lk[i] = Nobody /\ UNCHANGED lk

(* Return: the call is over after these are put.                           *)
Return(p, agenda) == Goto(p, "idle") /\ Set(p, Owe(agenda))

-----------------------------------------------------------------------------
(* The start, when init has forked the others, and the same after a crash. *)

References(s) == [s EXCEPT !.ref[ROOTINO] = Cardinality(Procs)]

Boot(disk, used, dir) ==
    /\ fs' = References(Booted(disk, used, dir))
    /\ lk' = [i \in Inums |-> Nobody]
    /\ ft' = [f \in FileIds |-> FreeFile]
    /\ ofile' = [p \in Procs |-> [d \in Fds |-> 0]]
    /\ cwd' = [p \in Procs |-> ROOTINO]
    /\ pc' = [p \in Procs |-> "idle"]
    /\ l' = [p \in Procs |-> Local0]

Init ==
    /\ \E t \in InitTrees : fs = References(Booted(t.disk, t.used, t.dir))
    /\ lk = [i \in Inums |-> Nobody]
    /\ ft = [f \in FileIds |-> FreeFile]
    /\ ofile = [p \in Procs |-> [d \in Fds |-> 0]]
    /\ cwd = [p \in Procs |-> ROOTINO]
    /\ pc = [p \in Procs |-> "idle"]
    /\ l = [p \in Procs |-> Local0]
    /\ calls = 0

InKernel(p) == pc[p] \notin {"idle", "dead"} \/ l[p].agenda # <<>>

(* A crash: the disk keeps what the finished calls have done.              *)
Crash ==
    /\ \A p \in Procs : ~InKernel(p)
    /\ calls < MaxCalls /\ calls' = calls + 1
    /\ Boot(fs.disk, fs.used, fs.dir)

-----------------------------------------------------------------------------
(* iunlock() and iput().                                                   *)

Pop(p) == Set(p, [l[p] EXCEPT !.agenda = Tail(@)])
Relabel(p, op) == Set(p, [l[p] EXCEPT !.agenda[1].op = op])

(* Mutant: iput() does not look at nlink.                                  *)
LastUseAnyLink(i) == fs.ref[i] = 1 /\ fs.valid[i]

(* Mutant: iput() does not look at ref.                                    *)
LastUseAnyRef(i) == fs.valid[i] /\ fs.mem[i].nlink = 0

(* iput() frees an inode without names if this is the last reference.      *)
LastUse(i) == fs.ref[i] = 1 /\ fs.valid[i] /\ fs.mem[i].nlink = 0

Unlocking(p) == LET h == Head(l[p].agenda) IN
    /\ l[p].agenda # <<>> /\ h.op = "unlock"
    /\ Unlock(h.i) /\ Pop(p)
    /\ UNCHANGED <<fs, fileVars, cwd, pc, calls>>

(* The test under itable.lock, with the sleep lock taken inside it.        *)
PutFree(p) == LET h == Head(l[p].agenda) IN
    /\ l[p].agenda # <<>> /\ h.op = "put" /\ LastUse(h.i)
    /\ Lock(p, h.i) /\ Relabel(p, "trunc")
    /\ UNCHANGED <<fs, fileVars, cwd, pc, calls>>

(* Without itable.lock: truncate, free on disk, invalidate, unlock.        *)
PutTrunc(p) == LET h == Head(l[p].agenda)
                   s1 == Itrunc(fs, h.i)
                   s2 == Iupdate([s1 EXCEPT !.mem[h.i].type = "none"], h.i) IN
    /\ l[p].agenda # <<>> /\ h.op = "trunc"
    /\ fs' = [s2 EXCEPT !.valid[h.i] = FALSE, !.mem[h.i] = FreeInode]
    /\ Unlock(h.i) /\ Relabel(p, "drop")
    /\ UNCHANGED <<fileVars, cwd, pc, calls>>

PutDrop(p) == LET h == Head(l[p].agenda) IN
    /\ l[p].agenda # <<>>
    /\ h.op = "drop" \/ (h.op = "put" /\ ~LastUse(h.i))
    /\ fs' = Unref(fs, h.i) /\ Pop(p)
    /\ UNCHANGED <<lk, fileVars, cwd, pc, calls>>

-----------------------------------------------------------------------------
(* Path lookup: namex() is walked one directory at a time.  A lookup that  *)
(* panics is no step here, and NoPanic says that there is none.            *)

Start(p) == Ready(p, "idle") /\ calls < MaxCalls /\ calls' = calls + 1

(* The places where a call goes on with the result of namex(); "none" is   *)
(* no result.                                                              *)
Found(c, second) ==
    CASE c.op = "open" -> IF c.create THEN "create" ELSE "open"
      [] c.op \in {"mkdir", "mknod"} -> "create"
      [] c.op = "link" -> IF second THEN "linkEntry" ELSE "link"
      [] OTHER -> c.op

WantsParent(c) == c.op \in {"mkdir", "mknod", "unlink"} \/ (c.op = "open" /\ c.create)

(* Where namex() begins: at the root or at p->cwd, which is referenced.    *)
NamexStart(p, c, path) ==
    LET i == IF path.abs THEN ROOTINO ELSE cwd[p]
    IN  [s |-> IF path.abs THEN Iget(fs, i) ELSE Idup(fs, i), i |-> i]

PathCall(p) == \E c \in Calls :
    LET w == NamexStart(p, c, c.path) IN
    /\ Start(p)
    /\ fs' = w.s
    /\ Set(p, [Local0 EXCEPT !.call = c, !.path = c.path.elems, !.cur = w.i,
                             !.parent = WantsParent(c)])
    /\ Goto(p, "walk")
    /\ UNCHANGED <<lk, fileVars, cwd>>

(* namex() returns 0, after putting what it holds.                         *)
NamexFails(p) ==
    LET second == l[p].ip # 0
        a == <<Todo("put", l[p].cur)>>
    IN  IF second THEN /\ Goto(p, "linkBad")
                       /\ Set(p, [l[p] EXCEPT !.agenda = a, !.cur = 0, !.path = <<>>])
        ELSE Return(p, a)

NamexReturns(p) ==
    /\ Goto(p, Found(l[p].call, l[p].ip # 0))
    /\ IF l[p].parent THEN Set(p, [l[p] EXCEPT !.dp = l[p].cur, !.cur = 0])
       ELSE Set(p, [l[p] EXCEPT !.ip = l[p].cur, !.cur = 0])

Walk(p) ==
    LET i == l[p].cur
        path == l[p].path
        s == Ilock(fs, i)
        e == Dirlookup(s, i, Head(path))
    IN
    /\ Ready(p, "walk") /\ path # <<>>
    /\ Visit(i)
    /\ \/ s.mem[i].type # "dir" /\ fs' = s /\ NamexFails(p)
       \/ s.mem[i].type = "dir" /\ l[p].parent /\ Len(path) = 1
          /\ fs' = s /\ NamexReturns(p)
       \/ /\ s.mem[i].type = "dir" /\ ~(l[p].parent /\ Len(path) = 1)
          /\ e.ok
          /\ IF e.i = 0 THEN fs' = e.s /\ NamexFails(p)
             ELSE /\ fs' = Iget(e.s, e.i)
                  /\ Set(p, [l[p] EXCEPT !.cur = e.i, !.path = Tail(path),
                                         !.agenda = <<Todo("put", i)>>])
                  /\ UNCHANGED pc
    /\ UNCHANGED <<fileVars, cwd, calls>>

WalkEnd(p) ==
    /\ Ready(p, "walk") /\ l[p].path = <<>>
    /\ IF l[p].parent THEN NamexFails(p) ELSE NamexReturns(p)
    /\ UNCHANGED <<fs, lk, fileVars, cwd, calls>>

-----------------------------------------------------------------------------
(* open, mkdir, mknod.                                                     *)

(* create(): the parent is locked; the name is there, or an inode is made. *)
CreateLookup(p) ==
    LET d == l[p].dp
        n == Head(l[p].path)
        s == Ilock(fs, d)
        e == Dirlookup(s, d, n)
    IN
    /\ Ready(p, "create") /\ e.ok
    /\ \/ /\ e.i # 0 /\ Visit(d)
          /\ fs' = Iget(e.s, e.i)
          /\ Set(p, [l[p] EXCEPT !.ip = e.i, !.dp = 0, !.agenda = <<Todo("put", d)>>])
          /\ Goto(p, "exists")
       \/ /\ e.i = 0 /\ FreeInums(e.s) = {} /\ Visit(d)
          /\ fs' = e.s /\ Return(p, <<Todo("put", d)>>)
       \/ /\ e.i = 0 /\ FreeInums(e.s) # {} /\ Lock(p, d)
          /\ fs' = Ialloc(e.s, Min(FreeInums(e.s)), l[p].call.type)
          /\ Set(p, [l[p] EXCEPT !.ip = Min(FreeInums(e.s))])
          /\ Goto(p, "new")
    /\ UNCHANGED <<fileVars, cwd, calls>>

(* An existing name: only open() takes it, and no directory.               *)
CreateExists(p) ==
    LET i == l[p].ip
        s == Ilock(fs, i)
    IN
    /\ Ready(p, "exists")
    /\ fs' = s
    /\ IF l[p].call.op = "open" /\ s.mem[i].type \in {"file", "device", "badDevice"}
       THEN Lock(p, i) /\ Goto(p, "made") /\ UNCHANGED l
       ELSE Visit(i) /\ Return(p, <<Todo("put", i)>>)
    /\ UNCHANGED <<fileVars, cwd, calls>>

(* create() with both locked: nlink, "." and "..", the entry, and nlink of *)
(* the parent.  On failure nlink goes back to 0 and both are put, the      *)
(* parent last.                                                            *)
CreateNew(p) ==
    LET d == l[p].dp
        i == l[p].ip
        isDir == l[p].call.type = "dir"
        s1 == SetNlink(Ilock(fs, i), i, 1)
        w == IF isDir THEN MakeDots(s1, i, d) ELSE [ok |-> TRUE, s |-> s1]
        e == IF w.ok THEN Dirlink(w.s, d, Head(l[p].path), i) ELSE w
    IN
    /\ Ready(p, "new") /\ lk[i] = Nobody
    /\ IF e.ok
       THEN /\ fs' = IF isDir THEN MoreLinks(e.s, d) ELSE e.s
            /\ lk' = [lk EXCEPT ![i] = p, ![d] = Nobody]
            /\ Set(p, [l[p] EXCEPT !.dp = 0, !.agenda = <<Todo("put", d)>>])
            /\ Goto(p, "made")
       ELSE /\ fs' = SetNlink(e.s, i, 0)
            /\ UNCHANGED lk
            /\ Return(p, <<Todo("put", i), Todo("unlock", d), Todo("put", d)>>)
    /\ UNCHANGED <<fileVars, cwd, calls>>

(* open() without O_CREATE: a directory is only read.                      *)
OpenExisting(p) ==
    LET i == l[p].ip
        s == Ilock(fs, i)
    IN
    /\ Ready(p, "open")
    /\ fs' = s
    /\ IF s.mem[i].type = "dir" /\ l[p].call.omode # "r"
       THEN Visit(i) /\ Return(p, <<Todo("put", i)>>)
       ELSE Lock(p, i) /\ Goto(p, "made") /\ UNCHANGED l
    /\ UNCHANGED <<fileVars, cwd, calls>>

FreeFiles == {f \in FileIds : ft[f].ref = 0}
FreeFds(p) == {d \in Fds : ofile[p][d] = 0}

(* The rest of open(), with the inode locked: a file and a descriptor, and *)
(* O_TRUNC.  The inode's reference becomes the file's.                     *)
OpenFile(p) ==
    LET i == l[p].ip
        c == l[p].call
        t == fs.mem[i].type
        f == Min(FreeFiles)
        d == Min(FreeFds(p))
    IN
    /\ Ready(p, "made") /\ c.op = "open"
    /\ Unlock(i)
    /\ IF t = "badDevice" \/ FreeFiles = {} \/ FreeFds(p) = {}
       THEN Return(p, <<Todo("put", i)>>) /\ UNCHANGED <<fs, fileVars>>
       ELSE /\ ft' = [ft EXCEPT ![f] = [ref |-> 1, ip |-> i, off |-> 0,
                          type |-> IF t = "device" THEN "device" ELSE "inode",
                          writable |-> c.omode \in {"w", "trunc"}]]
            /\ ofile' = [ofile EXCEPT ![p][d] = f]
            /\ fs' = IF c.omode = "trunc" /\ t = "file" THEN Itrunc(fs, i) ELSE fs
            /\ Return(p, <<>>)
    /\ UNCHANGED <<cwd, calls>>

(* mkdir() and mknod() let go of what create() returns.                    *)
MakeDone(p) ==
    /\ Ready(p, "made") /\ l[p].call.op \in {"mkdir", "mknod"}
    /\ Unlock(l[p].ip) /\ Return(p, <<Todo("put", l[p].ip)>>)
    /\ UNCHANGED <<fs, fileVars, cwd, calls>>

-----------------------------------------------------------------------------
(* unlink, link.                                                           *)

(* Mutant: any name may be unlinked.                                       *)
AnyName(n) == TRUE

Removable(n) == n \notin {".", ".."}

(* The parent locked: "." and ".." are refused, the name is looked up.     *)
UnlinkLookup(p) ==
    LET d == l[p].dp
        n == Head(l[p].path)
        s == Ilock(fs, d)
        e == Dirlookup(s, d, n)
    IN
    /\ Ready(p, "unlink")
    /\ \/ /\ ~Removable(n) /\ Visit(d)
          /\ fs' = s /\ Return(p, <<Todo("put", d)>>)
       \/ /\ Removable(n) /\ e.ok /\ e.i = 0 /\ Visit(d)
          /\ fs' = e.s /\ Return(p, <<Todo("put", d)>>)
       \/ /\ Removable(n) /\ e.ok /\ e.i # 0 /\ Lock(p, d)
          /\ fs' = Iget(e.s, e.i)
          /\ Set(p, [l[p] EXCEPT !.ip = e.i])
          /\ Goto(p, "unlinkChild")
    /\ UNCHANGED <<fileVars, cwd, calls>>

(* isdirempty(): only of a directory that is it reads all entries; not ok  *)
(* is the panic "isdirempty: readi".                                       *)
IsDirEmpty(s, i) == IF Entries(s, i) # {} THEN [empty |-> FALSE, ok |-> TRUE, s |-> s]
                    ELSE LET r == ReadAll(s, i)
                         IN  [empty |-> TRUE, ok |-> r.ok, s |-> r.s]

(* Both locked: a directory must be empty; the entry goes, and with a      *)
(* directory its ".."; then the parent is put, the child still locked.     *)
UnlinkChild(p) ==
    LET d == l[p].dp
        i == l[p].ip
        s == Ilock(fs, i)
        isDir == s.mem[i].type = "dir"
        e == IF isDir THEN IsDirEmpty(s, i) ELSE [empty |-> TRUE, ok |-> TRUE, s |-> s]
        s1 == Iupdate([e.s EXCEPT !.dir[d].ents[Head(l[p].path)] = 0], d)
    IN
    /\ Ready(p, "unlinkChild") /\ lk[i] = Nobody
    /\ e.ok
    /\ IF ~e.empty
       THEN /\ fs' = s /\ UNCHANGED lk
            /\ Return(p, <<Todo("put", i), Todo("unlock", d), Todo("put", d)>>)
       ELSE /\ fs' = IF isDir THEN FewerLinks(s1, d) ELSE s1
            /\ lk' = [lk EXCEPT ![i] = p, ![d] = Nobody]
            /\ Set(p, [l[p] EXCEPT !.dp = 0, !.agenda = <<Todo("put", d)>>])
            /\ Goto(p, "unlinkLast")
    /\ UNCHANGED <<fileVars, cwd, calls>>

UnlinkLast(p) == LET i == l[p].ip IN
    /\ Ready(p, "unlinkLast")
    /\ fs' = FewerLinks(fs, i)
    /\ Unlock(i) /\ Return(p, <<Todo("put", i)>>)
    /\ UNCHANGED <<fileVars, cwd, calls>>

(* link(): nlink goes up before there is an entry; then the new path.      *)
LinkOld(p) ==
    LET i == l[p].ip
        c == l[p].call
        s == Ilock(fs, i)
        s1 == MoreLinks(s, i)
        start == IF c.new.abs THEN ROOTINO ELSE cwd[p]
    IN
    /\ Ready(p, "link") /\ Visit(i)
    /\ IF s.mem[i].type = "dir" THEN fs' = s /\ Return(p, <<Todo("put", i)>>)
       ELSE /\ fs' = IF c.new.abs THEN Iget(s1, start) ELSE Idup(s1, start)
            /\ Set(p, [l[p] EXCEPT !.path = c.new.elems, !.parent = TRUE, !.cur = start])
            /\ Goto(p, "walk")
    /\ UNCHANGED <<fileVars, cwd, calls>>

LinkEntry(p) ==
    LET d == l[p].dp
        i == l[p].ip
        e == Dirlink(Ilock(fs, d), d, Head(l[p].path), i)
    IN
    /\ Ready(p, "linkEntry") /\ Visit(d)
    /\ fs' = e.s
    /\ IF e.ok THEN Return(p, <<Todo("put", d), Todo("put", i)>>)
       ELSE /\ Set(p, [l[p] EXCEPT !.dp = 0, !.agenda = <<Todo("put", d)>>])
            /\ Goto(p, "linkBad")
    /\ UNCHANGED <<fileVars, cwd, calls>>

LinkBad(p) == LET i == l[p].ip IN
    /\ Ready(p, "linkBad") /\ Visit(i)
    /\ fs' = FewerLinks(Ilock(fs, i), i)
    /\ Return(p, <<Todo("put", i)>>)
    /\ UNCHANGED <<fileVars, cwd, calls>>

-----------------------------------------------------------------------------
(* chdir, exec.                                                            *)

Chdir(p) ==
    LET i == l[p].ip
        s == Ilock(fs, i)
    IN
    /\ Ready(p, "chdir") /\ Visit(i)
    /\ fs' = s
    /\ IF s.mem[i].type # "dir" THEN Return(p, <<Todo("put", i)>>)
       ELSE /\ Set(p, [l[p] EXCEPT !.agenda = <<Todo("put", cwd[p])>>])
            /\ Goto(p, "chdirDone")
    /\ UNCHANGED <<fileVars, cwd, calls>>

(* p->cwd is assigned after the old one is put and the operation ended.    *)
ChdirDone(p) ==
    /\ Ready(p, "chdirDone")
    /\ cwd' = [cwd EXCEPT ![p] = l[p].ip]
    /\ Return(p, <<>>)
    /\ UNCHANGED <<fs, lk, fileVars, calls>>

(* exec() reads the file under its lock and puts it; a directory is none   *)
(* by its first unit.                                                      *)
Exec(p) == LET i == l[p].ip IN
    /\ Ready(p, "exec") /\ Visit(i)
    /\ fs' = Readi(Ilock(fs, i), i, 0).s
    /\ Return(p, <<Todo("put", i)>>)
    /\ UNCHANGED <<fileVars, cwd, calls>>

-----------------------------------------------------------------------------
(* Calls on descriptors.                                                   *)

FdCall(p, op, d) == op \in FdCalls /\ Start(p) /\ ofile[p][d] # 0

(* One descriptor less.                                                    *)
Closed(file) == IF file.ref > 1 THEN [file EXCEPT !.ref = @ - 1] ELSE FreeFile

(* Mutant: every close puts the inode, not only the last.                  *)
FileCloseAll(p, d) ==
    LET f == ofile[p][d] IN
    /\ ft' = [ft EXCEPT ![f] = Closed(@)]
    /\ ofile' = [ofile EXCEPT ![p][d] = 0]
    /\ Set(p, Owe(IF ft[f].type \in {"inode", "device"}
                  THEN <<Todo("put", ft[f].ip)>> ELSE <<>>))

(* fileclose() of the file behind d: the last reference puts the inode.    *)
FileClose(p, d) ==
    LET f == ofile[p][d] IN
    /\ ft' = [ft EXCEPT ![f] = Closed(@)]
    /\ ofile' = [ofile EXCEPT ![p][d] = 0]
    /\ Set(p, Owe(IF ft[f].ref = 1 /\ ft[f].type \in {"inode", "device"}
                  THEN <<Todo("put", ft[f].ip)>> ELSE <<>>))

Close(p) == \E d \in Fds :
    /\ FdCall(p, "close", d)
    /\ FileClose(p, d)
    /\ UNCHANGED <<fs, lk, cwd, pc>>

Dup(p) == \E d \in Fds :
    /\ FdCall(p, "dup", d) /\ FreeFds(p) # {}
    /\ ofile' = [ofile EXCEPT ![p][Min(FreeFds(p))] = ofile[p][d]]
    /\ ft' = [ft EXCEPT ![ofile[p][d]].ref = @ + 1]
    /\ UNCHANGED <<fs, lk, cwd, pc, l>>

(* read() and fstat() of an inode: the offset moves on if something was    *)
(* read.                                                                   *)
Read(p) == \E d \in Fds, stat \in BOOLEAN :
    LET f == ofile[p][d]
        i == ft[f].ip
        s == Ilock(fs, i)
        r == IF stat THEN [ok |-> FALSE, s |-> s] ELSE Readi(s, i, ft[f].off)
    IN
    /\ FdCall(p, "read", d) /\ ft[f].type = "inode" /\ Visit(i)
    /\ fs' = r.s
    /\ ft' = IF r.ok THEN [ft EXCEPT ![f].off = @ + 1] ELSE ft
    /\ UNCHANGED <<lk, ofile, cwd, pc, l>>

Write(p) == \E d \in Fds, n \in 1..2 : LET f == ofile[p][d] IN
    /\ FdCall(p, "write", d) /\ ft[f].type = "inode" /\ ft[f].writable
    /\ Set(p, [Local0 EXCEPT !.f = f, !.n = n]) /\ Goto(p, "write")
    /\ UNCHANGED <<fs, lk, fileVars, cwd>>

(* One turn of the loop of filewrite(), an operation of its own: a unit at *)
(* f->off, the offset moves on if it was written.                          *)
WriteChunk(p) ==
    LET f == l[p].f
        i == ft[f].ip
        w == Writei(Ilock(fs, i), i, ft[f].off)
    IN
    /\ Ready(p, "write") /\ Visit(i)
    /\ fs' = w.s
    /\ ft' = IF w.ok THEN [ft EXCEPT ![f].off = @ + 1] ELSE ft
    /\ IF w.ok /\ l[p].n > 1
       THEN Set(p, [l[p] EXCEPT !.n = @ - 1]) /\ UNCHANGED pc
       ELSE Return(p, <<>>)
    /\ UNCHANGED <<ofile, cwd, calls>>

(* pipe(): two files and two descriptors or nothing; the copyout of the    *)
(* descriptors may fail.                                                   *)
PipeCall(p) ==
    LET f == Min(FreeFiles)
        g == Min(FreeFiles \ {f})
        d == Min(FreeFds(p))
        e == Min(FreeFds(p) \ {d})
        end(w) == [FreeFile EXCEPT !.ref = 1, !.type = "pipe", !.writable = w]
    IN
    /\ "pipe" \in FdCalls /\ Start(p)
    /\ \/ UNCHANGED fileVars
       \/ /\ Cardinality(FreeFiles) > 1 /\ Cardinality(FreeFds(p)) > 1
          /\ ft' = [ft EXCEPT ![f] = end(FALSE), ![g] = end(TRUE)]
          /\ ofile' = [ofile EXCEPT ![p] = [@ EXCEPT ![d] = f, ![e] = g]]
    /\ UNCHANGED <<fs, lk, cwd, pc, l>>

-----------------------------------------------------------------------------
(* fork and exit.                                                          *)

(* fork(): the child shares the files and the directory of its parent.     *)
Fork(p) == \E q \in Procs :
    /\ "fork" \in FdCalls /\ Start(p) /\ Ready(q, "dead")
    /\ ofile' = [ofile EXCEPT ![q] = ofile[p]]
    /\ ft' = [f \in FileIds |->
                [ft[f] EXCEPT !.ref = @ + Cardinality({d \in Fds : ofile[p][d] = f})]]
    /\ cwd' = [cwd EXCEPT ![q] = cwd[p]]
    /\ fs' = Idup(fs, cwd[p])
    /\ Goto(q, "idle")
    /\ UNCHANGED <<lk, l>>

ExitCall(p) ==
    /\ "exit" \in FdCalls /\ Start(p)
    /\ Goto(p, "exit")
    /\ UNCHANGED <<fs, lk, fileVars, cwd, l>>

(* exit() closes one descriptor after the other, then puts cwd.            *)
ExitClose(p) == \E d \in Fds :
    /\ Ready(p, "exit") /\ ofile[p][d] # 0
    /\ \A e \in Fds : e < d => ofile[p][e] = 0
    /\ FileClose(p, d)
    /\ UNCHANGED <<fs, lk, cwd, pc, calls>>

ExitCwd(p) ==
    /\ Ready(p, "exit") /\ \A d \in Fds : ofile[p][d] = 0
    /\ Set(p, Owe(<<Todo("put", cwd[p])>>))
    /\ cwd' = [cwd EXCEPT ![p] = 0]
    /\ Goto(p, "dead")
    /\ UNCHANGED <<fs, lk, fileVars, calls>>

-----------------------------------------------------------------------------
ProcNext(p) ==
    \/ PathCall(p) \/ Walk(p) \/ WalkEnd(p)
    \/ Unlocking(p) \/ PutFree(p) \/ PutTrunc(p) \/ PutDrop(p)
    \/ CreateLookup(p) \/ CreateExists(p) \/ CreateNew(p)
    \/ OpenExisting(p) \/ OpenFile(p) \/ MakeDone(p)
    \/ UnlinkLookup(p) \/ UnlinkChild(p) \/ UnlinkLast(p)
    \/ LinkOld(p) \/ LinkEntry(p) \/ LinkBad(p)
    \/ Chdir(p) \/ ChdirDone(p) \/ Exec(p)
    \/ Close(p) \/ Dup(p) \/ Read(p) \/ Write(p) \/ WriteChunk(p)
    \/ PipeCall(p) \/ Fork(p) \/ ExitCall(p) \/ ExitClose(p) \/ ExitCwd(p)

(* The calls that the bound allows are over.                               *)
Finished ==
    /\ calls = MaxCalls /\ \A p \in Procs : ~InKernel(p)
    /\ UNCHANGED vars

Next == (\E p \in Procs : ProcNext(p)) \/ Crash \/ Finished

Spec == Init /\ [][Next]_vars
-----------------------------------------------------------------------------
(* Properties.                                                             *)

TypeOK ==
    /\ fs.disk \in [Inums -> Dinode] /\ fs.mem \in [Inums -> Dinode]
    /\ fs.valid \in [Inums -> BOOLEAN] /\ fs.ref \in [Inums -> Nat]
    /\ fs.used \subseteq Blocks /\ fs.dir \in [Inums -> Directory]
    /\ lk \in [Inums -> Procs \cup {Nobody}]
    /\ ft \in [FileIds -> [ref : Nat, type : {"none", "inode", "device", "pipe"},
                           ip : 0..NInodes, off : Nat, writable : BOOLEAN]]
    /\ ofile \in [Procs -> [Fds -> 0..NFile]] /\ cwd \in [Procs -> 0..NInodes]
    /\ pc \in [Procs -> PCs]

OpenFiles(i) == {f \in FileIds : ft[f].type \in {"inode", "device"} /\ ft[f].ip = i}
Residents(i) == {p \in Procs : cwd[p] = i /\ pc[p] # "chdirDone"}
Owed(i) == UNION {{p} \X {k \in DOMAIN l[p].agenda :
                             l[p].agenda[k].op # "unlock" /\ l[p].agenda[k].i = i} : p \in Procs}
Held(i) == {x \in Procs \X {"cur", "ip", "dp"} : l[x[1]][x[2]] = i}
Descriptors(f) == {x \in Procs \X Fds : ofile[x[1]][x[2]] = f}

(* A reference count is the number of pointers that it stands for: files,  *)
(* current directories and calls for an inode, descriptors for a file.     *)
RefsAgree ==
    /\ \A i \in Inums : fs.ref[i] = Cardinality(OpenFiles(i)) + Cardinality(Residents(i))
                                     + Cardinality(Owed(i)) + Cardinality(Held(i))
    /\ \A f \in FileIds : ft[f].ref = Cardinality(Descriptors(f))

Naming(i) == NamingIn(fs.dir, i)
Children(i) == ChildrenIn(fs.dir, i)

(* No entry of a directory outlives what it names, at any moment at which  *)
(* a crash may leave the disk: nlink covers the entries that name an inode *)
(* and the ".." of the directories in it.                                  *)
LinksCover == \A i \in Inums :
    fs.disk[i].nlink >= Cardinality(Naming(i)) + Cardinality(Children(i))

(* Blocks belong to one inode each: bfree() never panics with "freeing     *)
(* free block".                                                            *)
BlocksOwned == BlocksOK(fs)

(* A copy in the inode table that counts as valid is what the disk says:   *)
(* no call forgets iupdate(), and none finds the copy of a former inode.   *)
CacheAgrees == \A i \in Inums : fs.valid[i] => fs.mem[i] = fs.disk[i]

(* What a crash may leave on disk at any moment, and what the kernel       *)
(* remembers of it, are consistent.                                        *)
DiskConsistent == TypeOK /\ LinksCover /\ BlocksOwned /\ CacheAgrees

(* The panics "ilock: no type", "unlink: nlink < 1", "dirlookup not DIR",  *)
(* and "dirlookup read", "dirlink read" and "isdirempty: readi", for which *)
(* a directory can always be read to its end.                              *)
NoPanic ==
    /\ \A i \in Inums : fs.valid[i] => fs.mem[i].type # "none"
    /\ \A i \in Inums : fs.disk[i].type = "dir" => ReadAll(Ilock(fs, i), i).ok
    /\ \A p \in Procs :
         /\ Ready(p, "unlinkChild") => Ilock(fs, l[p].ip).mem[l[p].ip].nlink >= 1
         /\ pc[p] \in {"create", "unlink", "linkEntry"} =>
               fs.disk[l[p].dp].type = "dir"

(* The comment in iput(): with the last reference, the sleep lock that it  *)
(* takes inside a spinlock is free.                                        *)
PutWontBlock == \A p \in Procs :
    l[p].agenda # <<>> /\ Head(l[p].agenda).op = "put" /\ LastUse(Head(l[p].agenda).i)
        => lk[Head(l[p].agenda).i] = Nobody

(* The inode whose lock a process goes for next, or 0.                     *)
WaitsFor(p) ==
    IF l[p].agenda # <<>>
    THEN IF Head(l[p].agenda).op = "put" /\ LastUse(Head(l[p].agenda).i)
         THEN Head(l[p].agenda).i ELSE 0
    ELSE CASE pc[p] = "walk" -> IF l[p].path = <<>> THEN 0 ELSE l[p].cur
           [] pc[p] \in {"create", "unlink", "linkEntry"} -> l[p].dp
           [] pc[p] \in {"open", "exists", "new", "unlinkChild", "link", "linkBad",
                         "chdir", "exec"} -> l[p].ip
           [] pc[p] = "write" -> ft[l[p].f].ip
           [] OTHER -> 0

(* No processes hold inode locks in a ring, each waiting for the next.     *)
NoCircularWait == \A S \in SUBSET Procs : S # {} =>
    \E p \in S : WaitsFor(p) = 0 \/ lk[WaitsFor(p)] \notin S

(* No call waits for ever for an inode's lock that another one holds.      *)
LocksSafe == NoCircularWait /\ PutWontBlock

(* An inode is freed only when no entry, file or current directory refers  *)
(* to it, and it is truncated by the call that had the last reference.     *)
UnusedFreed == \A i \in Inums :
    fs.disk[i].type # "none" /\ fs'.disk[i].type = "none" =>
        Naming(i) = {} /\ OpenFiles(i) = {} /\ Residents(i) = {} /\ fs.ref[i] = 1
FreedUnused == [][UnusedFreed]_vars

(* What dirlookup() finds as ".." still has a link, or is open or the      *)
(* current directory of somebody: not so in a directory that was removed,  *)
(* where ".." says the number of an inode that may be free by now.         *)
Known(i) == fs.disk[i].nlink > 0 \/ OpenFiles(i) # {} \/ Residents(i) # {}
UpIsKnown == \A p \in Procs :
    LET d == IF pc[p] = "walk" THEN l[p].cur ELSE l[p].dp
        up == fs.dir[d].dotdot
    IN  /\ l[p].agenda = <<>> /\ pc[p] \in {"walk", "create"} /\ l[p].path # <<>>
        /\ pc[p] = "walk" => ~(l[p].parent /\ Len(l[p].path) = 1)
        /\ Head(l[p].path) = ".." /\ fs.disk[d].type = "dir" /\ up # 0
        => Known(up)

=============================================================================
