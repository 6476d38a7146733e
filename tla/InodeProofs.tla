----------------------------- MODULE InodeProofs -----------------------------
(* What the operations of Inode do, for any numbers of inodes and blocks:  *)
(* which references they count, which entries and blocks they change, and  *)
(* that each leaves a disk in order behind, whose entries are a tree that  *)
(* nlink covers.                                                           *)
EXTENDS Inode, FiniteSetTheorems, SequenceTheorems, TLAPS

-----------------------------------------------------------------------------
(* Counting                                                                *)

B(x) == IF x THEN 1 ELSE 0
Is(v, i) == IF v = i THEN 1 ELSE 0

LEMMA LeastOf ==
  ASSUME NEW T, T \subseteq Nat, T # {}
  PROVE  Min(T) \in T /\ \A y \in T : Min(T) <= y
<1> DEFINE R == OpToRel(<, Nat)
<1>1. IsWellFoundedOn(R, Nat)
  BY NatLessThanWellFounded
<1>2. R = {x \in Nat \X Nat : x[1] < x[2]}
  BY DEF OpToRel
<1> HIDE DEF R
<1>3. \A x, y \in Nat : y < x => <<y, x>> \in R
  BY <1>2
<1>4. PICK x \in T : \A y \in T : ~(<<y, x>> \in R)
  BY <1>1, WFMin
<1>5. ASSUME NEW y \in T PROVE x <= y
  <2>1. x \in Nat /\ y \in Nat
    OBVIOUS
  <2>2. ~(y < x)
    BY <1>3, <1>4, <2>1, Zenon
  <2> QED
    BY <2>1, <2>2
<1> QED
  BY <1>5 DEF Min

(* Two sets that differ in x at most.                                      *)
LEMMA OneChange ==
  ASSUME NEW S, NEW T, IsFiniteSet(S), NEW x, S \ {x} = T \ {x}
  PROVE  /\ IsFiniteSet(T) /\ Cardinality(S) \in Nat /\ Cardinality(T) \in Nat
         /\ Cardinality(T) + B(x \in S) = Cardinality(S) + B(x \in T)
<1> DEFINE R == S \ {x}
<1>1. IsFiniteSet(R) /\ Cardinality(R) \in Nat
  BY FS_RemoveElement, FS_CardinalityType
<1>2. x \notin R
  OBVIOUS
<1>3. IsFiniteSet(R \cup {x}) /\ Cardinality(R \cup {x}) = Cardinality(R) + 1
  BY <1>1, <1>2, FS_AddElement
<1>4. S = (IF x \in S THEN R \cup {x} ELSE R) /\ T = (IF x \in T THEN R \cup {x} ELSE R)
  OBVIOUS
<1> HIDE DEF R
<1>5. /\ IsFiniteSet(T)
      /\ Cardinality(S) = Cardinality(R) + B(x \in S)
      /\ Cardinality(T) = Cardinality(R) + B(x \in T)
  <2>1. Cardinality(S) = Cardinality(R) + B(x \in S)
    <3>1. CASE x \in S
      BY <1>3, <1>4, <3>1 DEF B
    <3>2. CASE x \notin S
      BY <1>1, <1>4, <3>2 DEF B
    <3> QED
      BY <3>1, <3>2
  <2>2. IsFiniteSet(T) /\ Cardinality(T) = Cardinality(R) + B(x \in T)
    <3>1. CASE x \in T
      BY <1>3, <1>4, <3>1 DEF B
    <3>2. CASE x \notin T
      BY <1>1, <1>4, <3>2 DEF B
    <3> QED
      BY <3>1, <3>2
  <2> QED
    BY <2>1, <2>2
<1>6. B(x \in S) \in Nat /\ B(x \in T) \in Nat
  BY DEF B
<1> HIDE <1>4
<1> QED
  BY <1>1, <1>5, <1>6

-----------------------------------------------------------------------------
(* What the operations of Inode do to counts and entries                   *)

Fields == {"disk", "used", "dir", "mem", "valid", "ref"}
Shape(s) == /\ DOMAIN s = Fields /\ s.ref \in [Inums -> Nat]
            /\ s.dir \in [Inums -> Directory]

LEMMA IlockKeeps ==
  ASSUME NEW s, Shape(s), NEW i
  PROVE  Shape(Ilock(s, i)) /\ Ilock(s, i).ref = s.ref /\ Ilock(s, i).dir = s.dir
BY DEF Ilock, Shape, Fields

LEMMA SetNlinkKeeps ==
  ASSUME NEW s, Shape(s), NEW i, NEW n
  PROVE  Shape(SetNlink(s, i, n)) /\ SetNlink(s, i, n).ref = s.ref
         /\ SetNlink(s, i, n).dir = s.dir
<1> DEFINE s1 == [s EXCEPT !.mem[i].nlink = n]
<1>1. DOMAIN s1 = Fields /\ s1.ref = s.ref /\ s1.dir = s.dir
  BY DEF Shape, Fields
<1> HIDE DEF s1
<1>2. DOMAIN [s1 EXCEPT !.disk[i] = s1.mem[i]] = Fields
      /\ [s1 EXCEPT !.disk[i] = s1.mem[i]].ref = s1.ref
      /\ [s1 EXCEPT !.disk[i] = s1.mem[i]].dir = s1.dir
  BY <1>1 DEF Fields
<1>3. SetNlink(s, i, n) = [s1 EXCEPT !.disk[i] = s1.mem[i]]
  BY DEF SetNlink, Iupdate, s1
<1> QED
  BY <1>1, <1>2, <1>3 DEF Shape

LEMMA LinksKeep ==
  ASSUME NEW s, Shape(s), NEW i
  PROVE  /\ Shape(MoreLinks(s, i)) /\ MoreLinks(s, i).ref = s.ref
         /\ Shape(FewerLinks(s, i)) /\ FewerLinks(s, i).ref = s.ref
BY SetNlinkKeeps DEF MoreLinks, FewerLinks

LEMMA IupdateKeeps ==
  ASSUME NEW s, Shape(s), NEW i
  PROVE  Shape(Iupdate(s, i)) /\ Iupdate(s, i).ref = s.ref /\ Iupdate(s, i).dir = s.dir
BY DEF Iupdate, Shape, Fields

LEMMA IgetCounts ==
  ASSUME NEW s, Shape(s), NEW i \in Inums
  PROVE  /\ Shape(Iget(s, i)) /\ Iget(s, i).ref = [s.ref EXCEPT ![i] = @ + 1]
         /\ Shape(Idup(s, i)) /\ Idup(s, i).ref = [s.ref EXCEPT ![i] = @ + 1]
<1>1. s.ref[i] \in Nat /\ [s.ref EXCEPT ![i] = @ + 1] \in [Inums -> Nat]
  BY DEF Shape
<1>2. DOMAIN Idup(s, i) = Fields /\ Idup(s, i).ref = [s.ref EXCEPT ![i] = @ + 1]
      /\ Idup(s, i).dir = s.dir
  BY DEF Idup, Shape, Fields
<1>3. DOMAIN Iget(s, i) = Fields /\ Iget(s, i).dir = s.dir
  BY DEF Iget, Shape, Fields
<1>4. Iget(s, i).ref = [s.ref EXCEPT ![i] = @ + 1]
  <2>1. CASE s.ref[i] > 0
    BY <2>1 DEF Iget, Shape, Fields
  <2>2. CASE ~(s.ref[i] > 0)
    <3>1. s.ref[i] + 1 = 1
      BY <1>1, <2>2
    <3>2. Iget(s, i).ref = [s.ref EXCEPT ![i] = 1]
      BY <2>2 DEF Iget, Shape, Fields
    <3> QED
      BY <3>1, <3>2
  <2> QED
    BY <2>1, <2>2
<1> QED
  BY <1>1, <1>2, <1>3, <1>4 DEF Shape

LEMMA IallocCounts ==
  ASSUME NEW s, Shape(s), NEW i \in Inums, NEW type
  PROVE  Shape(Ialloc(s, i, type)) /\ Ialloc(s, i, type).ref = [s.ref EXCEPT ![i] = @ + 1]
<1> DEFINE s1 == [s EXCEPT !.disk[i] = [FreeInode EXCEPT !.type = type]]
<1>1. Shape(s1) /\ s1.ref = s.ref
  BY DEF Shape, Fields
<1>2. Ialloc(s, i, type) = Iget(s1, i)
  BY DEF Ialloc
<1> HIDE DEF s1
<1>3. Shape(Iget(s1, i)) /\ Iget(s1, i).ref = [s1.ref EXCEPT ![i] = @ + 1]
  BY <1>1, IgetCounts
<1> QED
  BY <1>1, <1>2, <1>3

LEMMA UnrefCounts ==
  ASSUME NEW s, Shape(s), NEW i \in Inums, s.ref[i] > 0
  PROVE  Shape(Unref(s, i)) /\ Unref(s, i).ref = [s.ref EXCEPT ![i] = @ - 1]
<1>1. s.ref[i] \in Nat /\ s.ref[i] - 1 \in Nat /\ [s.ref EXCEPT ![i] = @ - 1] \in [Inums -> Nat]
  BY DEF Shape
<1>2. DOMAIN Unref(s, i) = Fields /\ Unref(s, i).dir = s.dir
  BY DEF Unref, Shape, Fields
<1>3. Unref(s, i).ref = [s.ref EXCEPT ![i] = @ - 1]
  <2>1. CASE s.ref[i] > 1
    BY <2>1 DEF Unref, Shape, Fields
  <2>2. CASE ~(s.ref[i] > 1)
    <3>1. s.ref[i] - 1 = 0
      BY <1>1, <2>2
    <3>2. Unref(s, i).ref = [s.ref EXCEPT ![i] = 0]
      BY <2>2 DEF Unref, Shape, Fields
    <3> QED
      BY <3>1, <3>2
  <2> QED
    BY <2>1, <2>2
<1> QED
  BY <1>1, <1>2, <1>3 DEF Shape

LEMMA ItruncKeeps ==
  ASSUME NEW s, Shape(s), NEW i
  PROVE  Shape(Itrunc(s, i)) /\ Itrunc(s, i).ref = s.ref
<1> DEFINE s1 == [s EXCEPT !.used = @ \ BlocksOf(s.mem[i]), !.dir[i] = NoEntries,
                  !.mem[i] = [@ EXCEPT !.size = 0, !.data = <<>>, !.ind = 0]]
<1>1. NoEntries \in Directory
  BY InodeAssumption DEF NoEntries, Directory, InodeAssumption
<1>2. DOMAIN s1 = Fields /\ s1.ref = s.ref /\ s1.dir = [s.dir EXCEPT ![i] = NoEntries]
  BY DEF Shape, Fields
<1>3. [s.dir EXCEPT ![i] = NoEntries] \in [Inums -> Directory]
  BY <1>1 DEF Shape
<1> HIDE DEF s1
<1>4. Shape(s1)
  BY <1>2, <1>3 DEF Shape
<1> QED
  BY <1>2, <1>4, IupdateKeeps DEF Itrunc, s1

LEMMA BmapKeeps ==
  ASSUME NEW s, Shape(s), NEW i
  PROVE  /\ Shape(Bmap(s, i).s) /\ Bmap(s, i).s.ref = s.ref /\ Bmap(s, i).s.dir = s.dir
         /\ Bmap(s, i).ok \in BOOLEAN
<1> DEFINE needInd == Len(s.mem[i].data) >= NDirect /\ s.mem[i].ind = 0
           b == Min(FreeBlocks(s))
           s1 == IF needInd THEN [Balloc(s, b) EXCEPT !.mem[i].ind = b] ELSE s
           c == Min(FreeBlocks(s1))
           s2 == [Balloc(s1, c) EXCEPT !.mem[i].data = Append(@, c)]
<1>1. \A z : DOMAIN Balloc(s, z) = Fields /\ Balloc(s, z).ref = s.ref
             /\ Balloc(s, z).dir = s.dir
  BY DEF Balloc, Shape, Fields
<1> HIDE DEF needInd, b
<1>2. DOMAIN s1 = Fields /\ s1.ref = s.ref /\ s1.dir = s.dir
  BY <1>1 DEF Shape, Fields
<1> HIDE DEF s1, c
<1>3. \A z : DOMAIN Balloc(s1, z) = Fields /\ Balloc(s1, z).ref = s1.ref
             /\ Balloc(s1, z).dir = s1.dir
  BY <1>2 DEF Balloc, Fields
<1>4. DOMAIN s2 = Fields /\ s2.ref = s1.ref /\ s2.dir = s1.dir
  BY <1>3 DEF Fields
<1> HIDE DEF s2
<1>5. Bmap(s, i) = IF FreeBlocks(s) = {} THEN [ok |-> FALSE, s |-> s]
                   ELSE IF FreeBlocks(s1) = {} THEN [ok |-> FALSE, s |-> s1]
                   ELSE [ok |-> TRUE, s |-> s2]
  BY DEF Bmap, needInd, b, s1, c, s2
<1> QED
  BY <1>2, <1>4, <1>5 DEF Shape

LEMMA ReadiKeeps ==
  ASSUME NEW s, Shape(s), NEW i, NEW off
  PROVE  /\ Shape(Readi(s, i, off).s) /\ Readi(s, i, off).s.ref = s.ref
         /\ Readi(s, i, off).s.dir = s.dir
         /\ Shape(ReadAll(s, i).s) /\ ReadAll(s, i).s.ref = s.ref
         /\ ReadAll(s, i).s.dir = s.dir
<1>1. \A x : /\ Shape(Readi(s, i, x).s) /\ Readi(s, i, x).s.ref = s.ref
             /\ Readi(s, i, x).s.dir = s.dir
  <2> SUFFICES ASSUME NEW x
               PROVE  /\ Shape(Readi(s, i, x).s) /\ Readi(s, i, x).s.ref = s.ref
                      /\ Readi(s, i, x).s.dir = s.dir
    OBVIOUS
  <2>1. Readi(s, i, x).s \in {s, Bmap(s, i).s}
    BY DEF Readi
  <2> QED
    BY <2>1, BmapKeeps
<1>2. ReadAll(s, i).s = s \/ ReadAll(s, i).s = Readi(s, i, s.mem[i].size - 1).s
  BY DEF ReadAll
<1> QED
  BY <1>1, <1>2

(* A lookup may allocate, but does not touch entries or references.        *)
LEMMA DirlookupKeeps ==
  ASSUME NEW s, Shape(s), NEW d, NEW n
  PROVE  LET e == Dirlookup(s, d, n)
         IN  /\ Shape(e.s) /\ e.s.ref = s.ref /\ e.s.dir = s.dir
             /\ e.i = EntryAt(s, d, n) /\ (e.i # 0 => e.s = s /\ e.ok)
<1> DEFINE e == Dirlookup(s, d, n)
<1>1. e.i = EntryAt(s, d, n) /\ (e.i # 0 => e.s = s /\ e.ok) /\ e.s \in {s, ReadAll(s, d).s}
  BY DEF Dirlookup
<1> QED
  BY <1>1, ReadiKeeps

LEMMA WriteiKeeps ==
  ASSUME NEW s, Shape(s), NEW i, NEW off
  PROVE  /\ Shape(Writei(s, i, off).s) /\ Writei(s, i, off).s.ref = s.ref
         /\ Writei(s, i, off).s.dir = s.dir /\ Writei(s, i, off).ok \in BOOLEAN
<1> DEFINE d == s.mem[i]
           b == off \div PerBlock(d)
           w == IF b < Len(d.data) THEN [ok |-> TRUE, s |-> s] ELSE Bmap(s, i)
           s1 == IF w.ok THEN [w.s EXCEPT !.mem[i].size = Max({@, off + 1})] ELSE w.s
<1> HIDE DEF d, b
<1>1. Shape(w.s) /\ w.s.ref = s.ref /\ w.s.dir = s.dir /\ w.ok \in BOOLEAN
  BY BmapKeeps
<1> HIDE DEF w
<1>2. DOMAIN s1 = Fields /\ s1.ref = s.ref /\ s1.dir = s.dir
  BY <1>1 DEF Shape, Fields
<1> HIDE DEF s1
<1>3. Shape(s1)
  BY <1>2 DEF Shape
<1>4. Writei(s, i, off) = IF off > d.size \/ b >= MaxFile THEN [ok |-> FALSE, s |-> s]
                          ELSE [ok |-> w.ok, s |-> Iupdate(s1, i)]
  BY DEF Writei, d, b, w, s1
<1>5. Shape(Iupdate(s1, i)) /\ Iupdate(s1, i).ref = s1.ref /\ Iupdate(s1, i).dir = s1.dir
  BY <1>3, IupdateKeeps
<1>6. CASE off > d.size \/ b >= MaxFile
  <2>1. Writei(s, i, off).s = s /\ Writei(s, i, off).ok = FALSE
    BY <1>4, <1>6
  <2> QED
    BY <2>1
<1>7. CASE ~(off > d.size \/ b >= MaxFile)
  BY <1>1, <1>2, <1>4, <1>5, <1>7
<1> QED
  BY <1>6, <1>7

WithEntry(s, d, n, i) == [s EXCEPT !.dir[d].ents[n] = i]
WithDotdot(s, d, i) == [s EXCEPT !.dir[d].dotdot = i]

LEMMA EntrySet ==
  ASSUME NEW s, Shape(s), NEW d, NEW n, NEW i \in 0..NInodes
  PROVE  /\ Shape(WithEntry(s, d, n, i)) /\ WithEntry(s, d, n, i).ref = s.ref
         /\ Shape(WithDotdot(s, d, i)) /\ WithDotdot(s, d, i).ref = s.ref
<1>1. \A e \in Directory : [e EXCEPT !.ents[n] = i] \in Directory
                           /\ [e EXCEPT !.dotdot = i] \in Directory
  BY DEF Directory
<1>2. s.dir \in [Inums -> Directory]
  BY DEF Shape
<1>3. [s.dir EXCEPT ![d] = [@ EXCEPT !.ents[n] = i]] \in [Inums -> Directory]
      /\ [s.dir EXCEPT ![d] = [@ EXCEPT !.dotdot = i]] \in [Inums -> Directory]
  BY <1>1, <1>2
<1>4. /\ DOMAIN [s EXCEPT !.dir[d].ents[n] = i] = Fields
      /\ [s EXCEPT !.dir[d].ents[n] = i].ref = s.ref
      /\ [s EXCEPT !.dir[d].ents[n] = i].dir = [s.dir EXCEPT ![d] = [@ EXCEPT !.ents[n] = i]]
      /\ DOMAIN [s EXCEPT !.dir[d].dotdot = i] = Fields
      /\ [s EXCEPT !.dir[d].dotdot = i].ref = s.ref
      /\ [s EXCEPT !.dir[d].dotdot = i].dir = [s.dir EXCEPT ![d] = [@ EXCEPT !.dotdot = i]]
  BY DEF Shape, Fields
<1> QED
  BY <1>3, <1>4 DEF Shape, WithEntry, WithDotdot

LEMMA DirlinkKeeps ==
  ASSUME NEW s, Shape(s), NEW d, NEW n, NEW i \in Inums
  PROVE  /\ Shape(Dirlink(s, d, n, i).s) /\ Dirlink(s, d, n, i).s.ref = s.ref
         /\ Dirlink(s, d, n, i).ok \in BOOLEAN
<1> DEFINE e == Dirlookup(s, d, n)
           w == Writei(e.s, d, 2 + Cardinality(Entries(s, d)))
<1>0. Shape(e.s) /\ e.s.ref = s.ref
  BY DirlookupKeeps
<1> HIDE DEF e
<1>1. Shape(w.s) /\ w.s.ref = s.ref /\ w.ok \in BOOLEAN
  BY <1>0, WriteiKeeps
<1>2. Dirlink(s, d, n, i) = IF e.i # 0 THEN [ok |-> FALSE, s |-> s]
        ELSE IF ~w.ok THEN w ELSE [ok |-> TRUE, s |-> [w.s EXCEPT !.dir[d].ents[n] = i]]
  BY DEF Dirlink, e
<1> HIDE DEF w
<1>3. i \in 0..NInodes
  BY InodeAssumption DEF InodeAssumption, Inums
<1> DEFINE s2 == WithEntry(w.s, d, n, i)
<1>4. Shape(s2) /\ s2.ref = w.s.ref
  BY <1>1, <1>3, EntrySet
<1> HIDE DEF s2
<1>5. Dirlink(s, d, n, i) = IF e.i # 0 THEN [ok |-> FALSE, s |-> s]
        ELSE IF ~w.ok THEN w ELSE [ok |-> TRUE, s |-> s2]
  BY <1>2 DEF s2, WithEntry
<1>6. Dirlink(s, d, n, i).s \in {s, w.s, s2} /\ Dirlink(s, d, n, i).ok \in BOOLEAN
  <2>1. CASE e.i # 0
    BY <1>5, <2>1
  <2>2. CASE ~(e.i # 0) /\ ~w.ok
    BY <1>1, <1>5, <2>2
  <2>3. CASE ~(e.i # 0) /\ w.ok
    BY <1>5, <2>3
  <2> QED
    BY <2>1, <2>2, <2>3
<1> QED
  BY <1>1, <1>4, <1>6

LEMMA MakeDotsKeeps ==
  ASSUME NEW s, Shape(s), NEW i, NEW parent \in Inums
  PROVE  /\ Shape(MakeDots(s, i, parent).s) /\ MakeDots(s, i, parent).s.ref = s.ref
         /\ MakeDots(s, i, parent).ok \in BOOLEAN
<1> DEFINE w1 == Writei(s, i, 0)
           w2 == Writei(w1.s, i, 1)
<1>1. Shape(w1.s) /\ w1.s.ref = s.ref /\ w1.ok \in BOOLEAN
  BY WriteiKeeps
<1> HIDE DEF w1
<1>2. Shape(w2.s) /\ w2.s.ref = s.ref
  BY <1>1, WriteiKeeps
<1>3. MakeDots(s, i, parent) =
        IF w1.ok THEN [ok |-> TRUE, s |-> [w2.s EXCEPT !.dir[i].dotdot = parent]] ELSE w1
  BY DEF MakeDots, w1
<1> HIDE DEF w2
<1>4. parent \in 0..NInodes
  BY InodeAssumption DEF InodeAssumption, Inums
<1> DEFINE s3 == WithDotdot(w2.s, i, parent)
<1>5. Shape(s3) /\ s3.ref = w2.s.ref
  BY <1>2, <1>4, EntrySet
<1>6. MakeDots(s, i, parent) = IF w1.ok THEN [ok |-> TRUE, s |-> s3] ELSE w1
  BY <1>3 DEF WithDotdot
<1> HIDE DEF s3
<1>7. MakeDots(s, i, parent).s \in {w1.s, s3} /\ MakeDots(s, i, parent).ok \in BOOLEAN
  <2>1. CASE w1.ok
    BY <1>6, <2>1
  <2>2. CASE ~w1.ok
    BY <1>1, <1>6, <2>2
  <2> QED
    BY <2>1, <2>2
<1> QED
  BY <1>1, <1>2, <1>5, <1>7

-----------------------------------------------------------------------------
(* What the disk says                                                      *)

Typed(s) == /\ Shape(s)
            /\ s.disk \in [Inums -> Dinode] /\ s.mem \in [Inums -> Dinode]
            /\ s.valid \in [Inums -> BOOLEAN] /\ s.used \in SUBSET Blocks

(* A copy that counts is that of an inode in use, as the disk has it.      *)
Cached(s) == \A i \in Inums : s.valid[i] => s.mem[i] = s.disk[i] /\ s.disk[i].type # "none"
Sound(s) == Typed(s) /\ Cached(s)

SameDisk(s, t) == t.disk = s.disk /\ t.dir = s.dir /\ t.used = s.used

LEMMA FreeInodeTyped == FreeInode \in Dinode
BY InodeAssumption DEF FreeInode, Dinode, Types, InodeAssumption

LEMMA IgetSound ==
  ASSUME NEW s, Sound(s), NEW i \in Inums
  PROVE  /\ Sound(Iget(s, i)) /\ SameDisk(s, Iget(s, i))
         /\ \A j \in Inums : s.valid[j] /\ s.ref[j] > 0 => Iget(s, i).valid[j]
         /\ Sound(Idup(s, i)) /\ SameDisk(s, Idup(s, i))
         /\ \A j \in Inums : s.valid[j] => Idup(s, i).valid[j]
<1>1. Shape(Iget(s, i)) /\ Shape(Idup(s, i))
  BY IgetCounts DEF Sound, Typed
<1>2. /\ Iget(s, i).disk = s.disk /\ Iget(s, i).mem = s.mem /\ Iget(s, i).used = s.used
      /\ Iget(s, i).dir = s.dir
      /\ Iget(s, i).valid = IF s.ref[i] > 0 THEN s.valid ELSE [s.valid EXCEPT ![i] = FALSE]
  BY DEF Iget, Sound, Typed, Shape, Fields
<1>3. /\ Idup(s, i).disk = s.disk /\ Idup(s, i).mem = s.mem /\ Idup(s, i).used = s.used
      /\ Idup(s, i).dir = s.dir /\ Idup(s, i).valid = s.valid
  BY DEF Idup, Sound, Typed, Shape, Fields
<1>4. s.valid \in [Inums -> BOOLEAN]
  BY DEF Sound, Typed
<1>5. Iget(s, i).valid \in [Inums -> BOOLEAN]
      /\ \A j \in Inums : /\ Iget(s, i).valid[j] => s.valid[j]
                          /\ s.valid[j] /\ s.ref[j] > 0 => Iget(s, i).valid[j]
  <2>1. CASE s.ref[i] > 0
    BY <1>2, <1>4, <2>1
  <2>2. CASE ~(s.ref[i] > 0)
    BY <1>2, <1>4, <2>2
  <2> QED
    BY <2>1, <2>2
<1> QED
  BY <1>1, <1>2, <1>3, <1>5 DEF Sound, Typed, Cached, SameDisk

LEMMA UnrefSound ==
  ASSUME NEW s, Sound(s), NEW i \in Inums, s.ref[i] > 0
  PROVE  /\ Sound(Unref(s, i)) /\ SameDisk(s, Unref(s, i))
         /\ \A j \in Inums : s.valid[j] /\ (j = i => s.ref[j] > 1) => Unref(s, i).valid[j]
<1>1. Shape(Unref(s, i))
  BY UnrefCounts DEF Sound, Typed
<1>2. CASE s.ref[i] > 1
  <2>1. Unref(s, i) = [s EXCEPT !.ref[i] = @ - 1]
    BY <1>2 DEF Unref
  <2>2. /\ Unref(s, i).disk = s.disk /\ Unref(s, i).mem = s.mem /\ Unref(s, i).used = s.used
        /\ Unref(s, i).dir = s.dir /\ Unref(s, i).valid = s.valid
    BY <2>1 DEF Sound, Typed, Shape, Fields
  <2> QED
    BY <1>1, <2>2 DEF Sound, Typed, Cached, SameDisk
<1>3. CASE ~(s.ref[i] > 1)
  <2>1. Unref(s, i) = [s EXCEPT !.ref[i] = 0, !.valid[i] = FALSE, !.mem[i] = FreeInode]
    BY <1>3 DEF Unref
  <2>2. /\ Unref(s, i).disk = s.disk /\ Unref(s, i).mem = [s.mem EXCEPT ![i] = FreeInode]
        /\ Unref(s, i).used = s.used
        /\ Unref(s, i).dir = s.dir /\ Unref(s, i).valid = [s.valid EXCEPT ![i] = FALSE]
    BY <2>1 DEF Sound, Typed, Shape, Fields
  <2>3. Unref(s, i).mem \in [Inums -> Dinode] /\ Unref(s, i).valid \in [Inums -> BOOLEAN]
    BY <2>2, FreeInodeTyped DEF Sound, Typed
  <2>4. \A j \in Inums : /\ j # i => Unref(s, i).mem[j] = s.mem[j] /\ Unref(s, i).valid[j] = s.valid[j]
                         /\ Unref(s, i).valid[i] = FALSE
    BY <2>2 DEF Sound, Typed
  <2> QED
    BY <1>1, <1>3, <2>2, <2>3, <2>4 DEF Sound, Typed, Cached, SameDisk
<1> QED
  BY <1>2, <1>3

LEMMA IlockSound ==
  ASSUME NEW s, Sound(s), NEW i \in Inums, s.disk[i].type # "none"
  PROVE  /\ Sound(Ilock(s, i)) /\ SameDisk(s, Ilock(s, i)) /\ Ilock(s, i).ref = s.ref
         /\ Ilock(s, i).valid[i] /\ Ilock(s, i).mem[i] = s.disk[i]
         /\ \A j \in Inums : s.valid[j] => Ilock(s, i).valid[j]
<1>1. Shape(Ilock(s, i)) /\ Ilock(s, i).ref = s.ref
  BY IlockKeeps DEF Sound, Typed
<1>2. CASE s.valid[i]
  <2>1. Ilock(s, i) = s
    BY <1>2 DEF Ilock
  <2> QED
    BY <1>1, <1>2, <2>1 DEF Sound, Cached, SameDisk
<1>3. CASE ~s.valid[i]
  <2>1. Ilock(s, i) = [s EXCEPT !.valid[i] = TRUE, !.mem[i] = s.disk[i]]
    BY <1>3 DEF Ilock
  <2>2. /\ Ilock(s, i).disk = s.disk /\ Ilock(s, i).mem = [s.mem EXCEPT ![i] = s.disk[i]]
        /\ Ilock(s, i).used = s.used
        /\ Ilock(s, i).dir = s.dir /\ Ilock(s, i).valid = [s.valid EXCEPT ![i] = TRUE]
    BY <2>1 DEF Sound, Typed, Shape, Fields
  <2>3. Ilock(s, i).mem \in [Inums -> Dinode] /\ Ilock(s, i).valid \in [Inums -> BOOLEAN]
    BY <2>2 DEF Sound, Typed
  <2>4. /\ Ilock(s, i).mem[i] = s.disk[i] /\ Ilock(s, i).valid[i] = TRUE
        /\ \A j \in Inums : j # i => Ilock(s, i).mem[j] = s.mem[j] /\ Ilock(s, i).valid[j] = s.valid[j]
    BY <2>2 DEF Sound, Typed
  <2> QED
    BY <1>1, <2>2, <2>3, <2>4 DEF Sound, Typed, Cached, SameDisk
<1> QED
  BY <1>2, <1>3

(* The copy is written back: what there is of an inode on disk after each  *)
(* operation that changes it.                                              *)
Written(s, t, i, d) == /\ t.disk = [s.disk EXCEPT ![i] = d] /\ t.ref = s.ref
                       /\ t.valid = s.valid /\ t.mem = [s.mem EXCEPT ![i] = d]

LEMMA WrittenSound ==
  ASSUME NEW s, Sound(s), NEW i \in Inums, NEW t, Shape(t), NEW d \in Dinode,
         Written(s, t, i, d), d.type # "none", t.used \in SUBSET Blocks
  PROVE  Sound(t)
<1>1. t.disk \in [Inums -> Dinode] /\ t.mem \in [Inums -> Dinode] /\ t.valid = s.valid
  BY DEF Written, Sound, Typed
<1>2. /\ t.disk[i] = d /\ t.mem[i] = d
      /\ \A j \in Inums : j # i => t.disk[j] = s.disk[j] /\ t.mem[j] = s.mem[j]
  BY DEF Written, Sound, Typed
<1> QED
  BY <1>1, <1>2 DEF Sound, Typed, Cached

LEMMA IallocSound ==
  ASSUME NEW s, Sound(s), NEW i \in Inums, s.disk[i].type = "none", NEW type \in Types,
         type # "none"
  PROVE  LET t == Ialloc(s, i, type)
         IN  /\ Sound(t) /\ t.disk = [s.disk EXCEPT ![i] = [FreeInode EXCEPT !.type = type]]
             /\ t.dir = s.dir /\ t.used = s.used
             /\ \A j \in Inums : s.valid[j] /\ s.ref[j] > 0 => t.valid[j]
<1> DEFINE d == [FreeInode EXCEPT !.type = type]
           s1 == [s EXCEPT !.disk[i] = d]
<1>1. d \in Dinode /\ d.type = type
  <2>1. FreeInode \in Dinode
    BY FreeInodeTyped
  <2> HIDE DEF FreeInode
  <2> QED
    BY <2>1 DEF Dinode
<1>2. Ialloc(s, i, type) = Iget(s1, i)
  BY DEF Ialloc
<1> HIDE DEF d
<1>3. /\ s1.disk = [s.disk EXCEPT ![i] = d] /\ s1.mem = s.mem /\ s1.valid = s.valid
      /\ s1.used = s.used /\ s1.dir = s.dir /\ s1.ref = s.ref /\ DOMAIN s1 = Fields
  BY DEF Sound, Typed, Shape, Fields
<1> HIDE DEF s1
<1>4. s.valid[i] = FALSE
  BY DEF Sound, Cached, Typed
<1>5. /\ s1.disk \in [Inums -> Dinode]
      /\ \A j \in Inums : j # i => s1.disk[j] = s.disk[j]
  BY <1>1, <1>3 DEF Sound, Typed
<1>6. Sound(s1)
  BY <1>3, <1>4, <1>5 DEF Sound, Typed, Cached, Shape
<1>7. /\ Sound(Iget(s1, i)) /\ SameDisk(s1, Iget(s1, i))
      /\ \A j \in Inums : s1.valid[j] /\ s1.ref[j] > 0 => Iget(s1, i).valid[j]
  BY <1>6, IgetSound
<1> QED
  BY <1>2, <1>3, <1>7 DEF SameDisk, d

LEMMA NlinkSet ==
  ASSUME NEW s, Sound(s), NEW i \in Inums, s.valid[i], NEW n \in Nat
  PROVE  LET t == SetNlink(s, i, n)
         IN  /\ Sound(t) /\ Written(s, t, i, [s.disk[i] EXCEPT !.nlink = n])
             /\ t.dir = s.dir /\ t.used = s.used
<1> DEFINE d == [s.disk[i] EXCEPT !.nlink = n]
           s1 == [s EXCEPT !.mem[i].nlink = n]
           t == SetNlink(s, i, n)
<1>1. s.mem[i] = s.disk[i] /\ s.disk[i] \in Dinode /\ s.disk[i].type # "none"
  BY DEF Sound, Cached, Typed
<1>2. d \in Dinode /\ d.type = s.disk[i].type
  BY <1>1 DEF Dinode
<1>3. /\ s1.mem = [s.mem EXCEPT ![i] = [@ EXCEPT !.nlink = n]] /\ s1.valid = s.valid
      /\ s1.used = s.used /\ s1.dir = s.dir /\ s1.ref = s.ref /\ DOMAIN s1 = Fields
      /\ s1.disk = s.disk
  BY DEF Sound, Typed, Shape, Fields
<1>4. t = [s1 EXCEPT !.disk[i] = s1.mem[i]]
  BY DEF SetNlink, Iupdate
<1> HIDE DEF s1, t, d
<1>5. s1.mem = [s.mem EXCEPT ![i] = d] /\ s1.mem[i] = d
  BY <1>1, <1>3 DEF d, Sound, Typed
<1>6. /\ t.mem = [s.mem EXCEPT ![i] = d] /\ t.valid = s.valid
      /\ t.used = s.used /\ t.dir = s.dir /\ t.ref = s.ref /\ DOMAIN t = Fields
      /\ t.disk = [s.disk EXCEPT ![i] = d]
  BY <1>3, <1>4, <1>5 DEF Fields
<1>7. Shape(t) /\ Written(s, t, i, d) /\ t.used \in SUBSET Blocks
  BY <1>6 DEF Shape, Sound, Typed, Written
<1>8. Sound(t)
  BY <1>1, <1>2, <1>7, WrittenSound
<1> QED
  BY <1>6, <1>7, <1>8 DEF d, t

-----------------------------------------------------------------------------
(* Blocks                                                                  *)

(* The inode d0 has become d, which has blocks that nobody had.            *)
Grows(s, t, d0, d) ==
    /\ d \in Dinode /\ d.type = d0.type /\ d.nlink = d0.nlink /\ OwnOK(d)
    /\ t.used = s.used \cup BlocksOf(d) /\ BlocksOf(d0) \subseteq BlocksOf(d)
    /\ BlocksOf(d) \cap s.used \subseteq BlocksOf(d0)

Grown(s, t, i, d) ==
    /\ DOMAIN t = Fields /\ t.disk = s.disk /\ t.dir = s.dir /\ t.valid = s.valid
    /\ t.ref = s.ref /\ t.mem = [s.mem EXCEPT ![i] = d] /\ Grows(s, t, s.mem[i], d)

LEMMA DivIs ==
  ASSUME NEW P \in Nat \ {0}, NEW x \in Nat
  PROVE  /\ x \div P \in Nat /\ P * (x \div P) <= x /\ x < P * (x \div P) + P
OBVIOUS

LEMMA DivNext ==
  ASSUME NEW P \in Nat \ {0}, NEW x \in Nat
  PROVE  (x + 1) \div P <= (x \div P) + 1
<1> DEFINE q == x \div P
           r == (x + 1) \div P
<1>1. q \in Nat /\ x < P * q + P
  BY DivIs
<1>2. r \in Nat /\ P * r <= x + 1
  BY DivIs
<1> HIDE DEF q, r
<1>3. ASSUME r >= q + 2 PROVE FALSE
  <2>1. \A m \in Nat : P * (q + 2 + m) = P * q + P + P + P * m
    BY <1>1
  <2>2. r - (q + 2) \in Nat /\ q + 2 + (r - (q + 2)) = r
    BY <1>1, <1>2, <1>3
  <2>3. \A m \in Nat : P * m >= 0
    OBVIOUS
  <2>4. P * r >= P * q + P + P
    BY <1>1, <1>2, <2>1, <2>2, <2>3
  <2> QED
    BY <1>1, <1>2, <2>4
<1>4. r <= q + 1
  BY <1>1, <1>2, <1>3
<1> QED
  BY <1>4 DEF q, r

LEMMA DinodeIs ==
  ASSUME NEW d \in Dinode
  PROVE  PerBlock(d) \in Nat \ {0} /\ d.size \in Nat /\ Len(d.data) \in Nat
<1>1. d.data \in Seq(Blocks) /\ d.size \in Nat
  BY DEF Dinode
<1>2. Len(d.data) \in Nat
  BY <1>1, LenProperties
<1> QED
  BY <1>1, <1>2, InodeAssumption DEF PerBlock, InodeAssumption

(* The unit after the last one is in a block that is there or in the next. *)
LEMMA NextBlock ==
  ASSUME NEW d \in Dinode, Filled(d), NEW off \in Nat, off <= d.size
  PROVE  off \div PerBlock(d) <= Len(d.data)
<1> DEFINE P == PerBlock(d)
           m == Len(d.data)
<1>1. P \in Nat \ {0} /\ d.size \in Nat /\ m \in Nat
  BY DinodeIs
<1>2. \A x \in 0..(d.size - 1) : x \div P < m
  BY DEF Filled
<1> HIDE DEF P, m
<1>3. CASE off = 0
  <2>1. off \div P = 0
    BY <1>1, <1>3
  <2> QED
    BY <1>1, <2>1 DEF P, m
<1>4. CASE off # 0
  <2> DEFINE x == off - 1
  <2>1. x \in Nat /\ x + 1 = off /\ x \in 0..(d.size - 1)
    BY <1>1, <1>4
  <2> HIDE DEF x
  <2>2. (x + 1) \div P <= (x \div P) + 1 /\ x \div P < m /\ x \div P \in Nat
        /\ (x + 1) \div P \in Nat
    BY <1>1, <1>2, <2>1, DivNext, DivIs
  <2>3. (x + 1) \div P <= m
    BY <1>1, <2>2
  <2>4. off \div P <= m
    BY <2>1, <2>3
  <2> QED
    BY <2>4 DEF P, m
<1> QED
  BY <1>3, <1>4

(* More blocks, and no more units than the one that off is in a block.     *)
LEMMA FilledStays ==
  ASSUME NEW d \in Dinode, Filled(d), NEW e \in Dinode, e.type = d.type,
         Len(e.data) >= Len(d.data), NEW off \in Nat,
         e.size <= d.size \/ (off \div PerBlock(d) < Len(e.data) /\ off <= d.size /\ e.size <= off + 1)
  PROVE  Filled(e)
<1>1. /\ PerBlock(d) \in Nat \ {0} /\ PerBlock(e) = PerBlock(d) /\ d.size \in Nat
      /\ e.size \in Nat /\ Len(d.data) \in Nat /\ Len(e.data) \in Nat
  BY DinodeIs DEF PerBlock
<1> SUFFICES ASSUME NEW x \in 0..(e.size - 1) PROVE x \div PerBlock(d) < Len(e.data)
  BY <1>1 DEF Filled
<1>2. x \in Nat /\ x \div PerBlock(d) \in Nat
  BY <1>1, DivIs
<1>3. CASE x < d.size
  <2>1. x \in 0..(d.size - 1)
    BY <1>1, <1>2, <1>3
  <2>2. x \div PerBlock(d) < Len(d.data)
    BY <2>1 DEF Filled
  <2> QED
    BY <1>1, <1>2, <2>2
<1>4. CASE ~(x < d.size)
  <2>1. d.size \in Nat /\ e.size \in Nat /\ x \in Nat /\ x < e.size
    BY <1>1, <1>2
  <2>2. ~(e.size <= d.size)
    BY <1>4, <2>1
  <2>3. off <= d.size /\ e.size <= off + 1 /\ off \div PerBlock(d) < Len(e.data)
    BY <2>2
  <2>4. x = off
    <3>1. off <= d.size /\ e.size <= off + 1
      BY <2>3
    <3> QED
      BY <1>4, <2>1, <3>1
  <2> QED
    BY <2>3, <2>4
<1> QED
  BY <1>3, <1>4

LEMMA BlocksTyped ==
  ASSUME NEW d \in Dinode
  PROVE  BlocksOf(d) \subseteq Blocks
<1>1. d.data \in Seq(Blocks) /\ d.ind \in 0..NBlocks
  BY DEF Dinode
<1>2. DOMAIN d.data = 1..Len(d.data) /\ \A k \in 1..Len(d.data) : d.data[k] \in Blocks
  BY <1>1, ElementOfSeq, LenProperties
<1> HIDE DEF Blocks
<1>3. ToSet(d.data) \subseteq Blocks
  BY <1>2 DEF ToSet
<1>4. d.ind # 0 => d.ind \in Blocks
  BY <1>1, InodeAssumption DEF InodeAssumption, Blocks
<1> QED
  BY <1>3, <1>4 DEF BlocksOf

(* bmap() gets the indirect block.                                         *)
LEMMA IndGrows ==
  ASSUME NEW s, NEW t, NEW d0 \in Dinode, NEW b \in Blocks \ s.used, OwnOK(d0), d0.ind = 0,
         BlocksOf(d0) \subseteq s.used, t.used = s.used \cup {b}
  PROVE  Grows(s, t, d0, [d0 EXCEPT !.ind = b])
<1> DEFINE d == [d0 EXCEPT !.ind = b]
<1>1. b \in 0..NBlocks /\ b # 0
  BY InodeAssumption DEF InodeAssumption, Blocks
<1>2. d \in Dinode /\ d.type = d0.type /\ d.nlink = d0.nlink /\ d.data = d0.data /\ d.ind = b
  BY <1>1 DEF Dinode
<1>3. BlocksOf(d) = BlocksOf(d0) \cup {b}
  BY <1>1, <1>2 DEF BlocksOf
<1>4. OwnOK(d)
  <2>1. Filled(d)
    BY <1>2 DEF OwnOK, Filled, PerBlock
  <2> QED
    BY <1>2, <2>1 DEF OwnOK, BlocksOf
<1> QED
  BY <1>2, <1>3, <1>4 DEF Grows

(* bmap() gets a block of data.                                            *)
LEMMA DataGrows ==
  ASSUME NEW s, NEW t, NEW d0 \in Dinode, NEW c \in Blocks \ s.used, OwnOK(d0),
         BlocksOf(d0) \subseteq s.used, t.used = s.used \cup {c}
  PROVE  Grows(s, t, d0, [d0 EXCEPT !.data = Append(@, c)])
<1> DEFINE d == [d0 EXCEPT !.data = Append(@, c)]
           a == d0.data
           e == Append(a, c)
<1>1. a \in Seq(Blocks) /\ c \in Blocks
  BY DEF Dinode
<1>2. /\ e \in Seq(Blocks) /\ Len(e) = Len(a) + 1
      /\ (\A k \in 1..Len(a) : e[k] = a[k]) /\ e[Len(a) + 1] = c
  BY <1>1, AppendProperties
<1>3. d \in Dinode /\ d.type = d0.type /\ d.nlink = d0.nlink /\ d.data = e /\ d.ind = d0.ind
  BY <1>2 DEF Dinode
<1>4. DOMAIN a = 1..Len(a) /\ DOMAIN e = 1..Len(e) /\ Len(a) \in Nat
  BY <1>1, <1>2, LenProperties
<1> HIDE DEF e, d, a
<1>5. DOMAIN e = DOMAIN a \cup {Len(a) + 1} /\ Len(a) + 1 \notin DOMAIN a
  BY <1>2, <1>4
<1>6. ToSet(e) = ToSet(a) \cup {c}
  BY <1>2, <1>4, <1>5 DEF ToSet
<1>7. BlocksOf(d) = BlocksOf(d0) \cup {c}
  BY <1>3, <1>6 DEF BlocksOf, a
<1>8. c \notin ToSet(a) /\ (d0.ind # 0 => c # d0.ind) /\ c # 0
  BY <1>1 DEF BlocksOf, a, Blocks
<1>9. IsInjective(e)
  <2> SUFFICES ASSUME NEW x \in DOMAIN e, NEW y \in DOMAIN e, e[x] = e[y]
               PROVE  x = y
    BY DEF IsInjective
  <2>1. \A z \in DOMAIN a : e[z] = a[z] /\ a[z] \in ToSet(a)
    BY <1>2, <1>4 DEF ToSet
  <2>2. IsInjective(a)
    BY DEF OwnOK, a
  <2> QED
    BY <1>2, <1>5, <1>8, <2>1, <2>2 DEF IsInjective
<1>10. OwnOK(d)
  <2>1. d0.ind \notin ToSet(a)
    BY DEF OwnOK, a
  <2>2. c # d0.ind
    BY <1>8
  <2>3. Filled(d)
    <3>1. d.size = d0.size /\ Filled(d0)
      BY DEF d, OwnOK, Dinode
    <3>2. Len(d.data) >= Len(d0.data) /\ d.size <= d0.size
      BY <1>2, <1>3, <1>4, <3>1, DinodeIs DEF a
    <3> QED
      BY <1>3, <3>1, <3>2, FilledStays
  <2> QED
    BY <1>3, <1>6, <1>9, <2>1, <2>2, <2>3 DEF OwnOK
<1> QED
  BY <1>3, <1>7, <1>10 DEF Grows, d, a, e

LEMMA GrowsTwice ==
  ASSUME NEW s, NEW t, NEW u, NEW d0, NEW d1, NEW d2, Grows(s, t, d0, d1), Grows(t, u, d1, d2),
         BlocksOf(d0) \subseteq s.used
  PROVE  Grows(s, u, d0, d2)
BY DEF Grows

LEMMA GrowsNot ==
  ASSUME NEW s, NEW d \in Dinode, OwnOK(d), BlocksOf(d) \subseteq s.used
  PROVE  Grows(s, s, d, d)
BY DEF Grows

LEMMA BmapGrows ==
  ASSUME NEW s, Typed(s), NEW i \in Inums, OwnOK(s.mem[i]), BlocksOf(s.mem[i]) \subseteq s.used
  PROVE  \E d : /\ Grown(s, Bmap(s, i).s, i, d) /\ Len(d.data) >= Len(s.mem[i].data)
                /\ d.size = s.mem[i].size
                /\ Bmap(s, i).ok => Len(d.data) > Len(s.mem[i].data)
<1> DEFINE d0 == s.mem[i]
           needInd == Len(d0.data) >= NDirect /\ d0.ind = 0
           b == Min(FreeBlocks(s))
           s1 == IF needInd THEN [Balloc(s, b) EXCEPT !.mem[i].ind = b] ELSE s
           c == Min(FreeBlocks(s1))
           s2 == [Balloc(s1, c) EXCEPT !.mem[i].data = Append(@, c)]
<1>1. d0 \in Dinode
  BY DEF Typed
<1>2. Bmap(s, i) = IF FreeBlocks(s) = {} THEN [ok |-> FALSE, s |-> s]
                   ELSE IF FreeBlocks(s1) = {} THEN [ok |-> FALSE, s |-> s1]
                   ELSE [ok |-> TRUE, s |-> s2]
  BY DEF Bmap
<1>3. \A u : FreeBlocks(u) # {} => Min(FreeBlocks(u)) \in Blocks \ u.used
  <2> SUFFICES ASSUME NEW u, FreeBlocks(u) # {} PROVE Min(FreeBlocks(u)) \in FreeBlocks(u)
    BY DEF FreeBlocks
  <2>1. FreeBlocks(u) \subseteq Nat
    BY DEF FreeBlocks, Blocks
  <2> QED
    BY <2>1, LeastOf
<1>4. Grown(s, s, i, d0)
  <2>1. s.mem = [s.mem EXCEPT ![i] = d0]
    BY DEF Typed
  <2> QED
    BY <1>1, <2>1, GrowsNot DEF Grown, Typed, Shape
<1> HIDE DEF needInd, c
<1>5. ASSUME FreeBlocks(s) # {}
      PROVE  /\ DOMAIN s1 = Fields /\ s1.disk = s.disk /\ s1.dir = s.dir /\ s1.valid = s.valid
             /\ s1.ref = s.ref
             /\ s1.mem[i] \in Dinode /\ s1.mem = [s.mem EXCEPT ![i] = s1.mem[i]]
             /\ Grows(s, s1, d0, s1.mem[i])
             /\ s1.mem[i].data = d0.data /\ s1.mem[i].size = d0.size
  <2>1. CASE needInd
    <3>1. s1 = [Balloc(s, b) EXCEPT !.mem[i].ind = b]
      BY <2>1
    <3>2. /\ DOMAIN s1 = Fields /\ s1.disk = s.disk /\ s1.dir = s.dir /\ s1.valid = s.valid
          /\ s1.ref = s.ref /\ s1.used = s.used \cup {b}
          /\ s1.mem = [s.mem EXCEPT ![i] = [@ EXCEPT !.ind = b]]
      BY <3>1 DEF Balloc, Typed, Shape, Fields
    <3>3. s1.mem[i] = [d0 EXCEPT !.ind = b]
      BY <3>2 DEF Typed
    <3>7. s1.mem[i].data = d0.data /\ s1.mem[i].size = d0.size
      BY <1>1, <3>3 DEF Dinode
    <3>4. d0.ind = 0
      BY <2>1 DEF needInd
    <3>5. b \in Blocks \ s.used
      BY <1>3, <1>5
    <3> HIDE DEF b, s1
    <3>6. Grows(s, s1, d0, s1.mem[i])
      BY <1>1, <3>2, <3>3, <3>4, <3>5, IndGrows
    <3> QED
      BY <3>2, <3>3, <3>6, <3>7 DEF Grows
  <2>2. CASE ~needInd
    <3>1. s1 = s
      BY <2>2
    <3> QED
      BY <1>1, <1>4, <3>1 DEF Grown
  <2> QED
    BY <2>1, <2>2
<1> HIDE DEF s1, b
<1>6. ASSUME FreeBlocks(s) # {}, FreeBlocks(s1) # {}
      PROVE  /\ Grown(s, s2, i, s2.mem[i]) /\ s2.mem[i].size = d0.size
             /\ Len(s2.mem[i].data) = Len(d0.data) + 1
  <2>1. /\ DOMAIN s2 = Fields /\ s2.disk = s1.disk /\ s2.dir = s1.dir /\ s2.valid = s1.valid
        /\ s2.ref = s1.ref /\ s2.used = s1.used \cup {c}
        /\ s2.mem = [s1.mem EXCEPT ![i].data = Append(s1.mem[i].data, c)]
    <3> DEFINE u == Balloc(s1, c)
    <3>1. /\ DOMAIN u = Fields /\ u.disk = s1.disk /\ u.dir = s1.dir /\ u.valid = s1.valid
          /\ u.ref = s1.ref /\ u.used = s1.used \cup {c} /\ u.mem = s1.mem
      BY <1>5, <1>6 DEF Balloc, Fields
    <3>2. s2 = [u EXCEPT !.mem[i].data = Append(u.mem[i].data, c)]
      OBVIOUS
    <3> HIDE DEF u, s2
    <3> QED
      BY <3>1, <3>2 DEF Fields
  <2> DEFINE d1 == s1.mem[i]
  <2>2. s2.mem[i] = [d1 EXCEPT !.data = Append(@, c)]
        /\ s2.mem = [s.mem EXCEPT ![i] = s2.mem[i]]
    <3>1. s1.mem \in [Inums -> Dinode]
      BY <1>5, <1>6 DEF Typed
    <3> HIDE DEF s2
    <3> QED
      BY <1>5, <1>6, <2>1, <3>1 DEF Typed
  <2>3. c \in Blocks \ s1.used
    BY <1>3, <1>6 DEF c
  <2>4. d1 \in Dinode /\ OwnOK(d1) /\ BlocksOf(d1) \subseteq s1.used
    BY <1>5, <1>6 DEF Grows
  <2>7. s2.mem[i].size = d0.size /\ Len(s2.mem[i].data) = Len(d0.data) + 1
    <3>1. d1 \in Dinode /\ d1.data = d0.data /\ d1.size = d0.size
      BY <1>5, <1>6
    <3> HIDE DEF s2, d1
    <3>2. s2.mem[i].size = d1.size /\ s2.mem[i].data = Append(d1.data, c)
      BY <2>2, <3>1 DEF Dinode
    <3>3. d0.data \in Seq(Blocks) /\ c \in Blocks
      BY <1>1, <2>3 DEF Dinode
    <3>4. Len(Append(d0.data, c)) = Len(d0.data) + 1
      BY <3>3, AppendProperties
    <3> QED
      BY <3>1, <3>2, <3>4
  <2> HIDE DEF s2, d1
  <2>5. Grows(s1, s2, d1, s2.mem[i])
    BY <2>1, <2>2, <2>3, <2>4, DataGrows
  <2>6. Grows(s, s2, d0, s2.mem[i])
    BY <1>5, <1>6, <2>5, GrowsTwice DEF d1
  <2> QED
    BY <1>5, <1>6, <2>1, <2>2, <2>6, <2>7 DEF Grown
<1> HIDE DEF s2
<1>10. Len(d0.data) \in Nat
  BY <1>1, DinodeIs
<1>7. CASE FreeBlocks(s) = {}
  <2>1. Bmap(s, i).s = s /\ Bmap(s, i).ok = FALSE
    BY <1>2, <1>7
  <2> QED
    BY <1>4, <1>10, <2>1
<1>8. CASE FreeBlocks(s) # {} /\ FreeBlocks(s1) = {}
  <2>1. Bmap(s, i).s = s1 /\ Bmap(s, i).ok = FALSE
    BY <1>2, <1>8
  <2>2. Grown(s, s1, i, s1.mem[i]) /\ Len(s1.mem[i].data) >= Len(d0.data)
        /\ s1.mem[i].size = d0.size
    BY <1>5, <1>8, <1>10 DEF Grown
  <2> QED
    BY <2>1, <2>2
<1>9. CASE FreeBlocks(s) # {} /\ FreeBlocks(s1) # {}
  <2>1. Bmap(s, i).s = s2
    BY <1>2, <1>9
  <2>2. Len(s2.mem[i].data) > Len(d0.data) /\ Len(s2.mem[i].data) >= Len(d0.data)
    BY <1>6, <1>9, <1>10
  <2>3. Grown(s, s2, i, s2.mem[i]) /\ s2.mem[i].size = d0.size
    BY <1>6, <1>9
  <2> QED
    BY <2>1, <2>2, <2>3, Zenon
<1> QED
  BY <1>7, <1>8, <1>9

LEMMA OwnedGrows ==
  ASSUME NEW s, Sound(s), BlocksOK(s), NEW i \in Inums, NEW t, NEW d,
         t.disk = [s.disk EXCEPT ![i] = d], Grows(s, t, s.disk[i], d)
  PROVE  BlocksOK(t)
<1>1. t.disk[i] = d /\ \A j \in Inums : j # i => t.disk[j] = s.disk[j]
  BY DEF Sound, Typed
<1>2. \A j \in Inums : BlocksOf(s.disk[j]) \subseteq s.used
  BY DEF BlocksOK
<1>3. t.used = UNION {BlocksOf(t.disk[j]) : j \in Inums}
  <2>1. t.used = s.used \cup BlocksOf(d) /\ BlocksOf(s.disk[i]) \subseteq BlocksOf(d)
    BY DEF Grows
  <2>2. s.used = UNION {BlocksOf(s.disk[j]) : j \in Inums}
    BY DEF BlocksOK
  <2> QED
    BY <1>1, <2>1, <2>2
<1>4. OwnOK(d)
  BY DEF Grows
<1>5. \A j \in Inums \ {i} : BlocksOf(d) \cap BlocksOf(s.disk[j]) = {}
  BY <1>2 DEF Grows, BlocksOK
<1> QED
  BY <1>1, <1>3, <1>4, <1>5 DEF BlocksOK

(* The size and the blocks of an inode have changed, and nothing else.     *)
Rewritten(s, t, i) ==
    /\ t.ref = s.ref /\ t.valid = s.valid
    /\ t.disk[i].type = s.disk[i].type /\ t.disk[i].nlink = s.disk[i].nlink
    /\ \A j \in Inums : j # i => t.disk[j] = s.disk[j]

LEMMA RewrittenNot ==
  ASSUME NEW s, NEW i
  PROVE  Rewritten(s, s, i)
BY DEF Rewritten

LEMMA RewrittenTwice ==
  ASSUME NEW s, NEW t, NEW u, NEW i, Rewritten(s, t, i), Rewritten(t, u, i)
  PROVE  Rewritten(s, u, i)
BY DEF Rewritten

LEMMA WriteiSound ==
  ASSUME NEW s, Sound(s), BlocksOK(s), NEW i \in Inums, s.valid[i], NEW off \in Nat
  PROVE  LET t == Writei(s, i, off).s
         IN  Sound(t) /\ BlocksOK(t) /\ t.dir = s.dir /\ Rewritten(s, t, i)
<1> DEFINE d0 == s.mem[i]
           b == off \div PerBlock(d0)
           w == IF b < Len(d0.data) THEN [ok |-> TRUE, s |-> s] ELSE Bmap(s, i)
           s1 == IF w.ok THEN [w.s EXCEPT !.mem[i].size = Max({@, off + 1})] ELSE w.s
           t == Writei(s, i, off).s
<1>1. d0 = s.disk[i] /\ d0 \in Dinode /\ d0.type # "none"
  BY DEF Sound, Cached, Typed
<1>2. BlocksOf(d0) \subseteq s.used /\ OwnOK(d0)
  BY <1>1 DEF BlocksOK
<1>3. t = IF off > d0.size \/ b >= MaxFile THEN s ELSE Iupdate(s1, i)
  BY DEF Writei
<1> HIDE DEF b, t
<1>10. Len(d0.data) \in Nat /\ d0.size \in Nat
  BY <1>1, DinodeIs
<1>4. PICK d : /\ Grown(s, w.s, i, d) /\ Len(d.data) >= Len(d0.data) /\ d.size = d0.size
               /\ w.ok => b < Len(d0.data) \/ Len(d.data) > Len(d0.data)
  <2>1. CASE b < Len(d0.data)
    <3>1. w.s = s
      BY <2>1
    <3>2. s.mem = [s.mem EXCEPT ![i] = d0] /\ DOMAIN s = Fields
      BY DEF Sound, Typed, Shape
    <3>3. Grown(s, s, i, d0)
      BY <1>1, <1>2, <3>2, GrowsNot DEF Grown
    <3> QED
      BY <1>10, <2>1, <3>1, <3>3
  <2>2. CASE ~(b < Len(d0.data))
    <3>1. w = Bmap(s, i)
      BY <2>2
    <3> HIDE DEF w
    <3> QED
      BY <1>2, <3>1, BmapGrows DEF Sound
  <2> QED
    BY <2>1, <2>2
<1> HIDE DEF w
<1> DEFINE u == w.s
<1>5. /\ DOMAIN u = Fields /\ u.disk = s.disk /\ u.dir = s.dir /\ u.valid = s.valid
      /\ u.ref = s.ref /\ u.mem = [s.mem EXCEPT ![i] = d] /\ Grows(s, u, d0, d) /\ u.mem[i] = d
  BY <1>4 DEF Grown, Sound, Typed
<1> HIDE DEF u
<1> DEFINE e == s1.mem[i]
<1>6. /\ DOMAIN s1 = Fields /\ s1.disk = s.disk /\ s1.dir = s.dir /\ s1.valid = s.valid
      /\ s1.ref = s.ref /\ s1.mem = [s.mem EXCEPT ![i] = e] /\ s1.used = u.used
      /\ e \in Dinode /\ e.type = d0.type /\ e.nlink = d0.nlink
      /\ e.data = d.data /\ e.ind = d.ind
      /\ e.size <= d0.size \/ (w.ok /\ e.size <= off + 1)
  <2>0. d \in Dinode /\ d.type = d0.type /\ d.nlink = d0.nlink
    BY <1>5 DEF Grows
  <2>1. CASE w.ok
    <3> DEFINE z == Max({u.mem[i].size, off + 1})
    <3>1. z \in Nat /\ (z <= d.size \/ z <= off + 1)
      <4>1. d.size \in Nat
        BY <2>0 DEF Dinode
      <4>2. \A x, y \in Nat : Max({x, y}) \in {x, y}
        <5> SUFFICES ASSUME NEW x \in Nat, NEW y \in Nat PROVE Max({x, y}) \in {x, y}
          OBVIOUS
        <5>1. \E v \in {x, y} : \A v2 \in {x, y} : v >= v2
          <6>1. CASE x >= y
            BY <6>1
          <6>2. CASE ~(x >= y)
            BY <6>2
          <6> QED
            BY <6>1, <6>2
        <5> QED
          BY <5>1 DEF Max
      <4> QED
        BY <1>5, <4>1, <4>2
    <3>2. s1 = [u EXCEPT !.mem[i].size = z]
      BY <2>1 DEF u
    <3> HIDE DEF z, s1, e
    <3>3. /\ DOMAIN s1 = Fields /\ s1.disk = u.disk /\ s1.dir = u.dir /\ s1.valid = u.valid
          /\ s1.ref = u.ref /\ s1.used = u.used
          /\ s1.mem = [u.mem EXCEPT ![i] = [u.mem[i] EXCEPT !.size = z]]
      BY <1>5, <3>2 DEF Fields
    <3>4. s1.mem[i] = [d EXCEPT !.size = z] /\ s1.mem = [s.mem EXCEPT ![i] = s1.mem[i]]
      BY <1>5, <3>3 DEF Sound, Typed
    <3>5. e = [d EXCEPT !.size = z]
      BY <3>4 DEF e
    <3>6. e \in Dinode /\ e.type = d.type /\ e.nlink = d.nlink /\ e.data = d.data /\ e.ind = d.ind
      BY <2>0, <3>1, <3>5 DEF Dinode
    <3>7. e.size <= d0.size \/ e.size <= off + 1
      <4>1. e.size = z /\ d.size = d0.size
        BY <1>4, <2>0, <3>5 DEF Dinode
      <4> QED
        BY <3>1, <4>1
    <3> QED
      BY <1>5, <2>0, <2>1, <3>3, <3>4, <3>6, <3>7 DEF e
  <2>2. CASE ~w.ok
    <3>1. s1 = u
      BY <2>2 DEF u
    <3> HIDE DEF s1, e
    <3>2. e = d
      BY <1>5, <3>1 DEF e
    <3> QED
      BY <1>4, <1>5, <1>10, <2>0, <3>1, <3>2
  <2> QED
    BY <2>1, <2>2
<1> HIDE DEF s1, e
<1>7. ASSUME off <= d0.size PROVE Grows(s, s1, d0, e)
  <2>1. Filled(e)
    <3>1. Filled(d0) /\ b <= Len(d0.data) /\ b \in Nat
      BY <1>1, <1>2, <1>7, NextBlock, DivIs, DinodeIs DEF OwnOK, b
    <3>2. Len(e.data) = Len(d.data) /\ Len(e.data) \in Nat /\ Len(e.data) >= Len(d0.data)
      BY <1>4, <1>6, DinodeIs
    <3>3. w.ok => b < Len(e.data)
      BY <1>4, <1>10, <3>1, <3>2
    <3>4. e.size <= d0.size \/ (off \div PerBlock(d0) < Len(e.data) /\ off <= d0.size
                                /\ e.size <= off + 1)
      BY <1>6, <1>7, <3>3 DEF b
    <3> HIDE DEF d0
    <3> QED
      BY <1>1, <1>6, <3>1, <3>2, <3>4, FilledStays
  <2>2. BlocksOf(e) = BlocksOf(d) /\ (OwnOK(d) => OwnOK(e))
    BY <1>6, <2>1 DEF BlocksOf, OwnOK
  <2> QED
    BY <1>5, <1>6, <2>2 DEF Grows
<1>8. CASE off > d0.size \/ b >= MaxFile
  BY <1>3, <1>8, RewrittenNot DEF t
<1>9. CASE ~(off > d0.size \/ b >= MaxFile)
  <2>1. t = [s1 EXCEPT !.disk[i] = e]
    BY <1>3, <1>9 DEF Iupdate, e
  <2>2. /\ DOMAIN t = Fields /\ t.disk = [s.disk EXCEPT ![i] = e] /\ t.dir = s.dir
        /\ t.valid = s.valid /\ t.ref = s.ref /\ t.used = s1.used
        /\ t.mem = [s.mem EXCEPT ![i] = e]
    BY <1>6, <2>1 DEF Fields
  <2>3. Shape(t) /\ Written(s, t, i, e)
    BY <2>2 DEF Shape, Sound, Typed, Written
  <2>0. Grows(s, s1, d0, e)
    BY <1>7, <1>9, <1>10
  <2>4. t.used \in SUBSET Blocks
    <3>1. BlocksOf(e) \subseteq Blocks
      BY <1>6, BlocksTyped
    <3> QED
      BY <2>0, <2>2, <3>1 DEF Grows, Sound, Typed
  <2>5. Sound(t)
    BY <1>1, <1>6, <2>3, <2>4, WrittenSound
  <2>6. Grows(s, t, s.disk[i], e)
    BY <1>1, <2>0, <2>2 DEF Grows
  <2>7. BlocksOK(t)
    BY <2>2, <2>6, OwnedGrows
  <2>8. t.disk[i] = e /\ \A j \in Inums : j # i => t.disk[j] = s.disk[j]
    BY <2>2 DEF Sound, Typed
  <2> QED
    BY <1>1, <1>6, <2>2, <2>5, <2>7, <2>8 DEF Rewritten, t
<1> QED
  BY <1>8, <1>9

LEMMA DinodesEqual ==
  ASSUME NEW d \in Dinode, NEW e \in Dinode, d.type = e.type, d.nlink = e.nlink,
         d.size = e.size, d.data = e.data, d.ind = e.ind
  PROVE  d = e
BY DEF Dinode

Emptied(d) == [d EXCEPT !.size = 0, !.data = <<>>, !.ind = 0]

LEMMA EmptiedHasNone ==
  ASSUME NEW d \in Dinode
  PROVE  /\ Emptied(d) \in Dinode /\ Emptied(d).type = d.type /\ Emptied(d).nlink = d.nlink
         /\ BlocksOf(Emptied(d)) = {} /\ OwnOK(Emptied(d))
         /\ Emptied(d).size = 0 /\ Emptied(d).data = <<>> /\ Emptied(d).ind = 0
<1> DEFINE e == Emptied(d)
<1>1. e.data = <<>> /\ e.ind = 0 /\ e.type = d.type /\ e.nlink = d.nlink /\ e.size = 0
  BY DEF Emptied, Dinode
<1>2. ToSet(e.data) = {}
  BY <1>1 DEF ToSet
<1>3. e \in Dinode
  <2>1. <<>> \in Seq(Blocks)
    BY EmptySeq
  <2>2. 0 \in 0..NBlocks
    BY InodeAssumption DEF InodeAssumption
  <2> HIDE DEF Blocks, Types
  <2> QED
    BY <2>1, <2>2 DEF Emptied, Dinode
<1> HIDE DEF e
<1>4. Filled(e)
  BY <1>1 DEF Filled
<1>5. BlocksOf(e) = {} /\ OwnOK(e)
  BY <1>1, <1>2, <1>4 DEF BlocksOf, OwnOK, IsInjective
<1> QED
  BY <1>1, <1>3, <1>5 DEF e

LEMMA OwnedWithout ==
  ASSUME NEW s, Sound(s), BlocksOK(s), NEW i \in Inums, NEW t, NEW e,
         t.disk = [s.disk EXCEPT ![i] = e], BlocksOf(e) = {}, OwnOK(e),
         t.used = s.used \ BlocksOf(s.disk[i])
  PROVE  BlocksOK(t)
<1>1. t.disk[i] = e /\ \A j \in Inums : j # i => t.disk[j] = s.disk[j]
  BY DEF Sound, Typed
<1>2. t.used = UNION {BlocksOf(t.disk[j]) : j \in Inums}
  BY <1>1 DEF BlocksOK
<1> QED
  BY <1>1, <1>2 DEF BlocksOK

LEMMA ItruncSound ==
  ASSUME NEW s, Sound(s), BlocksOK(s), NEW i \in Inums, s.valid[i]
  PROVE  LET t == Itrunc(s, i)
         IN  /\ Sound(t) /\ BlocksOK(t) /\ t.dir = [s.dir EXCEPT ![i] = NoEntries]
             /\ Rewritten(s, t, i) /\ t.mem[i] = Emptied(s.disk[i])
             /\ t.disk = [s.disk EXCEPT ![i] = Emptied(s.disk[i])]
<1> DEFINE d0 == s.disk[i]
           e == Emptied(d0)
           s1 == [s EXCEPT !.used = @ \ BlocksOf(s.mem[i]), !.dir[i] = NoEntries,
                           !.mem[i] = [@ EXCEPT !.size = 0, !.data = <<>>, !.ind = 0]]
           t == Itrunc(s, i)
<1>1. s.mem[i] = d0 /\ d0 \in Dinode /\ d0.type # "none"
  BY DEF Sound, Cached, Typed
<1>2. t = [s1 EXCEPT !.disk[i] = s1.mem[i]]
  BY DEF Itrunc, Iupdate
<1> HIDE DEF t
<1>3. /\ DOMAIN s1 = Fields /\ s1.disk = s.disk /\ s1.dir = [s.dir EXCEPT ![i] = NoEntries]
      /\ s1.valid = s.valid /\ s1.ref = s.ref /\ s1.used = s.used \ BlocksOf(s.mem[i])
      /\ s1.mem = [s.mem EXCEPT ![i] = Emptied(s.mem[i])]
  BY DEF Sound, Typed, Shape, Fields, Emptied
<1> HIDE DEF s1
<1>4. s1.mem[i] = e
  BY <1>1, <1>3 DEF Sound, Typed
<1>5. /\ DOMAIN t = Fields /\ t.disk = [s.disk EXCEPT ![i] = e] /\ t.dir = s1.dir
      /\ t.valid = s.valid /\ t.ref = s.ref /\ t.used = s.used \ BlocksOf(d0)
      /\ t.mem = [s.mem EXCEPT ![i] = e]
  BY <1>1, <1>2, <1>3, <1>4 DEF Fields
<1>6. /\ e \in Dinode /\ e.type = d0.type /\ e.nlink = d0.nlink
      /\ BlocksOf(e) = {} /\ OwnOK(e)
  BY <1>1, EmptiedHasNone
<1>7. Shape(t)
  BY ItruncKeeps DEF Sound, Typed, t
<1> HIDE DEF e
<1>8. Written(s, t, i, e) /\ t.used \in SUBSET Blocks
  BY <1>5 DEF Written, Sound, Typed
<1>9. Sound(t)
  BY <1>1, <1>6, <1>7, <1>8, WrittenSound
<1>10. BlocksOK(t)
  BY <1>5, <1>6, OwnedWithout
<1>11. t.disk[i] = e /\ t.mem[i] = e /\ \A j \in Inums : j # i => t.disk[j] = s.disk[j]
  BY <1>5 DEF Sound, Typed
<1> QED
  BY <1>3, <1>5, <1>6, <1>9, <1>10, <1>11 DEF Rewritten, t, e

(* What is left of an inode that iput() frees.                             *)
Freed(s, i) ==
    LET s1 == Itrunc(s, i)
        s2 == Iupdate([s1 EXCEPT !.mem[i].type = "none"], i)
    IN  [s2 EXCEPT !.valid[i] = FALSE, !.mem[i] = FreeInode]

LEMMA FreedSound ==
  ASSUME NEW s, Sound(s), BlocksOK(s), NEW i \in Inums, s.valid[i], s.disk[i].nlink = 0
  PROVE  LET t == Freed(s, i)
         IN  /\ Sound(t) /\ BlocksOK(t) /\ t.dir = [s.dir EXCEPT ![i] = NoEntries]
             /\ t.disk = [s.disk EXCEPT ![i] = FreeInode] /\ t.ref = s.ref
             /\ t.valid = [s.valid EXCEPT ![i] = FALSE]
<1> DEFINE s1 == Itrunc(s, i)
           s1n == [s1 EXCEPT !.mem[i].type = "none"]
           s2 == Iupdate(s1n, i)
           t == Freed(s, i)
<1>1. /\ Sound(s1) /\ BlocksOK(s1) /\ s1.dir = [s.dir EXCEPT ![i] = NoEntries]
      /\ Rewritten(s, s1, i) /\ s1.mem[i] = Emptied(s.disk[i])
      /\ s1.disk = [s.disk EXCEPT ![i] = Emptied(s.disk[i])]
  BY ItruncSound
<1>2. t = [s2 EXCEPT !.valid[i] = FALSE, !.mem[i] = FreeInode]
  BY DEF Freed
<1> HIDE DEF s1, t
<1>3. s.disk[i] \in Dinode
  BY DEF Sound, Typed
<1>4. /\ s1.mem[i] \in Dinode /\ s1.mem[i].nlink = 0 /\ s1.mem[i].size = 0
      /\ s1.mem[i].data = <<>> /\ s1.mem[i].ind = 0 /\ BlocksOf(s1.disk[i]) = {}
  <2>1. s1.disk[i] = Emptied(s.disk[i])
    BY <1>1 DEF Sound, Typed
  <2> QED
    BY <1>1, <1>3, <2>1, EmptiedHasNone
<1>5. /\ DOMAIN s1n = Fields /\ s1n.disk = s1.disk /\ s1n.dir = s1.dir /\ s1n.valid = s1.valid
      /\ s1n.ref = s1.ref /\ s1n.used = s1.used
      /\ s1n.mem = [s1.mem EXCEPT ![i] = [s1.mem[i] EXCEPT !.type = "none"]]
  BY <1>1 DEF Sound, Typed, Shape, Fields
<1>6. s2 = [s1n EXCEPT !.disk[i] = s1n.mem[i]]
  BY DEF Iupdate
<1> HIDE DEF s1n, s2
<1>7. s1n.mem[i] = FreeInode
  <2> DEFINE e == [s1.mem[i] EXCEPT !.type = "none"]
  <2>1. s1n.mem[i] = e
    BY <1>1, <1>5 DEF Sound, Typed
  <2>2. /\ e \in Dinode /\ e.type = "none" /\ e.nlink = 0 /\ e.size = 0 /\ e.data = <<>>
        /\ e.ind = 0
    BY <1>4 DEF Dinode, Types
  <2> HIDE DEF e
  <2>3. e = FreeInode
    BY <2>2, FreeInodeTyped, DinodesEqual DEF FreeInode
  <2> QED
    BY <2>1, <2>3
<1>8. /\ DOMAIN s2 = Fields /\ s2.disk = [s1.disk EXCEPT ![i] = FreeInode] /\ s2.dir = s1.dir
      /\ s2.valid = s1.valid /\ s2.ref = s1.ref /\ s2.used = s1.used /\ s2.mem = s1n.mem
  BY <1>5, <1>6, <1>7 DEF Fields
<1>9. /\ DOMAIN t = Fields /\ t.disk = s2.disk /\ t.dir = s1.dir
      /\ t.valid = [s1.valid EXCEPT ![i] = FALSE] /\ t.ref = s1.ref /\ t.used = s1.used
      /\ t.mem = [s2.mem EXCEPT ![i] = FreeInode]
  BY <1>2, <1>8 DEF Fields
<1>10. /\ t.disk \in [Inums -> Dinode] /\ t.mem \in [Inums -> Dinode]
       /\ t.valid \in [Inums -> BOOLEAN] /\ t.valid[i] = FALSE /\ t.disk[i] = FreeInode
       /\ \A j \in Inums : j # i => /\ t.disk[j] = s1.disk[j] /\ t.mem[j] = s1.mem[j]
                                    /\ t.valid[j] = s1.valid[j]
  <2>1. s1.mem \in [Inums -> Dinode] /\ s1.disk \in [Inums -> Dinode]
        /\ s1.valid \in [Inums -> BOOLEAN]
    BY <1>1 DEF Sound, Typed
  <2>2. [s1.mem[i] EXCEPT !.type = "none"] = FreeInode
    BY <1>5, <1>7, <2>1
  <2> HIDE DEF FreeInode
  <2> QED
    BY <1>5, <1>8, <1>9, <2>1, <2>2, FreeInodeTyped
<1> HIDE DEF FreeInode
<1>11. Sound(t)
  <2>1. Shape(t)
    BY <1>1, <1>9 DEF Shape, Sound, Typed
  <2>2. t.used \in SUBSET Blocks
    BY <1>1, <1>9 DEF Sound, Typed
  <2>3. Cached(t)
    BY <1>1, <1>10 DEF Sound, Cached
  <2> QED
    BY <1>10, <2>1, <2>2, <2>3 DEF Sound, Typed
<1>12. BlocksOf(FreeInode) = {} /\ OwnOK(FreeInode)
  <2>1. FreeInode.data = <<>> /\ FreeInode.ind = 0
    BY DEF FreeInode
  <2>2. ToSet(FreeInode.data) = {}
    BY <2>1 DEF ToSet
  <2>3. Filled(FreeInode)
    BY DEF FreeInode, Filled
  <2> QED
    BY <2>1, <2>2, <2>3 DEF BlocksOf, OwnOK, IsInjective
<1>13. BlocksOK(t)
  <2>1. t.used = s1.used \ BlocksOf(s1.disk[i])
    BY <1>4, <1>9
  <2>2. t.disk = [s1.disk EXCEPT ![i] = FreeInode]
    BY <1>8, <1>9
  <2> QED
    BY <1>1, <1>12, <2>1, <2>2, OwnedWithout
<1>14. t.disk = [s.disk EXCEPT ![i] = FreeInode]
  BY <1>1, <1>8, <1>9 DEF Sound, Typed
<1>15. t.valid = [s.valid EXCEPT ![i] = FALSE] /\ t.ref = s.ref
  BY <1>1, <1>9 DEF Rewritten
<1> QED
  BY <1>1, <1>9, <1>11, <1>13, <1>14, <1>15 DEF t

-----------------------------------------------------------------------------
(* Entries                                                                 *)

LEMMA DirSet ==
  ASSUME NEW s, Sound(s), BlocksOK(s), NEW t, Shape(t), NEW i, t.disk = s.disk, t.mem = s.mem,
         t.valid = s.valid, t.used = s.used, t.ref = s.ref
  PROVE  Sound(t) /\ BlocksOK(t) /\ Rewritten(s, t, i)
BY DEF Sound, Typed, Cached, BlocksOK, Rewritten

NewEntry(dir, d, n, i) == [dir EXCEPT ![d].ents[n] = i]
NewDotdot(dir, d, i) == [dir EXCEPT ![d].dotdot = i]

LEMMA EntrySetSound ==
  ASSUME NEW s, Sound(s), BlocksOK(s), NEW d, NEW n, NEW i \in 0..NInodes
  PROVE  /\ Sound(WithEntry(s, d, n, i)) /\ BlocksOK(WithEntry(s, d, n, i))
         /\ Rewritten(s, WithEntry(s, d, n, i), d)
         /\ WithEntry(s, d, n, i).dir = NewEntry(s.dir, d, n, i)
         /\ Sound(WithDotdot(s, d, i)) /\ BlocksOK(WithDotdot(s, d, i))
         /\ Rewritten(s, WithDotdot(s, d, i), d)
         /\ WithDotdot(s, d, i).dir = NewDotdot(s.dir, d, i)
<1> DEFINE t == WithEntry(s, d, n, i)
           u == WithDotdot(s, d, i)
<1>1. Shape(t) /\ t.ref = s.ref /\ Shape(u) /\ u.ref = s.ref
  BY EntrySet DEF Sound, Typed
<1>2. /\ t.disk = s.disk /\ t.mem = s.mem /\ t.valid = s.valid /\ t.used = s.used
      /\ t.dir = NewEntry(s.dir, d, n, i)
      /\ u.disk = s.disk /\ u.mem = s.mem /\ u.valid = s.valid /\ u.used = s.used
      /\ u.dir = NewDotdot(s.dir, d, i)
  BY DEF WithEntry, WithDotdot, NewEntry, NewDotdot, Sound, Typed, Shape, Fields
<1> HIDE DEF t, u
<1>3. Sound(t) /\ BlocksOK(t) /\ Rewritten(s, t, d) /\ Sound(u) /\ BlocksOK(u) /\ Rewritten(s, u, d)
  BY <1>1, <1>2, DirSet
<1> QED
  BY <1>2, <1>3 DEF t, u

LEMMA EntriesFinite ==
  ASSUME NEW s, NEW d
  PROVE  Cardinality(Entries(s, d)) \in Nat
<1>1. IsFiniteSet(Names) /\ Entries(s, d) \subseteq Names
  BY InodeAssumption DEF InodeAssumption, Entries
<1> QED
  BY <1>1, FS_Subset, FS_CardinalityType

(* On a disk in order nothing is missing where a file or a directory is    *)
(* read, so that a lookup changes nothing.                                 *)
LEMMA ReadsAll ==
  ASSUME NEW s, Sound(s), BlocksOK(s), NEW i \in Inums, s.valid[i]
  PROVE  /\ \A off \in Nat : Readi(s, i, off).s = s
         /\ ReadAll(s, i) = [ok |-> TRUE, s |-> s]
<1> DEFINE d == s.mem[i]
<1>1. d \in Dinode /\ Filled(d)
  BY DEF Sound, Cached, Typed, BlocksOK, OwnOK
<1>2. d.size \in Nat
  BY <1>1, DinodeIs
<1>3. \A off \in Nat : off < d.size => Readi(s, i, off) = [ok |-> TRUE, s |-> s]
  <2> SUFFICES ASSUME NEW off \in Nat, off < d.size
               PROVE  Readi(s, i, off) = [ok |-> TRUE, s |-> s]
    OBVIOUS
  <2>1. off \in 0..(d.size - 1) /\ ~(off >= d.size)
    BY <1>2
  <2>2. off \div PerBlock(d) < Len(d.data)
    BY <1>1, <2>1 DEF Filled
  <2> QED
    BY <2>1, <2>2 DEF Readi
<1>4. \A off \in Nat : ~(off < d.size) => Readi(s, i, off).s = s
  BY <1>2 DEF Readi
<1>5. ReadAll(s, i) = [ok |-> TRUE, s |-> s]
  <2>1. CASE d.size = 0
    BY <2>1 DEF ReadAll
  <2>2. CASE d.size # 0
    <3>1. d.size - 1 \in Nat /\ d.size - 1 < d.size
      BY <1>2, <2>2
    <3>2. ReadAll(s, i) = Readi(s, i, d.size - 1)
      BY <2>2 DEF ReadAll
    <3> QED
      BY <1>3, <3>1, <3>2
  <2> QED
    BY <2>1, <2>2
<1>6. \A off \in Nat : Readi(s, i, off).s = s
  BY <1>3, <1>4
<1> QED
  BY <1>5, <1>6

LEMMA DirlookupIs ==
  ASSUME NEW s, Sound(s), BlocksOK(s), NEW d \in Inums, s.valid[d], NEW n
  PROVE  LET e == Dirlookup(s, d, n)
         IN  e.ok /\ e.s = s /\ e.i = EntryAt(s, d, n)
<1>1. ReadAll(s, d) = [ok |-> TRUE, s |-> s]
  BY ReadsAll
<1> QED
  BY <1>1 DEF Dirlookup

LEMMA DirlinkSound ==
  ASSUME NEW s, Sound(s), BlocksOK(s), NEW d \in Inums, s.valid[d], NEW n, NEW i \in Inums
  PROVE  LET e == Dirlink(s, d, n, i)
         IN  /\ Sound(e.s) /\ BlocksOK(e.s) /\ Rewritten(s, e.s, d) /\ e.ok \in BOOLEAN
             /\ e.ok => EntryAt(s, d, n) = 0 /\ e.s.dir = NewEntry(s.dir, d, n, i)
             /\ ~e.ok => e.s.dir = s.dir
<1> DEFINE off == 2 + Cardinality(Entries(s, d))
           w == Writei(s, d, off)
           t == WithEntry(w.s, d, n, i)
           e == Dirlink(s, d, n, i)
<1>1. off \in Nat
  BY EntriesFinite
<1> HIDE DEF off
<1>2. Sound(w.s) /\ BlocksOK(w.s) /\ w.s.dir = s.dir /\ Rewritten(s, w.s, d)
  BY <1>1, WriteiSound
<1>3. w.ok \in BOOLEAN
  BY WriteiKeeps DEF Sound, Typed
<1>4. e = IF EntryAt(s, d, n) # 0 THEN [ok |-> FALSE, s |-> s]
          ELSE IF ~w.ok THEN w ELSE [ok |-> TRUE, s |-> t]
  <2> DEFINE e0 == Dirlookup(s, d, n)
             w0 == Writei(e0.s, d, off)
  <2>1. e0.s = s /\ e0.i = EntryAt(s, d, n)
    BY DirlookupIs
  <2>2. e = IF e0.i # 0 THEN [ok |-> FALSE, s |-> s]
            ELSE IF ~w0.ok THEN w0 ELSE [ok |-> TRUE, s |-> WithEntry(w0.s, d, n, i)]
    BY DEF Dirlink, off, WithEntry
  <2> HIDE DEF e0, e
  <2> QED
    BY <2>1, <2>2
<1>5. i \in 0..NInodes
  BY InodeAssumption DEF InodeAssumption, Inums
<1> HIDE DEF w, e
<1>6. /\ Sound(t) /\ BlocksOK(t) /\ Rewritten(w.s, t, d)
      /\ t.dir = NewEntry(w.s.dir, d, n, i)
  BY <1>2, <1>5, EntrySetSound
<1> HIDE DEF t
<1>7. Rewritten(s, t, d)
  BY <1>2, <1>6, RewrittenTwice
<1>8. CASE EntryAt(s, d, n) # 0
  BY <1>4, <1>8, RewrittenNot DEF e
<1>9. CASE EntryAt(s, d, n) = 0 /\ ~w.ok
  BY <1>2, <1>3, <1>4, <1>9 DEF e
<1>10. CASE EntryAt(s, d, n) = 0 /\ w.ok
  BY <1>2, <1>4, <1>6, <1>7, <1>10 DEF e
<1> QED
  BY <1>3, <1>8, <1>9, <1>10

LEMMA MakeDotsSound ==
  ASSUME NEW s, Sound(s), BlocksOK(s), NEW i \in Inums, s.valid[i], NEW d \in Inums
  PROVE  LET e == MakeDots(s, i, d)
         IN  /\ Sound(e.s) /\ BlocksOK(e.s) /\ Rewritten(s, e.s, i) /\ e.ok \in BOOLEAN
             /\ e.ok => e.s.dir = NewDotdot(s.dir, i, d)
             /\ ~e.ok => e.s.dir = s.dir
<1> DEFINE w1 == Writei(s, i, 0)
           w2 == Writei(w1.s, i, 1)
           t == WithDotdot(w2.s, i, d)
           e == MakeDots(s, i, d)
<1>1. /\ Sound(w1.s) /\ BlocksOK(w1.s) /\ w1.s.dir = s.dir /\ Rewritten(s, w1.s, i)
      /\ w1.ok \in BOOLEAN
  BY WriteiSound, WriteiKeeps DEF Sound, Typed
<1>2. w1.s.valid[i]
  BY <1>1 DEF Rewritten
<1> HIDE DEF w1
<1>3. Sound(w2.s) /\ BlocksOK(w2.s) /\ w2.s.dir = w1.s.dir /\ Rewritten(w1.s, w2.s, i)
  BY <1>1, <1>2, WriteiSound
<1>4. e = IF w1.ok THEN [ok |-> TRUE, s |-> t] ELSE w1
  BY DEF MakeDots, WithDotdot, w1
<1>5. d \in 0..NInodes
  BY InodeAssumption DEF InodeAssumption, Inums
<1> HIDE DEF w2, e
<1>6. /\ Sound(t) /\ BlocksOK(t) /\ Rewritten(w2.s, t, i)
      /\ t.dir = NewDotdot(w2.s.dir, i, d)
  BY <1>3, <1>5, EntrySetSound
<1> HIDE DEF t
<1>7. Rewritten(s, t, i)
  BY <1>1, <1>3, <1>6, RewrittenTwice
<1>8. CASE w1.ok
  BY <1>1, <1>3, <1>4, <1>6, <1>7, <1>8 DEF e
<1>9. CASE ~w1.ok
  BY <1>1, <1>4, <1>9 DEF e
<1> QED
  BY <1>1, <1>8, <1>9

-----------------------------------------------------------------------------
(* The tree of names                                                       *)

Acyclic(s) == \E rank \in [Inums -> Nat] : Below(s, rank)

(* nlink covers the names, the ".." of the children, and e more.           *)
Covers(s, e) == \A i \in Inums :
    s.disk[i].nlink >= Cardinality(NamingIn(s.dir, i)) + Cardinality(ChildrenIn(s.dir, i)) + e[i]

DiskOK(s, e) == /\ Sound(s) /\ BlocksOK(s) /\ FreeOK(s) /\ LeafOK(s) /\ OneName(s)
                /\ Acyclic(s) /\ e \in [Inums -> Int] /\ Covers(s, e)

NotMore(e, e2) == e2 \in [Inums -> Int] /\ \A i \in Inums : e2[i] <= e[i]

LEMMA NamesFinite ==
  ASSUME NEW dir, NEW i
  PROVE  /\ IsFiniteSet(NamingIn(dir, i)) /\ Cardinality(NamingIn(dir, i)) \in Nat
         /\ IsFiniteSet(ChildrenIn(dir, i)) /\ Cardinality(ChildrenIn(dir, i)) \in Nat
<1>1. IsFiniteSet(Inums) /\ IsFiniteSet(Names)
  BY InodeAssumption, FS_Interval DEF InodeAssumption, Inums
<1>2. IsFiniteSet(Inums \X Names)
  BY <1>1, FS_Product
<1>3. NamingIn(dir, i) \subseteq Inums \X Names /\ ChildrenIn(dir, i) \subseteq Inums
  BY DEF NamingIn, ChildrenIn
<1>4. IsFiniteSet(NamingIn(dir, i)) /\ IsFiniteSet(ChildrenIn(dir, i))
  BY <1>1, <1>2, <1>3, FS_Subset
<1> QED
  BY <1>4, FS_CardinalityType

LEMMA FewerNames ==
  ASSUME NEW dir, NEW dir2, NEW i, NamingIn(dir2, i) \subseteq NamingIn(dir, i),
         ChildrenIn(dir2, i) \subseteq ChildrenIn(dir, i)
  PROVE  /\ Cardinality(NamingIn(dir2, i)) <= Cardinality(NamingIn(dir, i))
         /\ Cardinality(ChildrenIn(dir2, i)) <= Cardinality(ChildrenIn(dir, i))
BY NamesFinite, FS_Subset

(* Without links there are neither names nor children.                     *)
LEMMA NoLinks ==
  ASSUME NEW s, NEW e, DiskOK(s, e), NEW i \in Inums, s.disk[i].nlink = 0, e[i] >= 0
  PROVE  NamingIn(s.dir, i) = {} /\ ChildrenIn(s.dir, i) = {} /\ e[i] = 0
<1>1. 0 >= Cardinality(NamingIn(s.dir, i)) + Cardinality(ChildrenIn(s.dir, i)) + e[i]
      /\ e[i] \in Int
  BY DEF DiskOK, Covers
<1>2. Cardinality(NamingIn(s.dir, i)) = 0 /\ Cardinality(ChildrenIn(s.dir, i)) = 0 /\ e[i] = 0
  BY <1>1, NamesFinite
<1> QED
  BY <1>2, NamesFinite, FS_EmptySet

(* An inode that has a name has a link.                                    *)
LEMMA HasLinks ==
  ASSUME NEW s, NEW e, DiskOK(s, e), NEW i \in Inums, e[i] >= 0,
         \/ NamingIn(s.dir, i) # {}
         \/ e[i] > 0
  PROVE  s.disk[i].nlink \in Nat \ {0} /\ s.disk[i].type # "none"
<1>1. s.disk[i] \in Dinode
  BY DEF DiskOK, Sound, Typed
<1>2. s.disk[i].nlink \in Nat
  BY <1>1 DEF Dinode
<1>3. s.disk[i].nlink # 0
  <2>1. e[i] \in Int
    BY DEF DiskOK
  <2> QED
    BY <2>1, NoLinks
<1>4. s.disk[i].type # "none"
  BY <1>3 DEF DiskOK, FreeOK, FreeInode
<1> QED
  BY <1>2, <1>3, <1>4

(* The tree stays, or loses entries.                                       *)
NoMoreDirs(s, t) == \A d \in Inums, n \in Names :
    t.dir[d].ents[n] # 0 /\ t.disk[t.dir[d].ents[n]].type = "dir"
      => /\ t.dir[d].ents[n] = s.dir[d].ents[n]
         /\ s.disk[t.dir[d].ents[n]].type = "dir"

LEMMA AcyclicStays ==
  ASSUME NEW s, Acyclic(s), NEW t, NoMoreDirs(s, t)
  PROVE  Acyclic(t)
<1>1. PICK rank \in [Inums -> Nat] : Below(s, rank)
  BY DEF Acyclic
<1>2. Below(t, rank)
  BY <1>1 DEF Below, NoMoreDirs
<1> QED
  BY <1>2 DEF Acyclic

LEMMA SameDiskOK ==
  ASSUME NEW s, NEW e, DiskOK(s, e), NEW t, Sound(t), SameDisk(s, t), NEW e2, NotMore(e, e2)
  PROVE  DiskOK(t, e2)
<1>1. FreeOK(t) /\ LeafOK(t) /\ OneName(t) /\ BlocksOK(t)
  BY DEF DiskOK, SameDisk, FreeOK, LeafOK, OneName, BlocksOK
<1>2. Acyclic(t)
  BY DEF DiskOK, SameDisk, Acyclic, Below
<1>3. Covers(t, e2)
  <2> SUFFICES ASSUME NEW i \in Inums
               PROVE  s.disk[i].nlink >= Cardinality(NamingIn(s.dir, i))
                                           + Cardinality(ChildrenIn(s.dir, i)) + e2[i]
    BY DEF SameDisk, Covers
  <2>1. s.disk[i].nlink >= Cardinality(NamingIn(s.dir, i))
                             + Cardinality(ChildrenIn(s.dir, i)) + e[i]
    BY DEF DiskOK, Covers
  <2>2. s.disk[i].nlink \in Nat /\ e[i] \in Int /\ e2[i] \in Int /\ e2[i] <= e[i]
    <3>1. s.disk[i] \in Dinode
      BY DEF DiskOK, Sound, Typed
    <3> QED
      BY <3>1 DEF DiskOK, NotMore, Dinode
  <2> QED
    BY <2>1, <2>2, NamesFinite
<1> QED
  BY <1>1, <1>2, <1>3 DEF DiskOK, NotMore

(* The size of an inode changes, or its number of links.                   *)
LEMMA NlinkOK ==
  ASSUME NEW s, NEW e, DiskOK(s, e), NEW t, Sound(t), BlocksOK(t), t.dir = s.dir,
         NEW i \in Inums, t.disk[i].type = s.disk[i].type, s.disk[i].type # "none",
         \A j \in Inums : j # i => t.disk[j] = s.disk[j],
         NEW e2 \in [Inums -> Int], \A j \in Inums : j # i => e2[j] <= e[j],
         e2[i] + s.disk[i].nlink <= e[i] + t.disk[i].nlink
  PROVE  DiskOK(t, e2)
<1>1. \A j \in Inums : t.disk[j].type = s.disk[j].type
  OBVIOUS
<1>2. FreeOK(t)
  BY DEF DiskOK, FreeOK
<1>3. LeafOK(t) /\ OneName(t)
  BY <1>1 DEF DiskOK, LeafOK, OneName
<1>4. Acyclic(t)
  <2>1. \A d \in Inums, n \in Names : s.dir[d].ents[n] # 0 => s.dir[d].ents[n] \in Inums
    <3>1. \A d \in Inums : s.dir[d] \in Directory
      BY DEF DiskOK, Sound, Typed, Shape
    <3> QED
      BY <3>1, InodeAssumption DEF Directory, InodeAssumption, Inums
  <2>8. NoMoreDirs(s, t)
    BY <1>1, <2>1 DEF NoMoreDirs
  <2>9. Acyclic(s)
    BY DEF DiskOK
  <2> QED
    BY <2>8, <2>9, AcyclicStays
<1>5. Covers(t, e2)
  <2> SUFFICES ASSUME NEW j \in Inums
               PROVE  t.disk[j].nlink >= Cardinality(NamingIn(s.dir, j))
                                           + Cardinality(ChildrenIn(s.dir, j)) + e2[j]
    BY DEF Covers
  <2>1. s.disk[j].nlink >= Cardinality(NamingIn(s.dir, j))
                             + Cardinality(ChildrenIn(s.dir, j)) + e[j]
    BY DEF DiskOK, Covers
  <2>2. s.disk[j].nlink \in Nat /\ t.disk[j].nlink \in Nat /\ e[j] \in Int /\ e2[j] \in Int
    <3>1. s.disk[j] \in Dinode /\ t.disk[j] \in Dinode
      BY DEF DiskOK, Sound, Typed
    <3> QED
      BY <3>1 DEF DiskOK, Dinode
  <2>3. e2[j] + s.disk[j].nlink <= e[j] + t.disk[j].nlink
    <3>1. CASE j = i
      BY <3>1
    <3>2. CASE j # i
      BY <2>2, <3>2
    <3> QED
      BY <3>1, <3>2
  <2> QED
    BY <2>1, <2>2, <2>3, NamesFinite
<1> QED
  BY <1>2, <1>3, <1>4, <1>5 DEF DiskOK

-----------------------------------------------------------------------------
(* The tree after each operation                                           *)

(* What t says of each inode is of the same type and has as many links.    *)
SameLinks(s, t) == \A j \in Inums :
    /\ t.disk[j].type = s.disk[j].type /\ t.disk[j].nlink = s.disk[j].nlink
    /\ s.disk[j].type = "none" => t.disk[j] = s.disk[j]

Named(dir, i) == Cardinality(NamingIn(dir, i)) + Cardinality(ChildrenIn(dir, i))

LEMMA RewrittenLinks ==
  ASSUME NEW s, NEW t, NEW i, Rewritten(s, t, i), s.disk[i].type # "none"
  PROVE  SameLinks(s, t)
BY DEF SameLinks, Rewritten

LEMMA LinksAreNat ==
  ASSUME NEW s, NEW e, DiskOK(s, e), NEW j \in Inums
  PROVE  /\ s.disk[j] \in Dinode /\ s.disk[j].nlink \in Nat /\ e[j] \in Int
         /\ Named(s.dir, j) \in Nat /\ s.disk[j].nlink >= Named(s.dir, j) + e[j]
         /\ s.dir[j] \in Directory
<1>1. s.disk[j] \in Dinode /\ s.dir[j] \in Directory
  BY DEF DiskOK, Sound, Typed, Shape
<1>2. s.disk[j].nlink \in Nat
  BY <1>1 DEF Dinode
<1>3. Named(s.dir, j) \in Nat
  BY NamesFinite DEF Named
<1>4. s.disk[j].nlink >= Named(s.dir, j) + e[j] /\ e[j] \in Int
  <2>1. /\ e[j] \in Int
        /\ s.disk[j].nlink >= Cardinality(NamingIn(s.dir, j)) + Cardinality(ChildrenIn(s.dir, j)) + e[j]
    BY DEF DiskOK, Covers
  <2> QED
    BY <2>1 DEF Named
<1> QED
  BY <1>1, <1>2, <1>3, <1>4

LEMMA CoversStays ==
  ASSUME NEW s, NEW e, DiskOK(s, e), NEW t, NEW e2 \in [Inums -> Int],
         \A j \in Inums : t.disk[j].nlink = s.disk[j].nlink,
         \A j \in Inums : Named(t.dir, j) + e2[j] <= Named(s.dir, j) + e[j]
  PROVE  Covers(t, e2)
<1> SUFFICES ASSUME NEW j \in Inums
             PROVE  t.disk[j].nlink >= Cardinality(NamingIn(t.dir, j))
                                         + Cardinality(ChildrenIn(t.dir, j)) + e2[j]
  BY DEF Covers
<1>1. /\ t.disk[j].nlink = s.disk[j].nlink
      /\ Named(t.dir, j) + e2[j] <= Named(s.dir, j) + e[j] /\ e2[j] \in Int
  OBVIOUS
<1>2. Named(t.dir, j) \in Nat
  BY NamesFinite DEF Named
<1>3. t.disk[j].nlink >= Named(t.dir, j) + e2[j]
  BY <1>1, <1>2, LinksAreNat
<1> QED
  BY <1>3 DEF Named

LEMMA IallocOK ==
  ASSUME NEW s, NEW e, DiskOK(s, e), NEW i \in Inums, s.disk[i].type = "none", e[i] >= 0,
         NEW type \in Types, type # "none"
  PROVE  DiskOK(Ialloc(s, i, type), e)
<1> DEFINE t == Ialloc(s, i, type)
           d == [FreeInode EXCEPT !.type = type]
<1>1. /\ Sound(t) /\ t.disk = [s.disk EXCEPT ![i] = d] /\ t.dir = s.dir /\ t.used = s.used
  BY IallocSound DEF DiskOK
<1> HIDE DEF t
<1>2. s.disk[i] = FreeInode
  BY DEF DiskOK, FreeOK
<1>3. /\ BlocksOf(d) = {} /\ OwnOK(d) /\ BlocksOf(FreeInode) = {} /\ d.nlink = 0 /\ d.type = type
      /\ FreeInode.nlink = 0
  <2>1. /\ d.data = <<>> /\ d.ind = 0 /\ FreeInode.data = <<>> /\ FreeInode.ind = 0
        /\ d.nlink = 0 /\ d.type = type /\ FreeInode.nlink = 0
    BY DEF FreeInode
  <2>2. ToSet(<<>>) = {} /\ IsInjective(<<>>)
    BY DEF ToSet, IsInjective
  <2>3. Filled(d)
    BY DEF FreeInode, Filled
  <2> HIDE DEF d
  <2> QED
    BY <2>1, <2>2, <2>3 DEF BlocksOf, OwnOK
<1> HIDE DEF d
<1>4. BlocksOK(t)
  BY <1>1, <1>2, <1>3, OwnedWithout DEF DiskOK
<1>5. /\ t.disk[i] = d /\ \A j \in Inums : j # i => t.disk[j] = s.disk[j]
  BY <1>1 DEF DiskOK, Sound, Typed
<1>6. NamingIn(s.dir, i) = {}
  BY <1>2, <1>3, NoLinks
<1>7. FreeOK(t) /\ LeafOK(t)
  <2>1. s.dir[i] = NoEntries
    BY DEF DiskOK, LeafOK
  <2> QED
    BY <1>1, <1>3, <1>5, <2>1 DEF DiskOK, FreeOK, LeafOK
<1>8. OneName(t)
  BY <1>1, <1>5, <1>6 DEF DiskOK, OneName
<1>9. Acyclic(t)
  <2>1. ASSUME NEW dd \in Inums, NEW n \in Names, t.dir[dd].ents[n] # 0,
               t.disk[t.dir[dd].ents[n]].type = "dir"
        PROVE  /\ t.dir[dd].ents[n] = s.dir[dd].ents[n]
               /\ s.disk[t.dir[dd].ents[n]].type = "dir"
    <3> DEFINE k == s.dir[dd].ents[n]
    <3>1. k \in Inums
      <4>1. s.dir[dd] \in Directory
        BY LinksAreNat
      <4> QED
        BY <1>1, <2>1, <4>1, InodeAssumption DEF Directory, InodeAssumption, Inums
    <3>2. k # i
      <4> SUFFICES ASSUME k = i PROVE FALSE
        OBVIOUS
      <4>1. <<dd, n>> \in NamingIn(s.dir, i)
        BY DEF NamingIn
      <4> QED
        BY <1>6, <4>1
    <3> QED
      BY <1>1, <1>5, <2>1, <3>1, <3>2
  <2>8. NoMoreDirs(s, t)
    BY <2>1 DEF NoMoreDirs
  <2>9. Acyclic(s)
    BY DEF DiskOK
  <2> QED
    BY <2>8, <2>9, AcyclicStays
<1>10. Covers(t, e)
  <2>1. \A j \in Inums : t.disk[j].nlink = s.disk[j].nlink
    BY <1>2, <1>3, <1>5
  <2>2. e \in [Inums -> Int] /\ \A j \in Inums : Named(t.dir, j) + e[j] <= Named(s.dir, j) + e[j]
    BY <1>1, LinksAreNat DEF DiskOK
  <2> QED
    BY <2>1, <2>2, CoversStays
<1> QED
  BY <1>1, <1>4, <1>7, <1>8, <1>9, <1>10 DEF DiskOK, t

LEMMA NamedLess ==
  ASSUME NEW dir, NEW dir2, NEW i, NamingIn(dir2, i) \subseteq NamingIn(dir, i),
         ChildrenIn(dir2, i) \subseteq ChildrenIn(dir, i)
  PROVE  Named(dir2, i) <= Named(dir, i) /\ Named(dir2, i) \in Nat /\ Named(dir, i) \in Nat
BY FewerNames, NamesFinite DEF Named

LEMMA NoEntriesIs ==
  /\ NoEntries \in Directory /\ NoEntries.dotdot = 0 /\ \A n \in Names : NoEntries.ents[n] = 0
BY InodeAssumption DEF NoEntries, Directory, InodeAssumption

(* iput() frees i.                                                         *)
LEMMA FreedOK ==
  ASSUME NEW s, NEW e, DiskOK(s, e), NEW i \in Inums, s.valid[i], s.disk[i].nlink = 0
  PROVE  DiskOK(Freed(s, i), e)
<1> DEFINE t == Freed(s, i)
<1>1. /\ Sound(t) /\ BlocksOK(t) /\ t.dir = [s.dir EXCEPT ![i] = NoEntries]
      /\ t.disk = [s.disk EXCEPT ![i] = FreeInode]
  BY FreedSound DEF DiskOK
<1> HIDE DEF t
<1>2. /\ t.disk[i] = FreeInode /\ t.dir[i] = NoEntries
      /\ \A j \in Inums : j # i => t.disk[j] = s.disk[j] /\ t.dir[j] = s.dir[j]
  BY <1>1 DEF DiskOK, Sound, Typed, Shape
<1>3. FreeInode.type = "none" /\ FreeInode.nlink = 0
  BY DEF FreeInode
<1>4. FreeOK(t) /\ LeafOK(t)
  BY <1>2 DEF DiskOK, FreeOK, LeafOK
<1>5. \A j \in Inums : /\ NamingIn(t.dir, j) \subseteq NamingIn(s.dir, j)
                       /\ ChildrenIn(t.dir, j) \subseteq ChildrenIn(s.dir, j)
  <2> SUFFICES ASSUME NEW j \in Inums
               PROVE  /\ NamingIn(t.dir, j) \subseteq NamingIn(s.dir, j)
                      /\ ChildrenIn(t.dir, j) \subseteq ChildrenIn(s.dir, j)
    OBVIOUS
  <2>1. \A k \in Inums : NamingIn(t.dir, k) \subseteq NamingIn(s.dir, k)
    <3>1. \A k \in Inums : k # 0
      BY DEF Inums
    <3> QED
      BY <1>2, <3>1, NoEntriesIs DEF NamingIn
  <2>2. j # 0
    BY DEF Inums
  <2>3. ASSUME NEW c \in ChildrenIn(t.dir, j) PROVE c \in ChildrenIn(s.dir, j)
    <3>1. c \in Inums /\ t.dir[c].dotdot = j /\ NamingIn(t.dir, c) # {}
      BY DEF ChildrenIn
    <3>2. c # i
      BY <1>2, <2>2, <3>1, NoEntriesIs
    <3> QED
      BY <1>2, <2>1, <3>1, <3>2 DEF ChildrenIn
  <2> QED
    BY <2>1, <2>3
<1>6. OneName(t)
  BY <1>2, <1>3, <1>5 DEF DiskOK, OneName
<1>7. Acyclic(t)
  <2>1. ASSUME NEW dd \in Inums, NEW n \in Names, t.dir[dd].ents[n] # 0,
               t.disk[t.dir[dd].ents[n]].type = "dir"
        PROVE  /\ s.dir[dd].ents[n] = t.dir[dd].ents[n]
               /\ s.disk[t.dir[dd].ents[n]].type = "dir"
    <3> DEFINE k == t.dir[dd].ents[n]
    <3>1. dd # i
      BY <1>2, <2>1, NoEntriesIs
    <3>2. s.dir[dd].ents[n] = k
      BY <1>2, <3>1
    <3>3. k \in Inums
      <4>1. s.dir[dd] \in Directory
        BY LinksAreNat
      <4> QED
        BY <2>1, <3>2, <4>1, InodeAssumption DEF Directory, InodeAssumption, Inums
    <3>4. k # i
      BY <1>2, <1>3, <2>1
    <3> QED
      BY <1>2, <2>1, <3>2, <3>3, <3>4
  <2>8. NoMoreDirs(s, t)
    BY <2>1 DEF NoMoreDirs
  <2>9. Acyclic(s)
    BY DEF DiskOK
  <2> QED
    BY <2>8, <2>9, AcyclicStays
<1>8. Covers(t, e)
  <2>1. \A j \in Inums : t.disk[j].nlink = s.disk[j].nlink
    BY <1>2, <1>3
  <2>2. e \in [Inums -> Int]
    BY DEF DiskOK
  <2>3. ASSUME NEW j \in Inums PROVE Named(t.dir, j) + e[j] <= Named(s.dir, j) + e[j]
    BY <1>5, <2>2, NamedLess
  <2> QED
    BY <2>1, <2>2, <2>3, CoversStays
<1> QED
  BY <1>1, <1>4, <1>6, <1>7, <1>8 DEF DiskOK, t

(* Contents change, entries do not.                                        *)
LEMMA ContentsOK ==
  ASSUME NEW s, NEW e, DiskOK(s, e), NEW t, Sound(t), BlocksOK(t), t.dir = s.dir,
         SameLinks(s, t), NEW e2, NotMore(e, e2)
  PROVE  DiskOK(t, e2)
<1>1. FreeOK(t) /\ LeafOK(t) /\ OneName(t)
  BY DEF DiskOK, SameLinks, FreeOK, LeafOK, OneName
<1>2. Acyclic(t)
  <2>1. \A d \in Inums, n \in Names : s.dir[d].ents[n] # 0 => s.dir[d].ents[n] \in Inums
    <3>1. \A d \in Inums : s.dir[d] \in Directory
      BY LinksAreNat
    <3> QED
      BY <3>1, InodeAssumption DEF Directory, InodeAssumption, Inums
  <2>8. NoMoreDirs(s, t)
    BY <2>1 DEF NoMoreDirs, SameLinks
  <2>9. Acyclic(s)
    BY DEF DiskOK
  <2> QED
    BY <2>8, <2>9, AcyclicStays
<1>3. Covers(t, e2)
  <2>1. e2 \in [Inums -> Int] /\ \A j \in Inums : t.disk[j].nlink = s.disk[j].nlink
    BY DEF NotMore, SameLinks
  <2>2. ASSUME NEW j \in Inums PROVE Named(t.dir, j) + e2[j] <= Named(s.dir, j) + e[j]
    <3>1. e2[j] <= e[j] /\ e2[j] \in Int /\ e[j] \in Int /\ Named(s.dir, j) \in Nat
      BY LinksAreNat DEF NotMore
    <3> QED
      BY <3>1
  <2> QED
    BY <2>1, <2>2, CoversStays
<1> QED
  BY <1>1, <1>2, <1>3 DEF DiskOK, NotMore

(* open() truncates a file.                                                *)
LEMMA TruncatedOK ==
  ASSUME NEW s, NEW e, DiskOK(s, e), NEW i \in Inums, s.valid[i], s.disk[i].type # "dir"
  PROVE  DiskOK(Itrunc(s, i), e) /\ SameLinks(s, Itrunc(s, i)) /\ Itrunc(s, i).dir = s.dir
<1> DEFINE t == Itrunc(s, i)
<1>1. /\ Sound(t) /\ BlocksOK(t) /\ t.dir = [s.dir EXCEPT ![i] = NoEntries]
      /\ Rewritten(s, t, i)
  BY ItruncSound DEF DiskOK
<1> HIDE DEF t
<1>2. s.dir[i] = NoEntries /\ s.dir \in [Inums -> Directory]
  BY DEF DiskOK, LeafOK, Sound, Typed, Shape
<1>3. t.dir = s.dir
  BY <1>1, <1>2
<1>4. s.disk[i].type # "none"
  BY DEF DiskOK, Sound, Cached
<1>5. SameLinks(s, t)
  BY <1>1, <1>4, RewrittenLinks
<1>6. NotMore(e, e)
  BY LinksAreNat DEF DiskOK, NotMore
<1>7. DiskOK(t, e)
  BY <1>1, <1>3, <1>5, <1>6, ContentsOK
<1> QED
  BY <1>3, <1>5, <1>7 DEF t

LEMMA EntriesAreInums ==
  ASSUME NEW s, NEW e, DiskOK(s, e), NEW d \in Inums, NEW n \in Names
  PROVE  s.dir[d].ents[n] \in 0..NInodes /\ (s.dir[d].ents[n] # 0 => s.dir[d].ents[n] \in Inums)
<1>1. s.dir[d] \in Directory
  BY LinksAreNat
<1> QED
  BY <1>1, InodeAssumption DEF Directory, InodeAssumption, Inums

(* The entries after one of them changes.                                  *)
OneEntry(dir, d, n, i, dir2) ==
    /\ \A j \in Inums : j # d => dir2[j] = dir[j]
    /\ \A j \in Inums : dir2[j].dotdot = dir[j].dotdot
    /\ \A j \in Inums, m \in Names :
          dir2[j].ents[m] = IF j = d /\ m = n THEN i ELSE dir[j].ents[m]
    /\ n \notin Names => dir2 = dir

LEMMA NewEntryIs ==
  ASSUME NEW s, NEW e, DiskOK(s, e), NEW d \in Inums, NEW n, NEW i
  PROVE  OneEntry(s.dir, d, n, i, NewEntry(s.dir, d, n, i))
<1> DEFINE dir == NewEntry(s.dir, d, n, i)
<1>1. s.dir \in [Inums -> Directory]
  BY DEF DiskOK, Sound, Typed, Shape
<1>2. s.dir[d] \in Directory /\ s.dir[d].ents \in [Names -> 0..NInodes]
  BY <1>1 DEF Directory
<1>3. dir = [s.dir EXCEPT ![d] = [s.dir[d] EXCEPT !.ents = [s.dir[d].ents EXCEPT ![n] = i]]]
  BY DEF NewEntry
<1> HIDE DEF dir
<1>4. /\ dir[d].dotdot = s.dir[d].dotdot /\ dir[d].ents = [s.dir[d].ents EXCEPT ![n] = i]
      /\ \A j \in Inums : j # d => dir[j] = s.dir[j]
  BY <1>1, <1>2, <1>3 DEF Directory
<1>5. \A m \in Names : dir[d].ents[m] = IF m = n THEN i ELSE s.dir[d].ents[m]
  BY <1>2, <1>4
<1>6. n \notin Names => dir = s.dir
  <2> SUFFICES ASSUME n \notin Names PROVE dir = s.dir
    OBVIOUS
  <2>1. [s.dir[d].ents EXCEPT ![n] = i] = s.dir[d].ents
    BY <1>2
  <2>2. [s.dir[d] EXCEPT !.ents = s.dir[d].ents] = s.dir[d]
    BY <1>2 DEF Directory
  <2> QED
    BY <1>1, <1>3, <2>1, <2>2
<1> QED
  BY <1>4, <1>5, <1>6 DEF dir, OneEntry

(* unlink() removes the entry n of d, which names i, and owes as many      *)
(* links as there are references less.                                     *)
LEMMA EntryOutOK ==
  ASSUME NEW s, NEW e, DiskOK(s, e), NEW d \in Inums, NEW n \in Names, NEW i \in Inums,
         s.dir[d].ents[n] = i, NEW t, Sound(t), BlocksOK(t), SameLinks(s, t),
         t.dir = NewEntry(s.dir, d, n, 0), NEW e2 \in [Inums -> Int],
         \A j \in Inums : e2[j] <= e[j] + Is(i, j)
                                     + (IF s.disk[i].type = "dir" THEN Is(d, j) ELSE 0)
  PROVE  DiskOK(t, e2)
<1>1. /\ \A j \in Inums : j # d => t.dir[j] = s.dir[j]
      /\ \A j \in Inums : t.dir[j].dotdot = s.dir[j].dotdot
      /\ \A j \in Inums, m \in Names :
            t.dir[j].ents[m] = IF j = d /\ m = n THEN 0 ELSE s.dir[j].ents[m]
  <2>1. OneEntry(s.dir, d, n, 0, t.dir)
    BY NewEntryIs
  <2> QED
    BY <2>1 DEF OneEntry
<1>2. \A j \in Inums : j # 0
  BY DEF Inums
<1>3. \A j \in Inums : NamingIn(t.dir, j) \subseteq NamingIn(s.dir, j)
  BY <1>1, <1>2 DEF NamingIn
<1>4. \A j \in Inums : ChildrenIn(t.dir, j) \subseteq ChildrenIn(s.dir, j)
  BY <1>1, <1>3 DEF ChildrenIn
<1>5. FreeOK(t)
  BY DEF DiskOK, FreeOK, SameLinks
<1>6. LeafOK(t)
  <2>1. s.disk[d].type = "dir"
    BY <1>2, NoEntriesIs DEF DiskOK, LeafOK
  <2> QED
    BY <1>1, <2>1 DEF DiskOK, LeafOK, SameLinks
<1>7. OneName(t)
  BY <1>1, <1>3 DEF DiskOK, OneName, SameLinks
<1>8. Acyclic(t)
  <2>1. ASSUME NEW dd \in Inums, NEW m \in Names, t.dir[dd].ents[m] # 0,
               t.disk[t.dir[dd].ents[m]].type = "dir"
        PROVE  /\ s.dir[dd].ents[m] = t.dir[dd].ents[m]
               /\ s.disk[t.dir[dd].ents[m]].type = "dir"
    <3>1. s.dir[dd].ents[m] = t.dir[dd].ents[m]
      BY <1>1, <2>1
    <3> QED
      BY <2>1, <3>1, EntriesAreInums DEF SameLinks
  <2>8. NoMoreDirs(s, t)
    BY <2>1 DEF NoMoreDirs
  <2>9. Acyclic(s)
    BY DEF DiskOK
  <2> QED
    BY <2>8, <2>9, AcyclicStays
<1>9. Covers(t, e2)
  <2>1. \A j \in Inums : t.disk[j].nlink = s.disk[j].nlink
    BY DEF SameLinks
  <2>2. /\ <<d, n>> \in NamingIn(s.dir, i) /\ <<d, n>> \notin NamingIn(t.dir, i)
    BY <1>1, <1>2 DEF NamingIn
  <2>3. Cardinality(NamingIn(t.dir, i)) <= Cardinality(NamingIn(s.dir, i)) - 1
    <3>1. /\ IsFiniteSet(NamingIn(s.dir, i) \ {<<d, n>>})
          /\ Cardinality(NamingIn(s.dir, i) \ {<<d, n>>}) = Cardinality(NamingIn(s.dir, i)) - 1
      <4>1. IsFiniteSet(NamingIn(s.dir, i))
        BY NamesFinite
      <4> QED
        BY <2>2, <4>1, FS_RemoveElement
    <3>2. NamingIn(t.dir, i) \subseteq NamingIn(s.dir, i) \ {<<d, n>>}
      BY <1>3, <2>2
    <3> QED
      BY <3>1, <3>2, FS_Subset
  <2>4. s.disk[i].type = "dir" =>
          Cardinality(ChildrenIn(t.dir, d)) <= Cardinality(ChildrenIn(s.dir, d)) - 1
    <3> SUFFICES ASSUME s.disk[i].type = "dir"
                 PROVE  Cardinality(ChildrenIn(t.dir, d)) <= Cardinality(ChildrenIn(s.dir, d)) - 1
      OBVIOUS
    <3>1. s.dir[i].dotdot = d /\ \A y \in NamingIn(s.dir, i) : <<d, n>> = y
      <4>1. \A x \in NamingIn(s.dir, i) :
               s.dir[i].dotdot = x[1] /\ \A y \in NamingIn(s.dir, i) : x = y
        BY DEF DiskOK, OneName
      <4>2. /\ s.dir[i].dotdot = <<d, n>>[1]
            /\ \A y \in NamingIn(s.dir, i) : <<d, n>> = y
        BY <2>2, <4>1
      <4> QED
        BY <4>2
    <3>2. NamingIn(t.dir, i) = {}
      BY <1>3, <2>2, <3>1
    <3>3. i \in ChildrenIn(s.dir, d) /\ i \notin ChildrenIn(t.dir, d)
      BY <2>2, <3>1, <3>2 DEF ChildrenIn
    <3>4. /\ IsFiniteSet(ChildrenIn(s.dir, d) \ {i})
          /\ Cardinality(ChildrenIn(s.dir, d) \ {i}) = Cardinality(ChildrenIn(s.dir, d)) - 1
      BY <3>3, NamesFinite, FS_RemoveElement
    <3>5. ChildrenIn(t.dir, d) \subseteq ChildrenIn(s.dir, d) \ {i}
      BY <1>4, <3>3
    <3> QED
      BY <3>4, <3>5, FS_Subset
  <2>5. ASSUME NEW j \in Inums PROVE Named(t.dir, j) + e2[j] <= Named(s.dir, j) + e[j]
    <3> DEFINE nn == Cardinality(NamingIn(s.dir, j))
               cc == Cardinality(ChildrenIn(s.dir, j))
               n2 == Cardinality(NamingIn(t.dir, j))
               c2 == Cardinality(ChildrenIn(t.dir, j))
               k == IF s.disk[i].type = "dir" THEN Is(d, j) ELSE 0
    <3>1. nn \in Nat /\ cc \in Nat /\ n2 \in Nat /\ c2 \in Nat /\ n2 <= nn /\ c2 <= cc
      BY <1>3, <1>4, NamesFinite, FewerNames
    <3>2. n2 + Is(i, j) <= nn
      BY <2>3, <3>1 DEF Is
    <3>3. c2 + k <= cc
      BY <2>4, <3>1 DEF Is
    <3>4. e2[j] <= e[j] + Is(i, j) + k /\ e2[j] \in Int /\ e[j] \in Int
      BY LinksAreNat
    <3>5. Is(i, j) \in Nat /\ k \in Nat
      BY DEF Is
    <3>6. Named(s.dir, j) = nn + cc /\ Named(t.dir, j) = n2 + c2
      BY DEF Named
    <3> HIDE DEF nn, cc, n2, c2, k
    <3> QED
      BY <3>1, <3>2, <3>3, <3>4, <3>5, <3>6
  <2> QED
    BY <2>1, <2>5, CoversStays
<1> QED
  BY <1>5, <1>6, <1>7, <1>8, <1>9 DEF DiskOK

(* An entry for i, which is no directory or one that nothing names yet.    *)
Fits(s, d, i) ==
    s.disk[i].type = "dir" => /\ NamingIn(s.dir, i) = {} /\ s.dir[i].dotdot = d /\ i # d
                              /\ \A m \in Names : s.dir[i].ents[m] = 0

LEMMA EntryInTree ==
  ASSUME NEW s, NEW e, DiskOK(s, e), NEW d \in Inums, NEW n \in Names, NEW i \in Inums,
         s.dir[d].ents[n] = 0, Fits(s, d, i), NEW t, SameLinks(s, t),
         t.dir = NewEntry(s.dir, d, n, i)
  PROVE  Acyclic(t)
<1>1. \A j \in Inums, m \in Names :
         t.dir[j].ents[m] = IF j = d /\ m = n THEN i ELSE s.dir[j].ents[m]
  <2>1. OneEntry(s.dir, d, n, i, t.dir)
    BY NewEntryIs
  <2> QED
    BY <2>1 DEF OneEntry
<1>2. \A j \in Inums, m \in Names : s.dir[j].ents[m] # 0 => s.dir[j].ents[m] \in Inums
  BY EntriesAreInums
<1>3. PICK rank \in [Inums -> Nat] : Below(s, rank)
  BY DEF DiskOK, Acyclic
<1>4. CASE s.disk[i].type # "dir"
  <2>1. ASSUME NEW j \in Inums, NEW m \in Names, t.dir[j].ents[m] # 0,
               t.disk[t.dir[j].ents[m]].type = "dir"
        PROVE  /\ t.dir[j].ents[m] = s.dir[j].ents[m]
               /\ s.disk[t.dir[j].ents[m]].type = "dir"
    <3>1. t.disk[i].type # "dir"
      BY <1>4 DEF SameLinks
    <3>2. t.dir[j].ents[m] = s.dir[j].ents[m]
      BY <1>1, <2>1, <3>1
    <3> QED
      BY <1>2, <2>1, <3>2 DEF SameLinks
  <2>8. NoMoreDirs(s, t)
    BY <2>1 DEF NoMoreDirs
  <2>9. Acyclic(s)
    BY DEF DiskOK
  <2> QED
    BY <2>8, <2>9, AcyclicStays
<1>5. CASE s.disk[i].type = "dir"
  <2> DEFINE r == [j \in Inums |-> IF j = i THEN 0 ELSE rank[j] + 1]
  <2>1. r \in [Inums -> Nat]
    OBVIOUS
  <2>2. ASSUME NEW j \in Inums, NEW m \in Names, t.dir[j].ents[m] # 0,
               t.disk[t.dir[j].ents[m]].type = "dir"
        PROVE  r[t.dir[j].ents[m]] < r[j]
    <3>1. CASE j = d /\ m = n
      <4>1. t.dir[j].ents[m] = i /\ j # i
        BY <1>1, <1>5, <3>1 DEF Fits
      <4> QED
        BY <4>1
    <3>2. CASE ~(j = d /\ m = n)
      <4> DEFINE k == s.dir[j].ents[m]
      <4>1. t.dir[j].ents[m] = k /\ k \in Inums
        BY <1>1, <1>2, <2>2, <3>2
      <4>2. k # i
        <5> SUFFICES ASSUME k = i PROVE FALSE
          OBVIOUS
        <5>1. <<j, m>> \in NamingIn(s.dir, i)
          BY DEF NamingIn
        <5> QED
          BY <1>5, <5>1 DEF Fits
      <4>3. j # i
        BY <1>5, <2>2, <4>1 DEF Fits
      <4>4. rank[k] < rank[j]
        BY <1>3, <2>2, <4>1 DEF Below, SameLinks
      <4> HIDE DEF k
      <4> QED
        BY <4>1, <4>2, <4>3, <4>4
    <3> QED
      BY <3>1, <3>2
  <2> HIDE DEF r
  <2>3. Below(t, r)
    BY <2>2 DEF Below
  <2> QED
    BY <2>1, <2>3 DEF Acyclic
<1> QED
  BY <1>4, <1>5

LEMMA EntryInOK ==
  ASSUME NEW s, NEW e, DiskOK(s, e), NEW d \in Inums, NEW n, NEW i \in Inums,
         s.disk[d].type = "dir", n \in Names => s.dir[d].ents[n] = 0, Fits(s, d, i),
         NEW t, Sound(t), BlocksOK(t), SameLinks(s, t),
         t.dir = NewEntry(s.dir, d, n, i), NEW e2 \in [Inums -> Int],
         \A j \in Inums : e2[j] + Is(i, j) + (IF s.disk[i].type = "dir" THEN Is(d, j) ELSE 0)
                            <= e[j]
  PROVE  DiskOK(t, e2)
<1> DEFINE k(j) == IF s.disk[i].type = "dir" THEN Is(d, j) ELSE 0
<1>0. \A j \in Inums : /\ Is(i, j) \in Nat /\ k(j) \in Nat /\ e2[j] \in Int /\ e[j] \in Int
                       /\ e2[j] + Is(i, j) + k(j) <= e[j]
  BY LinksAreNat DEF Is
<1> HIDE DEF k
<1>a. CASE n \notin Names
  <2>1. t.dir = s.dir
    <3>1. OneEntry(s.dir, d, n, i, t.dir)
      BY NewEntryIs
    <3> QED
      BY <1>a, <3>1 DEF OneEntry
  <2>2. NotMore(e, e2)
    BY <1>0 DEF NotMore
  <2> QED
    BY <2>1, <2>2, ContentsOK
<1>b. CASE n \in Names
  <2>1. /\ \A j \in Inums : j # d => t.dir[j] = s.dir[j]
        /\ \A j \in Inums : t.dir[j].dotdot = s.dir[j].dotdot
        /\ \A j \in Inums, m \in Names :
              t.dir[j].ents[m] = IF j = d /\ m = n THEN i ELSE s.dir[j].ents[m]
    <3>1. OneEntry(s.dir, d, n, i, t.dir)
      BY NewEntryIs
    <3> QED
      BY <3>1 DEF OneEntry
  <2>2. \A j \in Inums : j # 0
    BY DEF Inums
  <2>3. /\ \A j \in Inums : j # i => NamingIn(t.dir, j) = NamingIn(s.dir, j)
        /\ NamingIn(t.dir, i) = NamingIn(s.dir, i) \cup {<<d, n>>}
        /\ <<d, n>> \notin NamingIn(s.dir, i)
    BY <1>b, <2>1, <2>2 DEF NamingIn
  <2>4. FreeOK(t) /\ LeafOK(t)
    BY <2>1 DEF DiskOK, FreeOK, LeafOK, SameLinks
  <2>5. OneName(t)
    <3> SUFFICES ASSUME NEW j \in Inums, s.disk[j].type = "dir", NEW x \in NamingIn(t.dir, j)
                 PROVE  t.dir[j].dotdot = x[1] /\ \A y \in NamingIn(t.dir, j) : x = y
      BY DEF OneName, SameLinks
    <3>1. CASE j # i
      BY <2>1, <2>3, <3>1 DEF DiskOK, OneName
    <3>2. CASE j = i
      <4>1. NamingIn(t.dir, i) = {<<d, n>>} /\ t.dir[i].dotdot = d
        BY <2>1, <2>3, <3>2 DEF Fits
      <4> QED
        BY <3>2, <4>1
    <3> QED
      BY <3>1, <3>2
  <2>6. Acyclic(t)
    BY <1>b, EntryInTree
  <2>7. Covers(t, e2)
    <3>1. \A j \in Inums : t.disk[j].nlink = s.disk[j].nlink
      BY DEF SameLinks
    <3>2. Cardinality(NamingIn(t.dir, i)) = Cardinality(NamingIn(s.dir, i)) + 1
      BY <2>3, NamesFinite, FS_AddElement
    <3>3. ASSUME NEW j \in Inums
          PROVE  \/ ChildrenIn(t.dir, j) = ChildrenIn(s.dir, j)
                 \/ /\ k(j) = 1 /\ i \notin ChildrenIn(s.dir, j)
                    /\ ChildrenIn(t.dir, j) = ChildrenIn(s.dir, j) \cup {i}
      <4>1. \A c \in Inums : c # i => (c \in ChildrenIn(t.dir, j) <=> c \in ChildrenIn(s.dir, j))
        BY <2>1, <2>3 DEF ChildrenIn
      <4>2. ChildrenIn(t.dir, j) \subseteq Inums /\ ChildrenIn(s.dir, j) \subseteq Inums
        BY DEF ChildrenIn
      <4>3. CASE s.dir[i].dotdot # j
        <5>1. i \notin ChildrenIn(t.dir, j) /\ i \notin ChildrenIn(s.dir, j)
          BY <2>1, <4>3 DEF ChildrenIn
        <5>2. \A c \in Inums : c \in ChildrenIn(t.dir, j) <=> c \in ChildrenIn(s.dir, j)
          BY <4>1, <5>1
        <5> QED
          BY <4>2, <5>2
      <4>4. CASE s.dir[i].dotdot = j
        <5>1. s.disk[i].type = "dir"
          BY <2>2, <4>4, NoEntriesIs DEF DiskOK, LeafOK
        <5>2. j = d /\ NamingIn(s.dir, i) = {}
          BY <4>4, <5>1 DEF Fits
        <5>3. i \notin ChildrenIn(s.dir, j) /\ i \in ChildrenIn(t.dir, j)
          BY <2>1, <2>3, <4>4, <5>2 DEF ChildrenIn
        <5>4. k(j) = 1
          BY <5>1, <5>2 DEF k, Is
        <5> QED
          BY <4>1, <4>2, <5>3, <5>4
      <4> QED
        BY <4>3, <4>4
    <3>4. ASSUME NEW j \in Inums PROVE Named(t.dir, j) + e2[j] <= Named(s.dir, j) + e[j]
      <4> DEFINE nn == Cardinality(NamingIn(s.dir, j))
                 cc == Cardinality(ChildrenIn(s.dir, j))
                 n2 == Cardinality(NamingIn(t.dir, j))
                 c2 == Cardinality(ChildrenIn(t.dir, j))
      <4>1. nn \in Nat /\ cc \in Nat /\ n2 \in Nat /\ c2 \in Nat
        BY NamesFinite
      <4>2. n2 = nn + Is(i, j)
        BY <2>3, <3>2, <4>1 DEF Is
      <4>3. c2 <= cc + k(j)
        <5>1. CASE ChildrenIn(t.dir, j) = ChildrenIn(s.dir, j)
          BY <1>0, <4>1, <5>1
        <5>2. CASE /\ k(j) = 1 /\ i \notin ChildrenIn(s.dir, j)
                   /\ ChildrenIn(t.dir, j) = ChildrenIn(s.dir, j) \cup {i}
          <6>1. Cardinality(ChildrenIn(s.dir, j) \cup {i}) = cc + 1
            BY <5>2, NamesFinite, FS_AddElement
          <6> QED
            BY <4>1, <5>2, <6>1
        <5> QED
          BY <3>3, <5>1, <5>2
      <4>4. Named(s.dir, j) = nn + cc /\ Named(t.dir, j) = n2 + c2
        BY DEF Named
      <4> HIDE DEF nn, cc, n2, c2
      <4> QED
        BY <1>0, <4>1, <4>2, <4>3, <4>4
    <3> QED
      BY <3>1, <3>4, CoversStays
  <2> QED
    BY <2>4, <2>5, <2>6, <2>7 DEF DiskOK
<1> QED
  BY <1>a, <1>b

(* ".." of a directory that nothing names.                                 *)
LEMMA DotdotOK ==
  ASSUME NEW s, NEW e, DiskOK(s, e), NEW i \in Inums, s.disk[i].type = "dir",
         NamingIn(s.dir, i) = {}, NEW d \in Inums, NEW t, Sound(t), BlocksOK(t),
         SameLinks(s, t), t.dir = NewDotdot(s.dir, i, d)
  PROVE  /\ DiskOK(t, e) /\ \A j \in Inums : j # i => t.dir[j] = s.dir[j]
         /\ t.dir[i].dotdot = d /\ t.dir[i].ents = s.dir[i].ents
         /\ \A j \in Inums : NamingIn(t.dir, j) = NamingIn(s.dir, j)
<1>1. s.dir \in [Inums -> Directory]
  BY DEF DiskOK, Sound, Typed, Shape
<1>2. /\ \A j \in Inums : j # i => t.dir[j] = s.dir[j]
      /\ t.dir[i].dotdot = d /\ t.dir[i].ents = s.dir[i].ents
  BY <1>1 DEF NewDotdot, Directory
<1>3. \A j \in Inums : t.dir[j].ents = s.dir[j].ents
  BY <1>2
<1>4. \A j \in Inums : NamingIn(t.dir, j) = NamingIn(s.dir, j)
  BY <1>3 DEF NamingIn
<1>5. \A j \in Inums : ChildrenIn(t.dir, j) = ChildrenIn(s.dir, j)
  BY <1>2, <1>4 DEF ChildrenIn
<1>6. FreeOK(t) /\ LeafOK(t)
  BY <1>2 DEF DiskOK, FreeOK, LeafOK, SameLinks
<1>7. OneName(t)
  BY <1>2, <1>4 DEF DiskOK, OneName, SameLinks
<1>8. Acyclic(t)
  <2>1. \A dd \in Inums, m \in Names : s.dir[dd].ents[m] # 0 => s.dir[dd].ents[m] \in Inums
    BY EntriesAreInums
  <2>2. ASSUME NEW dd \in Inums, NEW m \in Names, t.dir[dd].ents[m] # 0,
               t.disk[t.dir[dd].ents[m]].type = "dir"
        PROVE  /\ t.dir[dd].ents[m] = s.dir[dd].ents[m]
               /\ s.disk[t.dir[dd].ents[m]].type = "dir"
    BY <1>3, <2>1, <2>2 DEF SameLinks
  <2>8. NoMoreDirs(s, t)
    BY <2>2 DEF NoMoreDirs
  <2>9. Acyclic(s)
    BY DEF DiskOK
  <2> QED
    BY <2>8, <2>9, AcyclicStays
<1>9. Covers(t, e)
  <2>1. e \in [Inums -> Int] /\ \A j \in Inums : t.disk[j].nlink = s.disk[j].nlink
    BY DEF DiskOK, SameLinks
  <2>2. \A j \in Inums : Named(t.dir, j) + e[j] <= Named(s.dir, j) + e[j]
    BY <1>4, <1>5, LinksAreNat DEF Named
  <2> QED
    BY <2>1, <2>2, CoversStays
<1> QED
  BY <1>2, <1>4, <1>6, <1>7, <1>8, <1>9 DEF DiskOK

=============================================================================
