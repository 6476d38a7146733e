---------------------------- MODULE FileSysProofs ----------------------------
(* The file system, for any number of processes, files and inodes and any  *)
(* programs: every reference count is the number of its references, and    *)
(* iput() never sleeps while it holds a spinlock.  Unless some call goes   *)
(* up from a directory that has been removed, the entries are a tree on    *)
(* the disk with the right link counts and no block in use twice, no call  *)
(* panics, no locks are taken in a circle, and only what is unused is      *)
(* freed.                                                                  *)
EXTENDS FileSys, InodeProofs, TLAPS

-----------------------------------------------------------------------------
(* Counting what the processes have                                        *)

(* Each has its own in a set of its own.                                   *)
Family(A) == UNION {{q} \X A[q] : q \in Procs}

LEMMA FamilyFinite ==
  ASSUME NEW A, \A q \in Procs : IsFiniteSet(A[q])
  PROVE  IsFiniteSet(Family(A)) /\ Cardinality(Family(A)) \in Nat
<1> DEFINE f == [q \in Procs |-> {q} \X A[q]]
           S == {{q} \X A[q] : q \in Procs}
<1>1. IsFiniteSet(Procs)
  BY FileSysAssumption DEF FileSysAssumption
<1>2. f \in Surjection(Procs, S)
  BY DEF Surjection
<1>3. IsFiniteSet(S)
  BY <1>1, <1>2, FS_Surjection
<1>4. \A q \in Procs : IsFiniteSet({q} \X A[q])
  BY FS_Singleton, FS_Product
<1>5. \A T \in S : IsFiniteSet(T)
  BY <1>4
<1> HIDE DEF f, S
<1>6. IsFiniteSet(UNION S)
  BY <1>3, <1>5, FS_UNION
<1> QED
  BY <1>6, FS_CardinalityType DEF Family, S

LEMMA FamilyChange ==
  ASSUME NEW A, NEW C, NEW p \in Procs, \A q \in Procs : IsFiniteSet(A[q]),
         IsFiniteSet(C[p]), \A q \in Procs : q # p => C[q] = A[q]
  PROVE  /\ Cardinality(Family(A)) \in Nat /\ Cardinality(Family(C)) \in Nat
         /\ Cardinality(A[p]) \in Nat /\ Cardinality(C[p]) \in Nat
         /\ Cardinality(Family(C)) + Cardinality(A[p])
              = Cardinality(Family(A)) + Cardinality(C[p])
<1> DEFINE R == UNION {{q} \X A[q] : q \in Procs \ {p}}
           X == {p} \X A[p]
           Y == {p} \X C[p]
<1>1. \A q \in Procs : IsFiniteSet(A[q]) /\ IsFiniteSet(C[q])
  OBVIOUS
<1>2. Family(A) = R \cup X /\ Family(C) = R \cup Y
  BY DEF Family
<1>3. R \cap X = {} /\ R \cap Y = {}
  OBVIOUS
<1>4. /\ IsFiniteSet(Family(A)) /\ Cardinality(Family(A)) \in Nat
      /\ IsFiniteSet(Family(C)) /\ Cardinality(Family(C)) \in Nat
  BY <1>1, FamilyFinite
<1>5. R \subseteq Family(A)
  BY <1>2
<1>6. IsFiniteSet(R) /\ Cardinality(R) \in Nat
  BY <1>4, <1>5, FS_Subset, FS_CardinalityType
<1>7. IsFiniteSet({p}) /\ Cardinality({p}) = 1
  BY FS_Singleton
<1>8. Cardinality(A[p]) \in Nat /\ Cardinality(C[p]) \in Nat
  BY <1>1, FS_CardinalityType
<1>9. /\ IsFiniteSet(X) /\ Cardinality(X) = 1 * Cardinality(A[p])
      /\ IsFiniteSet(Y) /\ Cardinality(Y) = 1 * Cardinality(C[p])
  BY <1>1, <1>7, FS_Product
<1> HIDE DEF R, X, Y
<1>10. Cardinality(R \cap X) = 0 /\ Cardinality(R \cap Y) = 0
  BY <1>3, FS_EmptySet
<1>11. /\ Cardinality(R \cup X) = Cardinality(R) + Cardinality(X) - Cardinality(R \cap X)
       /\ Cardinality(R \cup Y) = Cardinality(R) + Cardinality(Y) - Cardinality(R \cap Y)
  BY <1>6, <1>9, FS_Union
<1> QED
  BY <1>2, <1>4, <1>6, <1>8, <1>9, <1>10, <1>11

-----------------------------------------------------------------------------
(* What a call owes and holds                                              *)

Todos == [op : {"unlock", "put", "trunc", "drop"}, i : Inums]
Puts(a, i) == {k \in DOMAIN a : a[k].op # "unlock" /\ a[k].i = i}
Owes(a, i) == Cardinality(Puts(a, i))
IsPut(t, i) == t.op # "unlock" /\ t.i = i

LEMMA PutsFinite ==
  ASSUME NEW a \in Seq(Todos), NEW i
  PROVE  IsFiniteSet(Puts(a, i)) /\ Owes(a, i) \in Nat
<1>1. DOMAIN a = 1..Len(a) /\ Len(a) \in Nat
  OBVIOUS
<1>2. IsFiniteSet(1..Len(a))
  BY <1>1, FS_Interval
<1>3. Puts(a, i) \subseteq 1..Len(a)
  BY <1>1 DEF Puts
<1> QED
  BY <1>2, <1>3, FS_Subset, FS_CardinalityType DEF Owes

LEMMA OwesNothing == \A i : Owes(<<>>, i) = 0
  BY FS_EmptySet DEF Owes, Puts

LEMMA OwesTail ==
  ASSUME NEW a \in Seq(Todos), a # <<>>, NEW i
  PROVE  Owes(a, i) = Owes(Tail(a), i) + B(IsPut(Head(a), i))
<1> DEFINE T == Puts(Tail(a), i)
           S == Puts(a, i) \ {1}
           f == [k \in T |-> k + 1]
<1>1. /\ Len(a) \in Nat \ {0} /\ Tail(a) \in Seq(Todos) /\ Len(Tail(a)) = Len(a) - 1
      /\ Head(a) = a[1] /\ DOMAIN a = 1..Len(a) /\ DOMAIN Tail(a) = 1..(Len(a) - 1)
      /\ \A k \in 1..(Len(a) - 1) : Tail(a)[k] = a[k + 1]
  OBVIOUS
<1>2. IsFiniteSet(T) /\ Cardinality(T) \in Nat /\ IsFiniteSet(Puts(a, i))
  BY <1>1, PutsFinite DEF Owes
<1>3. \A k \in T : k \in 1..(Len(a) - 1) /\ k + 1 \in S
  BY <1>1 DEF Puts
<1>4. \A k \in S : k - 1 \in T /\ (k - 1) + 1 = k
  <2> TAKE k \in S
  <2>1. k \in 2..Len(a) /\ a[k].op # "unlock" /\ a[k].i = i
    BY <1>1 DEF Puts
  <2>2. k - 1 \in 1..(Len(a) - 1) /\ (k - 1) + 1 = k
    BY <2>1
  <2>3. Tail(a)[k - 1] = a[k]
    BY <1>1, <2>2
  <2> QED
    BY <1>1, <2>1, <2>2, <2>3 DEF Puts
<1> HIDE DEF S, T
<1>5. f \in [T -> S] /\ \A k \in T : f[k] = k + 1
  BY <1>3
<1>6. \A j \in T, k \in T : f[j] = f[k] => j = k
  BY <1>3, <1>5
<1>7. \A k \in S : \E j \in T : f[j] = k
  BY <1>4, <1>5
<1> HIDE DEF f
<1>8. f \in Bijection(T, S)
  BY <1>5, <1>6, <1>7 DEF Bijection, Injection, Surjection, IsInjective
<1>9. Cardinality(S) = Cardinality(T)
  BY <1>2, <1>8, FS_Bijection DEF ExistsBijection
<1>10. Cardinality(S) = IF 1 \in Puts(a, i) THEN Cardinality(Puts(a, i)) - 1
                        ELSE Cardinality(Puts(a, i))
  BY <1>2, FS_RemoveElement DEF S
<1>11. 1 \in Puts(a, i) <=> IsPut(Head(a), i)
  BY <1>1 DEF Puts, IsPut
<1>12. Cardinality(Puts(a, i)) \in Nat
  BY <1>2, FS_CardinalityType
<1>13. Cardinality(Puts(a, i)) = Cardinality(T) + B(IsPut(Head(a), i))
  BY <1>2, <1>9, <1>10, <1>11, <1>12 DEF B
<1> QED
  BY <1>13 DEF Owes, T

Relabelled(a, op) == [a EXCEPT ![1].op = op]

LEMMA OwesRelabelled ==
  ASSUME NEW a \in Seq(Todos), a # <<>>, a[1].op # "unlock",
         NEW op \in {"put", "trunc", "drop"}
  PROVE  /\ Relabelled(a, op) \in Seq(Todos)
         /\ \A i : Owes(Relabelled(a, op), i) = Owes(a, i)
<1> DEFINE b == [a EXCEPT ![1].op = op]
<1>1. DOMAIN a = 1..Len(a) /\ Len(a) \in Nat \ {0} /\ a[1] \in Todos
  OBVIOUS
<1>2. b = [k \in 1..Len(a) |-> IF k = 1 THEN [a[1] EXCEPT !.op = op] ELSE a[k]]
  BY <1>1
<1>3. [a[1] EXCEPT !.op = op] \in Todos
  BY <1>1 DEF Todos
<1>4. b \in [1..Len(a) -> Todos]
  BY <1>1, <1>2, <1>3
<1>5. b \in Seq(Todos)
  BY <1>1, <1>4
<1>6. \A k \in 1..Len(a) : b[k].i = a[k].i /\ (b[k].op # "unlock" <=> a[k].op # "unlock")
  BY <1>1, <1>2 DEF Todos
<1>7. \A i : Puts(b, i) = Puts(a, i)
  BY <1>1, <1>4, <1>6 DEF Puts
<1> QED
  BY <1>5, <1>7 DEF Owes, Relabelled

LEMMA OwesSome ==
  /\ \A t \in Todos : \A i : Owes(<<t>>, i) = B(IsPut(t, i))
  /\ \A t \in Todos, u \in Todos : \A i : Owes(<<t, u>>, i) = B(IsPut(t, i)) + B(IsPut(u, i))
  /\ \A t \in Todos, u \in Todos, v \in Todos : \A i :
       Owes(<<t, u, v>>, i) = B(IsPut(t, i)) + B(IsPut(u, i)) + B(IsPut(v, i))
<1> USE DEF B
<1>1. ASSUME NEW t \in Todos, NEW i PROVE Owes(<<t>>, i) = B(IsPut(t, i))
  <2>1. <<t>> \in Seq(Todos) /\ Tail(<<t>>) = <<>> /\ Head(<<t>>) = t /\ <<t>> # <<>>
    OBVIOUS
  <2>2. Owes(<<t>>, i) = Owes(<<>>, i) + B(IsPut(t, i))
    BY <2>1, OwesTail
  <2> QED
    BY <2>2, OwesNothing
<1>2. ASSUME NEW t \in Todos, NEW u \in Todos, NEW i
      PROVE  Owes(<<t, u>>, i) = B(IsPut(t, i)) + B(IsPut(u, i))
  <2>1. /\ <<t, u>> \in Seq(Todos) /\ Tail(<<t, u>>) = <<u>> /\ Head(<<t, u>>) = t
        /\ <<t, u>> # <<>>
    OBVIOUS
  <2>2. Owes(<<t, u>>, i) = Owes(<<u>>, i) + B(IsPut(t, i))
    BY <2>1, OwesTail
  <2> QED
    BY <2>2, <1>1
<1>3. ASSUME NEW t \in Todos, NEW u \in Todos, NEW v \in Todos, NEW i
      PROVE  Owes(<<t, u, v>>, i) = B(IsPut(t, i)) + B(IsPut(u, i)) + B(IsPut(v, i))
  <2>1. /\ <<t, u, v>> \in Seq(Todos) /\ Tail(<<t, u, v>>) = <<u, v>>
        /\ Head(<<t, u, v>>) = t /\ <<t, u, v>> # <<>>
    OBVIOUS
  <2>2. Owes(<<t, u, v>>, i) = Owes(<<u, v>>, i) + B(IsPut(t, i))
    BY <2>1, OwesTail
  <2> QED
    BY <2>2, <1>2
<1> QED
  BY <1>1, <1>2, <1>3

-----------------------------------------------------------------------------
(* The inductive invariant                                                 *)

Locals == [call : Calls \cup {NoCall}, path : Seq(PathNames), parent : BOOLEAN,
           cur : 0..NInodes, ip : 0..NInodes, dp : 0..NInodes,
           agenda : Seq(Todos), f : 0..NFile, n : 0..2]
Files == [ref : Nat, type : {"none", "inode", "device", "pipe"},
          ip : 0..NInodes, off : Nat, writable : BOOLEAN]

FilesTypeOK ==
    /\ Shape(fs)
    /\ lk \in [Inums -> Procs \cup {Nobody}]
    /\ ft \in [FileIds -> Files] /\ ofile \in [Procs -> [Fds -> 0..NFile]]
    /\ cwd \in [Procs -> 0..NInodes] /\ pc \in [Procs -> PCs]
    /\ l \in [Procs -> Locals]

(* Which inodes a call has in hand at each place.                          *)
HasIp == {"open", "made", "exists", "link", "linkBad", "chdir", "chdirDone",
          "exec", "unlinkLast"}
HasDp == {"create", "unlink"}
HasBoth == {"linkEntry", "new", "unlinkChild"}
HasNone == {"idle", "dead", "write", "exit"}

At(x, place) ==
    /\ place \in HasIp => x.cur = 0 /\ x.ip # 0 /\ x.dp = 0
    /\ place \in HasDp => x.cur = 0 /\ x.ip = 0 /\ x.dp # 0 /\ x.path # <<>>
    /\ place \in HasBoth => x.cur = 0 /\ x.ip # 0 /\ x.dp # 0 /\ x.path # <<>>
    /\ place \in HasNone => x.cur = 0 /\ x.ip = 0 /\ x.dp = 0
    /\ place = "walk" => /\ x.cur # 0 /\ x.dp = 0 /\ x.call \in Calls
                         /\ x.parent = (WantsParent(x.call) \/ x.ip # 0)
                         /\ x.ip # 0 => x.call.op = "link"
    /\ place = "link" => x.call \in Calls /\ x.call.op = "link"

(* Only the first todo can be half done, and an unlock comes with its put. *)
AgendaOK(a) == \A k \in DOMAIN a :
    /\ a[k].op \in {"trunc", "drop"} => k = 1
    /\ a[k].op = "unlock" => k + 1 \in DOMAIN a /\ a[k + 1] = Todo("put", a[k].i)

(* Whose lock a call has.                                                  *)
ToUnlock(a, i) == \E k \in DOMAIN a : a[k].op \in {"trunc", "unlock"} /\ a[k].i = i
Locks(x, place, i) ==
    \/ place \in {"made", "unlinkLast"} /\ x.ip = i
    \/ place \in {"new", "unlinkChild"} /\ x.dp = i
    \/ ToUnlock(x.agenda, i)

ProcessOK(p) ==
    /\ At(l[p], pc[p]) /\ AgendaOK(l[p].agenda)
    /\ IF pc[p] = "dead" THEN cwd[p] = 0 /\ \A d \in Fds : ofile[p][d] = 0
       ELSE cwd[p] # 0
    /\ \A i \in Inums : lk[i] = p => Locks(l[p], pc[p], i)

FileOK(f) == /\ ft[f].type \in {"inode", "device"} => ft[f].ip # 0
             /\ ft[f].ref = 0 => ft[f].type = "none"

FilesInv ==
    /\ FilesTypeOK /\ RefsAgree
    /\ \A p \in Procs : ProcessOK(p)
    /\ \A f \in FileIds : FileOK(f)

LEMMA DirlookupFinds ==
  ASSUME NEW s, Shape(s), NEW d \in Inums, NEW n \in PathNames
  PROVE  LET e == Dirlookup(s, d, n)
         IN  e.i \in 0..NInodes /\ Shape(e.s) /\ e.s.ref = s.ref
<1>1. s.dir[d] \in Directory
  BY DEF Shape
<1>2. s.dir[d].dotdot \in 0..NInodes /\ \A m \in Names : s.dir[d].ents[m] \in 0..NInodes
  BY <1>1 DEF Directory
<1>3. d \in 0..NInodes
  BY InodeAssumption DEF InodeAssumption, Inums
<1>4. EntryAt(s, d, n) \in 0..NInodes
  BY <1>2, <1>3 DEF EntryAt, PathNames
<1> QED
  BY <1>4, DirlookupKeeps

-----------------------------------------------------------------------------
(* One process moves on                                                    *)

Hand(x, i) == {v \in {"cur", "ip", "dp"} : x[v] = i}
InHand(x, i) == Is(x.cur, i) + Is(x.ip, i) + Is(x.dp, i)
OwedBy(m, i) == Family([q \in Procs |-> Puts(m[q].agenda, i)])
HeldBy(m, i) == Family([q \in Procs |-> Hand(m[q], i)])
LiveIn(c, g, i) == {q \in Procs : c[q] = i /\ g[q] # "chdirDone"}

(* The references of all processes to an inode, and those of one.          *)
Refs(m, c, g, i) == Cardinality(LiveIn(c, g, i)) + Cardinality(OwedBy(m, i))
                                                 + Cardinality(HeldBy(m, i))
Lives(c, place, i) == IF place = "chdirDone" THEN 0 ELSE Is(c, i)
Has(x, c, place, i) == Owes(x.agenda, i) + InHand(x, i) + Lives(c, place, i)

LEMMA HandCounted ==
  ASSUME NEW x, NEW i
  PROVE  IsFiniteSet(Hand(x, i)) /\ Cardinality(Hand(x, i)) = InHand(x, i)
         /\ InHand(x, i) \in Nat
<1> DEFINE T1 == {v \in {"cur"} : x[v] = i}
           T2 == {v \in {"cur", "ip"} : x[v] = i}
<1>1. IsFiniteSet({}) /\ Cardinality({}) = 0
  BY FS_EmptySet
<1>2. {} \ {"cur"} = T1 \ {"cur"} /\ ("cur" \in T1 <=> x.cur = i)
  OBVIOUS
<1>3. T1 \ {"ip"} = T2 \ {"ip"} /\ "ip" \notin T1 /\ ("ip" \in T2 <=> x.ip = i)
  OBVIOUS
<1>4. T2 \ {"dp"} = Hand(x, i) \ {"dp"} /\ "dp" \notin T2 /\ ("dp" \in Hand(x, i) <=> x.dp = i)
  BY DEF Hand
<1> HIDE DEF T1, T2
<1>5. Is(x.cur, i) \in Nat /\ Is(x.ip, i) \in Nat /\ Is(x.dp, i) \in Nat
  BY DEF Is
<1>6. IsFiniteSet(T1) /\ Cardinality(T1) \in Nat /\ Cardinality(T1) = Is(x.cur, i)
  <2>1. IsFiniteSet(T1) /\ Cardinality(T1) \in Nat
        /\ Cardinality(T1) + B("cur" \in {}) = Cardinality({}) + B("cur" \in T1)
    BY <1>1, <1>2, OneChange
  <2> QED
    BY <1>1, <1>2, <2>1 DEF B, Is
<1>7. IsFiniteSet(T2) /\ Cardinality(T2) \in Nat
      /\ Cardinality(T2) = Is(x.cur, i) + Is(x.ip, i)
  <2>1. IsFiniteSet(T2) /\ Cardinality(T2) \in Nat
        /\ Cardinality(T2) + B("ip" \in T1) = Cardinality(T1) + B("ip" \in T2)
    BY <1>3, <1>6, OneChange
  <2> QED
    BY <1>3, <1>6, <2>1 DEF B, Is
<1>8. IsFiniteSet(Hand(x, i)) /\ Cardinality(Hand(x, i)) = Is(x.cur, i) + Is(x.ip, i) + Is(x.dp, i)
  <2>1. IsFiniteSet(Hand(x, i)) /\ Cardinality(Hand(x, i)) \in Nat
        /\ Cardinality(Hand(x, i)) + B("dp" \in T2) = Cardinality(T2) + B("dp" \in Hand(x, i))
    BY <1>4, <1>7, OneChange
  <2> QED
    BY <1>4, <1>7, <2>1 DEF B, Is
<1> QED
  BY <1>5, <1>8 DEF InHand

Moved(m, c, g, m2, c2, g2, p, i) ==
    /\ Refs(m, c, g, i) \in Nat /\ Refs(m2, c2, g2, i) \in Nat
    /\ Has(m[p], c[p], g[p], i) \in Nat /\ Has(m2[p], c2[p], g2[p], i) \in Nat
    /\ Refs(m2, c2, g2, i) + Has(m[p], c[p], g[p], i)
         = Refs(m, c, g, i) + Has(m2[p], c2[p], g2[p], i)

LEMMA ProcessMoves ==
  ASSUME NEW m \in [Procs -> Locals], NEW c, NEW g, NEW p \in Procs,
         NEW m2 \in [Procs -> Locals], NEW c2, NEW g2, NEW i,
         \A q \in Procs : q # p => m2[q] = m[q] /\ c2[q] = c[q] /\ g2[q] = g[q]
  PROVE  Moved(m, c, g, m2, c2, g2, p, i)
<1> USE DEF Moved
<1> DEFINE A == [q \in Procs |-> Puts(m[q].agenda, i)]
           A2 == [q \in Procs |-> Puts(m2[q].agenda, i)]
           H == [q \in Procs |-> Hand(m[q], i)]
           H2 == [q \in Procs |-> Hand(m2[q], i)]
           R == LiveIn(c, g, i)
           R2 == LiveIn(c2, g2, i)
<1>1. \A q \in Procs : m[q].agenda \in Seq(Todos) /\ m2[q].agenda \in Seq(Todos)
  BY DEF Locals
<1>2. /\ Cardinality(OwedBy(m, i)) \in Nat /\ Cardinality(OwedBy(m2, i)) \in Nat
      /\ Owes(m[p].agenda, i) \in Nat /\ Owes(m2[p].agenda, i) \in Nat
      /\ Cardinality(OwedBy(m2, i)) + Owes(m[p].agenda, i)
           = Cardinality(OwedBy(m, i)) + Owes(m2[p].agenda, i)
  <2>1. \A q \in Procs : IsFiniteSet(A[q]) /\ IsFiniteSet(A2[q]) /\ (q # p => A2[q] = A[q])
    BY <1>1, PutsFinite
  <2>2. A[p] = Puts(m[p].agenda, i) /\ A2[p] = Puts(m2[p].agenda, i)
    OBVIOUS
  <2> HIDE DEF A, A2
  <2>3. /\ Cardinality(Family(A)) \in Nat /\ Cardinality(Family(A2)) \in Nat
        /\ Cardinality(A[p]) \in Nat /\ Cardinality(A2[p]) \in Nat
        /\ Cardinality(Family(A2)) + Cardinality(A[p]) = Cardinality(Family(A)) + Cardinality(A2[p])
    BY <2>1, FamilyChange
  <2> QED
    BY <2>2, <2>3 DEF OwedBy, Owes, A, A2
<1>3. /\ Cardinality(HeldBy(m, i)) \in Nat /\ Cardinality(HeldBy(m2, i)) \in Nat
      /\ InHand(m[p], i) \in Nat /\ InHand(m2[p], i) \in Nat
      /\ Cardinality(HeldBy(m2, i)) + InHand(m[p], i)
           = Cardinality(HeldBy(m, i)) + InHand(m2[p], i)
  <2>1. \A q \in Procs : IsFiniteSet(H[q]) /\ IsFiniteSet(H2[q]) /\ (q # p => H2[q] = H[q])
    BY HandCounted
  <2>2. H[p] = Hand(m[p], i) /\ H2[p] = Hand(m2[p], i)
    OBVIOUS
  <2> HIDE DEF H, H2
  <2>3. /\ Cardinality(Family(H)) \in Nat /\ Cardinality(Family(H2)) \in Nat
        /\ Cardinality(Family(H2)) + Cardinality(H[p]) = Cardinality(Family(H)) + Cardinality(H2[p])
    BY <2>1, FamilyChange
  <2>4. /\ Cardinality(H[p]) = InHand(m[p], i) /\ InHand(m[p], i) \in Nat
        /\ Cardinality(H2[p]) = InHand(m2[p], i) /\ InHand(m2[p], i) \in Nat
    BY <2>2, HandCounted
  <2> QED
    BY <2>3, <2>4 DEF HeldBy, H, H2
<1>4. /\ Cardinality(R) \in Nat /\ Cardinality(R2) \in Nat
      /\ Cardinality(R2) + B(p \in R) = Cardinality(R) + B(p \in R2)
  <2>1. R \subseteq Procs /\ IsFiniteSet(Procs)
    BY FileSysAssumption DEF LiveIn, FileSysAssumption
  <2>2. IsFiniteSet(R)
    BY <2>1, FS_Subset
  <2>3. R \ {p} = R2 \ {p}
    BY DEF LiveIn
  <2> HIDE DEF R, R2
  <2> QED
    BY <2>2, <2>3, OneChange
<1>5. /\ B(p \in R) = Lives(c[p], g[p], i) /\ B(p \in R) \in Nat
      /\ B(p \in R2) = Lives(c2[p], g2[p], i) /\ B(p \in R2) \in Nat
  BY DEF LiveIn, B, Lives, Is
<1>6. /\ Refs(m, c, g, i) = Cardinality(R) + Cardinality(OwedBy(m, i))
                                           + Cardinality(HeldBy(m, i))
      /\ Refs(m2, c2, g2, i) = Cardinality(R2) + Cardinality(OwedBy(m2, i))
                                               + Cardinality(HeldBy(m2, i))
  BY DEF Refs
<1>7. /\ Has(m[p], c[p], g[p], i) = Owes(m[p].agenda, i) + InHand(m[p], i) + B(p \in R)
      /\ Has(m2[p], c2[p], g2[p], i) = Owes(m2[p].agenda, i) + InHand(m2[p], i) + B(p \in R2)
  BY <1>5 DEF Has
<1>8. B(p \in R) \in Nat /\ B(p \in R2) \in Nat
  BY <1>5
<1> HIDE DEF R, R2
<1> QED
  BY <1>2, <1>3, <1>4, <1>6, <1>7, <1>8

(* RefsAgree, with what the processes have in one number.                  *)
InodeRefs(i) == fs.ref[i] = Cardinality(OpenFiles(i)) + Refs(l, cwd, pc, i)

LEMMA OpenFilesFinite ==
  IsFiniteSet(FileIds) /\ \A i : IsFiniteSet(OpenFiles(i)) /\ Cardinality(OpenFiles(i)) \in Nat
<1>1. IsFiniteSet(FileIds)
  BY FileSysAssumption, FS_Interval DEF FileSysAssumption, FileIds
<1>2. \A i : OpenFiles(i) \subseteq FileIds
  BY DEF OpenFiles
<1> QED
  BY <1>1, <1>2, FS_Subset, FS_CardinalityType

FileRefs(f) == ft[f].ref = Cardinality(Descriptors(f))
Counted == (\A i \in Inums : InodeRefs(i)) /\ (\A f \in FileIds : FileRefs(f))

LEMMA InodesAgree == FilesTypeOK => (RefsAgree <=> Counted)
<1> SUFFICES ASSUME FilesTypeOK PROVE RefsAgree <=> Counted
  OBVIOUS
<1>1. \A i : Owed(i) = OwedBy(l, i)
  BY DEF Owed, OwedBy, Family, Puts
<1>2. \A i : Held(i) = HeldBy(l, i)
  BY DEF Held, HeldBy, Family, Hand
<1>3. \A i : Residents(i) = LiveIn(cwd, pc, i)
  BY DEF Residents, LiveIn
<1>4. ASSUME NEW i
      PROVE  Cardinality(OpenFiles(i)) + Cardinality(Residents(i))
                + Cardinality(Owed(i)) + Cardinality(Held(i))
               = Cardinality(OpenFiles(i)) + Refs(l, cwd, pc, i)
  <2>1. Cardinality(OpenFiles(i)) \in Nat
    BY OpenFilesFinite
  <2>2. \A q \in Procs : l[q].agenda \in Seq(Todos)
    BY DEF FilesTypeOK, Locals
  <2>3. Cardinality(OwedBy(l, i)) \in Nat
    BY <2>2, PutsFinite, FamilyFinite DEF OwedBy
  <2>4. Cardinality(HeldBy(l, i)) \in Nat
    BY HandCounted, FamilyFinite DEF HeldBy
  <2>5. LiveIn(cwd, pc, i) \subseteq Procs /\ IsFiniteSet(Procs)
    BY FileSysAssumption DEF FileSysAssumption, LiveIn
  <2>6. Cardinality(LiveIn(cwd, pc, i)) \in Nat
    BY <2>5, FS_Subset, FS_CardinalityType
  <2> QED
    BY <1>1, <1>2, <1>3, <2>1, <2>3, <2>4, <2>6 DEF Refs
<1> QED
  BY <1>4 DEF RefsAgree, InodeRefs, FileRefs, Counted

(* The places of a process's locks, and what a step may do to lk.          *)
LocksMove(p, x, place) ==
    /\ lk' \in [Inums -> Procs \cup {Nobody}]
    /\ \A i \in Inums : /\ lk'[i] \in {lk[i], p, Nobody}
                        /\ lk'[i] = p => Locks(x, place, i)

LEMMA Balance ==
  ASSUME NEW r \in Nat, NEW r2 \in Nat, NEW o \in Nat, NEW s \in Nat, NEW s2 \in Nat,
         NEW h \in Nat, NEW h2 \in Nat, s2 + h = s + h2, r2 + h = r + h2, r = o + s
  PROVE  r2 = o + s2
OBVIOUS

(* A live process has a directory, a dead one nothing.                     *)
Settled(p, c, place) ==
    IF place = "dead" THEN c = 0 /\ \A d \in Fds : ofile[p][d] = 0 ELSE c # 0

(* The counts move with what p has.                                        *)
Balanced(p, x, c, place) == \A i \in Inums :
    fs'.ref[i] + Has(l[p], cwd[p], pc[p], i) = fs.ref[i] + Has(x, c, place, i)

(* What a step of p has to show when it leaves the files alone.            *)
LEMMA CallMoves ==
  ASSUME FilesInv, NEW p \in Procs, NEW x \in Locals, NEW place \in PCs, NEW c \in 0..NInodes,
         l' = [l EXCEPT ![p] = x], pc' = [pc EXCEPT ![p] = place], cwd' = [cwd EXCEPT ![p] = c],
         UNCHANGED fileVars, Shape(fs'), LocksMove(p, x, place),
         At(x, place), AgendaOK(x.agenda),
         Settled(p, c, place), Balanced(p, x, c, place)
  PROVE  FilesInv'
<1> USE DEF FilesInv
<1>1. FilesTypeOK'
  BY DEF FilesTypeOK, fileVars, LocksMove
<1>2. \A q \in Procs : q # p => l'[q] = l[q] /\ cwd'[q] = cwd[q] /\ pc'[q] = pc[q]
  BY DEF FilesTypeOK
<1>3. l'[p] = x /\ pc'[p] = place /\ cwd'[p] = c
  BY DEF FilesTypeOK
<1>4. \A i : OpenFiles(i)' = OpenFiles(i) /\ Descriptors(i)' = Descriptors(i)
  BY DEF OpenFiles, Descriptors, fileVars
<1> HIDE DEF FilesInv
<1>0. /\ l \in [Procs -> Locals] /\ l' \in [Procs -> Locals] /\ FilesTypeOK /\ RefsAgree
  BY <1>1 DEF FilesInv, FilesTypeOK
<1>5. ASSUME NEW i \in Inums PROVE InodeRefs(i)'
  <2>1. InodeRefs(i)
    BY <1>0, InodesAgree DEF Counted
  <2>2. Moved(l, cwd, pc, l', cwd', pc', p, i)
    BY <1>0, <1>2, ProcessMoves
  <2>3. /\ Refs(l, cwd, pc, i) \in Nat /\ Refs(l', cwd', pc', i) \in Nat
        /\ Has(l[p], cwd[p], pc[p], i) \in Nat /\ Has(l'[p], cwd'[p], pc'[p], i) \in Nat
        /\ Refs(l', cwd', pc', i) + Has(l[p], cwd[p], pc[p], i)
             = Refs(l, cwd, pc, i) + Has(l'[p], cwd'[p], pc'[p], i)
    BY <2>2 DEF Moved
  <2>4. Cardinality(OpenFiles(i)) \in Nat
    BY OpenFilesFinite
  <2>5. fs.ref[i] \in Nat /\ fs'.ref[i] \in Nat
    BY <1>0 DEF FilesTypeOK, Shape
  <2>6. fs'.ref[i] + Has(l[p], cwd[p], pc[p], i) = fs.ref[i] + Has(l'[p], cwd'[p], pc'[p], i)
    BY <1>3 DEF Balanced
  <2>7. fs.ref[i] = Cardinality(OpenFiles(i)) + Refs(l, cwd, pc, i)
    BY <2>1 DEF InodeRefs
  <2>8. fs'.ref[i] = Cardinality(OpenFiles(i)) + Refs(l', cwd', pc', i)
    BY <2>3, <2>4, <2>5, <2>6, <2>7, Balance
  <2> QED
    BY <1>4, <2>8 DEF InodeRefs
<1>6. \A f \in FileIds : FileRefs(f)'
  BY <1>0, <1>4, InodesAgree DEF fileVars, FileRefs, Counted
<1>7. RefsAgree'
  <2>1. FilesTypeOK' => (RefsAgree' <=> Counted')
    BY InodesAgree, PTL
  <2> QED
    BY <1>1, <1>5, <1>6, <2>1 DEF Counted
<1> USE DEF FilesInv
<1>8. ASSUME NEW q \in Procs PROVE ProcessOK(q)'
  <2>1. CASE q = p
    BY <1>3, <2>1 DEF ProcessOK, fileVars, LocksMove, Settled
  <2>2. CASE q # p
    <3>1. \A i \in Inums : lk'[i] = q => lk[i] = q
      BY <2>2, FileSysAssumption DEF LocksMove, FileSysAssumption
    <3> QED
      BY <1>2, <2>2, <3>1 DEF ProcessOK, fileVars
  <2> QED
    BY <2>1, <2>2
<1>9. \A f \in FileIds : FileOK(f)'
  BY DEF FileOK, fileVars
<1> QED
  BY <1>1, <1>7, <1>8, <1>9

Mine(x, i) == Owes(x.agenda, i) + InHand(x, i)

Even(p, x) == \A i \in Inums : fs'.ref[i] + Mine(l[p], i) = fs.ref[i] + Mine(x, i)

(* The same for a step that neither starts, ends nor moves the process to  *)
(* another directory.                                                      *)
LEMMA CallStep ==
  ASSUME FilesInv, NEW p \in Procs, NEW x \in Locals, NEW place \in PCs,
         l' = [l EXCEPT ![p] = x], pc' = [pc EXCEPT ![p] = place],
         UNCHANGED cwd, UNCHANGED fileVars, Shape(fs'), LocksMove(p, x, place),
         At(x, place), AgendaOK(x.agenda),
         place = "dead" <=> pc[p] = "dead", place = "chdirDone" <=> pc[p] = "chdirDone",
         Even(p, x)
  PROVE  FilesInv'
<1>1. FilesTypeOK /\ ProcessOK(p)
  BY DEF FilesInv
<1>2. cwd[p] \in 0..NInodes /\ cwd' = [cwd EXCEPT ![p] = cwd[p]]
  BY <1>1 DEF FilesTypeOK
<1>3. Settled(p, cwd[p], place)
  BY <1>1 DEF ProcessOK, Settled
<1>4. ASSUME NEW i \in Inums
      PROVE  fs'.ref[i] + Has(l[p], cwd[p], pc[p], i) = fs.ref[i] + Has(x, cwd[p], place, i)
  <2>1. fs'.ref[i] \in Nat /\ fs.ref[i] \in Nat
    BY <1>1 DEF FilesTypeOK, Shape
  <2>2. Lives(cwd[p], pc[p], i) = Lives(cwd[p], place, i)
    BY DEF Lives
  <2>3. Lives(cwd[p], place, i) \in Nat
    BY DEF Lives, Is
  <2>4. l[p].agenda \in Seq(Todos) /\ x.agenda \in Seq(Todos)
    BY <1>1 DEF FilesTypeOK, Locals
  <2>5. Mine(l[p], i) \in Nat /\ Mine(x, i) \in Nat
    <3>1. Owes(l[p].agenda, i) \in Nat /\ Owes(x.agenda, i) \in Nat
      BY <2>4, PutsFinite
    <3>2. InHand(l[p], i) \in Nat /\ InHand(x, i) \in Nat
      BY HandCounted
    <3> QED
      BY <3>1, <3>2 DEF Mine
  <2>6. /\ Has(l[p], cwd[p], pc[p], i) = Mine(l[p], i) + Lives(cwd[p], place, i)
        /\ Has(x, cwd[p], place, i) = Mine(x, i) + Lives(cwd[p], place, i)
    BY <2>2 DEF Has, Mine
  <2>7. fs'.ref[i] + Mine(l[p], i) = fs.ref[i] + Mine(x, i)
    BY DEF Even
  <2> QED
    BY <2>1, <2>3, <2>5, <2>6, <2>7
<1>5. Balanced(p, x, cwd[p], place)
  BY <1>4 DEF Balanced
<1> QED
  BY <1>2, <1>3, <1>5, CallMoves

-----------------------------------------------------------------------------
(* What a call leaves behind                                               *)

LEMMA Agendas ==
  /\ <<>> \in Seq(Todos) /\ AgendaOK(<<>>)
  /\ \A i \in Inums :
       /\ <<Todo("put", i)>> \in Seq(Todos) /\ AgendaOK(<<Todo("put", i)>>)
       /\ \A j : Owes(<<Todo("put", i)>>, j) = Is(i, j)
  /\ \A i \in Inums, d \in Inums :
       /\ <<Todo("put", i), Todo("put", d)>> \in Seq(Todos)
       /\ AgendaOK(<<Todo("put", i), Todo("put", d)>>)
       /\ \A j : Owes(<<Todo("put", i), Todo("put", d)>>, j) = Is(i, j) + Is(d, j)
       /\ <<Todo("put", i), Todo("unlock", d), Todo("put", d)>> \in Seq(Todos)
       /\ AgendaOK(<<Todo("put", i), Todo("unlock", d), Todo("put", d)>>)
       /\ \A j : Owes(<<Todo("put", i), Todo("unlock", d), Todo("put", d)>>, j)
                   = Is(i, j) + Is(d, j)
<1>1. AgendaOK(<<>>)
  BY DEF AgendaOK
<1>2. ASSUME NEW i \in Inums
      PROVE  /\ Todo("put", i) \in Todos /\ Todo("unlock", i) \in Todos
             /\ \A j : B(IsPut(Todo("put", i), j)) = Is(i, j)
             /\ \A j : B(IsPut(Todo("unlock", i), j)) = 0
  BY DEF Todo, Todos, B, Is, IsPut
<1>3. ASSUME NEW i \in Inums
      PROVE  /\ <<Todo("put", i)>> \in Seq(Todos) /\ AgendaOK(<<Todo("put", i)>>)
             /\ \A j : Owes(<<Todo("put", i)>>, j) = Is(i, j)
  <2>1. <<Todo("put", i)>> \in Seq(Todos)
    BY <1>2
  <2>2. AgendaOK(<<Todo("put", i)>>)
    BY DEF AgendaOK, Todo
  <2>3. \A j : Owes(<<Todo("put", i)>>, j) = B(IsPut(Todo("put", i), j))
    BY <1>2, OwesSome
  <2> QED
    BY <1>2, <2>1, <2>2, <2>3
<1>4. ASSUME NEW i \in Inums, NEW d \in Inums
      PROVE  /\ <<Todo("put", i), Todo("put", d)>> \in Seq(Todos)
             /\ AgendaOK(<<Todo("put", i), Todo("put", d)>>)
             /\ \A j : Owes(<<Todo("put", i), Todo("put", d)>>, j) = Is(i, j) + Is(d, j)
  <2>1. <<Todo("put", i), Todo("put", d)>> \in Seq(Todos)
    BY <1>2
  <2>2. AgendaOK(<<Todo("put", i), Todo("put", d)>>)
    BY DEF AgendaOK, Todo
  <2>3. \A j : Owes(<<Todo("put", i), Todo("put", d)>>, j)
                 = B(IsPut(Todo("put", i), j)) + B(IsPut(Todo("put", d), j))
    BY <1>2, OwesSome
  <2> QED
    BY <1>2, <2>1, <2>2, <2>3
<1>5. ASSUME NEW i \in Inums, NEW d \in Inums
      PROVE  /\ <<Todo("put", i), Todo("unlock", d), Todo("put", d)>> \in Seq(Todos)
             /\ AgendaOK(<<Todo("put", i), Todo("unlock", d), Todo("put", d)>>)
             /\ \A j : Owes(<<Todo("put", i), Todo("unlock", d), Todo("put", d)>>, j)
                         = Is(i, j) + Is(d, j)
  <2> DEFINE a == <<Todo("put", i), Todo("unlock", d), Todo("put", d)>>
  <2>1. a \in Seq(Todos)
    BY <1>2
  <2>2. AgendaOK(a)
    <3>1. DOMAIN a = 1..3 /\ a[1] = Todo("put", i) /\ a[2] = Todo("unlock", d)
          /\ a[3] = Todo("put", d)
      OBVIOUS
    <3> HIDE DEF a
    <3>2. ASSUME NEW k \in 1..3
          PROVE  /\ a[k].op \in {"trunc", "drop"} => k = 1
                 /\ a[k].op = "unlock" => k + 1 \in 1..3 /\ a[k + 1] = Todo("put", a[k].i)
      <4>1. CASE k = 1
        BY <3>1, <4>1 DEF Todo
      <4>2. CASE k = 2
        <5>1. k + 1 = 3
          BY <4>2
        <5> QED
          BY <3>1, <4>2, <5>1 DEF Todo
      <4>3. CASE k = 3
        BY <3>1, <4>3 DEF Todo
      <4> QED
        BY <4>1, <4>2, <4>3
    <3> QED
      BY <3>1, <3>2 DEF AgendaOK
  <2>3. \A j : Owes(a, j) = B(IsPut(Todo("put", i), j)) + B(IsPut(Todo("unlock", d), j))
                            + B(IsPut(Todo("put", d), j))
    BY <1>2, OwesSome
  <2>4. \A j : Is(i, j) \in Nat /\ Is(d, j) \in Nat
    BY DEF Is
  <2> HIDE DEF a
  <2>5. \A j : Owes(a, j) = Is(i, j) + Is(d, j)
    <3> TAKE j
    <3>1. Owes(a, j) = Is(i, j) + 0 + Is(d, j)
      BY <1>2, <2>3
    <3> QED
      BY <2>4, <3>1
  <2> QED
    BY <2>1, <2>2, <2>5 DEF a
<1> QED
  BY <1>1, <1>3, <1>4, <1>5

LEMMA OweIs ==
  ASSUME NEW a \in Seq(Todos)
  PROVE  /\ Owe(a) \in Locals /\ Owe(a).agenda = a
         /\ Owe(a).cur = 0 /\ Owe(a).ip = 0 /\ Owe(a).dp = 0
         /\ \A j \in Inums : Mine(Owe(a), j) = Owes(a, j)
<1>1. /\ Owe(a).agenda = a /\ Owe(a).cur = 0 /\ Owe(a).ip = 0 /\ Owe(a).dp = 0
  BY DEF Owe, Local0
<1>2. Owe(a) \in Locals
  <2>1. NFile \in Nat /\ NInodes \in Nat
    BY InodeAssumption, FileSysAssumption DEF InodeAssumption, FileSysAssumption
  <2>2. NoCall \in Calls \cup {NoCall} /\ <<>> \in Seq(PathNames)
    OBVIOUS
  <2>3. Local0 \in Locals
    BY <2>1, <2>2 DEF Local0, Locals
  <2> QED
    BY <2>3 DEF Owe, Locals
<1>3. ASSUME NEW j \in Inums PROVE Mine(Owe(a), j) = Owes(a, j)
  <2>1. Is(0, j) = 0
    BY DEF Is, Inums
  <2>2. Owes(a, j) \in Nat
    BY PutsFinite
  <2> QED
    BY <1>1, <2>1, <2>2 DEF Mine, InHand
<1> QED
  BY <1>1, <1>2, <1>3

(* A process between its puts holds a lock only where a call does.         *)
LEMMA OweNothing ==
  /\ Owe(<<>>) \in Locals /\ Owe(<<>>).agenda = <<>> /\ AgendaOK(<<>>)
  /\ Owe(<<>>).cur = 0 /\ Owe(<<>>).ip = 0 /\ Owe(<<>>).dp = 0
  /\ \A j \in Inums : Mine(Owe(<<>>), j) = 0
<1>1. <<>> \in Seq(Todos) /\ AgendaOK(<<>>)
  BY Agendas
<1> QED
  BY <1>1, OweIs, OwesNothing

LEMMA NoLocks ==
  ASSUME FilesInv, NEW p \in Procs, l[p].agenda = <<>>,
         pc[p] \notin {"made", "unlinkLast", "new", "unlinkChild"}
  PROVE  \A i \in Inums : lk[i] # p
BY DEF FilesInv, ProcessOK, Locks, ToUnlock

(* What is in hand, without an agenda.                                     *)
LEMMA MineIs ==
  ASSUME NEW x, NEW j
  PROVE  /\ x.agenda = <<>> => Mine(x, j) = Is(x.cur, j) + Is(x.ip, j) + Is(x.dp, j)
         /\ Is(x.cur, j) \in Nat /\ Is(x.ip, j) \in Nat /\ Is(x.dp, j) \in Nat
         /\ j \in Inums => Is(0, j) = 0
<1>1. Is(x.cur, j) \in Nat /\ Is(x.ip, j) \in Nat /\ Is(x.dp, j) \in Nat
  BY DEF Is
<1>2. j \in Inums => Is(0, j) = 0
  BY DEF Is, Inums
<1>3. x.agenda = <<>> => Owes(x.agenda, j) = 0
  BY OwesNothing
<1> QED
  BY <1>1, <1>2, <1>3 DEF Mine, InHand

-----------------------------------------------------------------------------
(* Unlocks and puts                                                        *)

LEMMA AgendaTail ==
  ASSUME NEW a \in Seq(Todos), a # <<>>, AgendaOK(a)
  PROVE  /\ Tail(a) \in Seq(Todos) /\ AgendaOK(Tail(a)) /\ Head(a) \in Todos
         /\ \A i : ToUnlock(a, i) => \/ ToUnlock(Tail(a), i)
                                     \/ Head(a).op \in {"trunc", "unlock"} /\ Head(a).i = i
<1>1. /\ Len(a) \in Nat \ {0} /\ Tail(a) \in Seq(Todos) /\ Len(Tail(a)) = Len(a) - 1
      /\ Head(a) = a[1] /\ DOMAIN a = 1..Len(a) /\ DOMAIN Tail(a) = 1..(Len(a) - 1)
      /\ \A k \in 1..(Len(a) - 1) : Tail(a)[k] = a[k + 1]
  OBVIOUS
<1>2. ASSUME NEW k \in 1..(Len(a) - 1)
      PROVE  /\ Tail(a)[k].op \in {"trunc", "drop"} => k = 1
             /\ Tail(a)[k].op = "unlock" => /\ k + 1 \in 1..(Len(a) - 1)
                                            /\ Tail(a)[k + 1] = Todo("put", Tail(a)[k].i)
  <2>1. k + 1 \in 1..Len(a) /\ k + 1 # 1 /\ Tail(a)[k] = a[k + 1]
    BY <1>1
  <2>2. Tail(a)[k].op \notin {"trunc", "drop"}
    BY <1>1, <2>1 DEF AgendaOK
  <2>3. ASSUME Tail(a)[k].op = "unlock"
        PROVE  /\ k + 1 \in 1..(Len(a) - 1) /\ Tail(a)[k + 1] = Todo("put", Tail(a)[k].i)
    <3>1. (k + 1) + 1 \in 1..Len(a) /\ a[(k + 1) + 1] = Todo("put", a[k + 1].i)
      BY <1>1, <2>1, <2>3 DEF AgendaOK
    <3>2. k + 1 \in 1..(Len(a) - 1)
      BY <1>1, <3>1
    <3> QED
      BY <1>1, <2>1, <3>1, <3>2
  <2> QED
    BY <2>2, <2>3
<1>3. AgendaOK(Tail(a))
  BY <1>1, <1>2 DEF AgendaOK
<1>4. Head(a) \in Todos
  BY <1>1
<1>5. ASSUME NEW i, ToUnlock(a, i)
      PROVE  \/ ToUnlock(Tail(a), i)
             \/ Head(a).op \in {"trunc", "unlock"} /\ Head(a).i = i
  <2>1. PICK k \in 1..Len(a) : a[k].op \in {"trunc", "unlock"} /\ a[k].i = i
    BY <1>1, <1>5 DEF ToUnlock
  <2>2. CASE k = 1
    BY <1>1, <2>1, <2>2
  <2>3. CASE k # 1
    <3>1. k - 1 \in 1..(Len(a) - 1) /\ (k - 1) + 1 = k
      BY <1>1, <2>3
    <3>2. Tail(a)[k - 1] = a[k]
      BY <1>1, <3>1
    <3> QED
      BY <1>1, <2>1, <3>1, <3>2 DEF ToUnlock
  <2> QED
    BY <2>2, <2>3
<1> QED
  BY <1>1, <1>3, <1>4, <1>5

LEMMA AgendaRelabelled ==
  ASSUME NEW a \in Seq(Todos), a # <<>>, AgendaOK(a), a[1].op # "unlock",
         NEW op \in {"trunc", "drop"}
  PROVE  /\ Relabelled(a, op) \in Seq(Todos) /\ AgendaOK(Relabelled(a, op))
         /\ \A i : Owes(Relabelled(a, op), i) = Owes(a, i)
         /\ \A i : ToUnlock(a, i) => \/ ToUnlock(Relabelled(a, op), i)
                                     \/ a[1].op = "trunc" /\ a[1].i = i
         /\ op = "trunc" => ToUnlock(Relabelled(a, op), a[1].i)
<1> DEFINE b == Relabelled(a, op)
<1>1. /\ DOMAIN a = 1..Len(a) /\ Len(a) \in Nat \ {0} /\ DOMAIN b = DOMAIN a
      /\ \A k \in DOMAIN a : a[k] \in Todos
  BY DEF Relabelled
<1>2. /\ b[1] = [a[1] EXCEPT !.op = op] /\ \A k \in DOMAIN a : k # 1 => b[k] = a[k]
  BY <1>1 DEF Relabelled
<1>3. b[1].op = op /\ b[1].i = a[1].i
  BY <1>1, <1>2 DEF Todos
<1>4. b \in Seq(Todos) /\ \A i : Owes(b, i) = Owes(a, i)
  BY OwesRelabelled
<1> HIDE DEF b
<1>5. ASSUME NEW k \in DOMAIN b
      PROVE  /\ b[k].op \in {"trunc", "drop"} => k = 1
             /\ b[k].op = "unlock" => k + 1 \in DOMAIN b /\ b[k + 1] = Todo("put", b[k].i)
  <2>1. CASE k = 1
    BY <1>3, <2>1
  <2>2. CASE k # 1
    <3>1. b[k] = a[k]
      BY <1>1, <1>2, <2>2
    <3>2. ASSUME b[k].op = "unlock" PROVE k + 1 \in DOMAIN b /\ b[k + 1] = Todo("put", b[k].i)
      <4>1. k + 1 \in DOMAIN a /\ a[k + 1] = Todo("put", a[k].i)
        BY <1>1, <3>1, <3>2 DEF AgendaOK
      <4>2. k + 1 # 1
        BY <1>1
      <4> QED
        BY <1>1, <1>2, <3>1, <4>1, <4>2
    <3> QED
      BY <1>1, <3>1, <3>2 DEF AgendaOK
  <2> QED
    BY <2>1, <2>2
<1>6. AgendaOK(b)
  BY <1>5 DEF AgendaOK
<1>7. ASSUME NEW i, ToUnlock(a, i)
      PROVE  ToUnlock(b, i) \/ (a[1].op = "trunc" /\ a[1].i = i)
  BY <1>1, <1>2, <1>7 DEF ToUnlock
<1>8. op = "trunc" => ToUnlock(b, a[1].i)
  BY <1>1, <1>3 DEF ToUnlock
<1> QED
  BY <1>4, <1>6, <1>7, <1>8 DEF b

LEMMA AgendaIs ==
  ASSUME FilesInv, NEW p \in Procs, l[p].agenda # <<>>
  PROVE  /\ l[p].agenda \in Seq(Todos) /\ AgendaOK(l[p].agenda)
         /\ Head(l[p].agenda) \in Todos /\ Head(l[p].agenda) = l[p].agenda[1]
         /\ l[p] \in Locals /\ pc[p] \in PCs /\ At(l[p], pc[p])
         /\ pc' = pc => pc' = [pc EXCEPT ![p] = pc[p]]
<1>1. FilesTypeOK /\ ProcessOK(p)
  BY DEF FilesInv
<1>2. l[p] \in Locals /\ pc[p] \in PCs /\ (pc' = pc => pc' = [pc EXCEPT ![p] = pc[p]])
  BY <1>1 DEF FilesTypeOK
<1>3. l[p].agenda \in Seq(Todos)
  BY <1>2 DEF Locals
<1>4. Head(l[p].agenda) = l[p].agenda[1] /\ Head(l[p].agenda) \in Todos
  BY <1>3
<1> QED
  BY <1>1, <1>2, <1>3, <1>4 DEF ProcessOK

(* With another agenda at the same place.                                  *)
WithAgenda(x, a) == [x EXCEPT !.agenda = a]

LEMMA AgendaSet ==
  ASSUME NEW x \in Locals, NEW a \in Seq(Todos), NEW place, At(x, place)
  PROVE  /\ WithAgenda(x, a) \in Locals /\ At(WithAgenda(x, a), place)
         /\ WithAgenda(x, a).agenda = a
         /\ WithAgenda(x, a).ip = x.ip /\ WithAgenda(x, a).dp = x.dp
         /\ \A j : Mine(WithAgenda(x, a), j) = Owes(a, j) + InHand(x, j)
<1> DEFINE y == WithAgenda(x, a)
<1>1. /\ y \in Locals /\ y.agenda = a /\ y.ip = x.ip /\ y.dp = x.dp /\ y.cur = x.cur
      /\ y.path = x.path /\ y.call = x.call /\ y.parent = x.parent
  BY DEF Locals, WithAgenda
<1> HIDE DEF y
<1>2. At(y, place)
  BY <1>1 DEF At
<1>3. \A j : Mine(y, j) = Owes(a, j) + InHand(x, j)
  BY <1>1 DEF Mine, InHand
<1> QED
  BY <1>1, <1>2, <1>3 DEF y

LEMMA Nats ==
  ASSUME FilesInv, NEW p \in Procs, NEW j \in Inums
  PROVE  /\ fs.ref[j] \in Nat /\ Shape(fs) /\ InHand(l[p], j) \in Nat
         /\ Owes(l[p].agenda, j) \in Nat /\ lk[j] \in Procs \cup {Nobody}
<1>1. FilesTypeOK
  BY DEF FilesInv
<1>2. l[p].agenda \in Seq(Todos)
  BY <1>1 DEF FilesTypeOK, Locals
<1> QED
  BY <1>1, <1>2, PutsFinite, HandCounted DEF FilesTypeOK, Shape

(* A step that only works on the agenda.                                   *)
AgendaLocks(p, b) ==
    /\ lk' \in [Inums -> Procs \cup {Nobody}]
    /\ \A i \in Inums : /\ lk'[i] \in {lk[i], p, Nobody}
                        /\ lk'[i] = p => \/ ToUnlock(b, i)
                                         \/ lk[i] = p /\ ~ToUnlock(l[p].agenda, i)
AgendaEven(p, b) == \A j \in Inums :
    fs'.ref[j] + Owes(l[p].agenda, j) = fs.ref[j] + Owes(b, j)

EvenSum(r, r2, owed, owed2, hand) ==
    r2 + owed = r + owed2 => r2 + (owed + hand) = r + (owed2 + hand)

LEMMA SumsEven == \A r, r2, owed, owed2, hand \in Nat : EvenSum(r, r2, owed, owed2, hand)
BY DEF EvenSum

LEMMA AgendaStep ==
  ASSUME FilesInv, NEW p \in Procs, l[p].agenda # <<>>, NEW b \in Seq(Todos), AgendaOK(b),
         l' = [l EXCEPT ![p] = WithAgenda(l[p], b)], UNCHANGED <<cwd, pc>>, UNCHANGED fileVars,
         Shape(fs'), AgendaLocks(p, b), AgendaEven(p, b)
  PROVE  FilesInv'
<1> DEFINE x == WithAgenda(l[p], b)
<1>1. /\ l[p].agenda \in Seq(Todos) /\ l[p] \in Locals
      /\ pc[p] \in PCs /\ At(l[p], pc[p]) /\ pc' = [pc EXCEPT ![p] = pc[p]]
  BY AgendaIs
<1>2. /\ x \in Locals /\ x.agenda = b /\ At(x, pc[p]) /\ x.ip = l[p].ip /\ x.dp = l[p].dp
      /\ \A j : Mine(x, j) = Owes(b, j) + InHand(l[p], j)
  BY <1>1, AgendaSet
<1> HIDE DEF x
<1>3. Even(p, x)
  <2>1. ASSUME NEW j \in Inums PROVE fs'.ref[j] + Mine(l[p], j) = fs.ref[j] + Mine(x, j)
    <3>1. Owes(b, j) \in Nat /\ Owes(l[p].agenda, j) \in Nat
      BY <1>1, PutsFinite
    <3>2. InHand(l[p], j) \in Nat /\ fs.ref[j] \in Nat /\ fs'.ref[j] \in Nat
      BY Nats DEF Shape
    <3>3. fs'.ref[j] + Owes(l[p].agenda, j) = fs.ref[j] + Owes(b, j)
      BY DEF AgendaEven
    <3>4. Mine(x, j) = Owes(b, j) + InHand(l[p], j)
      BY <1>2
    <3>5. Mine(l[p], j) = Owes(l[p].agenda, j) + InHand(l[p], j)
      BY DEF Mine
    <3>6. EvenSum(fs.ref[j], fs'.ref[j], Owes(l[p].agenda, j), Owes(b, j), InHand(l[p], j))
      BY <3>1, <3>2, SumsEven, Zenon
    <3> QED
      BY <3>3, <3>4, <3>5, <3>6, Zenon DEF EvenSum
  <2> QED
    BY <2>1 DEF Even
<1>4. LocksMove(p, x, pc[p])
  <2>1. \A i \in Inums : lk[i] = p => Locks(l[p], pc[p], i)
    BY DEF FilesInv, ProcessOK
  <2> QED
    BY <1>2, <2>1 DEF LocksMove, Locks, AgendaLocks
<1> QED
  BY <1>1, <1>2, <1>3, <1>4, CallStep DEF x

Drops(t, j) == IF t.op = "unlock" THEN 0 ELSE Is(t.i, j)

(* The head of an agenda, and what is after it.                            *)
LEMMA HeadAndTail ==
  ASSUME FilesInv, NEW p \in Procs, l[p].agenda # <<>>
  PROVE  /\ l[p].agenda \in Seq(Todos) /\ AgendaOK(l[p].agenda)
         /\ Head(l[p].agenda) \in Todos /\ Head(l[p].agenda).i \in Inums
         /\ Head(l[p].agenda) = l[p].agenda[1]
         /\ Tail(l[p].agenda) \in Seq(Todos) /\ AgendaOK(Tail(l[p].agenda))
         /\ \A i : ToUnlock(l[p].agenda, i) =>
               \/ ToUnlock(Tail(l[p].agenda), i)
               \/ Head(l[p].agenda).op \in {"trunc", "unlock"} /\ Head(l[p].agenda).i = i
         /\ lk \in [Inums -> Procs \cup {Nobody}] /\ Nobody \notin Procs
         /\ Shape(fs)
<1>1. /\ l[p].agenda \in Seq(Todos) /\ AgendaOK(l[p].agenda)
      /\ Head(l[p].agenda) \in Todos /\ Head(l[p].agenda) = l[p].agenda[1]
  BY AgendaIs
<1>2. Head(l[p].agenda).i \in Inums
  BY <1>1 DEF Todos
<1>3. /\ Tail(l[p].agenda) \in Seq(Todos) /\ AgendaOK(Tail(l[p].agenda))
      /\ \A i : ToUnlock(l[p].agenda, i) =>
            \/ ToUnlock(Tail(l[p].agenda), i)
            \/ Head(l[p].agenda).op \in {"trunc", "unlock"} /\ Head(l[p].agenda).i = i
  BY <1>1, AgendaTail
<1>4. lk \in [Inums -> Procs \cup {Nobody}] /\ Nobody \notin Procs /\ Shape(fs)
  BY FileSysAssumption DEF FilesInv, FilesTypeOK, FileSysAssumption
<1> QED
  BY <1>1, <1>2, <1>3, <1>4

LEMMA HeadDropped ==
  ASSUME FilesInv, NEW p \in Procs, l[p].agenda # <<>>, NEW j \in Inums
  PROVE  /\ Owes(l[p].agenda, j) \in Nat /\ Owes(Tail(l[p].agenda), j) \in Nat
         /\ Owes(l[p].agenda, j) = Owes(Tail(l[p].agenda), j) + Drops(Head(l[p].agenda), j)
<1>1. B(IsPut(Head(l[p].agenda), j)) = Drops(Head(l[p].agenda), j)
  BY DEF B, IsPut, Drops, Is
<1>2. l[p].agenda \in Seq(Todos) /\ Tail(l[p].agenda) \in Seq(Todos)
  BY HeadAndTail
<1> QED
  BY <1>1, <1>2, PutsFinite, OwesTail

LEMMA UnlockingMoves ==
  ASSUME FilesInv, NEW p \in Procs, Unlocking(p)
  PROVE  FilesInv'
<1> DEFINE a == l[p].agenda
<1>1. /\ a # <<>> /\ Head(a).op = "unlock" /\ lk' = [lk EXCEPT ![Head(a).i] = Nobody]
      /\ l' = [l EXCEPT ![p] = WithAgenda(l[p], Tail(a))]
      /\ UNCHANGED <<fs, cwd, pc>> /\ UNCHANGED fileVars
  BY DEF Unlocking, Unlock, Pop, Set, fileVars, WithAgenda
<1>2. AgendaEven(p, Tail(a))
  <2>1. ASSUME NEW j \in Inums PROVE Owes(a, j) = Owes(Tail(a), j)
    BY <1>1, HeadDropped DEF Drops
  <2> QED
    BY <1>1, <2>1 DEF AgendaEven
<1>3. AgendaLocks(p, Tail(a))
  BY <1>1, HeadAndTail DEF AgendaLocks
<1> QED
  BY <1>1, <1>2, <1>3, HeadAndTail, AgendaStep

LEMMA PutFreeMoves ==
  ASSUME FilesInv, NEW p \in Procs, PutFree(p)
  PROVE  FilesInv'
<1> DEFINE a == l[p].agenda
           b == Relabelled(a, "trunc")
<1>1. /\ a # <<>> /\ Head(a).op = "put" /\ lk[Head(a).i] = Nobody
      /\ lk' = [lk EXCEPT ![Head(a).i] = p] /\ l' = [l EXCEPT ![p] = WithAgenda(l[p], b)]
      /\ UNCHANGED <<fs, cwd, pc>> /\ UNCHANGED fileVars
  BY DEF PutFree, Lock, Relabel, Set, fileVars, WithAgenda, Relabelled
<1>2. /\ a \in Seq(Todos) /\ AgendaOK(a) /\ Head(a) = a[1] /\ Head(a).i \in Inums /\ Shape(fs)
      /\ lk \in [Inums -> Procs \cup {Nobody}]
  BY <1>1, HeadAndTail
<1>3. /\ b \in Seq(Todos) /\ AgendaOK(b) /\ \A j : Owes(b, j) = Owes(a, j)
      /\ \A i : ToUnlock(a, i) => ToUnlock(b, i)
      /\ ToUnlock(b, Head(a).i)
  BY <1>1, <1>2, AgendaRelabelled
<1> HIDE DEF b
<1>4. AgendaEven(p, b)
  BY <1>1, <1>3 DEF AgendaEven
<1>5. AgendaLocks(p, b)
  BY <1>1, <1>2, <1>3 DEF AgendaLocks
<1> QED
  BY <1>1, <1>2, <1>3, <1>4, <1>5, AgendaStep

LEMMA PutTruncMoves ==
  ASSUME FilesInv, NEW p \in Procs, PutTrunc(p)
  PROVE  FilesInv'
<1> DEFINE a == l[p].agenda
           b == Relabelled(a, "drop")
           i == Head(a).i
           s1 == Itrunc(fs, i)
           s2 == [s1 EXCEPT !.mem[i].type = "none"]
           s3 == Iupdate(s2, i)
<1>1. /\ a # <<>> /\ Head(a).op = "trunc" /\ lk' = [lk EXCEPT ![Head(a).i] = Nobody]
      /\ l' = [l EXCEPT ![p] = WithAgenda(l[p], b)]
      /\ UNCHANGED <<cwd, pc>> /\ UNCHANGED fileVars
      /\ fs' = [s3 EXCEPT !.valid[i] = FALSE, !.mem[i] = FreeInode]
  BY Zenon DEF PutTrunc, Unlock, Relabel, Set, fileVars, WithAgenda, Relabelled
<1>2. /\ a \in Seq(Todos) /\ AgendaOK(a) /\ Head(a) = a[1] /\ Head(a).i \in Inums /\ Shape(fs)
      /\ lk \in [Inums -> Procs \cup {Nobody}] /\ Nobody \notin Procs
  <2>1. l[p].agenda # <<>>
    BY <1>1, Zenon
  <2> QED
    BY <2>1, HeadAndTail, Zenon
<1>3. /\ b \in Seq(Todos) /\ AgendaOK(b) /\ \A j : Owes(b, j) = Owes(a, j)
      /\ \A j : ToUnlock(a, j) => ToUnlock(b, j) \/ Head(a).i = j
  <2>1. a # <<>> /\ a[1].op = "trunc"
    BY <1>1, <1>2, Zenon
  <2> QED
    BY <1>2, <2>1, AgendaRelabelled, Zenon
<1>4. Shape(s1) /\ s1.ref = fs.ref
  BY <1>2, ItruncKeeps
<1> HIDE DEF b, s1
<1>5. Shape(s2) /\ s2.ref = fs.ref
  BY <1>4 DEF Shape, Fields
<1> HIDE DEF s2
<1>6. Shape(s3) /\ s3.ref = fs.ref
  BY <1>5, IupdateKeeps
<1> HIDE DEF s3
<1>7. Shape(fs') /\ fs'.ref = fs.ref
  BY <1>1, <1>6 DEF Shape, Fields
<1>8. AgendaEven(p, b)
  BY <1>3, <1>7 DEF AgendaEven
<1>9. AgendaLocks(p, b)
  BY <1>1, <1>2, <1>3 DEF AgendaLocks
<1>10. /\ l[p].agenda # <<>> /\ l' = [l EXCEPT ![p] = WithAgenda(l[p], b)]
       /\ UNCHANGED <<cwd, pc>> /\ UNCHANGED fileVars
  BY <1>1
<1>11. b \in Seq(Todos) /\ AgendaOK(b) /\ Shape(fs')
  BY <1>3, <1>7
<1> QED
  BY <1>8, <1>9, <1>10, <1>11, AgendaStep, Zenon

(* A process that owes a put has one of the references.                    *)
LEMMA OwedIsReferenced ==
  ASSUME FilesInv, NEW p \in Procs, NEW j \in Inums
  PROVE  Owes(l[p].agenda, j) + InHand(l[p], j) <= fs.ref[j]
<1>1. /\ l \in [Procs -> Locals] /\ l[p].agenda \in Seq(Todos) /\ InodeRefs(j) /\ FilesTypeOK
  BY InodesAgree DEF FilesInv, FilesTypeOK, Locals, Counted
<1>2. Owe(<<>>) \in Locals /\ Mine(Owe(<<>>), j) = 0
  BY OweNothing
<1> DEFINE m == [l EXCEPT ![p] = Owe(<<>>)]
<1>3. m \in [Procs -> Locals] /\ m[p] = Owe(<<>>) /\ \A q \in Procs : q # p => m[q] = l[q]
  BY <1>1, <1>2
<1> HIDE DEF m
<1>4. Moved(l, cwd, pc, m, cwd, pc, p, j)
  BY <1>1, <1>3, ProcessMoves
<1>5. /\ Refs(m, cwd, pc, j) \in Nat /\ Refs(l, cwd, pc, j) \in Nat
      /\ Refs(m, cwd, pc, j) + Has(l[p], cwd[p], pc[p], j)
           = Refs(l, cwd, pc, j) + Has(m[p], cwd[p], pc[p], j)
  BY <1>4 DEF Moved
<1>6. Lives(cwd[p], pc[p], j) \in Nat /\ Owes(l[p].agenda, j) \in Nat /\ InHand(l[p], j) \in Nat
  BY <1>1, Nats DEF Lives, Is
<1>7. /\ Has(l[p], cwd[p], pc[p], j) = Owes(l[p].agenda, j) + InHand(l[p], j)
                                         + Lives(cwd[p], pc[p], j)
      /\ Has(m[p], cwd[p], pc[p], j) = Mine(Owe(<<>>), j) + Lives(cwd[p], pc[p], j)
  BY <1>3 DEF Has, Mine
<1>8. Owes(l[p].agenda, j) + InHand(l[p], j) <= Refs(l, cwd, pc, j)
  BY <1>2, <1>5, <1>6, <1>7
<1>9. fs.ref[j] = Cardinality(OpenFiles(j)) + Refs(l, cwd, pc, j) /\ Cardinality(OpenFiles(j)) \in Nat
  BY <1>1, OpenFilesFinite DEF InodeRefs
<1> QED
  BY <1>5, <1>6, <1>8, <1>9

LEMMA PutDropMoves ==
  ASSUME FilesInv, NEW p \in Procs, PutDrop(p)
  PROVE  FilesInv'
<1> DEFINE a == l[p].agenda
           i == Head(a).i
<1>1. /\ a # <<>> /\ Head(a).op \in {"put", "drop"} /\ fs' = Unref(fs, i)
      /\ l' = [l EXCEPT ![p] = WithAgenda(l[p], Tail(a))]
      /\ UNCHANGED <<lk, cwd, pc>> /\ UNCHANGED fileVars
  BY DEF PutDrop, Pop, Set, fileVars, WithAgenda
<1>2. i \in Inums /\ Shape(fs) /\ lk \in [Inums -> Procs \cup {Nobody}]
  BY <1>1, HeadAndTail
<1>3. \A j : Drops(Head(a), j) = Is(i, j)
  BY <1>1 DEF Drops
<1>4. fs.ref[i] > 0 /\ \A j \in Inums : fs.ref[j] \in Nat
  <2>1. Owes(a, i) = Owes(Tail(a), i) + 1 /\ Owes(Tail(a), i) \in Nat
    BY <1>1, <1>2, <1>3, HeadDropped DEF Is
  <2>2. Owes(a, i) + InHand(l[p], i) <= fs.ref[i] /\ InHand(l[p], i) \in Nat
    BY <1>2, OwedIsReferenced, Nats
  <2>3. \A j \in Inums : fs.ref[j] \in Nat
    BY <1>2 DEF Shape
  <2> QED
    BY <1>2, <2>1, <2>2, <2>3
<1>5. Shape(fs') /\ fs'.ref = [fs.ref EXCEPT ![i] = @ - 1]
  BY <1>1, <1>2, <1>4, UnrefCounts
<1>6. AgendaEven(p, Tail(a))
  <2>1. ASSUME NEW j \in Inums PROVE fs'.ref[j] + Owes(a, j) = fs.ref[j] + Owes(Tail(a), j)
    <3>1. fs'.ref[j] + Is(i, j) = fs.ref[j] /\ fs'.ref[j] \in Nat
      BY <1>2, <1>4, <1>5 DEF Is, Shape
    <3>2. Owes(a, j) = Owes(Tail(a), j) + Is(i, j) /\ Owes(Tail(a), j) \in Nat /\ Is(i, j) \in Nat
      BY <1>1, <1>3, HeadDropped DEF Is
    <3> QED
      BY <1>4, <3>1, <3>2
  <2> QED
    BY <2>1 DEF AgendaEven
<1>7. AgendaLocks(p, Tail(a))
  BY <1>1, <1>2, HeadAndTail DEF AgendaLocks
<1> QED
  BY <1>1, <1>5, <1>6, <1>7, HeadAndTail, AgendaStep

-----------------------------------------------------------------------------
(* Steps of a call that owes nothing                                       *)

LEMMA ReadyIs ==
  ASSUME FilesInv, NEW p \in Procs, l[p].agenda = <<>>
  PROVE  /\ l[p] \in Locals /\ pc[p] \in PCs /\ At(l[p], pc[p]) /\ Shape(fs)
         /\ lk \in [Inums -> Procs \cup {Nobody}] /\ Nobody \notin Procs
         /\ \A i \in Inums : lk[i] = p => \/ pc[p] \in {"made", "unlinkLast"} /\ l[p].ip = i
                                          \/ pc[p] \in {"new", "unlinkChild"} /\ l[p].dp = i
         /\ cwd[p] \in 0..NInodes /\ (pc[p] # "dead" => cwd[p] \in Inums)
         /\ l[p].cur # 0 => l[p].cur \in Inums
         /\ l[p].ip # 0 => l[p].ip \in Inums
         /\ l[p].dp # 0 => l[p].dp \in Inums
         /\ l[p].path \in Seq(PathNames)
<1>1. FilesTypeOK /\ ProcessOK(p)
  BY DEF FilesInv
<1>2. l[p] \in Locals /\ cwd[p] \in 0..NInodes
  BY <1>1 DEF FilesTypeOK
<1>3. /\ l[p].cur # 0 => l[p].cur \in Inums
      /\ l[p].ip # 0 => l[p].ip \in Inums
      /\ l[p].dp # 0 => l[p].dp \in Inums
      /\ cwd[p] # 0 => cwd[p] \in Inums
      /\ l[p].path \in Seq(PathNames)
  BY <1>2, InodeAssumption DEF Locals, InodeAssumption, Inums
<1>4. \A i \in Inums : lk[i] = p => \/ pc[p] \in {"made", "unlinkLast"} /\ l[p].ip = i
                                    \/ pc[p] \in {"new", "unlinkChild"} /\ l[p].dp = i
  BY <1>1 DEF ProcessOK, Locks, ToUnlock
<1>5. pc[p] # "dead" => cwd[p] # 0
  BY <1>1 DEF ProcessOK
<1> QED
  BY <1>1, <1>2, <1>3, <1>4, <1>5, FileSysAssumption DEF FilesTypeOK, ProcessOK, FileSysAssumption

LEMMA InHandIs ==
  ASSUME NEW x, NEW place, At(x, place), NEW j \in Inums
  PROVE  /\ place \in HasIp => InHand(x, j) = Is(x.ip, j)
         /\ place \in HasDp => InHand(x, j) = Is(x.dp, j)
         /\ place \in HasBoth => InHand(x, j) = Is(x.ip, j) + Is(x.dp, j)
         /\ place \in HasNone => InHand(x, j) = 0
         /\ place = "walk" => InHand(x, j) = Is(x.cur, j) + Is(x.ip, j)
<1>1. /\ Is(x.cur, j) \in Nat /\ Is(x.ip, j) \in Nat /\ Is(x.dp, j) \in Nat /\ Is(0, j) = 0
  BY MineIs
<1> QED
  BY <1>1 DEF At, InHand

LEMMA RefsGot ==
  ASSUME NEW s, Shape(s), NEW i \in Inums, NEW j \in Inums
  PROVE  /\ s.ref[j] \in Nat /\ Is(i, j) \in Nat
         /\ Iget(s, i).ref[j] = s.ref[j] + Is(i, j)
         /\ Idup(s, i).ref[j] = s.ref[j] + Is(i, j)
         /\ \A type : Ialloc(s, i, type).ref[j] = s.ref[j] + Is(i, j)
<1>1. s.ref \in [Inums -> Nat] /\ Is(i, j) \in Nat
  BY DEF Shape, Is
<1>2. [s.ref EXCEPT ![i] = @ + 1][j] = s.ref[j] + Is(i, j)
  BY <1>1 DEF Is
<1>3. Iget(s, i).ref = [s.ref EXCEPT ![i] = @ + 1] /\ Idup(s, i).ref = [s.ref EXCEPT ![i] = @ + 1]
  BY IgetCounts
<1>4. ASSUME NEW type PROVE Ialloc(s, i, type).ref[j] = s.ref[j] + Is(i, j)
  BY <1>2, IallocCounts
<1> QED
  BY <1>1, <1>2, <1>3, <1>4

ReadyEven(p, x) == \A j \in Inums :
    fs'.ref[j] + InHand(l[p], j) = fs.ref[j] + (Owes(x.agenda, j) + InHand(x, j))

LEMMA ReadyStep ==
  ASSUME FilesInv, NEW p \in Procs, l[p].agenda = <<>>, NEW x \in Locals, NEW place \in PCs,
         l' = [l EXCEPT ![p] = x], pc' = [pc EXCEPT ![p] = place],
         UNCHANGED cwd, UNCHANGED fileVars, Shape(fs'), LocksMove(p, x, place),
         At(x, place), AgendaOK(x.agenda),
         pc[p] \notin {"dead", "chdirDone"}, place \notin {"dead", "chdirDone"},
         ReadyEven(p, x)
  PROVE  FilesInv'
<1>1. ASSUME NEW j \in Inums PROVE fs'.ref[j] + Mine(l[p], j) = fs.ref[j] + Mine(x, j)
  <2>1. Mine(l[p], j) = InHand(l[p], j)
    BY OwesNothing, Nats DEF Mine
  <2> QED
    BY <2>1 DEF ReadyEven, Mine
<1> QED
  BY <1>1, CallStep DEF Even

LEMMA ReturnStep ==
  ASSUME FilesInv, NEW p \in Procs, l[p].agenda = <<>>, NEW a \in Seq(Todos), AgendaOK(a),
         Return(p, a), UNCHANGED cwd, UNCHANGED fileVars, Shape(fs'), LocksMove(p, Owe(a), "idle"),
         pc[p] \notin {"dead", "chdirDone"},
         \A j \in Inums : fs'.ref[j] + InHand(l[p], j) = fs.ref[j] + Owes(a, j)
  PROVE  FilesInv'
<1> DEFINE x == Owe(a)
<1>1. l' = [l EXCEPT ![p] = x] /\ pc' = [pc EXCEPT ![p] = "idle"] /\ "idle" \in PCs
  BY DEF Return, Goto, Set, PCs
<1>2. x \in Locals /\ x.agenda = a /\ x.cur = 0 /\ x.ip = 0 /\ x.dp = 0
  BY OweIs
<1>3. At(x, "idle")
  BY <1>2 DEF At, HasIp, HasDp, HasBoth, HasNone
<1>4. ReadyEven(p, x)
  <2>1. ASSUME NEW j \in Inums
        PROVE  fs'.ref[j] + InHand(l[p], j) = fs.ref[j] + (Owes(x.agenda, j) + InHand(x, j))
    <3>1. InHand(x, j) = 0
      BY <1>3, InHandIs DEF HasNone
    <3>2. Owes(a, j) \in Nat
      BY PutsFinite
    <3> QED
      BY <1>2, <3>1, <3>2
  <2> QED
    BY <2>1 DEF ReadyEven
<1> QED
  BY <1>1, <1>2, <1>3, <1>4, ReadyStep

(* The locks of p.                                                         *)
LEMMA LocksStay ==
  ASSUME FilesInv, NEW p \in Procs, l[p].agenda = <<>>,
         pc[p] \notin {"made", "unlinkLast", "new", "unlinkChild"}, UNCHANGED lk,
         NEW x, NEW place
  PROVE  LocksMove(p, x, place)
BY ReadyIs DEF LocksMove

LEMMA LockTaken ==
  ASSUME FilesInv, NEW p \in Procs, l[p].agenda = <<>>,
         pc[p] \notin {"made", "unlinkLast", "new", "unlinkChild"}, NEW i \in Inums,
         lk' = [lk EXCEPT ![i] = p], NEW x, NEW place, Locks(x, place, i)
  PROVE  LocksMove(p, x, place)
BY ReadyIs DEF LocksMove

LEMMA LockGiven ==
  ASSUME FilesInv, NEW p \in Procs, l[p].agenda = <<>>,
         pc[p] \in {"made", "unlinkLast"}, lk' = [lk EXCEPT ![l[p].ip] = Nobody],
         NEW x, NEW place
  PROVE  LocksMove(p, x, place)
<1>1. /\ lk \in [Inums -> Procs \cup {Nobody}] /\ Nobody \notin Procs
      /\ \A i \in Inums : lk[i] = p => l[p].ip = i
  BY ReadyIs
<1>2. /\ lk' \in [Inums -> Procs \cup {Nobody}]
      /\ \A i \in Inums : lk'[i] \in {lk[i], Nobody} /\ lk'[i] # p
  BY <1>1
<1> QED
  BY <1>1, <1>2 DEF LocksMove

LEMMA LockPassed ==
  ASSUME FilesInv, NEW p \in Procs, l[p].agenda = <<>>,
         pc[p] \in {"new", "unlinkChild"},
         lk' = [lk EXCEPT ![l[p].ip] = p, ![l[p].dp] = Nobody],
         NEW x, NEW place, Locks(x, place, l[p].ip)
  PROVE  LocksMove(p, x, place)
<1>1. /\ lk \in [Inums -> Procs \cup {Nobody}] /\ Nobody \notin Procs
      /\ \A i \in Inums : lk[i] = p => l[p].dp = i
  BY ReadyIs
<1>2. /\ lk' \in [Inums -> Procs \cup {Nobody}]
      /\ \A i \in Inums : lk'[i] \in {lk[i], p, Nobody} /\ (lk'[i] = p => i = l[p].ip)
  BY <1>1
<1> QED
  BY <1>2 DEF LocksMove

LEMMA LockOwed ==
  ASSUME FilesInv, NEW p \in Procs, l[p].agenda = <<>>,
         pc[p] \in {"new", "unlinkChild"}, UNCHANGED lk,
         NEW x, NEW place, ToUnlock(x.agenda, l[p].dp)
  PROVE  LocksMove(p, x, place)
<1>1. /\ lk \in [Inums -> Procs \cup {Nobody}]
      /\ \A i \in Inums : lk[i] = p => l[p].dp = i
  BY ReadyIs
<1> QED
  BY <1>1 DEF LocksMove, Locks

-----------------------------------------------------------------------------
(* Path lookup                                                             *)

LEMMA CallsAre ==
  ASSUME NEW c \in Calls
  PROVE  /\ c.op \in {"open", "mkdir", "mknod", "unlink", "link", "chdir", "exec"}
         /\ c.path.elems \in Seq(PathNames)
         /\ c.op = "open" => c.create \in BOOLEAN
         /\ c.op = "link" => c.new.elems \in Seq(PathNames)
BY FileSysAssumption DEF FileSysAssumption

LEMMA PathCallMoves ==
  ASSUME FilesInv, NEW p \in Procs, PathCall(p)
  PROVE  FilesInv'
<1>1. PICK c \in Calls :
        LET w == NamexStart(p, c, c.path) IN
        /\ Start(p) /\ fs' = w.s
        /\ Set(p, [Local0 EXCEPT !.call = c, !.path = c.path.elems, !.cur = w.i,
                                 !.parent = WantsParent(c)])
        /\ Goto(p, "walk") /\ UNCHANGED <<lk, fileVars, cwd>>
  BY DEF PathCall
<1> DEFINE w == NamexStart(p, c, c.path)
           x == [Local0 EXCEPT !.call = c, !.path = c.path.elems, !.cur = w.i,
                               !.parent = WantsParent(c)]
<1>2. /\ pc[p] = "idle" /\ l[p].agenda = <<>> /\ fs' = w.s /\ l' = [l EXCEPT ![p] = x]
      /\ pc' = [pc EXCEPT ![p] = "walk"] /\ UNCHANGED <<lk, cwd>> /\ UNCHANGED fileVars
  BY <1>1 DEF Start, Ready, Set, Goto
<1>3. Shape(fs) /\ cwd[p] \in Inums
  BY <1>2, ReadyIs
<1>4. w.i \in Inums /\ Shape(w.s) /\ \A j \in Inums : w.s.ref[j] = fs.ref[j] + Is(w.i, j)
  <2>1. ROOTINO \in Inums
    BY InodeAssumption DEF InodeAssumption, ROOTINO, Inums
  <2>2. w.i \in Inums /\ w.s \in {Iget(fs, w.i), Idup(fs, w.i)}
    BY <1>3, <2>1 DEF NamexStart
  <2> HIDE DEF w, x
  <2>3. /\ Shape(Iget(fs, w.i)) /\ Shape(Idup(fs, w.i))
        /\ \A j \in Inums : /\ Iget(fs, w.i).ref[j] = fs.ref[j] + Is(w.i, j)
                            /\ Idup(fs, w.i).ref[j] = fs.ref[j] + Is(w.i, j)
    <3>1. ASSUME NEW j \in Inums
          PROVE  /\ Iget(fs, w.i).ref[j] = fs.ref[j] + Is(w.i, j)
                 /\ Idup(fs, w.i).ref[j] = fs.ref[j] + Is(w.i, j)
      BY <1>3, <2>2, RefsGot
    <3>2. Shape(Iget(fs, w.i)) /\ Shape(Idup(fs, w.i))
      BY <1>3, <2>2, IgetCounts
    <3> QED
      BY <3>1, <3>2
  <2> QED
    BY <2>2, <2>3
<1> HIDE DEF w
<1>5. Local0 \in Locals /\ Local0.agenda = <<>> /\ Local0.ip = 0 /\ Local0.dp = 0
  <2>1. NFile \in Nat /\ NInodes \in Nat
    BY InodeAssumption, FileSysAssumption DEF InodeAssumption, FileSysAssumption
  <2> QED
    BY <2>1 DEF Local0, Locals
<1>6. WantsParent(c) \in BOOLEAN
  BY CallsAre DEF WantsParent
<1>7. w.i # 0 /\ w.i \in 0..NInodes
  BY <1>4, InodeAssumption DEF InodeAssumption, Inums
<1>8. /\ x \in Locals /\ x.agenda = <<>> /\ x.ip = 0 /\ x.dp = 0 /\ x.cur = w.i
      /\ x.call = c /\ x.parent = WantsParent(c)
  BY <1>5, <1>6, <1>7, CallsAre DEF Locals
<1> HIDE DEF x
<1>9. At(x, "walk")
  BY <1>6, <1>7, <1>8 DEF At, HasIp, HasDp, HasBoth, HasNone
<1>10. ReadyEven(p, x)
  <2>1. ASSUME NEW j \in Inums
        PROVE  fs'.ref[j] + InHand(l[p], j) = fs.ref[j] + (Owes(x.agenda, j) + InHand(x, j))
    <3>1. InHand(l[p], j) = 0
      BY <1>2, ReadyIs, InHandIs DEF HasNone
    <3>2. InHand(x, j) = Is(w.i, j) + Is(0, j) /\ Owes(x.agenda, j) = 0
      BY <1>8, <1>9, InHandIs, OwesNothing
    <3>3. fs.ref[j] \in Nat /\ Is(w.i, j) \in Nat /\ Is(0, j) = 0
      BY <1>3, <1>4, RefsGot DEF Is, Inums
    <3> QED
      BY <1>2, <1>4, <3>1, <3>2, <3>3
  <2> QED
    BY <2>1 DEF ReadyEven
<1>11. LocksMove(p, x, "walk")
  BY <1>2, LocksStay
<1> QED
  BY <1>2, <1>4, <1>8, <1>9, <1>10, <1>11, Agendas, ReadyStep DEF PCs

(* namex() fails in a state s with the counts of fs.                       *)
LEMMA NamexFailsMoves ==
  ASSUME FilesInv, NEW p \in Procs, pc[p] = "walk", l[p].agenda = <<>>, NamexFails(p),
         Shape(fs'), fs'.ref = fs.ref, UNCHANGED <<lk, cwd>>, UNCHANGED fileVars
  PROVE  FilesInv'
<1> DEFINE i == l[p].cur
           a == <<Todo("put", i)>>
           x == [l[p] EXCEPT !.agenda = a, !.cur = 0, !.path = <<>>]
<1>1. /\ l[p] \in Locals /\ At(l[p], "walk") /\ Shape(fs) /\ i \in Inums /\ l[p].dp = 0
  BY ReadyIs DEF At
<1>2. a \in Seq(Todos) /\ AgendaOK(a) /\ \A j : Owes(a, j) = Is(i, j)
  BY <1>1, Agendas
<1>3. ASSUME NEW j \in Inums
      PROVE  /\ InHand(l[p], j) = Is(i, j) + Is(l[p].ip, j)
             /\ fs.ref[j] \in Nat /\ Is(i, j) \in Nat /\ Is(l[p].ip, j) \in Nat /\ Is(0, j) = 0
  BY <1>1, InHandIs, RefsGot, MineIs
<1> HIDE DEF i, a
<1>4. CASE l[p].ip = 0
  <2>1. Return(p, a)
    BY <1>4 DEF NamexFails, a, i
  <2>2. \A j \in Inums : fs'.ref[j] + InHand(l[p], j) = fs.ref[j] + Owes(a, j)
    BY <1>2, <1>3, <1>4
  <2> QED
    BY <1>2, <2>1, <2>2, LocksStay, ReturnStep
<1>5. CASE l[p].ip # 0
  <2>1. pc' = [pc EXCEPT ![p] = "linkBad"] /\ l' = [l EXCEPT ![p] = x]
    BY <1>5 DEF NamexFails, Goto, Set, a, i
  <2>2. /\ x \in Locals /\ x.agenda = a /\ x.cur = 0 /\ x.ip = l[p].ip /\ x.dp = 0
    <3>1. <<>> \in Seq(PathNames) /\ 0 \in 0..NInodes
      BY InodeAssumption DEF InodeAssumption
    <3> QED
      BY <1>1, <1>2, <3>1 DEF Locals
  <2> HIDE DEF x
  <2>3. At(x, "linkBad")
    BY <1>5, <2>2 DEF At, HasIp, HasDp, HasBoth, HasNone
  <2>4. ReadyEven(p, x)
    <3>1. ASSUME NEW j \in Inums
          PROVE  fs'.ref[j] + InHand(l[p], j) = fs.ref[j] + (Owes(x.agenda, j) + InHand(x, j))
      <4>1. InHand(x, j) = Is(l[p].ip, j)
        BY <2>2, <2>3, InHandIs DEF HasIp
      <4> QED
        BY <1>2, <1>3, <2>2, <4>1
    <3> QED
      BY <3>1 DEF ReadyEven
  <2> QED
    BY <1>2, <2>1, <2>2, <2>3, <2>4, LocksStay, ReadyStep DEF PCs
<1> QED
  BY <1>4, <1>5

LEMMA NamexReturnsMoves ==
  ASSUME FilesInv, NEW p \in Procs, pc[p] = "walk", l[p].agenda = <<>>, NamexReturns(p),
         l[p].parent => l[p].path # <<>>,
         Shape(fs'), fs'.ref = fs.ref, UNCHANGED <<lk, cwd>>, UNCHANGED fileVars
  PROVE  FilesInv'
<1> DEFINE c == l[p].call
           place == Found(c, l[p].ip # 0)
           x == IF l[p].parent THEN [l[p] EXCEPT !.dp = l[p].cur, !.cur = 0]
                ELSE [l[p] EXCEPT !.ip = l[p].cur, !.cur = 0]
<1>1. /\ l[p] \in Locals /\ At(l[p], "walk") /\ Shape(fs) /\ l[p].cur # 0 /\ l[p].dp = 0
      /\ c \in Calls /\ l[p].parent = (WantsParent(c) \/ l[p].ip # 0)
      /\ l[p].ip # 0 => c.op = "link"
  BY ReadyIs DEF At
<1>2. pc' = [pc EXCEPT ![p] = place] /\ l' = [l EXCEPT ![p] = x]
  BY DEF NamexReturns, Goto, Set
<1>3. /\ x \in Locals /\ x.agenda = <<>> /\ x.cur = 0 /\ x.path = l[p].path /\ x.call = c
      /\ l[p].parent => x.dp = l[p].cur /\ x.ip = l[p].ip
      /\ ~l[p].parent => x.ip = l[p].cur /\ x.dp = 0
  BY <1>1, InodeAssumption DEF Locals, InodeAssumption
<1> HIDE DEF x
<1>4. c.op \in {"open", "mkdir", "mknod", "unlink", "link", "chdir", "exec"}
  BY <1>1, CallsAre
<1>5. /\ l[p].parent => \/ l[p].ip = 0 /\ place \in {"create", "unlink"}
                        \/ l[p].ip # 0 /\ place = "linkEntry"
      /\ ~l[p].parent => l[p].ip = 0 /\ place \in {"open", "link", "chdir", "exec"}
      /\ place = "link" => c.op = "link"
  BY <1>1, <1>4 DEF Found, WantsParent
<1> HIDE DEF place, c
<1>6. At(x, place) /\ place \in PCs /\ place \notin {"dead", "chdirDone"}
  <2>1. CASE l[p].parent
    BY <1>1, <1>3, <1>5, <2>1 DEF At, HasIp, HasDp, HasBoth, HasNone, PCs
  <2>2. CASE ~l[p].parent
    BY <1>1, <1>3, <1>5, <2>2 DEF At, HasIp, HasDp, HasBoth, HasNone, PCs
  <2> QED
    BY <2>1, <2>2
<1>7. ReadyEven(p, x)
  <2>1. ASSUME NEW j \in Inums
        PROVE  fs'.ref[j] + InHand(l[p], j) = fs.ref[j] + (Owes(x.agenda, j) + InHand(x, j))
    <3>1. /\ InHand(l[p], j) = Is(l[p].cur, j) + Is(l[p].ip, j)
          /\ Is(l[p].cur, j) \in Nat /\ Is(l[p].ip, j) \in Nat /\ Is(0, j) = 0 /\ fs.ref[j] \in Nat
      BY <1>1, InHandIs, RefsGot, MineIs
    <3>2. InHand(x, j) = Is(0, j) + Is(x.ip, j) + Is(x.dp, j)
      BY <1>3 DEF InHand
    <3>3. InHand(x, j) = InHand(l[p], j)
      <4>1. CASE l[p].parent
        BY <1>3, <3>1, <3>2, <4>1
      <4>2. CASE ~l[p].parent
        BY <1>3, <1>5, <3>1, <3>2, <4>2
      <4> QED
        BY <4>1, <4>2
    <3>4. Owes(x.agenda, j) = 0
      BY <1>3, OwesNothing
    <3> QED
      BY <3>1, <3>3, <3>4
  <2> QED
    BY <2>1 DEF ReadyEven
<1> QED
  BY <1>2, <1>3, <1>6, <1>7, LocksStay, Agendas, ReadyStep

LEMMA WalkMoves ==
  ASSUME FilesInv, NEW p \in Procs, Walk(p)
  PROVE  FilesInv'
<1> DEFINE i == l[p].cur
           path == l[p].path
           s0 == Ilock(fs, i)
           e == Dirlookup(s0, i, Head(path))
           s == e.s
           next == e.i
           a == <<Todo("put", i)>>
           x == [l[p] EXCEPT !.cur = next, !.path = Tail(path), !.agenda = a]
<1>1. /\ pc[p] = "walk" /\ l[p].agenda = <<>> /\ path # <<>>
      /\ UNCHANGED <<lk, cwd>> /\ UNCHANGED fileVars
      /\ \/ fs' \in {s0, s} /\ NamexFails(p)
         \/ fs' = s0 /\ NamexReturns(p)
         \/ /\ next # 0 /\ fs' = Iget(s, next) /\ l' = [l EXCEPT ![p] = x] /\ UNCHANGED pc
  BY DEF Walk, Ready, Visit, Set
<1>2. /\ l[p] \in Locals /\ At(l[p], "walk") /\ Shape(fs) /\ i \in Inums /\ l[p].dp = 0
      /\ path \in Seq(PathNames) /\ pc[p] \in PCs
  BY <1>1, ReadyIs DEF At
<1>7. Head(path) \in PathNames /\ Tail(path) \in Seq(PathNames)
  BY <1>1, <1>2
<1>3. Shape(s0) /\ s0.ref = fs.ref
  BY <1>2, IlockKeeps
<1>8. Shape(s) /\ s.ref = fs.ref /\ next \in 0..NInodes
  BY <1>2, <1>3, <1>7, DirlookupFinds
<1> HIDE DEF e, s0
<1>4. CASE fs' \in {s0, s} /\ NamexFails(p)
  BY <1>1, <1>3, <1>4, <1>8, NamexFailsMoves
<1>5. CASE fs' = s0 /\ NamexReturns(p)
  BY <1>1, <1>3, <1>5, NamexReturnsMoves
<1>6. CASE next # 0 /\ fs' = Iget(s, next) /\ l' = [l EXCEPT ![p] = x] /\ UNCHANGED pc
  <2>1. Tail(path) \in Seq(PathNames)
    BY <1>7
  <2>2. next \in 0..NInodes
    BY <1>8
  <2>3. next \in Inums
    BY <1>6, <2>2, InodeAssumption DEF InodeAssumption, Inums
  <2>4. a \in Seq(Todos) /\ AgendaOK(a) /\ \A j : Owes(a, j) = Is(i, j)
    BY <1>2, Agendas
  <2> HIDE DEF next, s, a
  <2>5. /\ x \in Locals /\ x.agenda = a /\ x.cur = next /\ x.ip = l[p].ip /\ x.dp = 0
        /\ x.call = l[p].call /\ x.parent = l[p].parent
    BY <1>2, <2>1, <2>2, <2>4 DEF Locals
  <2> HIDE DEF x
  <2>6. At(x, "walk")
    BY <1>2, <1>6, <2>5 DEF At, HasIp, HasDp, HasBoth, HasNone
  <2>7. Shape(fs')
    BY <1>6, <1>8, <2>3, IgetCounts
  <2>8. ReadyEven(p, x)
    <3>1. ASSUME NEW j \in Inums
          PROVE  fs'.ref[j] + InHand(l[p], j) = fs.ref[j] + (Owes(x.agenda, j) + InHand(x, j))
      <4>1. InHand(l[p], j) = Is(i, j) + Is(l[p].ip, j)
        BY <1>2, InHandIs
      <4>2. InHand(x, j) = Is(next, j) + Is(l[p].ip, j)
        BY <2>5, <2>6, InHandIs
      <4>3. fs.ref[j] \in Nat /\ Is(i, j) \in Nat /\ Is(l[p].ip, j) \in Nat /\ Is(next, j) \in Nat
        BY <1>2, <2>3, RefsGot, MineIs
      <4>4. fs'.ref[j] = fs.ref[j] + Is(next, j)
        BY <1>6, <1>8, <2>3, RefsGot
      <4> QED
        BY <2>4, <2>5, <4>1, <4>2, <4>3, <4>4
    <3> QED
      BY <3>1 DEF ReadyEven
  <2>9. pc' = [pc EXCEPT ![p] = "walk"]
    BY <1>1, <1>6 DEF FilesInv, FilesTypeOK
  <2>10. LocksMove(p, x, "walk")
    BY <1>1, LocksStay
  <2> QED
    BY <1>1, <1>2, <1>6, <2>4, <2>5, <2>6, <2>7, <2>8, <2>9, <2>10, ReadyStep
<1> QED
  BY <1>1, <1>4, <1>5, <1>6

LEMMA WalkEndMoves ==
  ASSUME FilesInv, NEW p \in Procs, WalkEnd(p)
  PROVE  FilesInv'
<1>1. /\ pc[p] = "walk" /\ l[p].agenda = <<>> /\ l[p].path = <<>>
      /\ IF l[p].parent THEN NamexFails(p) ELSE NamexReturns(p)
      /\ UNCHANGED <<fs, lk, cwd>> /\ UNCHANGED fileVars
  BY DEF WalkEnd, Ready
<1>2. Shape(fs') /\ fs'.ref = fs.ref
  BY <1>1, ReadyIs
<1> QED
  BY <1>1, <1>2, NamexFailsMoves, NamexReturnsMoves

-----------------------------------------------------------------------------
(* open, mkdir, mknod                                                      *)

(* A call that returns with the one inode it holds to put.                 *)
LEMMA ReturnPut ==
  ASSUME FilesInv, NEW p \in Procs, l[p].agenda = <<>>, NEW v,
         \/ pc[p] \in HasIp \ {"chdirDone"} /\ v = l[p].ip
         \/ pc[p] \in HasDp /\ v = l[p].dp,
         Return(p, <<Todo("put", v)>>), UNCHANGED cwd, UNCHANGED fileVars,
         Shape(fs'), fs'.ref = fs.ref, LocksMove(p, Owe(<<Todo("put", v)>>), "idle")
  PROVE  FilesInv'
<1> DEFINE a == <<Todo("put", v)>>
<1>1. /\ At(l[p], pc[p]) /\ Shape(fs) /\ v \in Inums
  BY ReadyIs DEF At
<1>2. a \in Seq(Todos) /\ AgendaOK(a) /\ \A j : Owes(a, j) = Is(v, j)
  BY <1>1, Agendas
<1>3. \A j \in Inums : InHand(l[p], j) = Is(v, j)
  BY <1>1, InHandIs
<1> HIDE DEF a
<1>4. \A j \in Inums : fs'.ref[j] + InHand(l[p], j) = fs.ref[j] + Owes(a, j)
  BY <1>2, <1>3
<1>5. pc[p] \notin {"dead", "chdirDone"}
  BY DEF HasIp, HasDp
<1>6. Return(p, a) /\ LocksMove(p, Owe(a), "idle")
  BY DEF a
<1> QED
  BY <1>2, <1>4, <1>5, <1>6, ReturnStep

(* A call goes on with the inode that it now has locked.                   *)
LEMMA MadeMoves ==
  ASSUME FilesInv, NEW p \in Procs, l[p].agenda = <<>>, pc[p] \in {"exists", "open"},
         lk' = [lk EXCEPT ![l[p].ip] = p], pc' = [pc EXCEPT ![p] = "made"],
         UNCHANGED l, UNCHANGED cwd, UNCHANGED fileVars, Shape(fs'), fs'.ref = fs.ref
  PROVE  FilesInv'
<1>1. /\ l[p] \in Locals /\ At(l[p], pc[p]) /\ l[p].ip \in Inums
  BY ReadyIs DEF At, HasIp
<1>2. At(l[p], "made")
  BY <1>1 DEF At, HasIp, HasDp, HasBoth, HasNone
<1>3. l' = [l EXCEPT ![p] = l[p]]
  BY DEF FilesInv, FilesTypeOK
<1>4. ReadyEven(p, l[p])
  <2>1. ASSUME NEW j \in Inums
        PROVE  fs'.ref[j] + InHand(l[p], j) = fs.ref[j] + (Owes(l[p].agenda, j) + InHand(l[p], j))
    BY OwesNothing, Nats
  <2> QED
    BY <2>1 DEF ReadyEven
<1>5. LocksMove(p, l[p], "made")
  BY <1>1, LockTaken DEF Locks
<1> QED
  BY <1>1, <1>2, <1>3, <1>4, <1>5, Agendas, ReadyStep DEF PCs

LEMMA LeastInum ==
  ASSUME NEW s, FreeInums(s) # {}
  PROVE  Min(FreeInums(s)) \in Inums
<1>1. FreeInums(s) \subseteq Nat /\ FreeInums(s) \subseteq Inums
  BY DEF FreeInums, Inums
<1> QED
  BY <1>1, LeastOf

LEMMA CreateLookupMoves ==
  ASSUME FilesInv, NEW p \in Procs, CreateLookup(p)
  PROVE  FilesInv'
<1> DEFINE d == l[p].dp
           s0 == Ilock(fs, d)
           e == Dirlookup(s0, d, Head(l[p].path))
           s == e.s
           i == e.i
           m == Min(FreeInums(s))
           a == <<Todo("put", d)>>
           x == [l[p] EXCEPT !.ip = i, !.dp = 0, !.agenda = a]
           y == [l[p] EXCEPT !.ip = m]
<1>1. /\ pc[p] = "create" /\ l[p].agenda = <<>> /\ UNCHANGED cwd /\ UNCHANGED fileVars
      /\ \/ /\ i # 0 /\ UNCHANGED lk /\ fs' = Iget(s, i)
            /\ l' = [l EXCEPT ![p] = x] /\ pc' = [pc EXCEPT ![p] = "exists"]
         \/ UNCHANGED lk /\ fs' = s /\ Return(p, a)
         \/ /\ FreeInums(s) # {} /\ lk' = [lk EXCEPT ![d] = p]
            /\ fs' = Ialloc(s, m, l[p].call.type)
            /\ l' = [l EXCEPT ![p] = y] /\ pc' = [pc EXCEPT ![p] = "new"]
  BY DEF CreateLookup, Ready, Visit, Lock, Set, Goto
<1>2. /\ l[p] \in Locals /\ At(l[p], "create") /\ Shape(fs) /\ d \in Inums /\ l[p].path # <<>>
      /\ l[p].path \in Seq(PathNames) /\ l[p].cur = 0 /\ l[p].ip = 0
  BY <1>1, ReadyIs DEF At, HasDp
<1>11. Shape(s0) /\ s0.ref = fs.ref /\ Head(l[p].path) \in PathNames
  BY <1>2, IlockKeeps
<1>3. Shape(s) /\ s.ref = fs.ref /\ i \in 0..NInodes
  BY <1>2, <1>11, DirlookupFinds
<1>4. i \in 0..NInodes /\ (i # 0 => i \in Inums)
  BY <1>3, InodeAssumption DEF InodeAssumption, Inums
<1>5. a \in Seq(Todos) /\ AgendaOK(a) /\ \A j : Owes(a, j) = Is(d, j)
  BY <1>2, Agendas
<1>6. FreeInums(s) # {} => m \in Inums /\ m # 0 /\ m \in 0..NInodes
  BY LeastInum, InodeAssumption DEF InodeAssumption, Inums
<1>7. \A j \in Inums : InHand(l[p], j) = Is(d, j) /\ fs.ref[j] \in Nat /\ Is(d, j) \in Nat
  BY <1>2, InHandIs, RefsGot DEF HasDp
<1> HIDE DEF i, s, m
<1>8. CASE /\ i # 0 /\ UNCHANGED lk /\ fs' = Iget(s, i)
           /\ l' = [l EXCEPT ![p] = x] /\ pc' = [pc EXCEPT ![p] = "exists"]
  <2>1. x \in Locals /\ x.agenda = a /\ x.cur = 0 /\ x.ip = i /\ x.dp = 0
    BY <1>2, <1>4, <1>5, InodeAssumption DEF Locals, InodeAssumption
  <2> HIDE DEF x
  <2>2. At(x, "exists")
    BY <1>8, <2>1 DEF At, HasIp, HasDp, HasBoth, HasNone
  <2>3. ReadyEven(p, x)
    <3>1. ASSUME NEW j \in Inums
          PROVE  fs'.ref[j] + InHand(l[p], j) = fs.ref[j] + (Owes(x.agenda, j) + InHand(x, j))
      <4>1. InHand(x, j) = Is(i, j)
        BY <2>1, <2>2, InHandIs DEF HasIp
      <4>2. fs'.ref[j] = fs.ref[j] + Is(i, j) /\ Is(i, j) \in Nat
        BY <1>3, <1>4, <1>8, RefsGot
      <4> QED
        BY <1>5, <1>7, <2>1, <4>1, <4>2
    <3> QED
      BY <3>1 DEF ReadyEven
  <2>4. Shape(fs')
    BY <1>3, <1>4, <1>8, IgetCounts
  <2>5. LocksMove(p, x, "exists")
    BY <1>1, <1>8, LocksStay
  <2> QED
    BY <1>1, <1>5, <1>8, <2>1, <2>2, <2>3, <2>4, <2>5, ReadyStep DEF PCs
<1>9. CASE UNCHANGED lk /\ fs' = s /\ Return(p, a)
  BY <1>1, <1>3, <1>9, LocksStay, ReturnPut DEF HasDp
<1>10. CASE /\ FreeInums(s) # {} /\ lk' = [lk EXCEPT ![d] = p]
            /\ fs' = Ialloc(s, m, l[p].call.type)
            /\ l' = [l EXCEPT ![p] = y] /\ pc' = [pc EXCEPT ![p] = "new"]
  <2>1. /\ y \in Locals /\ y.agenda = <<>> /\ y.cur = 0 /\ y.ip = m /\ y.dp = d
        /\ y.path = l[p].path
    BY <1>1, <1>2, <1>6, <1>10 DEF Locals
  <2> HIDE DEF y
  <2>2. At(y, "new")
    BY <1>2, <1>6, <1>10, <2>1 DEF At, HasIp, HasDp, HasBoth, HasNone
  <2>3. ReadyEven(p, y)
    <3>1. ASSUME NEW j \in Inums
          PROVE  fs'.ref[j] + InHand(l[p], j) = fs.ref[j] + (Owes(y.agenda, j) + InHand(y, j))
      <4>1. InHand(y, j) = Is(m, j) + Is(d, j) /\ Owes(y.agenda, j) = 0
        BY <2>1, <2>2, InHandIs, OwesNothing DEF HasBoth
      <4>2. fs'.ref[j] = fs.ref[j] + Is(m, j) /\ Is(m, j) \in Nat
        BY <1>3, <1>6, <1>10, RefsGot
      <4> QED
        BY <1>7, <4>1, <4>2
    <3> QED
      BY <3>1 DEF ReadyEven
  <2>4. Shape(fs')
    BY <1>3, <1>6, <1>10, IallocCounts
  <2>5. LocksMove(p, y, "new")
    BY <1>1, <1>2, <1>10, <2>1, LockTaken DEF Locks
  <2> QED
    BY <1>1, <1>10, <2>1, <2>2, <2>3, <2>4, <2>5, Agendas, ReadyStep DEF PCs
<1> QED
  BY <1>1, <1>8, <1>9, <1>10

LEMMA CreateExistsMoves ==
  ASSUME FilesInv, NEW p \in Procs, CreateExists(p)
  PROVE  FilesInv'
<1>1. /\ pc[p] = "exists" /\ l[p].agenda = <<>> /\ UNCHANGED cwd /\ UNCHANGED fileVars
      /\ fs' = Ilock(fs, l[p].ip)
      /\ \/ /\ lk' = [lk EXCEPT ![l[p].ip] = p] /\ pc' = [pc EXCEPT ![p] = "made"] /\ UNCHANGED l
         \/ UNCHANGED lk /\ Return(p, <<Todo("put", l[p].ip)>>)
  BY DEF CreateExists, Ready, Visit, Lock, Goto
<1>2. Shape(fs') /\ fs'.ref = fs.ref
  BY <1>1, ReadyIs, IlockKeeps
<1> QED
  BY <1>1, <1>2, LocksStay, ReturnPut, MadeMoves DEF HasIp

LEMMA OpenExistingMoves ==
  ASSUME FilesInv, NEW p \in Procs, OpenExisting(p)
  PROVE  FilesInv'
<1>1. /\ pc[p] = "open" /\ l[p].agenda = <<>> /\ UNCHANGED cwd /\ UNCHANGED fileVars
      /\ fs' = Ilock(fs, l[p].ip)
      /\ \/ /\ lk' = [lk EXCEPT ![l[p].ip] = p] /\ pc' = [pc EXCEPT ![p] = "made"] /\ UNCHANGED l
         \/ UNCHANGED lk /\ Return(p, <<Todo("put", l[p].ip)>>)
  BY DEF OpenExisting, Ready, Visit, Lock, Goto
<1>2. Shape(fs') /\ fs'.ref = fs.ref
  BY <1>1, ReadyIs, IlockKeeps
<1> QED
  BY <1>1, <1>2, LocksStay, ReturnPut, MadeMoves DEF HasIp

LEMMA MakeDoneMoves ==
  ASSUME FilesInv, NEW p \in Procs, MakeDone(p)
  PROVE  FilesInv'
<1>1. /\ pc[p] = "made" /\ l[p].agenda = <<>> /\ UNCHANGED <<fs, cwd>> /\ UNCHANGED fileVars
      /\ lk' = [lk EXCEPT ![l[p].ip] = Nobody] /\ Return(p, <<Todo("put", l[p].ip)>>)
  BY DEF MakeDone, Ready, Unlock
<1>2. Shape(fs') /\ fs'.ref = fs.ref
  BY <1>1, ReadyIs
<1> QED
  BY <1>1, <1>2, LockGiven, ReturnPut DEF HasIp

(* Two inodes in hand: one call returns with three things to do, another   *)
(* keeps the one it has locked and puts the directory.                     *)
LEMMA ReturnBoth ==
  ASSUME FilesInv, NEW p \in Procs, l[p].agenda = <<>>, pc[p] \in {"new", "unlinkChild"},
         Return(p, <<Todo("put", l[p].ip), Todo("unlock", l[p].dp), Todo("put", l[p].dp)>>),
         UNCHANGED <<lk, cwd>>, UNCHANGED fileVars, Shape(fs'), fs'.ref = fs.ref
  PROVE  FilesInv'
<1> DEFINE i == l[p].ip
           d == l[p].dp
           a == <<Todo("put", i), Todo("unlock", d), Todo("put", d)>>
<1>1. At(l[p], pc[p]) /\ Shape(fs) /\ i \in Inums /\ d \in Inums
  BY ReadyIs DEF At, HasBoth
<1>2. a \in Seq(Todos) /\ AgendaOK(a) /\ \A j : Owes(a, j) = Is(i, j) + Is(d, j)
  BY <1>1, Agendas
<1>3. \A j \in Inums : InHand(l[p], j) = Is(i, j) + Is(d, j)
  BY <1>1, InHandIs DEF HasBoth
<1>4. ToUnlock(a, d)
  <2>1. 2 \in DOMAIN a /\ a[2] = Todo("unlock", d)
    OBVIOUS
  <2> QED
    BY <2>1 DEF ToUnlock, Todo
<1> HIDE DEF a
<1>5. \A j \in Inums : fs'.ref[j] + InHand(l[p], j) = fs.ref[j] + Owes(a, j)
  BY <1>2, <1>3
<1>6. LocksMove(p, Owe(a), "idle")
  BY <1>2, <1>4, OweIs, LockOwed
<1>7. Return(p, a)
  BY DEF a
<1> QED
  BY <1>2, <1>5, <1>6, <1>7, ReturnStep

LEMMA KeepChild ==
  ASSUME FilesInv, NEW p \in Procs, l[p].agenda = <<>>, pc[p] \in {"new", "unlinkChild"},
         NEW place \in {"made", "unlinkLast"},
         l' = [l EXCEPT ![p] = [l[p] EXCEPT !.dp = 0, !.agenda = <<Todo("put", l[p].dp)>>]],
         pc' = [pc EXCEPT ![p] = place],
         lk' = [lk EXCEPT ![l[p].ip] = p, ![l[p].dp] = Nobody],
         UNCHANGED cwd, UNCHANGED fileVars, Shape(fs'), fs'.ref = fs.ref
  PROVE  FilesInv'
<1> DEFINE i == l[p].ip
           d == l[p].dp
           a == <<Todo("put", d)>>
           x == [l[p] EXCEPT !.dp = 0, !.agenda = a]
<1>1. /\ l[p] \in Locals /\ At(l[p], pc[p]) /\ Shape(fs) /\ i \in Inums /\ d \in Inums
      /\ l[p].cur = 0 /\ i # 0
  BY ReadyIs DEF At, HasBoth
<1>2. a \in Seq(Todos) /\ AgendaOK(a) /\ \A j : Owes(a, j) = Is(d, j)
  BY <1>1, Agendas
<1>3. x \in Locals /\ x.agenda = a /\ x.cur = 0 /\ x.ip = i /\ x.dp = 0
  BY <1>1, <1>2, InodeAssumption DEF Locals, InodeAssumption
<1>4. l' = [l EXCEPT ![p] = x]
  OBVIOUS
<1> HIDE DEF a, x
<1>5. At(x, place)
  BY <1>1, <1>3 DEF At, HasIp, HasDp, HasBoth, HasNone
<1>6. ReadyEven(p, x)
  <2>1. ASSUME NEW j \in Inums
        PROVE  fs'.ref[j] + InHand(l[p], j) = fs.ref[j] + (Owes(x.agenda, j) + InHand(x, j))
    <3>1. InHand(l[p], j) = Is(i, j) + Is(d, j) /\ InHand(x, j) = Is(i, j)
      BY <1>1, <1>3, <1>5, InHandIs DEF HasBoth, HasIp
    <3>2. Is(i, j) \in Nat /\ Is(d, j) \in Nat /\ fs.ref[j] \in Nat
      BY <1>1, RefsGot
    <3> QED
      BY <1>2, <1>3, <3>1, <3>2
  <2> QED
    BY <2>1 DEF ReadyEven
<1>7. LocksMove(p, x, place)
  BY <1>3, LockPassed, Zenon DEF Locks
<1> QED
  BY <1>2, <1>3, <1>4, <1>5, <1>6, <1>7, ReadyStep DEF PCs

LEMMA CreateNewMoves ==
  ASSUME FilesInv, NEW p \in Procs, CreateNew(p)
  PROVE  FilesInv'
<1> DEFINE d == l[p].dp
           i == l[p].ip
           isDir == l[p].call.type = "dir"
           s0 == Ilock(fs, i)
           s1 == SetNlink(s0, i, 1)
           w == IF isDir THEN MakeDots(s1, i, d) ELSE [ok |-> TRUE, s |-> s1]
           n == Head(l[p].path)
           e == IF w.ok THEN Dirlink(w.s, d, n, i) ELSE w
<1>1. /\ pc[p] = "new" /\ l[p].agenda = <<>> /\ UNCHANGED cwd /\ UNCHANGED fileVars
      /\ \/ /\ fs' = IF isDir THEN MoreLinks(e.s, d) ELSE e.s
            /\ lk' = [lk EXCEPT ![i] = p, ![d] = Nobody]
            /\ l' = [l EXCEPT ![p] = [l[p] EXCEPT !.dp = 0, !.agenda = <<Todo("put", d)>>]]
            /\ pc' = [pc EXCEPT ![p] = "made"]
         \/ /\ fs' = SetNlink(e.s, i, 0) /\ UNCHANGED lk
            /\ Return(p, <<Todo("put", i), Todo("unlock", d), Todo("put", d)>>)
  BY Zenon DEF CreateNew, Ready, Set, Goto
<1>2. Shape(fs) /\ d \in Inums /\ i \in Inums
  <2>1. At(l[p], "new")
    BY <1>1, ReadyIs
  <2> QED
    BY <1>1, <2>1, ReadyIs, Zenon DEF At, HasBoth
<1>3. Shape(s0) /\ s0.ref = fs.ref
  BY <1>2, IlockKeeps
<1> HIDE DEF s0
<1>4. Shape(s1) /\ s1.ref = fs.ref
  BY <1>3, SetNlinkKeeps
<1> HIDE DEF s1
<1>5. Shape(w.s) /\ w.s.ref = fs.ref /\ w.ok \in BOOLEAN
  <2>1. Shape(MakeDots(s1, i, d).s) /\ MakeDots(s1, i, d).s.ref = s1.ref
        /\ MakeDots(s1, i, d).ok \in BOOLEAN
    BY <1>2, <1>4, MakeDotsKeeps
  <2>2. CASE isDir
    BY <1>4, <2>1, <2>2
  <2>3. CASE ~isDir
    <3>1. w.s = s1 /\ w.ok = TRUE
      BY <2>3
    <3> QED
      BY <1>4, <3>1
  <2> QED
    BY <2>2, <2>3
<1> HIDE DEF w
<1>6. Shape(e.s) /\ e.s.ref = fs.ref
  <2>1. Shape(Dirlink(w.s, d, n, i).s) /\ Dirlink(w.s, d, n, i).s.ref = w.s.ref
    BY <1>2, <1>5, DirlinkKeeps
  <2> QED
    BY <1>5, <2>1
<1> HIDE DEF e
<1>7. /\ Shape(MoreLinks(e.s, d)) /\ MoreLinks(e.s, d).ref = fs.ref
      /\ Shape(SetNlink(e.s, i, 0)) /\ SetNlink(e.s, i, 0).ref = fs.ref
  BY <1>6, SetNlinkKeeps, LinksKeep
<1>8. Shape(fs') /\ fs'.ref = fs.ref
  BY <1>1, <1>6, <1>7
<1> QED
  BY <1>1, <1>8, ReturnBoth, KeepChild, Zenon

-----------------------------------------------------------------------------
(* unlink, link, chdir, exec                                               *)

LEMMA UnlinkLookupMoves ==
  ASSUME FilesInv, NEW p \in Procs, UnlinkLookup(p)
  PROVE  FilesInv'
<1> DEFINE d == l[p].dp
           s0 == Ilock(fs, d)
           e == Dirlookup(s0, d, Head(l[p].path))
           s == e.s
           i == e.i
           x == [l[p] EXCEPT !.ip = i]
<1>1. /\ pc[p] = "unlink" /\ l[p].agenda = <<>> /\ UNCHANGED cwd /\ UNCHANGED fileVars
      /\ \/ UNCHANGED lk /\ fs' \in {s0, s} /\ Return(p, <<Todo("put", d)>>)
         \/ /\ i # 0 /\ lk' = [lk EXCEPT ![d] = p] /\ fs' = Iget(s, i)
            /\ l' = [l EXCEPT ![p] = x] /\ pc' = [pc EXCEPT ![p] = "unlinkChild"]
  BY DEF UnlinkLookup, Ready, Visit, Lock, Set, Goto
<1>2. /\ l[p] \in Locals /\ At(l[p], "unlink") /\ Shape(fs) /\ d \in Inums /\ l[p].path # <<>>
      /\ l[p].path \in Seq(PathNames) /\ l[p].cur = 0 /\ d # 0
  BY <1>1, ReadyIs DEF At, HasDp
<1>7. Shape(s0) /\ s0.ref = fs.ref /\ Head(l[p].path) \in PathNames
  BY <1>2, IlockKeeps
<1>3. Shape(s) /\ s.ref = fs.ref /\ i \in 0..NInodes
  BY <1>2, <1>7, DirlookupFinds
<1>4. i \in 0..NInodes /\ (i # 0 => i \in Inums)
  BY <1>3, InodeAssumption DEF InodeAssumption, Inums
<1> HIDE DEF i, s, s0
<1>5. CASE UNCHANGED lk /\ fs' \in {s0, s} /\ Return(p, <<Todo("put", d)>>)
  BY <1>1, <1>3, <1>5, <1>7, LocksStay, ReturnPut DEF HasDp
<1>6. CASE /\ i # 0 /\ lk' = [lk EXCEPT ![d] = p] /\ fs' = Iget(s, i)
           /\ l' = [l EXCEPT ![p] = x] /\ pc' = [pc EXCEPT ![p] = "unlinkChild"]
  <2>1. /\ x \in Locals /\ x.agenda = <<>> /\ x.cur = 0 /\ x.ip = i /\ x.dp = d
        /\ x.path = l[p].path
    BY <1>1, <1>2, <1>4 DEF Locals
  <2> HIDE DEF x
  <2>2. At(x, "unlinkChild")
    BY <1>2, <1>6, <2>1 DEF At, HasIp, HasDp, HasBoth, HasNone
  <2>3. ReadyEven(p, x)
    <3>1. ASSUME NEW j \in Inums
          PROVE  fs'.ref[j] + InHand(l[p], j) = fs.ref[j] + (Owes(x.agenda, j) + InHand(x, j))
      <4>1. InHand(x, j) = Is(i, j) + Is(d, j) /\ Owes(x.agenda, j) = 0
        BY <2>1, <2>2, InHandIs, OwesNothing DEF HasBoth
      <4>2. fs'.ref[j] = fs.ref[j] + Is(i, j) /\ Is(i, j) \in Nat
        BY <1>3, <1>4, <1>6, RefsGot
      <4>3. InHand(l[p], j) = Is(d, j) /\ fs.ref[j] \in Nat /\ Is(d, j) \in Nat
        BY <1>2, InHandIs, RefsGot DEF HasDp
      <4> QED
        BY <4>1, <4>2, <4>3
    <3> QED
      BY <3>1 DEF ReadyEven
  <2>4. Shape(fs')
    BY <1>3, <1>4, <1>6, IgetCounts
  <2>5. LocksMove(p, x, "unlinkChild")
    BY <1>1, <1>2, <1>6, <2>1, LockTaken, Zenon DEF Locks
  <2> QED
    BY <1>1, <1>6, <2>1, <2>2, <2>3, <2>4, <2>5, Agendas, ReadyStep DEF PCs
<1> QED
  BY <1>1, <1>5, <1>6

LEMMA UnlinkChildMoves ==
  ASSUME FilesInv, NEW p \in Procs, UnlinkChild(p)
  PROVE  FilesInv'
<1> DEFINE d == l[p].dp
           i == l[p].ip
           s2 == Ilock(fs, i)
           e == IF s2.mem[i].type = "dir" THEN IsDirEmpty(s2, i)
                ELSE [empty |-> TRUE, ok |-> TRUE, s |-> s2]
           s == e.s
           s0 == WithEntry(s, d, Head(l[p].path), 0)
           s1 == Iupdate(s0, d)
<1>10. /\ Ready(p, "unlinkChild") /\ UNCHANGED <<fileVars, cwd, calls>>
       /\ IF ~e.empty
          THEN /\ fs' = s2 /\ UNCHANGED lk
               /\ Return(p, <<Todo("put", i), Todo("unlock", d), Todo("put", d)>>)
          ELSE /\ fs' = IF s2.mem[i].type = "dir" THEN FewerLinks(s1, d) ELSE s1
               /\ lk' = [lk EXCEPT ![i] = p, ![d] = Nobody]
               /\ Set(p, [l[p] EXCEPT !.dp = 0, !.agenda = <<Todo("put", d)>>])
               /\ Goto(p, "unlinkLast")
  BY Zenon DEF UnlinkChild, WithEntry
<1> HIDE DEF e, s1
<1>1. /\ pc[p] = "unlinkChild" /\ l[p].agenda = <<>> /\ UNCHANGED cwd /\ UNCHANGED fileVars
      /\ \/ /\ fs' = s2 /\ UNCHANGED lk
            /\ Return(p, <<Todo("put", i), Todo("unlock", d), Todo("put", d)>>)
         \/ /\ fs' \in {s1, FewerLinks(s1, d)}
            /\ lk' = [lk EXCEPT ![i] = p, ![d] = Nobody]
            /\ l' = [l EXCEPT ![p] = [l[p] EXCEPT !.dp = 0, !.agenda = <<Todo("put", d)>>]]
            /\ pc' = [pc EXCEPT ![p] = "unlinkLast"]
  BY <1>10 DEF Ready, Set, Goto
<1> USE DEF e, s1
<1>2. Shape(fs)
  BY <1>1, ReadyIs
<1>9. Shape(s2) /\ s2.ref = fs.ref
  BY <1>2, IlockKeeps
<1> HIDE DEF s2
<1>3. Shape(s) /\ s.ref = fs.ref
  <2>1. s \in {s2, ReadAll(s2, i).s}
    BY DEF IsDirEmpty
  <2> QED
    BY <1>9, <2>1, ReadiKeeps
<1> HIDE DEF s, e
<1>4. 0 \in 0..NInodes
  BY InodeAssumption DEF InodeAssumption
<1>5. Shape(s0) /\ s0.ref = fs.ref
  BY <1>3, <1>4, EntrySet
<1> HIDE DEF s0
<1>6. Shape(s1) /\ s1.ref = fs.ref
  BY <1>5, IupdateKeeps
<1> HIDE DEF s1
<1>7. Shape(FewerLinks(s1, d)) /\ FewerLinks(s1, d).ref = fs.ref
  BY <1>6, LinksKeep
<1>8. Shape(fs') /\ fs'.ref = fs.ref
  BY <1>1, <1>6, <1>7, <1>9
<1> QED
  BY <1>1, <1>8, ReturnBoth, KeepChild, Zenon

LEMMA UnlinkLastMoves ==
  ASSUME FilesInv, NEW p \in Procs, UnlinkLast(p)
  PROVE  FilesInv'
<1>1. /\ pc[p] = "unlinkLast" /\ l[p].agenda = <<>> /\ UNCHANGED cwd /\ UNCHANGED fileVars
      /\ fs' = FewerLinks(fs, l[p].ip)
      /\ lk' = [lk EXCEPT ![l[p].ip] = Nobody] /\ Return(p, <<Todo("put", l[p].ip)>>)
  BY DEF UnlinkLast, Ready, Unlock
<1>2. Shape(fs') /\ fs'.ref = fs.ref
  BY <1>1, ReadyIs, LinksKeep
<1> QED
  BY <1>1, <1>2, LockGiven, ReturnPut DEF HasIp

LEMMA LinkOldMoves ==
  ASSUME FilesInv, NEW p \in Procs, LinkOld(p)
  PROVE  FilesInv'
<1> DEFINE i == l[p].ip
           c == l[p].call
           s == Ilock(fs, i)
           s1 == MoreLinks(s, i)
           start == IF c.new.abs THEN ROOTINO ELSE cwd[p]
           x == [l[p] EXCEPT !.path = c.new.elems, !.parent = TRUE, !.cur = start]
<1>1. /\ pc[p] = "link" /\ l[p].agenda = <<>> /\ UNCHANGED <<lk, cwd>> /\ UNCHANGED fileVars
      /\ \/ fs' = s /\ Return(p, <<Todo("put", i)>>)
         \/ /\ fs' \in {Iget(s1, start), Idup(s1, start)}
            /\ l' = [l EXCEPT ![p] = x] /\ pc' = [pc EXCEPT ![p] = "walk"]
  BY DEF LinkOld, Ready, Visit, Set, Goto
<1>2. /\ l[p] \in Locals /\ At(l[p], "link") /\ Shape(fs) /\ i # 0 /\ l[p].dp = 0
      /\ c \in Calls /\ c.op = "link" /\ cwd[p] \in Inums
  BY <1>1, ReadyIs DEF At, HasIp
<1>3. Shape(s) /\ s.ref = fs.ref
  BY <1>2, IlockKeeps
<1> HIDE DEF s
<1>4. Shape(s1) /\ s1.ref = fs.ref
  BY <1>3, LinksKeep
<1> HIDE DEF s1
<1>5. start \in Inums /\ start # 0 /\ start \in 0..NInodes
  BY <1>2, InodeAssumption DEF InodeAssumption, Inums, ROOTINO
<1>6. c.new.elems \in Seq(PathNames)
  BY <1>2, CallsAre
<1>7. CASE fs' = s /\ Return(p, <<Todo("put", i)>>)
  BY <1>1, <1>3, <1>7, LocksStay, ReturnPut DEF HasIp
<1> HIDE DEF start
<1>8. CASE /\ fs' \in {Iget(s1, start), Idup(s1, start)}
           /\ l' = [l EXCEPT ![p] = x] /\ pc' = [pc EXCEPT ![p] = "walk"]
  <2>1. /\ x \in Locals /\ x.agenda = <<>> /\ x.cur = start /\ x.ip = i /\ x.dp = 0
        /\ x.parent = TRUE /\ x.call = c
    BY <1>1, <1>2, <1>5, <1>6 DEF Locals
  <2> HIDE DEF x
  <2>2. At(x, "walk")
    <3>1. WantsParent(c) \in BOOLEAN
      BY <1>2 DEF WantsParent
    <3> QED
      BY <1>2, <1>5, <2>1, <3>1 DEF At, HasIp, HasDp, HasBoth, HasNone
  <2>3. ReadyEven(p, x)
    <3>1. ASSUME NEW j \in Inums
          PROVE  fs'.ref[j] + InHand(l[p], j) = fs.ref[j] + (Owes(x.agenda, j) + InHand(x, j))
      <4>1. InHand(x, j) = Is(start, j) + Is(i, j) /\ Owes(x.agenda, j) = 0
        BY <2>1, <2>2, InHandIs, OwesNothing
      <4>2. /\ Iget(s1, start).ref[j] = s1.ref[j] + Is(start, j)
            /\ Idup(s1, start).ref[j] = s1.ref[j] + Is(start, j)
            /\ Is(start, j) \in Nat
        BY <1>4, <1>5, RefsGot
      <4>3. fs'.ref[j] = fs.ref[j] + Is(start, j)
        BY <1>4, <1>8, <4>2
      <4>4. InHand(l[p], j) = Is(i, j) /\ fs.ref[j] \in Nat /\ Is(i, j) \in Nat
        BY <1>2, InHandIs, MineIs, Nats DEF HasIp
      <4> QED
        BY <4>1, <4>2, <4>3, <4>4
    <3> QED
      BY <3>1 DEF ReadyEven
  <2>4. Shape(fs')
    <3>1. Shape(Iget(s1, start)) /\ Shape(Idup(s1, start))
      BY <1>4, <1>5, IgetCounts
    <3> QED
      BY <1>8, <3>1
  <2>5. LocksMove(p, x, "walk")
    BY <1>1, LocksStay
  <2> QED
    BY <1>1, <1>8, <2>1, <2>2, <2>3, <2>4, <2>5, Agendas, ReadyStep DEF PCs
<1> QED
  BY <1>1, <1>7, <1>8

LEMMA LinkEntryMoves ==
  ASSUME FilesInv, NEW p \in Procs, LinkEntry(p)
  PROVE  FilesInv'
<1> DEFINE d == l[p].dp
           i == l[p].ip
           s == Ilock(fs, d)
           n == Head(l[p].path)
           e == Dirlink(s, d, n, i)
           a == <<Todo("put", d)>>
           b == <<Todo("put", d), Todo("put", i)>>
           x == [l[p] EXCEPT !.dp = 0, !.agenda = a]
<1>1. /\ pc[p] = "linkEntry" /\ l[p].agenda = <<>> /\ UNCHANGED <<lk, cwd>> /\ UNCHANGED fileVars
      /\ fs' = e.s
      /\ \/ Return(p, b)
         \/ l' = [l EXCEPT ![p] = x] /\ pc' = [pc EXCEPT ![p] = "linkBad"]
  BY DEF LinkEntry, Ready, Visit, Set, Goto
<1>2. /\ l[p] \in Locals /\ At(l[p], "linkEntry") /\ Shape(fs) /\ i \in Inums /\ d \in Inums
      /\ l[p].cur = 0 /\ i # 0
  BY <1>1, ReadyIs DEF At, HasBoth
<1>3. Shape(s) /\ s.ref = fs.ref
  BY <1>2, IlockKeeps
<1> HIDE DEF s, n
<1>4. Shape(e.s) /\ e.s.ref = fs.ref
  BY <1>2, <1>3, DirlinkKeeps
<1> HIDE DEF e
<1>5. /\ a \in Seq(Todos) /\ AgendaOK(a) /\ \A j : Owes(a, j) = Is(d, j)
      /\ b \in Seq(Todos) /\ AgendaOK(b) /\ \A j : Owes(b, j) = Is(d, j) + Is(i, j)
  BY <1>2, Agendas
<1> HIDE DEF b
<1>6. ASSUME NEW j \in Inums
      PROVE  /\ InHand(l[p], j) = Is(i, j) + Is(d, j)
             /\ Is(i, j) \in Nat /\ Is(d, j) \in Nat /\ fs.ref[j] \in Nat
  BY <1>2, InHandIs, RefsGot DEF HasBoth
<1>7. CASE Return(p, b)
  <2>1. \A j \in Inums : fs'.ref[j] + InHand(l[p], j) = fs.ref[j] + Owes(b, j)
    BY <1>1, <1>4, <1>5, <1>6
  <2> QED
    BY <1>1, <1>4, <1>5, <1>7, <2>1, LocksStay, ReturnStep
<1>8. CASE l' = [l EXCEPT ![p] = x] /\ pc' = [pc EXCEPT ![p] = "linkBad"]
  <2>1. x \in Locals /\ x.agenda = a /\ x.cur = 0 /\ x.ip = i /\ x.dp = 0
    BY <1>2, <1>5, InodeAssumption DEF Locals, InodeAssumption
  <2> HIDE DEF x
  <2>2. At(x, "linkBad")
    BY <1>2, <2>1 DEF At, HasIp, HasDp, HasBoth, HasNone
  <2>3. ReadyEven(p, x)
    <3>1. ASSUME NEW j \in Inums
          PROVE  fs'.ref[j] + InHand(l[p], j) = fs.ref[j] + (Owes(x.agenda, j) + InHand(x, j))
      <4>1. InHand(x, j) = Is(i, j)
        BY <2>1, <2>2, InHandIs DEF HasIp
      <4> QED
        BY <1>1, <1>4, <1>5, <1>6, <2>1, <4>1
    <3> QED
      BY <3>1 DEF ReadyEven
  <2>4. LocksMove(p, x, "linkBad")
    BY <1>1, LocksStay
  <2> QED
    BY <1>1, <1>4, <1>5, <1>8, <2>1, <2>2, <2>3, <2>4, ReadyStep DEF PCs
<1> QED
  BY <1>1, <1>7, <1>8

LEMMA LinkBadMoves ==
  ASSUME FilesInv, NEW p \in Procs, LinkBad(p)
  PROVE  FilesInv'
<1>1. /\ pc[p] = "linkBad" /\ l[p].agenda = <<>> /\ UNCHANGED <<lk, cwd>> /\ UNCHANGED fileVars
      /\ fs' = FewerLinks(Ilock(fs, l[p].ip), l[p].ip) /\ Return(p, <<Todo("put", l[p].ip)>>)
  BY DEF LinkBad, Ready, Visit
<1>2. Shape(Ilock(fs, l[p].ip)) /\ Ilock(fs, l[p].ip).ref = fs.ref
  BY <1>1, ReadyIs, IlockKeeps
<1>3. Shape(fs') /\ fs'.ref = fs.ref
  BY <1>1, <1>2, LinksKeep
<1> QED
  BY <1>1, <1>3, LocksStay, ReturnPut DEF HasIp

LEMMA ExecMoves ==
  ASSUME FilesInv, NEW p \in Procs, Exec(p)
  PROVE  FilesInv'
<1>1. /\ pc[p] = "exec" /\ l[p].agenda = <<>> /\ UNCHANGED <<lk, cwd>> /\ UNCHANGED fileVars
      /\ fs' = Readi(Ilock(fs, l[p].ip), l[p].ip, 0).s /\ Return(p, <<Todo("put", l[p].ip)>>)
  BY DEF Exec, Ready, Visit
<1>2. Shape(fs') /\ fs'.ref = fs.ref
  BY <1>1, ReadyIs, IlockKeeps, ReadiKeeps
<1> QED
  BY <1>1, <1>2, LocksStay, ReturnPut DEF HasIp

LEMMA ChdirMoves ==
  ASSUME FilesInv, NEW p \in Procs, Chdir(p)
  PROVE  FilesInv'
<1> DEFINE a == <<Todo("put", cwd[p])>>
           x == WithAgenda(l[p], a)
<1>1. /\ pc[p] = "chdir" /\ l[p].agenda = <<>> /\ UNCHANGED <<lk, cwd>> /\ UNCHANGED fileVars
      /\ fs' = Ilock(fs, l[p].ip)
      /\ \/ Return(p, <<Todo("put", l[p].ip)>>)
         \/ l' = [l EXCEPT ![p] = x] /\ pc' = [pc EXCEPT ![p] = "chdirDone"]
  BY DEF Chdir, Ready, Visit, Set, Goto, WithAgenda
<1>2. Shape(fs') /\ fs'.ref = fs.ref
  BY <1>1, ReadyIs, IlockKeeps
<1>3. CASE Return(p, <<Todo("put", l[p].ip)>>)
  BY <1>1, <1>2, <1>3, LocksStay, ReturnPut DEF HasIp
<1>4. CASE l' = [l EXCEPT ![p] = x] /\ pc' = [pc EXCEPT ![p] = "chdirDone"]
  <2>1. /\ l[p] \in Locals /\ At(l[p], "chdir") /\ cwd[p] \in Inums /\ cwd[p] \in 0..NInodes
    BY <1>1, ReadyIs
  <2>2. At(l[p], "chdirDone")
    BY <2>1 DEF At, HasIp, HasDp, HasBoth, HasNone
  <2>3. a \in Seq(Todos) /\ AgendaOK(a) /\ \A j : Owes(a, j) = Is(cwd[p], j)
    BY <2>1, Agendas
  <2> HIDE DEF a
  <2>4. /\ x \in Locals /\ x.agenda = a /\ At(x, "chdirDone")
        /\ \A j : Mine(x, j) = Owes(a, j) + InHand(l[p], j)
    BY <2>1, <2>2, <2>3, AgendaSet
  <2> HIDE DEF x
  <2>5. Balanced(p, x, cwd[p], "chdirDone")
    <3>1. ASSUME NEW j \in Inums
          PROVE  fs'.ref[j] + Has(l[p], cwd[p], pc[p], j) = fs.ref[j] + Has(x, cwd[p], "chdirDone", j)
      <4>1. Has(l[p], cwd[p], pc[p], j) = 0 + InHand(l[p], j) + Is(cwd[p], j)
        BY <1>1, OwesNothing DEF Has, Lives
      <4>2. Has(x, cwd[p], "chdirDone", j) = Mine(x, j) + 0
        BY DEF Has, Lives, Mine
      <4>3. Mine(x, j) = Is(cwd[p], j) + InHand(l[p], j)
        BY <2>3, <2>4
      <4>4. InHand(l[p], j) \in Nat /\ Is(cwd[p], j) \in Nat
        BY Nats DEF Is
      <4> QED
        BY <1>2, <4>1, <4>2, <4>3, <4>4
    <3> QED
      BY <3>1 DEF Balanced
  <2>6. Settled(p, cwd[p], "chdirDone")
    BY <2>1, InodeAssumption DEF Settled, Inums, InodeAssumption
  <2>7. LocksMove(p, x, "chdirDone")
    BY <1>1, LocksStay
  <2>8. cwd' = [cwd EXCEPT ![p] = cwd[p]]
    BY <1>1 DEF FilesInv, FilesTypeOK
  <2> QED
    BY <1>1, <1>2, <1>4, <2>1, <2>3, <2>4, <2>5, <2>6, <2>7, <2>8, CallMoves DEF PCs
<1> QED
  BY <1>1, <1>3, <1>4

LEMMA ChdirDoneMoves ==
  ASSUME FilesInv, NEW p \in Procs, ChdirDone(p)
  PROVE  FilesInv'
<1> DEFINE x == Owe(<<>>)
           i == l[p].ip
<1>1. /\ pc[p] = "chdirDone" /\ l[p].agenda = <<>> /\ cwd' = [cwd EXCEPT ![p] = i]
      /\ l' = [l EXCEPT ![p] = x] /\ pc' = [pc EXCEPT ![p] = "idle"]
      /\ UNCHANGED <<fs, lk>> /\ UNCHANGED fileVars
  BY DEF ChdirDone, Ready, Return, Goto, Set, fileVars
<1>2. At(l[p], "chdirDone") /\ Shape(fs') /\ i \in Inums /\ i # 0 /\ l[p] \in Locals
  BY <1>1, ReadyIs DEF At, HasIp
<1>3. i \in 0..NInodes
  BY <1>2 DEF Locals
<1>4. /\ x \in Locals /\ x.agenda = <<>> /\ x.cur = 0 /\ x.ip = 0 /\ x.dp = 0
  BY OweIs, Agendas
<1> HIDE DEF x
<1>5. At(x, "idle")
  BY <1>4 DEF At, HasIp, HasDp, HasBoth, HasNone
<1>6. Balanced(p, x, i, "idle")
  <2>1. ASSUME NEW j \in Inums
        PROVE  fs'.ref[j] + Has(l[p], cwd[p], pc[p], j) = fs.ref[j] + Has(x, i, "idle", j)
    <3>1. Has(l[p], cwd[p], pc[p], j) = 0 + InHand(l[p], j) + 0
      BY <1>1, OwesNothing DEF Has, Lives
    <3>2. Has(x, i, "idle", j) = 0 + InHand(x, j) + Is(i, j)
      BY <1>4, OwesNothing DEF Has, Lives
    <3>3. InHand(l[p], j) = Is(i, j) /\ InHand(x, j) = 0 /\ Is(i, j) \in Nat
      BY <1>2, <1>5, InHandIs DEF HasIp, HasNone, Is
    <3> QED
      BY <1>1, <3>1, <3>2, <3>3
  <2> QED
    BY <2>1 DEF Balanced
<1>7. Settled(p, i, "idle")
  BY <1>2 DEF Settled
<1>8. LocksMove(p, x, "idle")
  BY <1>1, LocksStay
<1> QED
  BY <1>1, <1>2, <1>3, <1>4, <1>5, <1>6, <1>7, <1>8, Agendas, CallMoves DEF PCs

-----------------------------------------------------------------------------
(* Steps that change files and descriptors                                 *)

Slots(row, f) == {d \in Fds : row[d] = f}

LEMMA SlotsFinite ==
  ASSUME NEW row, NEW f
  PROVE  IsFiniteSet(Slots(row, f)) /\ Cardinality(Slots(row, f)) \in Nat
<1>1. IsFiniteSet(Fds)
  BY FileSysAssumption, FS_Interval DEF FileSysAssumption, Fds
<1>2. Slots(row, f) \subseteq Fds
  BY DEF Slots
<1> QED
  BY <1>1, <1>2, FS_Subset, FS_CardinalityType

LEMMA DescriptorsMove ==
  ASSUME NEW p \in Procs, \A q \in Procs : q # p => ofile'[q] = ofile[q], NEW f
  PROVE  /\ Cardinality(Descriptors(f)) \in Nat /\ Cardinality(Descriptors(f)') \in Nat
         /\ Cardinality(Slots(ofile[p], f)) \in Nat /\ Cardinality(Slots(ofile'[p], f)) \in Nat
         /\ Cardinality(Descriptors(f)') + Cardinality(Slots(ofile[p], f))
              = Cardinality(Descriptors(f)) + Cardinality(Slots(ofile'[p], f))
<1> DEFINE A == [q \in Procs |-> Slots(ofile[q], f)]
           C == [q \in Procs |-> Slots(ofile'[q], f)]
<1>1. Descriptors(f) = Family(A) /\ Descriptors(f)' = Family(C)
  BY DEF Descriptors, Family, Slots
<1>2. /\ \A q \in Procs : IsFiniteSet(A[q]) /\ (q # p => C[q] = A[q])
      /\ IsFiniteSet(C[p]) /\ A[p] = Slots(ofile[p], f) /\ C[p] = Slots(ofile'[p], f)
  BY SlotsFinite
<1> HIDE DEF A, C
<1>3. /\ Cardinality(Family(A)) \in Nat /\ Cardinality(Family(C)) \in Nat
      /\ Cardinality(A[p]) \in Nat /\ Cardinality(C[p]) \in Nat
      /\ Cardinality(Family(C)) + Cardinality(A[p]) = Cardinality(Family(A)) + Cardinality(C[p])
  BY <1>2, FamilyChange
<1> QED
  BY <1>1, <1>2, <1>3

(* The count of a file moves with the descriptors of p, that of an inode   *)
(* with the files and with what p has.                                     *)
FilesBalanced(p) == \A f \in FileIds :
    ft'[f].ref + Cardinality(Slots(ofile[p], f)) = ft[f].ref + Cardinality(Slots(ofile'[p], f))
InodesBalanced(p, x, c, place) == \A i \in Inums :
    (fs'.ref[i] + Has(l[p], cwd[p], pc[p], i)) + Cardinality(OpenFiles(i))
      = (fs.ref[i] + Has(x, c, place, i)) + Cardinality(OpenFiles(i)')
RowKept(p, c, place) ==
    IF place = "dead" THEN c = 0 /\ \A d \in Fds : ofile'[p][d] = 0 ELSE c # 0

Sums(r, r2, o, o2, s, s2, h, h2) ==
    /\ r \in Nat /\ r2 \in Nat /\ o \in Nat /\ o2 \in Nat
    /\ s \in Nat /\ s2 \in Nat /\ h \in Nat /\ h2 \in Nat
    /\ s2 + h = s + h2 /\ (r2 + h) + o = (r + h2) + o2 /\ r = o + s

LEMMA TwoBalances ==
  ASSUME NEW r, NEW r2, NEW o, NEW o2, NEW s, NEW s2, NEW h, NEW h2,
         Sums(r, r2, o, o2, s, s2, h, h2)
  PROVE  r2 = o2 + s2
BY DEF Sums

LEMMA FilesMove ==
  ASSUME FilesInv, NEW p \in Procs, NEW x \in Locals, NEW place \in PCs, NEW c \in 0..NInodes,
         l' = [l EXCEPT ![p] = x], pc' = [pc EXCEPT ![p] = place], cwd' = [cwd EXCEPT ![p] = c],
         ft' \in [FileIds -> Files], ofile' \in [Procs -> [Fds -> 0..NFile]],
         \A q \in Procs : q # p => ofile'[q] = ofile[q],
         Shape(fs'), LocksMove(p, x, place), At(x, place), AgendaOK(x.agenda),
         RowKept(p, c, place), FilesBalanced(p), InodesBalanced(p, x, c, place),
         \A f \in FileIds : FileOK(f)'
  PROVE  FilesInv'
<1>0. FilesTypeOK /\ RefsAgree /\ \A q \in Procs : ProcessOK(q)
  BY DEF FilesInv
<1>1. FilesTypeOK'
  BY <1>0 DEF FilesTypeOK, LocksMove
<1>2. \A q \in Procs : q # p => l'[q] = l[q] /\ cwd'[q] = cwd[q] /\ pc'[q] = pc[q]
  BY <1>0 DEF FilesTypeOK
<1>3. l'[p] = x /\ pc'[p] = place /\ cwd'[p] = c
  BY <1>0 DEF FilesTypeOK
<1>4. l \in [Procs -> Locals] /\ l' \in [Procs -> Locals]
  BY <1>0, <1>1 DEF FilesTypeOK
<1>5. ASSUME NEW i \in Inums PROVE InodeRefs(i)'
  <2>1. fs.ref[i] = Cardinality(OpenFiles(i)) + Refs(l, cwd, pc, i)
    BY <1>0, InodesAgree DEF Counted, InodeRefs
  <2>2. Moved(l, cwd, pc, l', cwd', pc', p, i)
    BY <1>2, <1>4, ProcessMoves
  <2>3. /\ Refs(l, cwd, pc, i) \in Nat /\ Refs(l', cwd', pc', i) \in Nat
        /\ Has(l[p], cwd[p], pc[p], i) \in Nat /\ Has(x, c, place, i) \in Nat
        /\ Refs(l', cwd', pc', i) + Has(l[p], cwd[p], pc[p], i)
             = Refs(l, cwd, pc, i) + Has(x, c, place, i)
    BY <1>3, <2>2 DEF Moved
  <2>4. Cardinality(OpenFiles(i)) \in Nat
    BY OpenFilesFinite
  <2>5. Cardinality(OpenFiles(i)') \in Nat
    <3>1. IsFiniteSet(FileIds) /\ OpenFiles(i)' \subseteq FileIds
      BY OpenFilesFinite DEF OpenFiles
    <3> QED
      BY <3>1, FS_Subset, FS_CardinalityType
  <2>6. fs.ref[i] \in Nat /\ fs'.ref[i] \in Nat
    BY <1>0 DEF FilesTypeOK, Shape
  <2>7. (fs'.ref[i] + Has(l[p], cwd[p], pc[p], i)) + Cardinality(OpenFiles(i))
          = (fs.ref[i] + Has(x, c, place, i)) + Cardinality(OpenFiles(i)')
    BY DEF InodesBalanced
  <2>8. fs'.ref[i] = Cardinality(OpenFiles(i)') + Refs(l', cwd', pc', i)
    <3>1. Sums(fs.ref[i], fs'.ref[i], Cardinality(OpenFiles(i)), Cardinality(OpenFiles(i)'),
               Refs(l, cwd, pc, i), Refs(l', cwd', pc', i),
               Has(l[p], cwd[p], pc[p], i), Has(x, c, place, i))
      BY <2>1, <2>3, <2>4, <2>5, <2>6, <2>7, Zenon DEF Sums
    <3> QED
      BY <3>1, TwoBalances
  <2> QED
    BY <2>8 DEF InodeRefs
<1>6. ASSUME NEW f \in FileIds PROVE FileRefs(f)'
  <2>1. ft[f].ref = Cardinality(Descriptors(f))
    BY <1>0, InodesAgree DEF Counted, FileRefs
  <2>2. /\ Cardinality(Descriptors(f)) \in Nat /\ Cardinality(Descriptors(f)') \in Nat
        /\ Cardinality(Slots(ofile[p], f)) \in Nat /\ Cardinality(Slots(ofile'[p], f)) \in Nat
        /\ Cardinality(Descriptors(f)') + Cardinality(Slots(ofile[p], f))
             = Cardinality(Descriptors(f)) + Cardinality(Slots(ofile'[p], f))
    BY DescriptorsMove
  <2>3. ft'[f].ref \in Nat
    BY DEF Files
  <2>4. ft'[f].ref + Cardinality(Slots(ofile[p], f)) = ft[f].ref + Cardinality(Slots(ofile'[p], f))
    BY DEF FilesBalanced
  <2>5. ft'[f].ref = Cardinality(Descriptors(f)')
    <3>1. Sums(ft[f].ref, ft'[f].ref, 0, 0, Cardinality(Descriptors(f)), Cardinality(Descriptors(f)'),
               Cardinality(Slots(ofile[p], f)), Cardinality(Slots(ofile'[p], f)))
      BY <2>1, <2>2, <2>3, <2>4 DEF Sums
    <3> QED
      BY <2>2, <3>1, TwoBalances
  <2> QED
    BY <2>5 DEF FileRefs
<1>7. RefsAgree'
  <2>1. FilesTypeOK' => (RefsAgree' <=> Counted')
    BY InodesAgree, PTL
  <2> QED
    BY <1>1, <1>5, <1>6, <2>1 DEF Counted
<1>8. ASSUME NEW q \in Procs PROVE ProcessOK(q)'
  <2>1. CASE q = p
    BY <1>3, <2>1 DEF ProcessOK, LocksMove, RowKept
  <2>2. CASE q # p
    <3>1. \A i \in Inums : lk'[i] = q => lk[i] = q
      BY <2>2, FileSysAssumption DEF LocksMove, FileSysAssumption
    <3> QED
      BY <1>0, <1>2, <2>2, <3>1 DEF ProcessOK
  <2> QED
    BY <2>1, <2>2
<1> QED
  BY <1>1, <1>7, <1>8 DEF FilesInv

(* One descriptor of a row, one file of the table.                         *)
Agree(row, row2, d) == \A e \in Fds : e # d => row2[e] = row[e]

LEMMA SlotSet ==
  ASSUME NEW row, NEW row2, NEW d \in Fds, Agree(row, row2, d), NEW f
  PROVE  /\ Cardinality(Slots(row, f)) \in Nat /\ Cardinality(Slots(row2, f)) \in Nat
         /\ Is(row[d], f) \in Nat /\ Is(row2[d], f) \in Nat
         /\ Cardinality(Slots(row2, f)) + Is(row[d], f)
              = Cardinality(Slots(row, f)) + Is(row2[d], f)
<1> DEFINE S == Slots(row, f)
           T == Slots(row2, f)
<1>1. IsFiniteSet(S) /\ S \ {d} = T \ {d}
  BY SlotsFinite DEF Slots, Agree
<1>2. B(d \in S) = Is(row[d], f) /\ B(d \in T) = Is(row2[d], f)
  BY DEF B, Is, Slots
<1>3. Is(row[d], f) \in Nat /\ Is(row2[d], f) \in Nat
  BY DEF Is
<1> HIDE DEF S, T
<1>4. /\ Cardinality(S) \in Nat /\ Cardinality(T) \in Nat
      /\ Cardinality(T) + B(d \in S) = Cardinality(S) + B(d \in T)
  BY <1>1, OneChange
<1> QED
  BY <1>2, <1>3, <1>4 DEF S, T

Opens(t, i) == IF t.type \in {"inode", "device"} /\ t.ip = i THEN 1 ELSE 0

LEMMA OneFile ==
  ASSUME NEW f \in FileIds, \A g \in FileIds : g # f => ft'[g] = ft[g], NEW i
  PROVE  /\ Cardinality(OpenFiles(i)) \in Nat /\ Cardinality(OpenFiles(i)') \in Nat
         /\ Opens(ft[f], i) \in Nat /\ Opens(ft'[f], i) \in Nat
         /\ Cardinality(OpenFiles(i)') + Opens(ft[f], i)
              = Cardinality(OpenFiles(i)) + Opens(ft'[f], i)
<1> DEFINE S == OpenFiles(i)
           T == OpenFiles(i)'
<1>1. IsFiniteSet(S) /\ S \ {f} = T \ {f}
  BY OpenFilesFinite DEF OpenFiles
<1>2. B(f \in S) = Opens(ft[f], i) /\ B(f \in T) = Opens(ft'[f], i)
  BY DEF B, Opens, OpenFiles
<1>3. Opens(ft[f], i) \in Nat /\ Opens(ft'[f], i) \in Nat
  BY DEF Opens
<1> HIDE DEF S, T
<1>4. /\ Cardinality(S) \in Nat /\ Cardinality(T) \in Nat
      /\ Cardinality(T) + B(f \in S) = Cardinality(S) + B(f \in T)
  BY <1>1, OneChange
<1> QED
  BY <1>2, <1>3, <1>4 DEF S, T

LEMMA OpenFilesStay ==
  ASSUME \A f \in FileIds : ft'[f].type = ft[f].type /\ ft'[f].ip = ft[f].ip, NEW i
  PROVE  OpenFiles(i)' = OpenFiles(i) /\ Cardinality(OpenFiles(i)) \in Nat
BY OpenFilesFinite DEF OpenFiles

(* A descriptor refers to an open file.                                    *)
LEMMA OpenIsReferenced ==
  ASSUME FilesInv, NEW p \in Procs, NEW d \in Fds, ofile[p][d] # 0
  PROVE  /\ ofile[p][d] \in FileIds /\ ft[ofile[p][d]] \in Files
         /\ ft[ofile[p][d]].ref \in Nat \ {0} /\ FileOK(ofile[p][d])
<1> DEFINE f == ofile[p][d]
<1>1. FilesTypeOK /\ RefsAgree
  BY DEF FilesInv
<1>2. f \in FileIds
  <2>1. f \in 0..NFile /\ NFile \in Nat
    BY <1>1, FileSysAssumption DEF FilesTypeOK, FileSysAssumption
  <2> QED
    BY <2>1 DEF FileIds
<1>3. ft[f] \in Files /\ ft[f].ref \in Nat
  BY <1>1, <1>2 DEF FilesTypeOK, Files
<1>4. ft[f].ref = Cardinality(Descriptors(f))
  BY <1>1, <1>2 DEF RefsAgree
<1>5. <<p, d>> \in Descriptors(f)
  BY DEF Descriptors
<1>6. IsFiniteSet(Descriptors(f))
  <2>1. Descriptors(f) = Family([q \in Procs |-> Slots(ofile[q], f)])
    BY DEF Descriptors, Family, Slots
  <2> QED
    BY <2>1, SlotsFinite, FamilyFinite
<1>7. Cardinality(Descriptors(f)) # 0
  BY <1>5, <1>6, FS_EmptySet
<1> QED
  BY <1>2, <1>3, <1>4, <1>7 DEF FilesInv

FilesEven(p, x) == \A i \in Inums :
    (fs'.ref[i] + Mine(l[p], i)) + Cardinality(OpenFiles(i))
      = (fs.ref[i] + Mine(x, i)) + Cardinality(OpenFiles(i)')

Evens(r, r2, m, m2, o, o2, v) ==
    /\ r \in Nat /\ r2 \in Nat /\ m \in Nat /\ m2 \in Nat /\ o \in Nat /\ o2 \in Nat /\ v \in Nat
    /\ (r2 + m) + o = (r + m2) + o2

LEMMA LivesToo ==
  ASSUME NEW r, NEW r2, NEW m, NEW m2, NEW o, NEW o2, NEW v, Evens(r, r2, m, m2, o, o2, v)
  PROVE  (r2 + (m + v)) + o = (r + (m2 + v)) + o2
BY DEF Evens

(* The same for a process that neither starts, ends nor changes directory. *)
LEMMA FilesStep ==
  ASSUME FilesInv, NEW p \in Procs, NEW x \in Locals, NEW place \in PCs,
         l' = [l EXCEPT ![p] = x], pc' = [pc EXCEPT ![p] = place], UNCHANGED cwd,
         ft' \in [FileIds -> Files], ofile' \in [Procs -> [Fds -> 0..NFile]],
         \A q \in Procs : q # p => ofile'[q] = ofile[q],
         Shape(fs'), LocksMove(p, x, place), At(x, place), AgendaOK(x.agenda),
         pc[p] \notin {"dead", "chdirDone"}, place \notin {"dead", "chdirDone"},
         FilesBalanced(p), FilesEven(p, x), \A f \in FileIds : FileOK(f)'
  PROVE  FilesInv'
<1>1. FilesTypeOK /\ ProcessOK(p)
  BY DEF FilesInv
<1>2. cwd[p] \in 0..NInodes /\ cwd' = [cwd EXCEPT ![p] = cwd[p]]
  BY <1>1 DEF FilesTypeOK
<1>3. RowKept(p, cwd[p], place)
  BY <1>1 DEF ProcessOK, RowKept
<1>4. ASSUME NEW i \in Inums
      PROVE  (fs'.ref[i] + Has(l[p], cwd[p], pc[p], i)) + Cardinality(OpenFiles(i))
               = (fs.ref[i] + Has(x, cwd[p], place, i)) + Cardinality(OpenFiles(i)')
  <2> DEFINE v == Is(cwd[p], i)
             o == Cardinality(OpenFiles(i))
             o2 == Cardinality(OpenFiles(i)')
  <2>1. fs'.ref[i] \in Nat /\ fs.ref[i] \in Nat /\ v \in Nat
    BY <1>1 DEF FilesTypeOK, Shape, Is
  <2>2. Lives(cwd[p], pc[p], i) = v /\ Lives(cwd[p], place, i) = v
    BY DEF Lives
  <2>3. l[p].agenda \in Seq(Todos) /\ x.agenda \in Seq(Todos)
    BY <1>1 DEF FilesTypeOK, Locals
  <2>4. Mine(l[p], i) \in Nat /\ Mine(x, i) \in Nat
    <3>1. Owes(l[p].agenda, i) \in Nat /\ Owes(x.agenda, i) \in Nat
      BY <2>3, PutsFinite
    <3>2. InHand(l[p], i) \in Nat /\ InHand(x, i) \in Nat
      BY HandCounted
    <3> QED
      BY <3>1, <3>2 DEF Mine
  <2>5. o \in Nat /\ o2 \in Nat
    <3>1. IsFiniteSet(FileIds) /\ OpenFiles(i)' \subseteq FileIds
      BY OpenFilesFinite DEF OpenFiles
    <3> QED
      BY <3>1, OpenFilesFinite, FS_Subset, FS_CardinalityType
  <2>6. Has(l[p], cwd[p], pc[p], i) = Mine(l[p], i) + v /\ Has(x, cwd[p], place, i) = Mine(x, i) + v
    BY <2>2 DEF Has, Mine
  <2>7. (fs'.ref[i] + Mine(l[p], i)) + o = (fs.ref[i] + Mine(x, i)) + o2
    BY DEF FilesEven
  <2> HIDE DEF v, o, o2
  <2>8. (fs'.ref[i] + (Mine(l[p], i) + v)) + o = (fs.ref[i] + (Mine(x, i) + v)) + o2
    <3>1. Evens(fs.ref[i], fs'.ref[i], Mine(l[p], i), Mine(x, i), o, o2, v)
      BY <2>1, <2>4, <2>5, <2>7 DEF Evens
    <3> QED
      BY <3>1, LivesToo
  <2> QED
    BY <2>6, <2>8 DEF o, o2
<1>5. InodesBalanced(p, x, cwd[p], place)
  BY <1>4 DEF InodesBalanced
<1> QED
  BY <1>2, <1>3, <1>5, FilesMove

LEMMA SameLocals ==
  ASSUME FilesInv, NEW p \in Procs
  PROVE  /\ l' = l => l' = [l EXCEPT ![p] = l[p]]
         /\ pc' = pc => pc' = [pc EXCEPT ![p] = pc[p]]
         /\ l[p] \in Locals /\ pc[p] \in PCs /\ At(l[p], pc[p]) /\ AgendaOK(l[p].agenda)
         /\ \A j \in Inums : Mine(l[p], j) \in Nat
<1>1. FilesTypeOK /\ ProcessOK(p)
  BY DEF FilesInv
<1>2. \A j \in Inums : Mine(l[p], j) \in Nat
  BY Nats DEF Mine
<1> QED
  BY <1>1, <1>2 DEF FilesTypeOK, ProcessOK

(* read() and write() move an offset at most.                              *)
OffsetMoved(f) == ft' = ft \/ ft' = [ft EXCEPT ![f].off = @ + 1]

StillHas(p, x, place) ==
    /\ x \in Locals /\ place \in PCs /\ LocksMove(p, x, place)
    /\ At(x, place) /\ AgendaOK(x.agenda)
    /\ pc[p] \notin {"dead", "chdirDone"} /\ place \notin {"dead", "chdirDone"}
    /\ \A j \in Inums : Mine(x, j) = Mine(l[p], j)

LEMMA OffsetMoves ==
  ASSUME FilesInv, NEW p \in Procs, NEW x, NEW place, StillHas(p, x, place),
         l' = [l EXCEPT ![p] = x], pc' = [pc EXCEPT ![p] = place], UNCHANGED <<cwd, ofile>>,
         NEW f, OffsetMoved(f), Shape(fs'), fs'.ref = fs.ref
  PROVE  FilesInv'
<1> USE DEF StillHas
<1>1. FilesTypeOK /\ RefsAgree /\ \A g \in FileIds : FileOK(g)
  BY DEF FilesInv
<1>2. /\ ft' \in [FileIds -> Files]
      /\ \A g \in FileIds : /\ ft'[g].ref = ft[g].ref /\ ft'[g].type = ft[g].type
                            /\ ft'[g].ip = ft[g].ip
  <2>1. ft \in [FileIds -> Files]
    BY <1>1 DEF FilesTypeOK
  <2>2. CASE ft' = ft
    BY <2>1, <2>2
  <2>3. CASE ft' = [ft EXCEPT ![f].off = @ + 1]
    <3>1. \A g \in FileIds : [ft[g] EXCEPT !.off = @ + 1] \in Files
      BY <2>1 DEF Files
    <3>2. ft' = [g \in FileIds |-> IF g = f THEN [ft[g] EXCEPT !.off = @ + 1] ELSE ft[g]]
      BY <2>1, <2>3
    <3>3. ft' \in [FileIds -> Files]
      BY <2>1, <3>1, <3>2
    <3>4. ASSUME NEW g \in FileIds
          PROVE  /\ ft'[g].ref = ft[g].ref /\ ft'[g].type = ft[g].type /\ ft'[g].ip = ft[g].ip
      <4>1. ft[g] \in Files
        BY <2>1
      <4>2. [ft[g] EXCEPT !.off = @ + 1].ref = ft[g].ref
            /\ [ft[g] EXCEPT !.off = @ + 1].type = ft[g].type
            /\ [ft[g] EXCEPT !.off = @ + 1].ip = ft[g].ip
        BY <4>1 DEF Files
      <4>3. ft'[g] = IF g = f THEN [ft[g] EXCEPT !.off = @ + 1] ELSE ft[g]
        BY <3>2
      <4> QED
        BY <4>2, <4>3
    <3> QED
      BY <3>3, <3>4
  <2> QED
    BY <2>2, <2>3 DEF OffsetMoved
<1>3. \A g \in FileIds : FileOK(g)'
  BY <1>1, <1>2 DEF FileOK
<1>4. ofile' \in [Procs -> [Fds -> 0..NFile]] /\ \A q \in Procs : ofile'[q] = ofile[q]
  BY <1>1 DEF FilesTypeOK
<1>5. FilesBalanced(p)
  BY <1>2 DEF FilesBalanced
<1>6. FilesEven(p, x)
  BY <1>2, OpenFilesStay DEF FilesEven
<1> QED
  BY <1>2, <1>3, <1>4, <1>5, <1>6, FilesStep

LEMMA ReadMoves ==
  ASSUME FilesInv, NEW p \in Procs, Read(p)
  PROVE  FilesInv'
<1>7. PICK d \in Fds, stat \in BOOLEAN :
        LET f == ofile[p][d]
            i == ft[f].ip
            s == Ilock(fs, i)
            r == IF stat THEN [ok |-> FALSE, s |-> s] ELSE Readi(s, i, ft[f].off)
        IN  /\ FdCall(p, "read", d) /\ Visit(i) /\ fs' = r.s
            /\ ft' = IF r.ok THEN [ft EXCEPT ![f].off = @ + 1] ELSE ft
            /\ UNCHANGED <<lk, ofile, cwd, pc, l>>
  BY Zenon DEF Read
<1> DEFINE f == ofile[p][d]
           i == ft[f].ip
           s == Ilock(fs, i)
           r == IF stat THEN [ok |-> FALSE, s |-> s] ELSE Readi(s, i, ft[f].off)
<1>8. /\ FdCall(p, "read", d) /\ Visit(i) /\ fs' = r.s
      /\ ft' = IF r.ok THEN [ft EXCEPT ![f].off = @ + 1] ELSE ft
      /\ UNCHANGED <<lk, ofile, cwd, pc, l>>
  BY <1>7
<1>9. r.s \in {s, Readi(s, i, ft[f].off).s}
  OBVIOUS
<1> HIDE DEF r, f
<1>1. /\ pc[p] = "idle" /\ l[p].agenda = <<>> /\ OffsetMoved(f)
      /\ fs' \in {s, Readi(s, i, ft[f].off).s}
      /\ UNCHANGED <<lk, ofile, cwd, pc, l>>
  BY <1>8, <1>9 DEF OffsetMoved, FdCall, Start, Ready
<1>2. Shape(fs') /\ fs'.ref = fs.ref
  BY <1>1, ReadyIs, IlockKeeps, ReadiKeeps
<1>3. LocksMove(p, l[p], "idle")
  BY <1>1, LocksStay
<1>4. l' = [l EXCEPT ![p] = l[p]] /\ pc' = [pc EXCEPT ![p] = "idle"]
  BY <1>1, SameLocals
<1>5. l[p] \in Locals /\ At(l[p], "idle") /\ AgendaOK(l[p].agenda) /\ "idle" \in PCs
  BY <1>1, SameLocals DEF PCs
<1>6. StillHas(p, l[p], "idle")
  BY <1>1, <1>3, <1>5 DEF StillHas
<1> QED
  BY <1>1, <1>2, <1>4, <1>6, OffsetMoves, Zenon

LEMMA WriteMoves ==
  ASSUME FilesInv, NEW p \in Procs, Write(p)
  PROVE  FilesInv'
<1>1. PICK d \in Fds, n \in 1..2 :
        /\ FdCall(p, "write", d)
        /\ Set(p, [Local0 EXCEPT !.f = ofile[p][d], !.n = n]) /\ Goto(p, "write")
        /\ UNCHANGED <<fs, lk, fileVars, cwd>>
  BY DEF Write
<1> DEFINE x == [Local0 EXCEPT !.f = ofile[p][d], !.n = n]
<1>2. /\ pc[p] = "idle" /\ l[p].agenda = <<>> /\ ofile[p][d] # 0
      /\ l' = [l EXCEPT ![p] = x] /\ pc' = [pc EXCEPT ![p] = "write"]
      /\ UNCHANGED <<fs, lk, cwd>> /\ UNCHANGED fileVars
  BY <1>1 DEF FdCall, Start, Ready, Set, Goto
<1>3. /\ x \in Locals /\ x.agenda = <<>> /\ x.cur = 0 /\ x.ip = 0 /\ x.dp = 0
  <2>1. ofile[p][d] \in 0..NFile
    BY DEF FilesInv, FilesTypeOK
  <2>2. NInodes \in Nat
    BY InodeAssumption DEF InodeAssumption
  <2>3. NoCall \in Calls \cup {NoCall} /\ <<>> \in Seq(PathNames) /\ <<>> \in Seq(Todos)
    OBVIOUS
  <2>4. n \in 0..2
    OBVIOUS
  <2>5. /\ Local0 \in Locals /\ Local0.agenda = <<>> /\ Local0.cur = 0 /\ Local0.ip = 0
        /\ Local0.dp = 0
    BY <2>2, <2>3, FileSysAssumption DEF FileSysAssumption, Local0, Locals
  <2> QED
    BY <2>1, <2>4, <2>5 DEF Locals
<1> HIDE DEF x
<1>4. At(x, "write")
  BY <1>3 DEF At, HasIp, HasDp, HasBoth, HasNone
<1>5. ReadyEven(p, x)
  <2>1. ASSUME NEW j \in Inums
        PROVE  fs'.ref[j] + InHand(l[p], j) = fs.ref[j] + (Owes(x.agenda, j) + InHand(x, j))
    <3>1. InHand(l[p], j) = 0 /\ InHand(x, j) = 0
      BY <1>2, <1>4, ReadyIs, InHandIs DEF HasNone
    <3> QED
      BY <1>2, <1>3, <3>1, OwesNothing
  <2> QED
    BY <2>1 DEF ReadyEven
<1>6. Shape(fs') /\ AgendaOK(x.agenda) /\ LocksMove(p, x, "write") /\ "write" \in PCs
  BY <1>2, <1>3, ReadyIs, LocksStay, Agendas DEF PCs
<1> QED
  BY <1>2, <1>3, <1>4, <1>5, <1>6, ReadyStep

LEMMA WriteChunkMoves ==
  ASSUME FilesInv, NEW p \in Procs, WriteChunk(p)
  PROVE  FilesInv'
<1> DEFINE f == l[p].f
           i == ft[f].ip
           s == Ilock(fs, i)
           w == Writei(s, i, ft[f].off)
           x == [l[p] EXCEPT !.n = @ - 1]
           y == Owe(<<>>)
<1>1. /\ pc[p] = "write" /\ l[p].agenda = <<>> /\ fs' = w.s
      /\ OffsetMoved(f)
      /\ \/ l[p].n > 1 /\ l' = [l EXCEPT ![p] = x] /\ UNCHANGED pc
         \/ l' = [l EXCEPT ![p] = y] /\ pc' = [pc EXCEPT ![p] = "idle"]
      /\ UNCHANGED <<lk, ofile, cwd>>
  BY DEF WriteChunk, Ready, Visit, Set, Return, Goto, OffsetMoved
<1>2. Shape(s) /\ s.ref = fs.ref
  BY <1>1, ReadyIs, IlockKeeps
<1> HIDE DEF s
<1>3. Shape(w.s) /\ w.s.ref = fs.ref
  BY <1>2, WriteiKeeps
<1> HIDE DEF w, i
<1>4. l[p] \in Locals /\ At(l[p], "write")
  BY <1>1, ReadyIs
<1>5. CASE l[p].n > 1 /\ l' = [l EXCEPT ![p] = x] /\ UNCHANGED pc
  <2>1. /\ x \in Locals /\ x.agenda = <<>> /\ x.cur = l[p].cur /\ x.ip = l[p].ip /\ x.dp = l[p].dp
    <3>1. l[p].n \in 0..2
      BY <1>4 DEF Locals
    <3>2. l[p].n - 1 \in 0..2
      BY <1>5, <3>1
    <3> QED
      BY <1>1, <1>4, <3>2 DEF Locals
  <2> HIDE DEF x
  <2>2. At(x, "write")
    BY <1>4, <2>1 DEF At, HasIp, HasDp, HasBoth, HasNone
  <2>3. \A j \in Inums : Mine(x, j) = Mine(l[p], j)
    BY <1>1, <2>1 DEF Mine, InHand
  <2>4. LocksMove(p, x, "write")
    BY <1>1, LocksStay
  <2>5. pc' = [pc EXCEPT ![p] = "write"] /\ "write" \in PCs /\ AgendaOK(x.agenda)
    BY <1>1, <1>5, <2>1, SameLocals, Agendas DEF PCs
  <2>6. StillHas(p, x, "write")
    BY <1>1, <2>1, <2>2, <2>3, <2>4, <2>5 DEF StillHas
  <2>7. Shape(fs') /\ fs'.ref = fs.ref /\ UNCHANGED <<cwd, ofile>> /\ OffsetMoved(f)
    BY <1>1, <1>3
  <2> QED
    BY <1>5, <2>5, <2>6, <2>7, OffsetMoves
<1>6. CASE l' = [l EXCEPT ![p] = y] /\ pc' = [pc EXCEPT ![p] = "idle"]
  <2>1. y \in Locals /\ y.agenda = <<>> /\ y.cur = 0 /\ y.ip = 0 /\ y.dp = 0
    BY Agendas, OweIs
  <2> HIDE DEF y
  <2>2. At(y, "idle")
    BY <2>1 DEF At, HasIp, HasDp, HasBoth, HasNone
  <2>3. \A j \in Inums : Mine(y, j) = Mine(l[p], j)
    BY <1>1, <1>4, <2>1 DEF Mine, InHand, At, HasNone
  <2>4. LocksMove(p, y, "idle")
    BY <1>1, LocksStay
  <2>5. "idle" \in PCs /\ AgendaOK(y.agenda)
    BY <2>1, Agendas DEF PCs
  <2>6. StillHas(p, y, "idle")
    BY <1>1, <2>1, <2>2, <2>3, <2>4, <2>5 DEF StillHas
  <2>7. Shape(fs') /\ fs'.ref = fs.ref /\ UNCHANGED <<cwd, ofile>> /\ OffsetMoved(f)
    BY <1>1, <1>3
  <2> QED
    BY <1>6, <2>6, <2>7, OffsetMoves
<1> QED
  BY <1>1, <1>5, <1>6

(* One descriptor of p changes, and one file.                              *)
LEMMA RowSet ==
  ASSUME FilesInv, NEW p \in Procs, NEW d \in Fds, NEW v \in 0..NFile,
         ofile' = [ofile EXCEPT ![p][d] = v]
  PROVE  /\ ofile' \in [Procs -> [Fds -> 0..NFile]]
         /\ \A q \in Procs : q # p => ofile'[q] = ofile[q]
         /\ Agree(ofile[p], ofile'[p], d)
         /\ ofile'[p][d] = v
<1>1. ofile \in [Procs -> [Fds -> 0..NFile]]
  BY DEF FilesInv, FilesTypeOK
<1>2. ofile[p] \in [Fds -> 0..NFile] /\ [ofile[p] EXCEPT ![d] = v] \in [Fds -> 0..NFile]
  BY <1>1
<1>3. ofile' = [ofile EXCEPT ![p] = [ofile[p] EXCEPT ![d] = v]]
  OBVIOUS
<1>4. ofile'[p] = [ofile[p] EXCEPT ![d] = v]
  BY <1>1, <1>3
<1>5. ofile'[p][d] = v /\ Agree(ofile[p], ofile'[p], d)
  BY <1>2, <1>4 DEF Agree
<1> QED
  BY <1>1, <1>2, <1>3, <1>5 DEF Agree

LEMMA SlotBalance ==
  ASSUME NEW p \in Procs, NEW d \in Fds, NEW f \in FileIds,
         Agree(ofile[p], ofile'[p], d),
         ft[f].ref \in Nat, ft'[f].ref \in Nat,
         ft'[f].ref + Is(ofile[p][d], f) = ft[f].ref + Is(ofile'[p][d], f)
  PROVE  ft'[f].ref + Cardinality(Slots(ofile[p], f)) = ft[f].ref + Cardinality(Slots(ofile'[p], f))
<1>1. /\ Cardinality(Slots(ofile[p], f)) \in Nat /\ Cardinality(Slots(ofile'[p], f)) \in Nat
      /\ Is(ofile[p][d], f) \in Nat /\ Is(ofile'[p][d], f) \in Nat
      /\ Cardinality(Slots(ofile'[p], f)) + Is(ofile[p][d], f)
           = Cardinality(Slots(ofile[p], f)) + Is(ofile'[p][d], f)
  BY SlotSet
<1> DEFINE s == Cardinality(Slots(ofile[p], f))
           s2 == Cardinality(Slots(ofile'[p], f))
           v == Is(ofile[p][d], f)
           v2 == Is(ofile'[p][d], f)
           r == ft[f].ref
           r2 == ft'[f].ref
<1>2. /\ s \in Nat /\ s2 \in Nat /\ v \in Nat /\ v2 \in Nat /\ r \in Nat /\ r2 \in Nat
      /\ s2 + v = s + v2 /\ r2 + v = r + v2
  BY <1>1
<1> HIDE DEF s, s2, v, v2, r, r2
<1>3. r2 + s = r + s2
  BY <1>2
<1> QED
  BY <1>3 DEF s, s2, r, r2

LEMMA NoneOpen ==
  ASSUME FilesInv
  PROVE  /\ ft \in [FileIds -> Files] /\ \A f \in FileIds : FileOK(f) /\ ft[f].ref \in Nat
         /\ FreeFile \in Files /\ NFile \in Nat /\ NInodes \in Nat
         /\ \A f \in FileIds : f # 0 /\ f \in 0..NFile
         /\ fs.ref \in [Inums -> Nat]
<1>1. FilesTypeOK
  BY DEF FilesInv
<1>2. NFile \in Nat /\ NInodes \in Nat
  BY InodeAssumption, FileSysAssumption DEF InodeAssumption, FileSysAssumption
<1>3. FreeFile \in Files
  BY <1>2 DEF FreeFile, Files
<1>4. \A f \in FileIds : f # 0 /\ f \in 0..NFile
  BY <1>2 DEF FileIds
<1>5. \A f \in FileIds : ft[f].ref \in Nat
  BY <1>1 DEF FilesTypeOK, Files
<1> QED
  BY <1>1, <1>2, <1>3, <1>4, <1>5 DEF FilesInv, FilesTypeOK, Shape

LEMMA LeastFd ==
  ASSUME NEW p, FreeFds(p) # {}
  PROVE  Min(FreeFds(p)) \in Fds /\ ofile[p][Min(FreeFds(p))] = 0
<1>1. FreeFds(p) \subseteq Nat
  BY DEF FreeFds, Fds
<1>2. Min(FreeFds(p)) \in FreeFds(p)
  BY <1>1, LeastOf
<1> QED
  BY <1>2 DEF FreeFds

LEMMA LeastFile ==
  ASSUME FreeFiles # {}
  PROVE  Min(FreeFiles) \in FileIds /\ ft[Min(FreeFiles)].ref = 0
<1>1. FreeFiles \subseteq Nat
  BY DEF FreeFiles, FileIds
<1>2. Min(FreeFiles) \in FreeFiles
  BY <1>1, LeastOf
<1> QED
  BY <1>2 DEF FreeFiles

LEMMA DupMoves ==
  ASSUME FilesInv, NEW p \in Procs, Dup(p)
  PROVE  FilesInv'
<1>1. PICK d \in Fds :
        /\ FdCall(p, "dup", d) /\ FreeFds(p) # {}
        /\ ofile' = [ofile EXCEPT ![p][Min(FreeFds(p))] = ofile[p][d]]
        /\ ft' = [ft EXCEPT ![ofile[p][d]].ref = @ + 1]
        /\ UNCHANGED <<fs, lk, cwd, pc, l>>
  BY DEF Dup
<1> DEFINE f == ofile[p][d]
           e == Min(FreeFds(p))
<1>2. /\ pc[p] = "idle" /\ l[p].agenda = <<>> /\ f # 0 /\ ofile' = [ofile EXCEPT ![p][e] = f]
      /\ ft' = [ft EXCEPT ![f].ref = @ + 1] /\ UNCHANGED <<fs, lk, cwd, pc, l>>
  BY <1>1 DEF FdCall, Start, Ready
<1>3. e \in Fds /\ ofile[p][e] = 0
  BY <1>1, LeastFd
<1>4. f \in FileIds /\ ft[f] \in Files /\ FileOK(f) /\ ft[f].ref \in Nat \ {0}
  BY <1>2, OpenIsReferenced
<1> HIDE DEF f, e
<1>5. /\ ft \in [FileIds -> Files] /\ f \in 0..NFile
      /\ \A g \in FileIds : FileOK(g) /\ ft[g].ref \in Nat /\ g # 0
  BY <1>4, NoneOpen
<1>6. /\ ofile' \in [Procs -> [Fds -> 0..NFile]] /\ \A q \in Procs : q # p => ofile'[q] = ofile[q]
      /\ Agree(ofile[p], ofile'[p], e)
      /\ ofile'[p][e] = f
  BY <1>2, <1>3, <1>5, RowSet
<1>7. /\ ft' \in [FileIds -> Files] /\ \A g \in FileIds : g # f => ft'[g] = ft[g]
      /\ ft'[f].ref = ft[f].ref + 1 /\ ft'[f].type = ft[f].type /\ ft'[f].ip = ft[f].ip
  <2>1. [ft[f] EXCEPT !.ref = @ + 1] \in Files
    BY <1>4 DEF Files
  <2>2. ft' = [ft EXCEPT ![f] = [ft[f] EXCEPT !.ref = @ + 1]]
    BY <1>2
  <2>3. ft'[f] = [ft[f] EXCEPT !.ref = @ + 1]
    BY <1>4, <1>5, <2>2
  <2>4. /\ [ft[f] EXCEPT !.ref = @ + 1].ref = ft[f].ref + 1
        /\ [ft[f] EXCEPT !.ref = @ + 1].type = ft[f].type
        /\ [ft[f] EXCEPT !.ref = @ + 1].ip = ft[f].ip
    BY <1>4 DEF Files
  <2> QED
    BY <1>4, <1>5, <2>1, <2>2, <2>3, <2>4
<1>8. \A g \in FileIds : FileOK(g)'
  BY <1>4, <1>5, <1>7 DEF FileOK
<1>9. FilesBalanced(p)
  <2>1. ASSUME NEW g \in FileIds
        PROVE  ft'[g].ref + Cardinality(Slots(ofile[p], g))
                 = ft[g].ref + Cardinality(Slots(ofile'[p], g))
    <3>1. ft[g].ref \in Nat /\ ft'[g].ref \in Nat
      BY <1>5, <1>7 DEF Files
    <3>2. ft'[g].ref + Is(ofile[p][e], g) = ft[g].ref + Is(ofile'[p][e], g)
      BY <1>3, <1>5, <1>6, <1>7, <3>1 DEF Is
    <3> QED
      BY <1>3, <1>6, <3>1, <3>2, SlotBalance
  <2> QED
    BY <2>1 DEF FilesBalanced
<1>10. FilesEven(p, l[p])
  <2>1. \A g \in FileIds : ft'[g].type = ft[g].type /\ ft'[g].ip = ft[g].ip
    BY <1>7
  <2> QED
    BY <1>2, <2>1, OpenFilesStay DEF FilesEven
<1>11. l' = [l EXCEPT ![p] = l[p]] /\ pc' = [pc EXCEPT ![p] = "idle"]
  BY <1>2, SameLocals
<1>12. l[p] \in Locals /\ At(l[p], "idle") /\ AgendaOK(l[p].agenda) /\ "idle" \in PCs
  BY <1>2, SameLocals DEF PCs
<1>13. Shape(fs') /\ LocksMove(p, l[p], "idle")
  BY <1>2, ReadyIs, LocksStay
<1> QED
  BY <1>2, <1>6, <1>7, <1>8, <1>9, <1>10, <1>11, <1>12, <1>13, FilesStep

LEMMA FileCloseMoves ==
  ASSUME FilesInv, NEW p \in Procs, l[p].agenda = <<>>, pc[p] \in {"idle", "exit"},
         NEW d \in Fds, NEW f, f = ofile[p][d], f # 0,
         FileClose(p, d), UNCHANGED <<fs, lk, cwd, pc>>
  PROVE  FilesInv'
<1> DEFINE last == ft[f].ref = 1
           a == IF last /\ ft[f].type \in {"inode", "device"} THEN <<Todo("put", ft[f].ip)>> ELSE <<>>
           x == Owe(a)
<1>1. /\ ft' = [ft EXCEPT ![f] = Closed(ft[f])]
      /\ ofile' = [ofile EXCEPT ![p][d] = 0] /\ l' = [l EXCEPT ![p] = x]
  BY DEF FileClose, Set
<1>2. f \in FileIds /\ ft[f] \in Files /\ FileOK(f) /\ ft[f].ref \in Nat \ {0}
  BY OpenIsReferenced
<1>3. /\ ft \in [FileIds -> Files] /\ FreeFile \in Files /\ 0 \in 0..NFile
      /\ \A g \in FileIds : FileOK(g) /\ ft[g].ref \in Nat /\ g # 0
  BY NoneOpen
<1>4. /\ a \in Seq(Todos) /\ AgendaOK(a)
      /\ \A i \in Inums : Owes(a, i) = IF last THEN Opens(ft[f], i) ELSE 0
  <2>1. CASE last /\ ft[f].type \in {"inode", "device"}
    <3>1. ft[f].ip \in Inums
      BY <1>2, <2>1, InodeAssumption DEF FileOK, Files, Inums, InodeAssumption
    <3>2. a = <<Todo("put", ft[f].ip)>>
      BY <2>1
    <3> HIDE DEF a
    <3>3. a \in Seq(Todos) /\ AgendaOK(a) /\ \A i : Owes(a, i) = Is(ft[f].ip, i)
      BY <3>1, <3>2, Agendas
    <3> QED
      BY <2>1, <3>3 DEF Opens, Is
  <2>2. CASE ~(last /\ ft[f].type \in {"inode", "device"})
    <3>1. a = <<>>
      BY <2>2, Zenon
    <3> HIDE DEF a
    <3> QED
      BY <2>2, <3>1, Agendas, OwesNothing DEF Opens
  <2> QED
    BY <2>1, <2>2
<1>5. x \in Locals /\ x.agenda = a /\ x.cur = 0 /\ x.ip = 0 /\ x.dp = 0
      /\ \A i \in Inums : Mine(x, i) = Owes(a, i)
  BY <1>4, OweIs
<1> HIDE DEF a, x
<1>6. /\ ofile' \in [Procs -> [Fds -> 0..NFile]] /\ \A q \in Procs : q # p => ofile'[q] = ofile[q]
      /\ Agree(ofile[p], ofile'[p], d)
      /\ ofile'[p][d] = 0
  BY <1>1, <1>3, RowSet
<1>7. /\ ft' \in [FileIds -> Files] /\ \A g \in FileIds : g # f => ft'[g] = ft[g]
      /\ ft'[f].ref = ft[f].ref - 1 /\ FileOK(f)'
      /\ \A i : Opens(ft'[f], i) = IF last THEN 0 ELSE Opens(ft[f], i)
  <2>1. CASE last
    <3>1. Closed(ft[f]) = FreeFile
      BY <2>1 DEF Closed
    <3>2. ft'[f] = FreeFile
      BY <1>1, <1>2, <1>3, <3>1
    <3>3. ft'[f].ref = 0 /\ ft'[f].type = "none"
      BY <3>2 DEF FreeFile
    <3> QED
      BY <1>1, <1>2, <1>3, <2>1, <3>1, <3>3 DEF FileOK, Opens
  <2>2. CASE ~last
    <3>1. ft[f].ref > 1 /\ ft[f].ref - 1 \in Nat /\ ft[f].ref - 1 # 0
      BY <1>2, <2>2
    <3>2. Closed(ft[f]) = [ft[f] EXCEPT !.ref = @ - 1]
      BY <3>1 DEF Closed
    <3>3. ft'[f] = [ft[f] EXCEPT !.ref = @ - 1] /\ Closed(ft[f]) \in Files
      BY <1>1, <1>2, <1>3, <3>1, <3>2 DEF Files
    <3>4. ft'[f].ref = ft[f].ref - 1 /\ ft'[f].type = ft[f].type /\ ft'[f].ip = ft[f].ip
      BY <1>2, <3>3 DEF Files
    <3> QED
      BY <1>1, <1>2, <1>3, <2>2, <3>1, <3>3, <3>4 DEF FileOK, Opens
  <2> QED
    BY <2>1, <2>2
<1>8. \A g \in FileIds : FileOK(g)'
  BY <1>3, <1>7 DEF FileOK
<1>9. FilesBalanced(p)
  <2>1. ASSUME NEW g \in FileIds
        PROVE  ft'[g].ref + Cardinality(Slots(ofile[p], g))
                 = ft[g].ref + Cardinality(Slots(ofile'[p], g))
    <3>1. ft[g].ref \in Nat /\ ft'[g].ref \in Nat
      BY <1>3, <1>7 DEF Files
    <3>2. ft'[g].ref + Is(ofile[p][d], g) = ft[g].ref + Is(ofile'[p][d], g)
      BY <1>3, <1>6, <1>7, <3>1 DEF Is
    <3>3. Agree(ofile[p], ofile'[p], d)
      BY <1>6
    <3> QED
      BY <3>1, <3>2, <3>3, SlotBalance
  <2> QED
    BY <2>1 DEF FilesBalanced
<1>10. FilesEven(p, x)
  <2>1. ASSUME NEW i \in Inums
        PROVE  (fs'.ref[i] + Mine(l[p], i)) + Cardinality(OpenFiles(i))
                 = (fs.ref[i] + Mine(x, i)) + Cardinality(OpenFiles(i)')
    <3>1. Mine(l[p], i) = 0
      <4>1. At(l[p], pc[p]) /\ pc[p] \in HasNone
        BY ReadyIs DEF HasNone
      <4>2. InHand(l[p], i) = 0
        BY <4>1, InHandIs
      <4> QED
        BY <4>2, OwesNothing DEF Mine
    <3>2. /\ Cardinality(OpenFiles(i)) \in Nat /\ Cardinality(OpenFiles(i)') \in Nat
          /\ Opens(ft[f], i) \in Nat /\ Opens(ft'[f], i) \in Nat
          /\ Cardinality(OpenFiles(i)') + Opens(ft[f], i)
               = Cardinality(OpenFiles(i)) + Opens(ft'[f], i)
      BY <1>2, <1>7, OneFile
    <3>3. Mine(x, i) = IF last THEN Opens(ft[f], i) ELSE 0
      BY <1>4, <1>5
    <3>4. Opens(ft'[f], i) = IF last THEN 0 ELSE Opens(ft[f], i)
      BY <1>7
    <3>5. Cardinality(OpenFiles(i)) = Mine(x, i) + Cardinality(OpenFiles(i)') /\ Mine(x, i) \in Nat
      BY <3>2, <3>3, <3>4
    <3>6. fs.ref[i] \in Nat /\ fs'.ref[i] = fs.ref[i]
      BY Nats
    <3> QED
      BY <3>1, <3>2, <3>5, <3>6
  <2> QED
    BY <2>1 DEF FilesEven
<1>11. pc' = [pc EXCEPT ![p] = pc[p]] /\ pc[p] \in PCs
  BY SameLocals
<1>12. At(x, pc[p]) /\ AgendaOK(x.agenda)
  BY <1>4, <1>5 DEF At, HasIp, HasDp, HasBoth, HasNone
<1>13. Shape(fs') /\ LocksMove(p, x, pc[p])
  BY ReadyIs, LocksStay
<1> QED
  BY <1>1, <1>5, <1>6, <1>7, <1>8, <1>9, <1>10, <1>11, <1>12, <1>13, FilesStep

LEMMA CloseMoves ==
  ASSUME FilesInv, NEW p \in Procs, Close(p) \/ ExitClose(p)
  PROVE  FilesInv'
BY FileCloseMoves DEF Close, ExitClose, FdCall, Start, Ready

(* open() gives the reference that the call has to a file.                 *)
LEMMA OpenDone ==
  ASSUME FilesInv, NEW p \in Procs, pc[p] = "made", l[p].agenda = <<>>,
         NEW f \in FileIds, ft[f].ref = 0, NEW d \in Fds, ofile[p][d] = 0,
         NEW t, t \in Files, t.ref = 1, t.type \in {"inode", "device"}, t.ip = l[p].ip,
         ft' = [ft EXCEPT ![f] = t], ofile' = [ofile EXCEPT ![p][d] = f],
         lk' = [lk EXCEPT ![l[p].ip] = Nobody], Return(p, <<>>), UNCHANGED cwd,
         Shape(fs'), fs'.ref = fs.ref
  PROVE  FilesInv'
<1> DEFINE i == l[p].ip
           x == Owe(<<>>)
<1>1. l' = [l EXCEPT ![p] = x] /\ pc' = [pc EXCEPT ![p] = "idle"] /\ "idle" \in PCs
  BY DEF Return, Goto, Set, PCs
<1>2. At(l[p], "made") /\ i \in Inums /\ i # 0
  BY ReadyIs DEF At, HasIp
<1>3. /\ ft \in [FileIds -> Files] /\ f \in 0..NFile
      /\ \A g \in FileIds : FileOK(g) /\ ft[g].ref \in Nat /\ g # 0
  BY NoneOpen
<1>4. /\ x \in Locals /\ x.agenda = <<>> /\ x.cur = 0 /\ x.ip = 0 /\ x.dp = 0
      /\ AgendaOK(x.agenda) /\ \A j \in Inums : Mine(x, j) = 0
  BY OweNothing
<1> HIDE DEF x
<1>5. At(x, "idle")
  BY <1>4 DEF At, HasIp, HasDp, HasBoth, HasNone
<1>6. /\ ofile' \in [Procs -> [Fds -> 0..NFile]] /\ \A q \in Procs : q # p => ofile'[q] = ofile[q]
      /\ Agree(ofile[p], ofile'[p], d)
      /\ ofile'[p][d] = f
  BY <1>3, RowSet
<1>7. ft' \in [FileIds -> Files] /\ ft'[f] = t /\ \A g \in FileIds : g # f => ft'[g] = ft[g]
  BY <1>3
<1>8. \A g \in FileIds : FileOK(g)'
  BY <1>2, <1>3, <1>7 DEF FileOK
<1>9. FilesBalanced(p)
  <2>1. ASSUME NEW g \in FileIds
        PROVE  ft'[g].ref + Cardinality(Slots(ofile[p], g))
                 = ft[g].ref + Cardinality(Slots(ofile'[p], g))
    <3>1. ft[g].ref \in Nat /\ ft'[g].ref \in Nat
      BY <1>3, <1>7 DEF Files
    <3>2. ft'[g].ref + Is(ofile[p][d], g) = ft[g].ref + Is(ofile'[p][d], g)
      BY <1>3, <1>6, <1>7, <3>1 DEF Is
    <3>3. Agree(ofile[p], ofile'[p], d)
      BY <1>6
    <3> QED
      BY <3>1, <3>2, <3>3, SlotBalance
  <2> QED
    BY <2>1 DEF FilesBalanced
<1>10. FilesEven(p, x)
  <2>1. ASSUME NEW j \in Inums
        PROVE  (fs'.ref[j] + Mine(l[p], j)) + Cardinality(OpenFiles(j))
                 = (fs.ref[j] + Mine(x, j)) + Cardinality(OpenFiles(j)')
    <3>1. Mine(l[p], j) = Is(i, j) /\ Is(i, j) \in Nat
      BY <1>2, InHandIs, OwesNothing DEF Mine, HasIp, Is
    <3>2. /\ Cardinality(OpenFiles(j)) \in Nat /\ Cardinality(OpenFiles(j)') \in Nat
          /\ Opens(ft[f], j) \in Nat /\ Opens(ft'[f], j) \in Nat
          /\ Cardinality(OpenFiles(j)') + Opens(ft[f], j)
               = Cardinality(OpenFiles(j)) + Opens(ft'[f], j)
      BY <1>7, OneFile
    <3>3. Opens(ft[f], j) = 0
      BY <1>3 DEF Opens, FileOK
    <3>4. Opens(ft'[f], j) = Is(i, j)
      BY <1>7 DEF Opens, Is
    <3>5. fs.ref[j] \in Nat /\ fs'.ref[j] = fs.ref[j] /\ Mine(x, j) = 0
      BY <1>4, Nats
    <3>6. Cardinality(OpenFiles(j)') = Cardinality(OpenFiles(j)) + Is(i, j)
      BY <3>1, <3>2, <3>3, <3>4
    <3> QED
      BY <3>1, <3>2, <3>5, <3>6
  <2> QED
    BY <2>1 DEF FilesEven
<1>11. LocksMove(p, x, "idle")
  BY LockGiven
<1> QED
  BY <1>1, <1>4, <1>5, <1>6, <1>7, <1>8, <1>9, <1>10, <1>11, FilesStep

LEMMA OpenFileMoves ==
  ASSUME FilesInv, NEW p \in Procs, OpenFile(p)
  PROVE  FilesInv'
<1> DEFINE i == l[p].ip
           c == l[p].call
           f == Min(FreeFiles)
           d == Min(FreeFds(p))
           type == IF fs.mem[i].type = "device" THEN "device" ELSE "inode"
           t == [ref |-> 1, ip |-> i, off |-> 0, type |-> type,
                 writable |-> c.omode \in {"w", "trunc"}]
<1>1. pc[p] = "made" /\ l[p].agenda = <<>> /\ lk' = [lk EXCEPT ![i] = Nobody] /\ UNCHANGED cwd
  BY DEF OpenFile, Ready, Unlock
<1>2. \/ Return(p, <<Todo("put", i)>>) /\ UNCHANGED fs /\ UNCHANGED fileVars
      \/ /\ FreeFiles # {} /\ FreeFds(p) # {} /\ Return(p, <<>>)
         /\ ft' = [ft EXCEPT ![f] = t] /\ ofile' = [ofile EXCEPT ![p][d] = f]
         /\ fs' = Itrunc(fs, i) \/ fs' = fs
  BY DEF OpenFile
<1>3. Shape(fs) /\ i \in 0..NInodes /\ Shape(Itrunc(fs, i)) /\ Itrunc(fs, i).ref = fs.ref
  BY <1>1, ReadyIs, ItruncKeeps DEF Locals
<1>4. CASE Return(p, <<Todo("put", i)>>) /\ UNCHANGED fs /\ UNCHANGED fileVars
  <2>1. LocksMove(p, Owe(<<Todo("put", i)>>), "idle")
    BY <1>1, LockGiven
  <2> QED
    BY <1>1, <1>3, <1>4, <2>1, ReturnPut DEF HasIp
<1>5. CASE /\ FreeFiles # {} /\ FreeFds(p) # {} /\ Return(p, <<>>)
           /\ ft' = [ft EXCEPT ![f] = t] /\ ofile' = [ofile EXCEPT ![p][d] = f]
           /\ fs' = Itrunc(fs, i) \/ fs' = fs
  <2>1. f \in FileIds /\ ft[f].ref = 0 /\ d \in Fds /\ ofile[p][d] = 0
    BY <1>5, LeastFd, LeastFile
  <2>2. t \in Files /\ t.ref = 1 /\ t.type \in {"inode", "device"} /\ t.ip = i
    BY <1>3 DEF Files
  <2>3. Shape(fs') /\ fs'.ref = fs.ref
    BY <1>3, <1>5
  <2> HIDE DEF f, d, t
  <2> QED
    BY <1>1, <1>5, <2>1, <2>2, <2>3, OpenDone
<1> QED
  BY <1>2, <1>4, <1>5

LEMMA TwoLeast ==
  ASSUME NEW T, T \subseteq Nat, Cardinality(T) > 1
  PROVE  Min(T) \in T /\ Min(T \ {Min(T)}) \in T \ {Min(T)}
<1>1. T # {}
  BY FS_EmptySet
<1>2. Min(T) \in T
  BY <1>1, LeastOf
<1>3. T \ {Min(T)} # {}
  <2>1. Cardinality({Min(T)}) = 1
    BY FS_Singleton
  <2>2. ASSUME T \ {Min(T)} = {} PROVE FALSE
    <3>1. T = {Min(T)}
      BY <1>2, <2>2, Zenon
    <3>2. Cardinality(T) = 1
      BY <2>1, <3>1, Zenon
    <3> QED
      BY <3>2
  <2> QED
    BY <2>2
<1>4. T \ {Min(T)} \subseteq Nat
  OBVIOUS
<1>5. \A U : U \subseteq Nat /\ U # {} => Min(U) \in U
  BY LeastOf
<1> QED
  BY <1>2, <1>3, <1>4, <1>5, Zenon

(* A step that changes nothing of p but its place.                         *)
LEMMA PlaceMoves ==
  ASSUME FilesInv, NEW p \in Procs, pc[p] = "idle", l[p].agenda = <<>>, NEW place \in {"idle", "exit"},
         pc' = [pc EXCEPT ![p] = place], UNCHANGED <<fs, lk, cwd, l>>, UNCHANGED fileVars
  PROVE  FilesInv'
<1>1. l' = [l EXCEPT ![p] = l[p]] /\ l[p] \in Locals /\ At(l[p], "idle") /\ AgendaOK(l[p].agenda)
  BY SameLocals
<1>2. At(l[p], place) /\ place \in PCs
  BY <1>1 DEF At, HasIp, HasDp, HasBoth, HasNone, PCs
<1>3. Even(p, l[p])
  BY DEF Even
<1>4. Shape(fs') /\ LocksMove(p, l[p], place)
  BY ReadyIs, LocksStay
<1> QED
  BY <1>1, <1>2, <1>3, <1>4, CallStep

LEMMA PipeCallMoves ==
  ASSUME FilesInv, NEW p \in Procs, PipeCall(p)
  PROVE  FilesInv'
<1> DEFINE f == Min(FreeFiles)
           g == Min(FreeFiles \ {f})
           d == Min(FreeFds(p))
           e == Min(FreeFds(p) \ {d})
           t == [FreeFile EXCEPT !.ref = 1, !.type = "pipe", !.writable = FALSE]
           u == [FreeFile EXCEPT !.ref = 1, !.type = "pipe", !.writable = TRUE]
           mid == [ofile[p] EXCEPT ![d] = f]
           row == [mid EXCEPT ![e] = g]
<1>1. /\ pc[p] = "idle" /\ l[p].agenda = <<>> /\ UNCHANGED <<fs, lk, cwd, pc, l>>
      /\ \/ UNCHANGED fileVars
         \/ /\ Cardinality(FreeFiles) > 1 /\ Cardinality(FreeFds(p)) > 1
            /\ ft' = [ft EXCEPT ![f] = t, ![g] = u] /\ ofile' = [ofile EXCEPT ![p] = row]
  BY DEF PipeCall, Start, Ready
<1>2. /\ ft \in [FileIds -> Files] /\ FreeFile \in Files
      /\ \A h \in FileIds : FileOK(h) /\ ft[h].ref \in Nat /\ h # 0 /\ h \in 0..NFile
  BY NoneOpen
<1>3. /\ t \in Files /\ t.ref = 1 /\ t.type = "pipe"
      /\ u \in Files /\ u.ref = 1 /\ u.type = "pipe"
  BY <1>2 DEF Files, FreeFile
<1> HIDE DEF t, u
<1>4. l' = [l EXCEPT ![p] = l[p]] /\ pc' = [pc EXCEPT ![p] = "idle"]
  BY <1>1, SameLocals
<1>5. CASE UNCHANGED fileVars
  BY <1>1, <1>4, <1>5, PlaceMoves
<1>6. CASE /\ Cardinality(FreeFiles) > 1 /\ Cardinality(FreeFds(p)) > 1
           /\ ft' = [ft EXCEPT ![f] = t, ![g] = u] /\ ofile' = [ofile EXCEPT ![p] = row]
  <2>1. /\ f \in FileIds /\ ft[f].ref = 0 /\ g \in FileIds /\ ft[g].ref = 0 /\ f # g
        /\ d \in Fds /\ ofile[p][d] = 0 /\ e \in Fds /\ ofile[p][e] = 0 /\ d # e
    <3>1. FreeFiles \subseteq Nat /\ FreeFds(p) \subseteq Nat
      BY DEF FreeFiles, FileIds, FreeFds, Fds
    <3>2. f \in FreeFiles /\ g \in FreeFiles \ {f} /\ d \in FreeFds(p) /\ e \in FreeFds(p) \ {d}
      BY <1>6, <3>1, TwoLeast
    <3> QED
      BY <3>2 DEF FreeFiles, FreeFds
  <2> HIDE DEF f, g, d, e
  <2>2. /\ ft' \in [FileIds -> Files] /\ ft'[f] = t /\ ft'[g] = u
        /\ \A h \in FileIds : h # f /\ h # g => ft'[h] = ft[h]
    BY <1>2, <1>3, <1>6, <2>1
  <2>3. ofile \in [Procs -> [Fds -> 0..NFile]] /\ ofile[p] \in [Fds -> 0..NFile]
    BY DEF FilesInv, FilesTypeOK
  <2>4. /\ mid \in [Fds -> 0..NFile] /\ mid[d] = f /\ mid[e] = 0 /\ Agree(ofile[p], mid, d)
    BY <1>2, <2>1, <2>3 DEF Agree
  <2> HIDE DEF mid
  <2>5. row \in [Fds -> 0..NFile] /\ row[e] = g /\ Agree(mid, row, e)
    BY <1>2, <2>1, <2>4 DEF Agree
  <2> HIDE DEF row
  <2>6. /\ ofile' \in [Procs -> [Fds -> 0..NFile]] /\ ofile'[p] = row
        /\ \A q \in Procs : q # p => ofile'[q] = ofile[q]
    BY <1>6, <2>3, <2>5
  <2>7. \A h \in FileIds : FileOK(h)'
    BY <1>2, <1>3, <2>1, <2>2 DEF FileOK
  <2>8. FilesBalanced(p)
    <3>1. ASSUME NEW h \in FileIds
          PROVE  ft'[h].ref + Cardinality(Slots(ofile[p], h))
                   = ft[h].ref + Cardinality(Slots(ofile'[p], h))
      <4>1. /\ Cardinality(Slots(ofile[p], h)) \in Nat /\ Cardinality(Slots(mid, h)) \in Nat
            /\ Cardinality(Slots(mid, h)) + Is(ofile[p][d], h)
                 = Cardinality(Slots(ofile[p], h)) + Is(mid[d], h)
        BY <2>1, <2>4, SlotSet
      <4>2. /\ Cardinality(Slots(row, h)) \in Nat
            /\ Cardinality(Slots(row, h)) + Is(mid[e], h)
                 = Cardinality(Slots(mid, h)) + Is(row[e], h)
        BY <2>1, <2>5, SlotSet
      <4>3. Is(0, h) = 0 /\ Is(f, h) \in Nat /\ Is(g, h) \in Nat
        BY <1>2 DEF Is
      <4>4. Cardinality(Slots(row, h)) = Cardinality(Slots(ofile[p], h)) + Is(f, h) + Is(g, h)
        BY <2>1, <2>4, <2>5, <4>1, <4>2, <4>3
      <4>5. ft[h].ref \in Nat /\ ft'[h].ref = ft[h].ref + Is(f, h) + Is(g, h)
        BY <1>2, <1>3, <2>1, <2>2 DEF Is
      <4> QED
        BY <2>6, <4>1, <4>3, <4>4, <4>5
    <3> QED
      BY <3>1 DEF FilesBalanced
  <2>9. FilesEven(p, l[p])
    <3>1. \A i : OpenFiles(i)' = OpenFiles(i)
      BY <1>2, <1>3, <2>1, <2>2 DEF OpenFiles, FileOK
    <3> QED
      BY <1>1, <3>1 DEF FilesEven
  <2>10. l[p] \in Locals /\ At(l[p], "idle") /\ AgendaOK(l[p].agenda) /\ "idle" \in PCs
    BY <1>1, SameLocals DEF PCs
  <2>11. Shape(fs') /\ LocksMove(p, l[p], "idle")
    BY <1>1, ReadyIs, LocksStay
  <2> QED
    BY <1>1, <1>4, <2>2, <2>6, <2>7, <2>8, <2>9, <2>10, <2>11, FilesStep
<1> QED
  BY <1>1, <1>5, <1>6

-----------------------------------------------------------------------------
(* fork and exit                                                           *)

LEMMA ForkMoves ==
  ASSUME FilesInv, NEW p \in Procs, Fork(p)
  PROVE  FilesInv'
<1>1. PICK q \in Procs :
        /\ pc[p] = "idle" /\ l[p].agenda = <<>> /\ pc[q] = "dead" /\ l[q].agenda = <<>>
        /\ ofile' = [ofile EXCEPT ![q] = ofile[p]]
        /\ ft' = [f \in FileIds |->
                    [ft[f] EXCEPT !.ref = @ + Cardinality({d \in Fds : ofile[p][d] = f})]]
        /\ cwd' = [cwd EXCEPT ![q] = cwd[p]] /\ fs' = Idup(fs, cwd[p])
        /\ pc' = [pc EXCEPT ![q] = "idle"] /\ UNCHANGED <<lk, l>>
  BY DEF Fork, Start, Ready, Goto
<1> DEFINE x == l[q]
           i == cwd[p]
<1>2. /\ Shape(fs) /\ i \in Inums /\ i \in 0..NInodes /\ i # 0
  BY <1>1, ReadyIs, InodeAssumption DEF Inums, InodeAssumption
<1>3. /\ x \in Locals /\ At(x, "dead") /\ l' = [l EXCEPT ![q] = x] /\ AgendaOK(x.agenda)
  BY <1>1, SameLocals
<1>4. At(x, "idle") /\ "idle" \in PCs
  BY <1>3 DEF At, HasIp, HasDp, HasBoth, HasNone, PCs
<1>5. /\ cwd[q] = 0 /\ \A d \in Fds : ofile[q][d] = 0
      /\ ofile \in [Procs -> [Fds -> 0..NFile]]
  BY <1>1 DEF FilesInv, ProcessOK, FilesTypeOK
<1>6. /\ ft \in [FileIds -> Files] /\ \A f \in FileIds : FileOK(f) /\ ft[f].ref \in Nat /\ f # 0
  BY NoneOpen
<1>7. /\ ofile' \in [Procs -> [Fds -> 0..NFile]] /\ ofile'[q] = ofile[p]
      /\ \A s \in Procs : s # q => ofile'[s] = ofile[s]
  BY <1>1, <1>5
<1>8. ASSUME NEW f \in FileIds
      PROVE  /\ ft'[f] \in Files /\ ft'[f].ref = ft[f].ref + Cardinality(Slots(ofile[p], f))
             /\ ft'[f].type = ft[f].type /\ ft'[f].ip = ft[f].ip
  <2> DEFINE n == Cardinality(Slots(ofile[p], f))
  <2>1. n \in Nat /\ ft[f] \in Files
    BY <1>6, SlotsFinite
  <2>2. ft'[f] = [ft[f] EXCEPT !.ref = @ + n]
    BY <1>1 DEF Slots
  <2> HIDE DEF n
  <2>3. /\ [ft[f] EXCEPT !.ref = @ + n] \in Files /\ [ft[f] EXCEPT !.ref = @ + n].ref = ft[f].ref + n
        /\ [ft[f] EXCEPT !.ref = @ + n].type = ft[f].type
        /\ [ft[f] EXCEPT !.ref = @ + n].ip = ft[f].ip
    BY <2>1 DEF Files
  <2> QED
    BY <2>2, <2>3 DEF n
<1>9. ft' \in [FileIds -> Files]
  <2>1. ft' = [f \in FileIds |-> ft'[f]]
    BY <1>1
  <2> QED
    BY <1>8, <2>1
<1>10. \A f \in FileIds : FileOK(f)'
  <2>1. ASSUME NEW f \in FileIds PROVE ft'[f].ref = 0 => ft[f].ref = 0
    BY <1>6, <1>8, SlotsFinite
  <2> QED
    BY <1>6, <1>8, <2>1 DEF FileOK
<1>11. FilesBalanced(q)
  <2>1. ASSUME NEW f \in FileIds
        PROVE  ft'[f].ref + Cardinality(Slots(ofile[q], f))
                 = ft[f].ref + Cardinality(Slots(ofile'[q], f))
    <3>1. Slots(ofile[q], f) = {}
      BY <1>5, <1>6 DEF Slots
    <3>2. Cardinality(Slots(ofile[q], f)) = 0
      BY <3>1, FS_EmptySet
    <3> QED
      BY <1>6, <1>7, <1>8, <3>2, SlotsFinite
  <2> QED
    BY <2>1 DEF FilesBalanced
<1>12. InodesBalanced(q, x, i, "idle")
  <2>1. ASSUME NEW j \in Inums
        PROVE  (fs'.ref[j] + Has(l[q], cwd[q], pc[q], j)) + Cardinality(OpenFiles(j))
                 = (fs.ref[j] + Has(x, i, "idle", j)) + Cardinality(OpenFiles(j)')
    <3>1. fs'.ref[j] = fs.ref[j] + Is(i, j) /\ fs.ref[j] \in Nat /\ Is(i, j) \in Nat
      BY <1>1, <1>2, RefsGot
    <3>2. Has(l[q], cwd[q], pc[q], j) = 0 /\ Has(x, i, "idle", j) = Is(i, j)
      <4>1. InHand(x, j) = 0 /\ Owes(x.agenda, j) = 0 /\ Is(0, j) = 0
        BY <1>1, <1>3, InHandIs, OwesNothing DEF HasNone, Is, Inums
      <4> QED
        BY <1>1, <1>5, <3>1, <4>1 DEF Has, Lives
    <3>3. OpenFiles(j)' = OpenFiles(j) /\ Cardinality(OpenFiles(j)) \in Nat
      BY <1>8, OpenFilesStay
    <3> QED
      BY <3>1, <3>2, <3>3
  <2> QED
    BY <2>1 DEF InodesBalanced
<1>13. Shape(fs') /\ LocksMove(q, x, "idle") /\ RowKept(q, i, "idle")
  BY <1>1, <1>2, IgetCounts, LocksStay DEF RowKept
<1> QED
  BY <1>1, <1>2, <1>3, <1>4, <1>7, <1>9, <1>10, <1>11, <1>12, <1>13, FilesMove

LEMMA ExitCwdMoves ==
  ASSUME FilesInv, NEW p \in Procs, ExitCwd(p)
  PROVE  FilesInv'
<1> DEFINE a == <<Todo("put", cwd[p])>>
           x == Owe(a)
<1>1. /\ pc[p] = "exit" /\ l[p].agenda = <<>> /\ \A d \in Fds : ofile[p][d] = 0
      /\ l' = [l EXCEPT ![p] = x] /\ cwd' = [cwd EXCEPT ![p] = 0]
      /\ pc' = [pc EXCEPT ![p] = "dead"] /\ UNCHANGED <<fs, lk>> /\ UNCHANGED fileVars
  BY DEF ExitCwd, Ready, Set, Goto
<1>2. cwd[p] \in Inums /\ At(l[p], "exit") /\ Shape(fs') /\ 0 \in 0..NInodes /\ "dead" \in PCs
  BY <1>1, ReadyIs, InodeAssumption DEF InodeAssumption, PCs
<1>3. a \in Seq(Todos) /\ AgendaOK(a) /\ \A j : Owes(a, j) = Is(cwd[p], j)
  BY <1>2, Agendas
<1>4. x \in Locals /\ x.agenda = a /\ x.cur = 0 /\ x.ip = 0 /\ x.dp = 0
  BY <1>3, OweIs
<1> HIDE DEF a, x
<1>5. At(x, "dead")
  BY <1>4 DEF At, HasIp, HasDp, HasBoth, HasNone
<1>6. Balanced(p, x, 0, "dead")
  <2>1. ASSUME NEW j \in Inums
        PROVE  fs'.ref[j] + Has(l[p], cwd[p], pc[p], j) = fs.ref[j] + Has(x, 0, "dead", j)
    <3>1. InHand(l[p], j) = 0 /\ InHand(x, j) = 0 /\ Is(0, j) = 0 /\ Is(cwd[p], j) \in Nat
      BY <1>2, <1>5, InHandIs DEF HasNone, Is, Inums
    <3>2. Has(l[p], cwd[p], pc[p], j) = Is(cwd[p], j)
      BY <1>1, <3>1, OwesNothing DEF Has, Lives
    <3>3. Has(x, 0, "dead", j) = Is(cwd[p], j)
      BY <1>3, <1>4, <3>1 DEF Has, Lives
    <3> QED
      BY <1>1, <3>2, <3>3
  <2> QED
    BY <2>1 DEF Balanced
<1>7. Settled(p, 0, "dead") /\ LocksMove(p, x, "dead")
  BY <1>1, LocksStay DEF Settled
<1> QED
  BY <1>1, <1>2, <1>3, <1>4, <1>5, <1>6, <1>7, CallMoves

LEMMA ExitCallMoves ==
  ASSUME FilesInv, NEW p \in Procs, ExitCall(p)
  PROVE  FilesInv'
BY PlaceMoves DEF ExitCall, Start, Ready, Goto

-----------------------------------------------------------------------------
(* The start and every step                                                *)

(* Nothing is open, owed or held, and every process is at the root.        *)
Fresh ==
    /\ \E disk, used : \E dir \in [Inums -> Directory] : fs = References(Booted(disk, used, dir))
    /\ lk = [i \in Inums |-> Nobody]
    /\ ft = [f \in FileIds |-> FreeFile]
    /\ ofile = [p \in Procs |-> [d \in Fds |-> 0]]
    /\ cwd = [p \in Procs |-> ROOTINO]
    /\ pc = [p \in Procs |-> "idle"]
    /\ l = [p \in Procs |-> Local0]

LEMMA FreshFiles ==
  ASSUME Fresh
  PROVE  FilesInv
<1>1. PICK disk, used : \E dir \in [Inums -> Directory] : fs = References(Booted(disk, used, dir))
  BY DEF Fresh
<1>2. PICK dir \in [Inums -> Directory] : fs = References(Booted(disk, used, dir))
  BY <1>1
<1> DEFINE n == Cardinality(Procs)
           s == Booted(disk, used, dir)
<1>3. NInodes \in Nat /\ NFile \in Nat /\ IsFiniteSet(Procs) /\ n \in Nat /\ Nobody \notin Procs
      /\ ROOTINO \in Inums /\ ROOTINO # 0 /\ ROOTINO \in 0..NInodes
  BY InodeAssumption, FileSysAssumption, FS_CardinalityType
     DEF InodeAssumption, FileSysAssumption, ROOTINO, Inums
<1>4. /\ DOMAIN s = Fields /\ s.ref = [i \in Inums |-> 0] /\ s.dir = dir
  BY DEF Booted, Fields
<1> HIDE DEF s, n
<1>5. /\ DOMAIN fs = Fields /\ fs.dir = dir
      /\ fs.ref = [i \in Inums |-> IF i = ROOTINO THEN n ELSE 0]
  <2>1. fs = [s EXCEPT !.ref[ROOTINO] = n]
    BY <1>2 DEF References, s, n
  <2>2. DOMAIN fs = Fields /\ fs.dir = dir /\ fs.ref = [s.ref EXCEPT ![ROOTINO] = n]
    BY <1>4, <2>1 DEF Fields
  <2> QED
    BY <1>3, <1>4, <2>2
<1>6. Shape(fs)
  BY <1>3, <1>5 DEF Shape
<1>7. Local0 \in Locals /\ Local0.agenda = <<>> /\ Local0.cur = 0 /\ Local0.ip = 0 /\ Local0.dp = 0
  BY <1>3 DEF Local0, Locals
<1>8. FreeFile \in Files /\ FreeFile.ref = 0 /\ FreeFile.type = "none"
  BY <1>3 DEF FreeFile, Files
<1>9. FilesTypeOK
  BY <1>3, <1>6, <1>7, <1>8 DEF Fresh, FilesTypeOK, PCs
<1>10. \A p \in Procs : ProcessOK(p)
  <2>1. At(Local0, "idle") /\ AgendaOK(Local0.agenda)
    BY <1>7, Agendas DEF At, HasIp, HasDp, HasBoth, HasNone
  <2> QED
    BY <1>3, <2>1 DEF Fresh, ProcessOK
<1>11. \A f \in FileIds : FileOK(f)
  BY <1>8 DEF Fresh, FileOK
<1>12. ASSUME NEW f \in FileIds PROVE FileRefs(f)
  <2>1. Descriptors(f) = {}
    BY DEF Fresh, Descriptors, FileIds
  <2> QED
    BY <1>8, <2>1, FS_EmptySet DEF Fresh, FileRefs
<1>13. ASSUME NEW i \in Inums PROVE InodeRefs(i)
  <2>1. OpenFiles(i) = {}
    BY <1>8 DEF Fresh, OpenFiles
  <2>2. OwedBy(l, i) = {}
    BY <1>7 DEF Fresh, OwedBy, Family, Puts
  <2>3. HeldBy(l, i) = {}
    BY <1>7 DEF Fresh, HeldBy, Family, Hand, Inums
  <2>4. LiveIn(cwd, pc, i) = IF i = ROOTINO THEN Procs ELSE {}
    BY DEF Fresh, LiveIn
  <2>5. Refs(l, cwd, pc, i) = IF i = ROOTINO THEN n ELSE 0
    BY <1>3, <2>2, <2>3, <2>4, FS_EmptySet DEF Refs, n
  <2>6. Cardinality(OpenFiles(i)) = 0
    BY <2>1, FS_EmptySet
  <2> QED
    BY <1>3, <1>5, <2>5, <2>6 DEF InodeRefs
<1>14. RefsAgree
  BY <1>9, <1>12, <1>13, InodesAgree DEF Counted
<1> QED
  BY <1>9, <1>10, <1>11, <1>14 DEF FilesInv

LEMMA FilesInvInit == Init => FilesInv
<1>1. Init => Fresh
  BY FileSysAssumption DEF FileSysAssumption, TreeOK, Init, Fresh
<1> QED
  BY <1>1, FreshFiles

LEMMA CrashMoves ==
  ASSUME FilesInv, Crash
  PROVE  FilesInv'
<1>1. fs.dir \in [Inums -> Directory]
  BY DEF FilesInv, FilesTypeOK, Shape
<1>2. Fresh'
  BY <1>1 DEF Crash, Boot, Fresh, References, Booted
<1>3. Fresh' => FilesInv'
  BY FreshFiles, PTL
<1> QED
  BY <1>2, <1>3

LEMMA FilesInvNext == FilesInv /\ [Next]_vars => FilesInv'
<1> SUFFICES ASSUME FilesInv, [Next]_vars PROVE FilesInv'
  OBVIOUS
<1>1. CASE UNCHANGED vars
  BY <1>1 DEF vars, FilesInv, FilesTypeOK, RefsAgree, ProcessOK, FileOK, OpenFiles, Residents, Owed,
     Held, Descriptors, Shape
<1>2. CASE Crash
  BY <1>2, CrashMoves
<1>3. ASSUME NEW p \in Procs, ProcNext(p) PROVE FilesInv'
  <2>1. CASE PathCall(p) \/ Walk(p) \/ WalkEnd(p)
    BY <2>1, PathCallMoves, WalkMoves, WalkEndMoves
  <2>2. CASE Unlocking(p) \/ PutFree(p) \/ PutTrunc(p) \/ PutDrop(p)
    BY <2>2, UnlockingMoves, PutFreeMoves, PutTruncMoves, PutDropMoves
  <2>3. CASE CreateLookup(p) \/ CreateExists(p) \/ CreateNew(p)
    BY <2>3, CreateLookupMoves, CreateExistsMoves, CreateNewMoves
  <2>4. CASE OpenExisting(p) \/ OpenFile(p) \/ MakeDone(p)
    BY <2>4, OpenExistingMoves, OpenFileMoves, MakeDoneMoves
  <2>5. CASE UnlinkLookup(p) \/ UnlinkChild(p) \/ UnlinkLast(p)
    BY <2>5, UnlinkLookupMoves, UnlinkChildMoves, UnlinkLastMoves
  <2>6. CASE LinkOld(p) \/ LinkEntry(p) \/ LinkBad(p)
    BY <2>6, LinkOldMoves, LinkEntryMoves, LinkBadMoves
  <2>7. CASE Chdir(p) \/ ChdirDone(p) \/ Exec(p)
    BY <2>7, ChdirMoves, ChdirDoneMoves, ExecMoves
  <2>8. CASE Close(p) \/ Dup(p) \/ Read(p) \/ Write(p) \/ WriteChunk(p) \/ PipeCall(p)
    BY <2>8, CloseMoves, DupMoves, ReadMoves, WriteMoves, WriteChunkMoves, PipeCallMoves
  <2>9. CASE Fork(p) \/ ExitCall(p) \/ ExitClose(p) \/ ExitCwd(p)
    BY <2>9, ForkMoves, ExitCallMoves, CloseMoves, ExitCwdMoves
  <2> QED
    BY <1>3, <2>1, <2>2, <2>3, <2>4, <2>5, <2>6, <2>7, <2>8, <2>9 DEF ProcNext
<1> QED
  BY <1>1, <1>2, <1>3 DEF Next, Finished

(* The counts, the calls in flight, the locks they have and the files they *)
(* have open belong together at every moment, whatever processes run.      *)
THEOREM FilesAgree == Spec => []FilesInv
BY FilesInvInit, FilesInvNext, PTL DEF Spec

(* ip->ref is the number of pointers to the inode: open files, current     *)
(* directories, and what calls hold or have yet to put; f->ref is the      *)
(* number of descriptors of the file.  So iput() and fileclose() never     *)
(* free what is in use, and a process that dies leaks nothing.             *)
THEOREM ReferencesAreCounted == Spec => []RefsAgree
<1>1. FilesInv => RefsAgree
  BY DEF FilesInv
<1> QED
  BY <1>1, FilesAgree, PTL

-----------------------------------------------------------------------------
(* iput() does not wait                                                    *)

Without(m, p) == [m EXCEPT ![p] = Owe(<<>>)]

LEMMA TakenAway ==
  ASSUME FilesInv, NEW m \in [Procs -> Locals], NEW p \in Procs, NEW j \in Inums
  PROVE  /\ Without(m, p) \in [Procs -> Locals]
         /\ \A q \in Procs : q # p => Without(m, p)[q] = m[q]
         /\ Refs(m, cwd, pc, j) \in Nat /\ Refs(Without(m, p), cwd, pc, j) \in Nat
         /\ Mine(m[p], j) \in Nat
         /\ Refs(m, cwd, pc, j) = Refs(Without(m, p), cwd, pc, j) + Mine(m[p], j)
<1> DEFINE m2 == Without(m, p)
<1>1. Owe(<<>>) \in Locals /\ Mine(Owe(<<>>), j) = 0
  BY OweNothing
<1>2. m2 \in [Procs -> Locals] /\ m2[p] = Owe(<<>>) /\ \A q \in Procs : q # p => m2[q] = m[q]
  BY <1>1 DEF Without
<1> HIDE DEF m2
<1>3. Moved(m, cwd, pc, m2, cwd, pc, p, j)
  BY <1>2, ProcessMoves
<1>4. /\ Refs(m2, cwd, pc, j) \in Nat /\ Refs(m, cwd, pc, j) \in Nat
      /\ Refs(m2, cwd, pc, j) + Has(m[p], cwd[p], pc[p], j)
           = Refs(m, cwd, pc, j) + Has(m2[p], cwd[p], pc[p], j)
  BY <1>3 DEF Moved
<1>5. Lives(cwd[p], pc[p], j) \in Nat /\ Mine(m[p], j) \in Nat
  <2>1. Owes(m[p].agenda, j) \in Nat
    BY PutsFinite DEF Locals
  <2> QED
    BY <2>1, HandCounted DEF Mine, Lives, Is
<1>6. /\ Has(m[p], cwd[p], pc[p], j) = Mine(m[p], j) + Lives(cwd[p], pc[p], j)
      /\ Has(m2[p], cwd[p], pc[p], j) = 0 + Lives(cwd[p], pc[p], j)
  BY <1>1, <1>2 DEF Has, Mine
<1> QED
  BY <1>2, <1>4, <1>5, <1>6 DEF m2

(* What two processes have is no more than there is.                       *)
LEMMA TwoAreReferenced ==
  ASSUME FilesInv, NEW p \in Procs, NEW q \in Procs, q # p, NEW j \in Inums
  PROVE  Mine(l[p], j) + Mine(l[q], j) <= fs.ref[j]
<1>1. l \in [Procs -> Locals] /\ InodeRefs(j)
  BY InodesAgree DEF FilesInv, FilesTypeOK, Counted
<1> DEFINE m == Without(l, p)
           n == Without(m, q)
<1>2. /\ m \in [Procs -> Locals] /\ m[q] = l[q]
      /\ Refs(l, cwd, pc, j) \in Nat /\ Refs(m, cwd, pc, j) \in Nat /\ Mine(l[p], j) \in Nat
      /\ Refs(l, cwd, pc, j) = Refs(m, cwd, pc, j) + Mine(l[p], j)
  BY <1>1, TakenAway
<1> HIDE DEF m
<1>3. /\ Refs(n, cwd, pc, j) \in Nat /\ Mine(m[q], j) \in Nat
      /\ Refs(m, cwd, pc, j) = Refs(n, cwd, pc, j) + Mine(m[q], j)
  BY <1>2, TakenAway
<1> HIDE DEF n
<1>4. fs.ref[j] = Cardinality(OpenFiles(j)) + Refs(l, cwd, pc, j) /\ Cardinality(OpenFiles(j)) \in Nat
  BY <1>1, OpenFilesFinite DEF InodeRefs
<1> QED
  BY <1>2, <1>3, <1>4

(* The next thing that a call does is to give back a reference.            *)
PutsFirst(p, j) == /\ l[p].agenda # <<>> /\ Head(l[p].agenda).op \in {"put", "drop"}
                   /\ Head(l[p].agenda).i = j

(* Whoever has the lock of an inode has a reference to it, besides the one *)
(* that a put is about to give back.                                       *)
LEMMA LockIsReferenced ==
  ASSUME FilesInv, NEW p \in Procs, NEW j \in Inums, Locks(l[p], pc[p], j)
  PROVE  /\ Mine(l[p], j) \in Nat \ {0}
         /\ PutsFirst(p, j) => Mine(l[p], j) >= 2
<1> DEFINE a == l[p].agenda
           S == Puts(a, j)
<1>1. /\ a \in Seq(Todos) /\ AgendaOK(a) /\ l[p] \in Locals /\ At(l[p], pc[p])
      /\ Owes(a, j) \in Nat /\ InHand(l[p], j) \in Nat
  BY Nats DEF FilesInv, FilesTypeOK, ProcessOK, Locals
<1>2. DOMAIN a = 1..Len(a) /\ Len(a) \in Nat /\ (a # <<>> => Head(a) = a[1] /\ 1 \in DOMAIN a)
  BY <1>1
<1>3. IsFiniteSet(S) /\ Owes(a, j) = Cardinality(S)
  BY <1>1, PutsFinite DEF Owes
<1>4. ASSUME NEW k \in S PROVE Owes(a, j) >= 1 /\ \A h \in S : h # k => Owes(a, j) >= 2
  <2>1. Cardinality({k}) = 1 /\ IsFiniteSet({k})
    BY FS_Singleton
  <2>2. {k} \subseteq S
    OBVIOUS
  <2>3. Owes(a, j) >= 1
    BY <1>3, <2>1, <2>2, FS_Subset
  <2>4. ASSUME NEW h \in S, h # k PROVE Owes(a, j) >= 2
    <3>1. IsFiniteSet({k} \cup {h}) /\ Cardinality({k} \cup {h}) = 1 + 1
      BY <2>1, <2>4, FS_AddElement
    <3>2. {k} \cup {h} \subseteq S
      OBVIOUS
    <3> QED
      BY <1>3, <3>1, <3>2, FS_Subset
  <2> QED
    BY <2>3, <2>4
<1>5. PutsFirst(p, j) => 1 \in S
  BY <1>2 DEF Puts, PutsFirst
<1> HIDE DEF S
<1>6. CASE \/ pc[p] \in {"made", "unlinkLast"} /\ l[p].ip = j
           \/ pc[p] \in {"new", "unlinkChild"} /\ l[p].dp = j
  <2>1. InHand(l[p], j) >= 1
    BY <1>6, HandCounted, MineIs DEF InHand, Is
  <2> QED
    BY <1>1, <1>4, <1>5, <2>1 DEF Mine
<1>7. CASE ToUnlock(a, j)
  <2>1. PICK k \in DOMAIN a : a[k].op \in {"trunc", "unlock"} /\ a[k].i = j
    BY <1>7 DEF ToUnlock
  <2>2. CASE a[k].op = "trunc"
    <3>1. k = 1 /\ k \in S
      BY <1>1, <2>1, <2>2 DEF AgendaOK, Puts, S
    <3>2. ~PutsFirst(p, j)
      BY <1>2, <2>1, <2>2, <3>1 DEF PutsFirst
    <3> QED
      BY <1>1, <1>4, <3>1, <3>2 DEF Mine
  <2>3. CASE a[k].op = "unlock"
    <3>1. k + 1 \in DOMAIN a /\ a[k + 1] = Todo("put", j)
      BY <1>1, <2>1, <2>3 DEF AgendaOK
    <3>2. k + 1 \in S /\ k + 1 # 1
      BY <1>2, <2>1, <3>1 DEF Puts, S, Todo
    <3> QED
      BY <1>1, <1>4, <1>5, <3>2 DEF Mine
  <2> QED
    BY <2>1, <2>2, <2>3
<1> QED
  BY <1>6, <1>7 DEF Locks

LEMMA FilesInvWontBlock == FilesInv => PutWontBlock
<1> SUFFICES ASSUME FilesInv, NEW p \in Procs, l[p].agenda # <<>>,
                    Head(l[p].agenda).op = "put", LastUse(Head(l[p].agenda).i)
             PROVE  lk[Head(l[p].agenda).i] = Nobody
  BY DEF PutWontBlock
<1> DEFINE i == Head(l[p].agenda).i
<1>1. i \in Inums /\ lk \in [Inums -> Procs \cup {Nobody}] /\ fs.ref[i] = 1
      /\ l[p].agenda \in Seq(Todos) /\ Head(l[p].agenda) = l[p].agenda[1]
  BY HeadAndTail DEF LastUse
<1>2. Mine(l[p], i) \in Nat \ {0}
  <2>1. Owes(l[p].agenda, i) = Owes(Tail(l[p].agenda), i) + 1 /\ Owes(Tail(l[p].agenda), i) \in Nat
    BY <1>1, HeadDropped DEF Drops, Is
  <2>2. InHand(l[p], i) \in Nat
    BY HandCounted
  <2> QED
    BY <2>1, <2>2 DEF Mine
<1> SUFFICES ASSUME NEW q \in Procs, lk[i] = q PROVE FALSE
  BY <1>1
<1>3. Locks(l[q], pc[q], i)
  BY <1>1 DEF FilesInv, ProcessOK
<1>4. CASE q = p
  <2>1. Mine(l[p], i) >= 2
    BY <1>1, <1>3, <1>4, LockIsReferenced DEF PutsFirst
  <2>2. Mine(l[p], i) <= fs.ref[i]
    BY <1>1, OwedIsReferenced DEF Mine
  <2> QED
    BY <1>1, <1>2, <2>1, <2>2
<1>5. CASE q # p
  <2>1. Mine(l[q], i) \in Nat \ {0}
    BY <1>1, <1>3, LockIsReferenced
  <2>2. Mine(l[p], i) + Mine(l[q], i) <= fs.ref[i]
    BY <1>1, <1>5, TwoAreReferenced
  <2> QED
    BY <1>1, <1>2, <2>1, <2>2
<1> QED
  BY <1>4, <1>5

(* The comment in iput() is right: with the last reference, the sleep lock *)
(* that it takes while it holds a spinlock is free, so that it never       *)
(* sleeps there.  Whoever has the lock has a reference of its own.         *)
THEOREM PutNeverBlocks == Spec => []PutWontBlock
BY FilesAgree, FilesInvWontBlock, PTL

-----------------------------------------------------------------------------
(* Who refers to an inode                                                  *)

GoneAt(g, p) == [g EXCEPT ![p] = "chdirDone"]

LEMMA AllTaken ==
  ASSUME NEW m \in [Procs -> Locals], NEW g \in [Procs -> PCs], NEW p \in Procs,
         NEW j \in Inums
  PROVE  /\ Without(m, p) \in [Procs -> Locals] /\ GoneAt(g, p) \in [Procs -> PCs]
         /\ \A q \in Procs : q # p => Without(m, p)[q] = m[q] /\ GoneAt(g, p)[q] = g[q]
         /\ Refs(m, cwd, g, j) \in Nat /\ Refs(Without(m, p), cwd, GoneAt(g, p), j) \in Nat
         /\ Has(m[p], cwd[p], g[p], j) \in Nat
         /\ Refs(m, cwd, g, j) = Refs(Without(m, p), cwd, GoneAt(g, p), j)
                                   + Has(m[p], cwd[p], g[p], j)
<1> DEFINE m2 == Without(m, p)
           g2 == GoneAt(g, p)
<1>1. Owe(<<>>) \in Locals /\ Mine(Owe(<<>>), j) = 0
  BY OweNothing
<1>2. /\ m2 \in [Procs -> Locals] /\ m2[p] = Owe(<<>>) /\ \A q \in Procs : q # p => m2[q] = m[q]
      /\ g2 \in [Procs -> PCs] /\ g2[p] = "chdirDone" /\ \A q \in Procs : q # p => g2[q] = g[q]
  BY <1>1 DEF Without, GoneAt, PCs
<1> HIDE DEF m2, g2
<1>3. Moved(m, cwd, g, m2, cwd, g2, p, j)
  BY <1>2, ProcessMoves
<1>4. Has(m2[p], cwd[p], g2[p], j) = 0
  BY <1>1, <1>2 DEF Has, Lives, Mine
<1> QED
  BY <1>2, <1>3, <1>4 DEF Moved, m2, g2

(* What two processes and the open files have is no more than there is.    *)
LEMMA Shares ==
  ASSUME FilesInv, NEW p \in Procs, NEW j \in Inums
  PROVE  /\ Has(l[p], cwd[p], pc[p], j) \in Nat /\ fs.ref[j] \in Nat
         /\ Cardinality(OpenFiles(j)) \in Nat
         /\ Has(l[p], cwd[p], pc[p], j) + Cardinality(OpenFiles(j)) <= fs.ref[j]
         /\ \A q \in Procs : q # p =>
              /\ Has(l[q], cwd[q], pc[q], j) \in Nat
              /\ Has(l[p], cwd[p], pc[p], j) + Has(l[q], cwd[q], pc[q], j)
                   + Cardinality(OpenFiles(j)) <= fs.ref[j]
<1>1. l \in [Procs -> Locals] /\ pc \in [Procs -> PCs] /\ InodeRefs(j) /\ fs.ref[j] \in Nat
  BY InodesAgree, Nats DEF FilesInv, FilesTypeOK, Counted
<1> DEFINE m == Without(l, p)
           g == GoneAt(pc, p)
<1>2. /\ m \in [Procs -> Locals] /\ g \in [Procs -> PCs]
      /\ \A q \in Procs : q # p => m[q] = l[q] /\ g[q] = pc[q]
      /\ Refs(l, cwd, pc, j) \in Nat /\ Refs(m, cwd, g, j) \in Nat
      /\ Has(l[p], cwd[p], pc[p], j) \in Nat
      /\ Refs(l, cwd, pc, j) = Refs(m, cwd, g, j) + Has(l[p], cwd[p], pc[p], j)
  BY <1>1, AllTaken
<1> HIDE DEF m, g
<1>3. fs.ref[j] = Cardinality(OpenFiles(j)) + Refs(l, cwd, pc, j) /\ Cardinality(OpenFiles(j)) \in Nat
  BY <1>1, OpenFilesFinite DEF InodeRefs
<1>4. ASSUME NEW q \in Procs, q # p
      PROVE  /\ Has(l[q], cwd[q], pc[q], j) \in Nat
             /\ Has(l[q], cwd[q], pc[q], j) <= Refs(m, cwd, g, j)
  <2> DEFINE m2 == Without(m, q)
             g2 == GoneAt(g, q)
  <2>1. /\ Refs(m2, cwd, g2, j) \in Nat /\ Has(m[q], cwd[q], g[q], j) \in Nat
        /\ Refs(m, cwd, g, j) = Refs(m2, cwd, g2, j) + Has(m[q], cwd[q], g[q], j)
    BY <1>2, AllTaken
  <2> HIDE DEF m2, g2
  <2>2. m[q] = l[q] /\ g[q] = pc[q]
    BY <1>2, <1>4
  <2> QED
    BY <1>2, <2>1, <2>2
<1> QED
  BY <1>1, <1>2, <1>3, <1>4

(* What a process looks at: not an inode that it has just freed.           *)
Uses(x, c, place, i) ==
    \/ x.cur = i \/ x.ip = i \/ x.dp = i
    \/ place # "chdirDone" /\ c = i
    \/ \E k \in DOMAIN x.agenda : x.agenda[k].op # "drop" /\ x.agenda[k].i = i

LEMMA UsesRefers ==
  ASSUME FilesInv, NEW p \in Procs, NEW i \in Inums, Uses(l[p], cwd[p], pc[p], i)
  PROVE  Has(l[p], cwd[p], pc[p], i) > 0
<1> DEFINE a == l[p].agenda
<1>1. /\ a \in Seq(Todos) /\ AgendaOK(a) /\ Owes(a, i) \in Nat /\ InHand(l[p], i) \in Nat
      /\ Lives(cwd[p], pc[p], i) \in Nat
  BY Nats DEF FilesInv, FilesTypeOK, ProcessOK, Locals, Lives, Is
<1>2. CASE l[p].cur = i \/ l[p].ip = i \/ l[p].dp = i
  <2>1. InHand(l[p], i) > 0
    BY <1>2, MineIs DEF InHand, Is
  <2> QED
    BY <1>1, <2>1 DEF Has
<1>3. CASE pc[p] # "chdirDone" /\ cwd[p] = i
  <2>1. Lives(cwd[p], pc[p], i) > 0
    BY <1>3 DEF Lives, Is
  <2> QED
    BY <1>1, <2>1 DEF Has
<1>4. CASE \E k \in DOMAIN a : a[k].op # "drop" /\ a[k].i = i
  <2>1. PICK k \in DOMAIN a : a[k].op # "drop" /\ a[k].i = i
    BY <1>4
  <2>2. Puts(a, i) # {}
    <3>1. CASE a[k].op # "unlock"
      BY <2>1, <3>1 DEF Puts
    <3>2. CASE a[k].op = "unlock"
      <4>1. k + 1 \in DOMAIN a /\ a[k + 1] = Todo("put", i)
        BY <1>1, <2>1, <3>2 DEF AgendaOK
      <4> QED
        BY <4>1 DEF Puts, Todo
    <3> QED
      BY <3>1, <3>2
  <2>3. Owes(a, i) # 0
    BY <1>1, <2>2, PutsFinite, FS_EmptySet DEF Owes
  <2> QED
    BY <1>1, <2>3 DEF Has
<1> QED
  BY <1>2, <1>3, <1>4 DEF Uses

(* Whoever puts the last reference is alone with the inode.                *)
LEMMA LastReference ==
  ASSUME FilesInv, NEW q \in Procs, l[q].agenda # <<>>, Head(l[q].agenda).op # "unlock",
         NEW i, i = Head(l[q].agenda).i, fs.ref[i] = 1
  PROVE  /\ i \in Inums /\ OpenFiles(i) = {} /\ Residents(i) = {}
         /\ \A p \in Procs : p # q => Has(l[p], cwd[p], pc[p], i) = 0
                                      /\ ~Uses(l[p], cwd[p], pc[p], i)
         /\ InHand(l[q], i) = 0 /\ Owes(Tail(l[q].agenda), i) = 0
         /\ Lives(cwd[q], pc[q], i) = 0
<1> DEFINE a == l[q].agenda
<1>1. i \in Inums /\ Owes(a, i) = Owes(Tail(a), i) + 1 /\ Owes(Tail(a), i) \in Nat
  BY HeadAndTail, HeadDropped DEF Drops, Is
<1>2. InHand(l[q], i) \in Nat /\ Lives(cwd[q], pc[q], i) \in Nat
  BY <1>1, Nats DEF Lives, Is
<1>3. Has(l[q], cwd[q], pc[q], i) = Owes(Tail(a), i) + 1 + InHand(l[q], i) + Lives(cwd[q], pc[q], i)
  BY <1>1 DEF Has
<1>4. /\ Cardinality(OpenFiles(i)) \in Nat
      /\ Has(l[q], cwd[q], pc[q], i) + Cardinality(OpenFiles(i)) <= 1
      /\ \A p \in Procs : p # q =>
           /\ Has(l[p], cwd[p], pc[p], i) \in Nat
           /\ Has(l[q], cwd[q], pc[q], i) + Has(l[p], cwd[p], pc[p], i)
                + Cardinality(OpenFiles(i)) <= 1
  BY <1>1, Shares
<1>5. /\ Cardinality(OpenFiles(i)) = 0 /\ InHand(l[q], i) = 0 /\ Owes(Tail(a), i) = 0
      /\ Lives(cwd[q], pc[q], i) = 0
      /\ \A p \in Procs : p # q => Has(l[p], cwd[p], pc[p], i) = 0
  BY <1>1, <1>2, <1>3, <1>4
<1>6. OpenFiles(i) = {}
  BY <1>5, OpenFilesFinite, FS_EmptySet
<1>7. \A p \in Procs : p # q => ~Uses(l[p], cwd[p], pc[p], i)
  BY <1>1, <1>5, UsesRefers
<1>8. Residents(i) = {}
  BY <1>5, <1>7 DEF Residents, Lives, Is, Uses
<1> QED
  BY <1>1, <1>5, <1>6, <1>7, <1>8

-----------------------------------------------------------------------------
(* The inductive invariant of the disk and the calls                       *)

(* The inode with a link that a call has not yet made an entry for, or     *)
(* whose entry it has removed; the root has one for itself.                *)
PendingOf(x, place) ==
    IF place \in {"walk", "linkEntry", "linkBad", "unlinkLast"} THEN x.ip ELSE 0
PendingBy(m, g, i) == {q \in Procs : PendingOf(m[q], g[q]) = i}
Extra(m, g) == [i \in Inums |-> Cardinality(PendingBy(m, g, i)) + Is(ROOTINO, i)]

(* What a call knows of its inodes, at each place.                         *)
PlaceOK(s, x, c, place) ==
    /\ place \in HasDp \cup HasBoth => s.disk[x.dp].type = "dir"
    /\ place \in {"linkEntry", "linkBad"} \/ (place = "walk" /\ x.ip # 0) =>
          s.disk[x.ip].type # "dir"
    /\ place = "unlinkChild" =>
          Head(x.path) \in Names /\ s.dir[x.dp].ents[Head(x.path)] = x.ip
    /\ place \in {"create", "new"} => x.call.type \in Types \ {"none"}
    /\ place = "new" => /\ x.dp # x.ip /\ c # x.ip
                        /\ s.disk[x.ip].nlink = 0 /\ s.dir[x.ip] = NoEntries
                        /\ s.disk[x.ip].type = x.call.type

UnlocksOnce(x, place) == \A k \in DOMAIN x.agenda : x.agenda[k].op = "unlock" =>
    place = "idle" /\ \A h \in DOMAIN x.agenda : x.agenda[h].op = "unlock" => h = k

Truncates(s, x) == x.agenda # <<>> /\ Head(x.agenda).op = "trunc" =>
    s.ref[Head(x.agenda).i] = 1 /\ s.disk[Head(x.agenda).i].nlink = 0

(* filewrite() has a file that stays open.                                 *)
Writes(t, row, x, place) == place = "write" =>
    x.f # 0 /\ t[x.f].type = "inode" /\ \E d \in Fds : row[d] = x.f

Own(p) ==
    /\ \A i \in Inums : Locks(l[p], pc[p], i) => lk[i] = p
    /\ \A i \in Inums : Uses(l[p], cwd[p], pc[p], i) => fs.disk[i].type # "none"
    /\ PlaceOK(fs, l[p], cwd[p], pc[p]) /\ UnlocksOnce(l[p], pc[p])
    /\ Truncates(fs, l[p]) /\ Writes(ft, ofile[p], l[p], pc[p])

(* Nobody else has the inode that create() has just allocated.             *)
Alone(p) == pc[p] = "new" =>
    /\ OpenFiles(l[p].ip) = {}
    /\ \A q \in Procs \ {p} : ~Uses(l[q], cwd[q], pc[q], l[p].ip)

LockedOK == \A i \in Inums : lk[i] # Nobody => fs.valid[i]
OpenOK == \A f \in FileIds :
    ft[f].type \in {"inode", "device"} => fs.disk[ft[f].ip].type # "none"

TreeInv == /\ DiskOK(fs, Extra(l, pc)) /\ LockedOK /\ OpenOK
           /\ \A p \in Procs : Own(p) /\ Alone(p)

-----------------------------------------------------------------------------
(* One process moves on: what the others rely on                           *)

ExtraMoved(m, g, m2, g2, p) ==
    /\ Extra(m, g) \in [Inums -> Int] /\ Extra(m2, g2) \in [Inums -> Int]
    /\ \A i \in Inums :
         /\ Extra(m, g)[i] \in Nat /\ Extra(m2, g2)[i] \in Nat
         /\ Extra(m, g)[i] >= Is(ROOTINO, i)
         /\ Extra(m2, g2)[i] + Is(PendingOf(m[p], g[p]), i)
              = Extra(m, g)[i] + Is(PendingOf(m2[p], g2[p]), i)

LEMMA PendingMoves ==
  ASSUME NEW m, NEW g, NEW m2, NEW g2, NEW p \in Procs,
         \A q \in Procs : q # p => m2[q] = m[q] /\ g2[q] = g[q]
  PROVE  ExtraMoved(m, g, m2, g2, p)
<1>1. ASSUME NEW i \in Inums
      PROVE  /\ Cardinality(PendingBy(m, g, i)) \in Nat /\ Cardinality(PendingBy(m2, g2, i)) \in Nat
             /\ Cardinality(PendingBy(m2, g2, i)) + Is(PendingOf(m[p], g[p]), i)
                  = Cardinality(PendingBy(m, g, i)) + Is(PendingOf(m2[p], g2[p]), i)
  <2> DEFINE S == PendingBy(m, g, i)
             T == PendingBy(m2, g2, i)
  <2>1. S \subseteq Procs /\ IsFiniteSet(Procs)
    BY FileSysAssumption DEF PendingBy, FileSysAssumption
  <2>2. IsFiniteSet(S)
    BY <2>1, FS_Subset
  <2>3. S \ {p} = T \ {p} /\ B(p \in S) = Is(PendingOf(m[p], g[p]), i)
        /\ B(p \in T) = Is(PendingOf(m2[p], g2[p]), i)
    BY DEF PendingBy, B, Is
  <2> HIDE DEF S, T
  <2>4. /\ Cardinality(S) \in Nat /\ Cardinality(T) \in Nat
        /\ Cardinality(T) + B(p \in S) = Cardinality(S) + B(p \in T)
    BY <2>2, <2>3, OneChange
  <2> QED
    BY <2>3, <2>4 DEF S, T
<1>2. ASSUME NEW i \in Inums
      PROVE  /\ Extra(m, g)[i] = Cardinality(PendingBy(m, g, i)) + Is(ROOTINO, i)
             /\ Extra(m2, g2)[i] = Cardinality(PendingBy(m2, g2, i)) + Is(ROOTINO, i)
             /\ Is(ROOTINO, i) \in Nat /\ Is(PendingOf(m[p], g[p]), i) \in Nat
             /\ Is(PendingOf(m2[p], g2[p]), i) \in Nat
  BY DEF Extra, Is
<1>3. ASSUME NEW i \in Inums
      PROVE  /\ Extra(m, g)[i] \in Nat /\ Extra(m2, g2)[i] \in Nat
             /\ Extra(m, g)[i] >= Is(ROOTINO, i)
             /\ Extra(m2, g2)[i] + Is(PendingOf(m[p], g[p]), i)
                  = Extra(m, g)[i] + Is(PendingOf(m2[p], g2[p]), i)
  BY <1>1, <1>2
<1>4. Extra(m, g) \in [Inums -> Int] /\ Extra(m2, g2) \in [Inums -> Int]
  <2>1. /\ Extra(m, g) = [i \in Inums |-> Cardinality(PendingBy(m, g, i)) + Is(ROOTINO, i)]
        /\ Extra(m2, g2) = [i \in Inums |-> Cardinality(PendingBy(m2, g2, i)) + Is(ROOTINO, i)]
    BY DEF Extra
  <2>2. \A i \in Inums : Cardinality(PendingBy(m, g, i)) + Is(ROOTINO, i) \in Int
                         /\ Cardinality(PendingBy(m2, g2, i)) + Is(ROOTINO, i) \in Int
    BY <1>1, <1>2
  <2> QED
    BY <2>1, <2>2
<1> QED
  BY <1>3, <1>4 DEF ExtraMoved

(* Where a reference can come from, without one of one's own.              *)
Refers(p, i) == Has(l[p], cwd[p], pc[p], i) > 0
Others(p, i) == lk[i] \notin {p, Nobody}
Using(p, i) == Uses(l[p], cwd[p], pc[p], i)

OthersStay(p) == \A q \in Procs : q # p =>
    l'[q] = l[q] /\ cwd'[q] = cwd[q] /\ pc'[q] = pc[q] /\ ofile'[q] = ofile[q]

(* What the others have locked, use or count stays.                        *)
LocksStayed(p) == \A i \in Inums : Others(p, i) => lk'[i] = lk[i]
TypesStay(p) == \A i \in Inums : fs.disk[i].type # "none" =>
    fs'.disk[i].type = fs.disk[i].type \/ \A q \in Procs : q # p => ~Using(q, i)
EntriesStay(p) == \A i \in Inums : Others(p, i) => fs'.dir[i] = fs.dir[i]
InodesStay(p) == \A i \in Inums : fs'.disk[i] # fs.disk[i] \/ fs'.dir[i] # fs.dir[i] =>
    Using(p, i) \/ fs.disk[i].type = "none" \/ OpenFiles(i) # {}
CountsStay(p) == \A i \in Inums :
    fs'.ref[i] # fs.ref[i] \/ fs'.disk[i].nlink # fs.disk[i].nlink =>
        Refers(p, i) \/ Known(i) \/ fs.disk[i].type = "none"
UsesStay(p) == \A i \in Inums :
    Using(p, i)' => Using(p, i) \/ Known(i) \/ fs.disk[i].type = "none"
FilesStay(p) ==
    /\ \A i \in Inums : OpenFiles(i)' # {} => OpenFiles(i) # {} \/ Using(p, i)
    /\ \A q \in Procs, d \in Fds : q # p /\ ofile[q][d] # 0 =>
          ft'[ofile[q][d]].type = ft[ofile[q][d]].type

(* What a step has to show: it frees no inode.                             *)
NoneFreed == \A i \in Inums : fs.disk[i].type # "none" => fs'.disk[i].type # "none"
Stays == TreeInv' /\ NoneFreed

LEMMA TreeStep ==
  ASSUME FilesInv, TreeInv, NEW p \in Procs, OthersStay(p),
         LocksStayed(p), TypesStay(p), EntriesStay(p), InodesStay(p), CountsStay(p),
         UsesStay(p), FilesStay(p),
         DiskOK(fs, Extra(l, pc))', LockedOK', OpenOK', Own(p)', Alone(p)'
  PROVE  TreeInv'
<1> SUFFICES ASSUME NEW q \in Procs, q # p PROVE Own(q)' /\ Alone(q)'
  BY DEF TreeInv
<1>1. /\ l'[q] = l[q] /\ cwd'[q] = cwd[q] /\ pc'[q] = pc[q] /\ ofile'[q] = ofile[q]
      /\ Own(q) /\ Alone(q) /\ l[q] \in Locals /\ At(l[q], pc[q])
      /\ lk \in [Inums -> Procs \cup {Nobody}] /\ Nobody \notin Procs
  BY FileSysAssumption DEF OthersStay, TreeInv, FilesInv, FilesTypeOK, ProcessOK, FileSysAssumption
<1>2. /\ l[q].cur # 0 => l[q].cur \in Inums
      /\ l[q].ip # 0 => l[q].ip \in Inums
      /\ l[q].dp # 0 => l[q].dp \in Inums
  BY <1>1, InodeAssumption DEF Locals, InodeAssumption, Inums
<1>3. \A i \in Inums : lk[i] = q => lk'[i] = q /\ fs'.dir[i] = fs.dir[i]
  BY <1>1 DEF LocksStayed, EntriesStay, Others
<1>4. \A i \in Inums : Using(q, i) =>
         fs.disk[i].type # "none" /\ fs'.disk[i].type = fs.disk[i].type
  BY <1>1 DEF Own, TypesStay, Using
<1>5. \A i \in Inums : Locks(l[q], pc[q], i) => lk'[i] = q
  BY <1>1, <1>3 DEF Own
<1>6. Truncates(fs', l[q])
  <2> SUFFICES ASSUME l[q].agenda # <<>>, Head(l[q].agenda).op = "trunc"
               PROVE  /\ fs'.ref[Head(l[q].agenda).i] = 1
                      /\ fs'.disk[Head(l[q].agenda).i].nlink = 0
    BY DEF Truncates
  <2> DEFINE i == Head(l[q].agenda).i
  <2>1. fs.ref[i] = 1 /\ fs.disk[i].nlink = 0
    BY <1>1 DEF Own, Truncates
  <2>2. /\ i \in Inums /\ OpenFiles(i) = {} /\ Residents(i) = {}
        /\ Has(l[p], cwd[p], pc[p], i) = 0
    BY <2>1, LastReference
  <2>3. Using(q, i)
    <3>1. l[q].agenda \in Seq(Todos)
      BY <1>1 DEF Locals
    <3>2. 1 \in DOMAIN l[q].agenda /\ Head(l[q].agenda) = l[q].agenda[1]
      BY <3>1
    <3> QED
      BY <3>2 DEF Using, Uses
  <2>4. fs.disk[i].type # "none"
    BY <1>4, <2>2, <2>3
  <2> HIDE DEF i
  <2>5. ~Refers(p, i) /\ ~Known(i)
    BY <2>1, <2>2 DEF Refers, Known
  <2>6. fs'.ref[i] = 1 /\ fs'.disk[i].nlink = 0
    BY <2>1, <2>2, <2>4, <2>5 DEF CountsStay
  <2> QED
    BY <2>6 DEF i
<1>7. ASSUME pc[q] = "new"
      PROVE  LET i == l[q].ip
             IN  /\ i \in Inums /\ fs'.disk[i] = fs.disk[i] /\ fs'.dir[i] = fs.dir[i]
                 /\ OpenFiles(i) = {} /\ ~Using(p, i) /\ ~Known(i) /\ fs.disk[i].type # "none"
  <2> DEFINE i == l[q].ip
  <2>1. i \in Inums /\ Using(q, i)
    BY <1>1, <1>2, <1>7 DEF At, HasIp, HasDp, HasBoth, HasNone, Using, Uses
  <2>2. /\ OpenFiles(i) = {} /\ \A r \in Procs \ {q} : ~Using(r, i)
    BY <1>1, <1>7 DEF Alone, Using
  <2>3. fs.disk[i].nlink = 0 /\ cwd[q] # i
    BY <1>1, <1>7 DEF Own, PlaceOK
  <2>4. fs.disk[i].type # "none"
    BY <1>4, <2>1
  <2>5. Residents(i) = {}
    BY <2>2, <2>3 DEF Residents, Using, Uses
  <2> HIDE DEF i
  <2>6. ~Using(p, i) /\ ~Known(i)
    BY <2>2, <2>3, <2>5 DEF Known
  <2>7. fs'.disk[i] = fs.disk[i] /\ fs'.dir[i] = fs.dir[i]
    BY <2>1, <2>2, <2>4, <2>6 DEF InodesStay
  <2> QED
    BY <2>1, <2>2, <2>4, <2>6, <2>7 DEF i
<1>8. PlaceOK(fs', l[q], cwd[q], pc[q])
  <2>1. PlaceOK(fs, l[q], cwd[q], pc[q])
    BY <1>1 DEF Own
  <2>2. ASSUME pc[q] \in HasDp \cup HasBoth PROVE fs'.disk[l[q].dp].type = "dir"
    <3>1. l[q].dp \in Inums /\ Using(q, l[q].dp)
      BY <1>1, <1>2, <2>2 DEF At, Using, Uses
    <3> QED
      BY <1>4, <2>1, <2>2, <3>1 DEF PlaceOK
  <2>3. ASSUME pc[q] \in {"linkEntry", "linkBad"} \/ (pc[q] = "walk" /\ l[q].ip # 0)
        PROVE  fs'.disk[l[q].ip].type # "dir"
    <3>1. l[q].ip \in Inums /\ Using(q, l[q].ip)
      BY <1>1, <1>2, <2>3 DEF At, HasIp, HasDp, HasBoth, HasNone, Using, Uses
    <3> QED
      BY <1>4, <2>1, <2>3, <3>1 DEF PlaceOK
  <2>4. ASSUME pc[q] = "unlinkChild"
        PROVE  Head(l[q].path) \in Names /\ fs'.dir[l[q].dp].ents[Head(l[q].path)] = l[q].ip
    <3>1. l[q].dp \in Inums /\ lk[l[q].dp] = q
      BY <1>1, <1>2, <2>4 DEF At, HasBoth, Own, Locks
    <3> QED
      BY <1>3, <2>1, <2>4, <3>1 DEF PlaceOK
  <2> QED
    BY <1>7, <2>1, <2>2, <2>3, <2>4 DEF PlaceOK
<1>9. Writes(ft', ofile[q], l[q], pc[q])
  BY <1>1 DEF Own, Writes, FilesStay
<1>10. Own(q)'
  BY <1>1, <1>4, <1>5, <1>6, <1>8, <1>9 DEF Own, Using
<1>11. Alone(q)'
  <2> SUFFICES ASSUME pc[q] = "new"
               PROVE  /\ OpenFiles(l[q].ip)' = {}
                      /\ \A r \in Procs \ {q} : ~Uses(l'[r], cwd'[r], pc'[r], l[q].ip)
    BY <1>1 DEF Alone, OpenFiles
  <2> DEFINE i == l[q].ip
  <2>1. /\ i \in Inums /\ OpenFiles(i) = {} /\ ~Using(p, i) /\ ~Known(i)
        /\ fs.disk[i].type # "none" /\ \A r \in Procs \ {q} : ~Using(r, i)
    BY <1>1, <1>7 DEF Alone, Using
  <2>2. OpenFiles(i)' = {}
    BY <1>1, <2>1 DEF FilesStay, OpenFiles
  <2>3. ASSUME NEW r \in Procs \ {q} PROVE ~Uses(l'[r], cwd'[r], pc'[r], i)
    <3>1. CASE r = p
      BY <1>1, <2>1, <3>1 DEF UsesStay, Using
    <3>2. CASE r # p
      BY <2>1, <3>2 DEF OthersStay, Using
    <3> QED
      BY <3>1, <3>2
  <2> QED
    BY <2>2, <2>3
<1> QED
  BY <1>10, <1>11

-----------------------------------------------------------------------------
(* Steps that leave the disk as it is                                      *)

LEMMA LockedIsReferenced ==
  ASSUME FilesInv, NEW j \in Inums, lk[j] # Nobody
  PROVE  fs.ref[j] > 0
<1>1. PICK q \in Procs : lk[j] = q
  BY DEF FilesInv, FilesTypeOK
<1>2. Locks(l[q], pc[q], j)
  BY <1>1 DEF FilesInv, ProcessOK
<1>3. Mine(l[q], j) \in Nat \ {0}
  BY <1>2, LockIsReferenced
<1>4. Mine(l[q], j) <= fs.ref[j] /\ fs.ref[j] \in Nat
  BY OwedIsReferenced, Nats DEF Mine
<1> QED
  BY <1>3, <1>4

LEMMA UsedTyped ==
  ASSUME FilesInv, TreeInv, NEW i \in Inums
  PROVE  /\ Known(i) => fs.disk[i].type # "none"
         /\ \A p \in Procs : Using(p, i) => fs.disk[i].type # "none"
<1>1. \A p \in Procs : Using(p, i) => fs.disk[i].type # "none"
  BY DEF TreeInv, Own, Using
<1>2. fs.disk[i].nlink > 0 => fs.disk[i].type # "none"
  BY DEF TreeInv, DiskOK, FreeOK, FreeInode
<1>3. OpenFiles(i) # {} => fs.disk[i].type # "none"
  BY DEF TreeInv, OpenOK, OpenFiles
<1>4. Residents(i) # {} => fs.disk[i].type # "none"
  BY <1>1 DEF Residents, Using, Uses
<1> QED
  BY <1>1, <1>2, <1>3, <1>4 DEF Known

(* What a step shows of a call, apart from the inodes that it uses.        *)
Fine(p, s, t, row, x, c, place) ==
    /\ PlaceOK(s, x, c, place) /\ UnlocksOnce(x, place)
    /\ Truncates(s, x) /\ Writes(t, row, x, place)
    /\ PendingOf(x, place) \in {0, PendingOf(l[p], pc[p])}

LEMMA QuietStep ==
  ASSUME FilesInv, TreeInv, NEW p \in Procs, OthersStay(p), LocksStayed(p), FilesStay(p),
         SameDisk(fs, fs'), Sound(fs'), LockedOK', OpenOK', Alone(p)',
         \A i \in Inums : fs'.ref[i] # fs.ref[i] => Refers(p, i) \/ Known(i),
         \A i \in Inums : Using(p, i)' => Using(p, i) \/ Known(i),
         \A i \in Inums : Locks(l'[p], pc'[p], i) => lk'[i] = p,
         Fine(p, fs', ft', ofile'[p], l'[p], cwd'[p], pc'[p])
  PROVE  Stays
<1>1. fs'.disk = fs.disk /\ fs'.dir = fs.dir
  BY DEF SameDisk
<1>2. /\ TypesStay(p) /\ EntriesStay(p) /\ InodesStay(p) /\ CountsStay(p) /\ UsesStay(p)
  BY <1>1 DEF TypesStay, EntriesStay, InodesStay, CountsStay, UsesStay
<1>3. \A i \in Inums : Uses(l'[p], cwd'[p], pc'[p], i) => fs'.disk[i].type # "none"
  BY <1>1, UsedTyped DEF Using
<1>4. Own(p)'
  BY <1>3 DEF Own, Fine
<1>5. DiskOK(fs', Extra(l', pc'))
  <2>1. DiskOK(fs, Extra(l, pc))
    BY DEF TreeInv
  <2>2. \A q \in Procs : q # p => l'[q] = l[q] /\ pc'[q] = pc[q]
    BY DEF OthersStay
  <2>3. PendingOf(l'[p], pc'[p]) \in {0, PendingOf(l[p], pc[p])}
    BY DEF Fine
  <2>a. ExtraMoved(l, pc, l', pc', p)
    BY <2>2, PendingMoves
  <2>4. ASSUME NEW i \in Inums PROVE Extra(l', pc')[i] <= Extra(l, pc)[i]
    <3>1. /\ Extra(l, pc)[i] \in Nat /\ Extra(l', pc')[i] \in Nat
          /\ Extra(l', pc')[i] + Is(PendingOf(l[p], pc[p]), i)
               = Extra(l, pc)[i] + Is(PendingOf(l'[p], pc'[p]), i)
      BY <2>a DEF ExtraMoved
    <3>2. /\ Is(PendingOf(l'[p], pc'[p]), i) <= Is(PendingOf(l[p], pc[p]), i)
          /\ Is(PendingOf(l'[p], pc'[p]), i) \in Nat /\ Is(PendingOf(l[p], pc[p]), i) \in Nat
      BY <2>3 DEF Is, Inums
    <3> QED
      BY <3>1, <3>2
  <2>5. Extra(l', pc') \in [Inums -> Int]
    BY <2>a DEF ExtraMoved
  <2>6. NotMore(Extra(l, pc), Extra(l', pc'))
    BY <2>4, <2>5 DEF NotMore
  <2> QED
    BY <2>1, <2>6, SameDiskOK
<1>6. TreeInv'
  BY <1>2, <1>4, <1>5, TreeStep
<1> QED
  BY <1>1, <1>6 DEF Stays, NoneFreed

(* What ilock() and iget() leave valid.                                    *)
Kept(s, t) == \A j \in Inums : s.valid[j] /\ s.ref[j] > 0 => t.valid[j]

LEMMA LockedStays ==
  ASSUME FilesInv, TreeInv, Kept(fs, fs'),
         \A i \in Inums : lk'[i] # Nobody => lk[i] # Nobody \/ fs'.valid[i]
  PROVE  LockedOK'
BY LockedIsReferenced DEF TreeInv, LockedOK, Kept

(* A step of a call that leaves the files as they are.                     *)
LEMMA CallStays ==
  ASSUME FilesInv, TreeInv, NEW p \in Procs, NEW x, NEW place, place # "new",
         l' = [l EXCEPT ![p] = x], pc' = [pc EXCEPT ![p] = place],
         UNCHANGED cwd, UNCHANGED fileVars,
         SameDisk(fs, fs'), Sound(fs'), LocksStayed(p), LockedOK',
         \A i \in Inums : fs'.ref[i] # fs.ref[i] => Refers(p, i) \/ Known(i),
         \A i \in Inums : Uses(x, cwd[p], place, i) => Using(p, i) \/ Known(i),
         \A i \in Inums : Locks(x, place, i) => lk'[i] = p,
         Fine(p, fs', ft, ofile[p], x, cwd[p], place)
  PROVE  Stays
<1>1. /\ l'[p] = x /\ pc'[p] = place
      /\ \A q \in Procs : q # p => l'[q] = l[q] /\ pc'[q] = pc[q]
  BY DEF FilesInv, FilesTypeOK
<1>2. OthersStay(p) /\ FilesStay(p) /\ Alone(p)'
  BY <1>1 DEF OthersStay, FilesStay, Alone, fileVars, OpenFiles
<1>3. OpenOK'
  BY DEF TreeInv, OpenOK, fileVars, SameDisk
<1>4. Fine(p, fs', ft', ofile'[p], l'[p], cwd'[p], pc'[p])
  BY <1>1 DEF fileVars
<1>5. \A i \in Inums : Using(p, i)' => Using(p, i) \/ Known(i)
  BY <1>1 DEF Using
<1>6. \A i \in Inums : Locks(l'[p], pc'[p], i) => lk'[i] = p
  BY <1>1
<1> HIDE <1>1
<1> QED
  BY <1>2, <1>3, <1>4, <1>5, <1>6, QuietStep

(* The call is over: it still uses what it has to put.                     *)
LEMMA ReturnStays ==
  ASSUME FilesInv, TreeInv, NEW p \in Procs, NEW a, Return(p, a), pc[p] # "chdirDone",
         UNCHANGED cwd, UNCHANGED fileVars,
         SameDisk(fs, fs'), Sound(fs'), LocksStayed(p), LockedOK',
         \A i \in Inums : fs'.ref[i] # fs.ref[i] => Refers(p, i) \/ Known(i),
         \A k \in DOMAIN a : Using(p, a[k].i) /\ a[k].op # "trunc"
                             /\ (a[k].op = "unlock" => lk'[a[k].i] = p),
         a # <<>> => Head(a) = a[1] /\ 1 \in DOMAIN a,
         \A k, h \in DOMAIN a : a[k].op = "unlock" /\ a[h].op = "unlock" => h = k
  PROVE  Stays
<1> DEFINE x == Owe(a)
<1>1. l' = [l EXCEPT ![p] = x] /\ pc' = [pc EXCEPT ![p] = "idle"]
  BY DEF Return, Goto, Set
<1>2. x.agenda = a /\ x.cur = 0 /\ x.ip = 0 /\ x.dp = 0
  BY DEF Owe, Local0
<1> HIDE DEF x
<1>3. \A i \in Inums : Uses(x, cwd[p], "idle", i) => Using(p, i)
  BY <1>2 DEF Uses, Using, Inums
<1>4. \A i \in Inums : Locks(x, "idle", i) => lk'[i] = p
  BY <1>2 DEF Locks, ToUnlock
<1>5. Fine(p, fs', ft, ofile[p], x, cwd[p], "idle")
  BY <1>2 DEF Fine, PlaceOK, UnlocksOnce, Truncates, Writes, PendingOf, HasDp, HasBoth
<1> QED
  BY <1>1, <1>3, <1>4, <1>5, CallStays

-----------------------------------------------------------------------------
(* Unlocks and puts                                                        *)

LEMMA TailIs ==
  ASSUME NEW a \in Seq(Todos), a # <<>>
  PROVE  /\ 1 \in DOMAIN a /\ Head(a) = a[1] /\ Tail(a) \in Seq(Todos)
         /\ \A k \in DOMAIN Tail(a) : /\ k \in Nat \ {0} /\ k + 1 \in DOMAIN a
                                      /\ Tail(a)[k] = a[k + 1]
         /\ Tail(a) # <<>> => 1 \in DOMAIN Tail(a) /\ Head(Tail(a)) = Tail(a)[1]
<1>1. /\ Len(a) \in Nat \ {0} /\ Tail(a) \in Seq(Todos) /\ Len(Tail(a)) = Len(a) - 1
      /\ Head(a) = a[1] /\ DOMAIN a = 1..Len(a) /\ DOMAIN Tail(a) = 1..(Len(a) - 1)
      /\ \A k \in 1..(Len(a) - 1) : Tail(a)[k] = a[k + 1]
  OBVIOUS
<1>2. Tail(a) # <<>> => 1 \in DOMAIN Tail(a) /\ Head(Tail(a)) = Tail(a)[1]
  BY <1>1
<1> QED
  BY <1>1, <1>2

LEMMA RelabelledIs ==
  ASSUME NEW a \in Seq(Todos), a # <<>>, NEW op
  PROVE  /\ DOMAIN Relabelled(a, op) = DOMAIN a /\ Relabelled(a, op)[1].op = op
         /\ Relabelled(a, op)[1].i = a[1].i
         /\ \A k \in DOMAIN a : k # 1 => Relabelled(a, op)[k] = a[k]
         /\ Relabelled(a, op) # <<>> /\ Head(Relabelled(a, op)) = Relabelled(a, op)[1]
<1> DEFINE b == Relabelled(a, op)
<1>1. /\ DOMAIN a = 1..Len(a) /\ Len(a) \in Nat \ {0} /\ DOMAIN b = DOMAIN a
      /\ a[1] \in Todos
  BY DEF Relabelled
<1>2. /\ b[1] = [a[1] EXCEPT !.op = op] /\ \A k \in DOMAIN a : k # 1 => b[k] = a[k]
  BY <1>1 DEF Relabelled
<1>3. b[1].op = op /\ b[1].i = a[1].i
  BY <1>1, <1>2 DEF Todos
<1>4. b = [k \in 1..Len(a) |-> IF k = 1 THEN [a[1] EXCEPT !.op = op] ELSE a[k]]
  BY <1>1 DEF Relabelled
<1> HIDE DEF b
<1>5. Head(b) = b[1] /\ b # <<>>
  <2>1. b \in Seq({b[k] : k \in 1..Len(a)})
    BY <1>1, <1>4
  <2> QED
    BY <1>1, <2>1
<1> QED
  BY <1>1, <1>2, <1>3, <1>5 DEF b

(* A step that only works on the agenda.                                   *)
LEMMA AgendaStays ==
  ASSUME FilesInv, TreeInv, NEW p \in Procs, NEW b,
         l' = [l EXCEPT ![p] = WithAgenda(l[p], b)], UNCHANGED <<cwd, pc>>, UNCHANGED fileVars,
         SameDisk(fs, fs'), Sound(fs'), LocksStayed(p), LockedOK',
         \A i \in Inums : fs'.ref[i] # fs.ref[i] => Refers(p, i),
         \A k \in DOMAIN b : b[k].op # "drop" => Using(p, b[k].i),
         \A i \in Inums : Locks(WithAgenda(l[p], b), pc[p], i) => lk'[i] = p,
         UnlocksOnce(WithAgenda(l[p], b), pc[p]), Truncates(fs', WithAgenda(l[p], b))
  PROVE  Stays
<1> DEFINE x == WithAgenda(l[p], b)
<1>1. /\ l[p] \in Locals /\ l' = [l EXCEPT ![p] = x]
      /\ \A q \in Procs : q # p => l'[q] = l[q] /\ l'[p] = x
  BY DEF FilesInv, FilesTypeOK
<1>2. /\ l'[p] = x /\ pc'[p] = pc[p] /\ cwd'[p] = cwd[p] /\ ofile'[p] = ofile[p] /\ ft' = ft
      /\ \A q \in Procs : q # p => l'[q] = l[q] /\ cwd'[q] = cwd[q] /\ pc'[q] = pc[q]
                                   /\ ofile'[q] = ofile[q]
  BY DEF FilesInv, FilesTypeOK, fileVars
<1>3. /\ x.agenda = b /\ x.cur = l[p].cur /\ x.ip = l[p].ip /\ x.dp = l[p].dp
      /\ x.path = l[p].path /\ x.call = l[p].call /\ x.f = l[p].f
  BY <1>1 DEF WithAgenda, Locals
<1>4. \A i \in Inums : Uses(x, cwd[p], pc[p], i) => Using(p, i)
  BY <1>3 DEF Uses, Using
<1> HIDE DEF x
<1>5. OthersStay(p) /\ FilesStay(p)
  BY <1>2 DEF OthersStay, FilesStay, OpenFiles
<1>6. OpenOK'
  BY <1>2 DEF TreeInv, OpenOK, SameDisk
<1>7. Alone(p)'
  <2>1. Alone(p) /\ pc' = pc /\ cwd' = cwd
    BY DEF TreeInv
  <2> QED
    BY <1>2, <1>3, <2>1 DEF Alone, OpenFiles
<1>8. Fine(p, fs', ft, ofile[p], x, cwd[p], pc[p])
  <2>1. PlaceOK(fs, l[p], cwd[p], pc[p]) /\ Writes(ft, ofile[p], l[p], pc[p])
    BY DEF TreeInv, Own
  <2>2. PlaceOK(fs', x, cwd[p], pc[p]) /\ Writes(ft, ofile[p], x, pc[p])
    BY <1>3, <2>1 DEF PlaceOK, Writes, SameDisk
  <2>3. PendingOf(x, pc[p]) = PendingOf(l[p], pc[p])
    BY <1>3 DEF PendingOf
  <2> QED
    BY <2>2, <2>3 DEF Fine, x
<1>9. Fine(p, fs', ft', ofile'[p], l'[p], cwd'[p], pc'[p])
  BY <1>2, <1>8
<1>10. \A i \in Inums : Using(p, i)' => Using(p, i) \/ Known(i)
  BY <1>2, <1>4 DEF Using
<1>11. \A i \in Inums : Locks(l'[p], pc'[p], i) => lk'[i] = p
  BY <1>2 DEF x
<1> QED
  BY <1>5, <1>6, <1>7, <1>9, <1>10, <1>11, QuietStep

LEMMA AgendaUsed ==
  ASSUME FilesInv, TreeInv, NEW p \in Procs, l[p].agenda # <<>>
  PROVE  /\ \A k \in DOMAIN l[p].agenda : /\ l[p].agenda[k].i \in Inums
                                          /\ l[p].agenda[k].op # "drop" => Using(p, l[p].agenda[k].i)
                                          /\ l[p].agenda[k].op # "unlock" => Refers(p, l[p].agenda[k].i)
         /\ Own(p) /\ DiskOK(fs, Extra(l, pc)) /\ Sound(fs)
         /\ \A i \in Inums : Extra(l, pc)[i] \in Nat
<1>1. l[p].agenda \in Seq(Todos) /\ AgendaOK(l[p].agenda)
  BY AgendaIs
<1>2. Own(p) /\ DiskOK(fs, Extra(l, pc)) /\ Sound(fs)
  BY DEF TreeInv, DiskOK
<1>3. ASSUME NEW k \in DOMAIN l[p].agenda
      PROVE  /\ l[p].agenda[k].i \in Inums
             /\ l[p].agenda[k].op # "drop" => Using(p, l[p].agenda[k].i)
             /\ l[p].agenda[k].op # "unlock" => Refers(p, l[p].agenda[k].i)
  <2> DEFINE i == l[p].agenda[k].i
  <2>1. i \in Inums
    <3>1. l[p].agenda[k] \in Todos
      BY <1>1
    <3> QED
      BY <3>1 DEF Todos
  <2>2. ASSUME l[p].agenda[k].op # "unlock" PROVE Refers(p, i)
    <3>1. Puts(l[p].agenda, i) # {}
      BY <2>2 DEF Puts
    <3>2. Owes(l[p].agenda, i) \in Nat /\ Owes(l[p].agenda, i) # 0
      BY <1>1, <3>1, PutsFinite, FS_EmptySet DEF Owes
    <3>3. InHand(l[p], i) \in Nat /\ Lives(cwd[p], pc[p], i) \in Nat
      BY <2>1, Nats DEF Lives, Is
    <3> QED
      BY <3>2, <3>3 DEF Refers, Has
  <2> QED
    BY <2>1, <2>2 DEF Using, Uses
<1>4. \A i \in Inums : Extra(l, pc)[i] \in Nat
  <2>1. ExtraMoved(l, pc, l, pc, p)
    BY PendingMoves
  <2> QED
    BY <2>1 DEF ExtraMoved
<1> QED
  BY <1>2, <1>3, <1>4

LEMMA UnlockingStays ==
  ASSUME FilesInv, TreeInv, NEW p \in Procs, Unlocking(p)
  PROVE  Stays
<1> DEFINE a == l[p].agenda
           x == WithAgenda(l[p], Tail(a))
<1>1. /\ a # <<>> /\ Head(a).op = "unlock" /\ lk' = [lk EXCEPT ![Head(a).i] = Nobody]
      /\ l' = [l EXCEPT ![p] = x]
      /\ UNCHANGED <<fs, cwd, pc>> /\ UNCHANGED fileVars
  BY DEF Unlocking, Unlock, Pop, Set, fileVars, WithAgenda
<1>2. /\ a \in Seq(Todos) /\ AgendaOK(a) /\ Head(a).i \in Inums
      /\ lk \in [Inums -> Procs \cup {Nobody}] /\ Nobody \notin Procs /\ l[p] \in Locals
  BY <1>1, HeadAndTail, AgendaIs
<1>3. /\ 1 \in DOMAIN a /\ Head(a) = a[1]
      /\ \A k \in DOMAIN Tail(a) : k \in Nat \ {0} /\ k + 1 \in DOMAIN a /\ Tail(a)[k] = a[k + 1]
  BY <1>1, <1>2, TailIs
<1>4. /\ Own(p) /\ Sound(fs)
      /\ \A k \in DOMAIN a : a[k].op # "drop" => Using(p, a[k].i)
  BY <1>1, AgendaUsed
<1>5. pc[p] = "idle" /\ \A k \in DOMAIN Tail(a) : Tail(a)[k].op = "put"
  <2>1. pc[p] = "idle" /\ \A h \in DOMAIN a : a[h].op = "unlock" => h = 1
    BY <1>1, <1>3, <1>4 DEF Own, UnlocksOnce
  <2>2. ASSUME NEW k \in DOMAIN Tail(a) PROVE Tail(a)[k].op = "put"
    <3>1. k + 1 \in DOMAIN a /\ k + 1 # 1 /\ Tail(a)[k] = a[k + 1]
      BY <1>3
    <3>2. a[k + 1] \in Todos /\ a[k + 1].op # "unlock" /\ a[k + 1].op \notin {"trunc", "drop"}
      BY <1>2, <2>1, <3>1 DEF AgendaOK
    <3> QED
      BY <3>1, <3>2 DEF Todos
  <2> QED
    BY <2>1, <2>2
<1>6. x.agenda = Tail(a)
  BY <1>2 DEF WithAgenda, Locals
<1>7. lk[Head(a).i] = p
  <2>1. Locks(l[p], pc[p], Head(a).i)
    BY <1>1, <1>3 DEF Locks, ToUnlock
  <2> QED
    BY <1>2, <1>4, <2>1 DEF Own
<1>8. LocksStayed(p) /\ LockedOK'
  BY <1>1, <1>2, <1>7 DEF LocksStayed, Others, TreeInv, LockedOK
<1>9. UnlocksOnce(x, pc[p])
  BY <1>5, <1>6 DEF UnlocksOnce
<1>a. Truncates(fs', x)
  BY <1>1, <1>2, <1>5, <1>6, TailIs DEF Truncates
<1>10. \A i \in Inums : ~Locks(x, pc[p], i)
  BY <1>5, <1>6 DEF Locks, ToUnlock
<1>11. \A k \in DOMAIN Tail(a) : Using(p, Tail(a)[k].i)
  BY <1>3, <1>4, <1>5
<1>12. SameDisk(fs, fs') /\ Sound(fs')
  BY <1>1, <1>4 DEF SameDisk
<1> HIDE DEF x
<1> QED
  BY <1>1, <1>8, <1>9, <1>a, <1>10, <1>11, <1>12, AgendaStays DEF x

LEMMA PutFreeStays ==
  ASSUME FilesInv, TreeInv, NEW p \in Procs, PutFree(p)
  PROVE  Stays
<1> DEFINE a == l[p].agenda
           i == Head(a).i
           b == Relabelled(a, "trunc")
           x == WithAgenda(l[p], b)
<1>1. /\ a # <<>> /\ Head(a).op = "put" /\ LastUse(i) /\ lk[i] = Nobody
      /\ lk' = [lk EXCEPT ![i] = p] /\ l' = [l EXCEPT ![p] = x]
      /\ UNCHANGED <<fs, cwd, pc>> /\ UNCHANGED fileVars
  BY DEF PutFree, Lock, Relabel, Set, fileVars, WithAgenda, Relabelled
<1>2. /\ a \in Seq(Todos) /\ Head(a) = a[1] /\ i \in Inums
      /\ lk \in [Inums -> Procs \cup {Nobody}] /\ Nobody \notin Procs /\ l[p] \in Locals
  BY <1>1, HeadAndTail, AgendaIs
<1>3. /\ DOMAIN b = DOMAIN a /\ b[1].op = "trunc" /\ b[1].i = i
      /\ \A k \in DOMAIN a : k # 1 => b[k] = a[k]
      /\ b # <<>> /\ Head(b) = b[1] /\ 1 \in DOMAIN a
  BY <1>1, <1>2, RelabelledIs, TailIs
<1> HIDE DEF b
<1>4. /\ Own(p) /\ Sound(fs)
      /\ \A k \in DOMAIN a : a[k].op # "drop" => Using(p, a[k].i)
  BY <1>1, AgendaUsed
<1>5. /\ x.agenda = b /\ x.ip = l[p].ip /\ x.dp = l[p].dp
  BY <1>2 DEF WithAgenda, Locals
<1> HIDE DEF x
<1>6. LocksStayed(p) /\ LockedOK'
  BY <1>1, <1>2 DEF LocksStayed, Others, TreeInv, LockedOK, LastUse
<1>7. Truncates(fs', x)
  <2>1. fs.ref[i] = 1 /\ fs.disk[i].nlink = 0
    BY <1>1, <1>2, <1>4 DEF LastUse, Sound, Cached
  <2> QED
    BY <1>1, <1>3, <1>5, <2>1 DEF Truncates
<1>8. UnlocksOnce(x, pc[p])
  BY <1>1, <1>2, <1>3, <1>4, <1>5 DEF UnlocksOnce, Own
<1>9. \A j \in Inums : Locks(x, pc[p], j) => lk'[j] = p
  <2> SUFFICES ASSUME NEW j \in Inums, j # i, Locks(x, pc[p], j) PROVE lk[j] = p
    BY <1>1, <1>2
  <2>1. Locks(l[p], pc[p], j)
    BY <1>3, <1>5 DEF Locks, ToUnlock
  <2> QED
    BY <1>4, <2>1 DEF Own
<1>10. \A k \in DOMAIN b : b[k].op # "drop" => Using(p, b[k].i)
  BY <1>1, <1>2, <1>3, <1>4
<1>11. SameDisk(fs, fs') /\ Sound(fs')
  BY <1>1, <1>4 DEF SameDisk
<1> QED
  BY <1>1, <1>6, <1>7, <1>8, <1>9, <1>10, <1>11, AgendaStays DEF x

(* An inode that is locked while a reference is put has another one.       *)
LEMMA PutLeavesLocked ==
  ASSUME FilesInv, NEW p \in Procs, NEW i \in Inums, PutsFirst(p, i), lk[i] # Nobody
  PROVE  fs.ref[i] > 1
<1>1. PICK q \in Procs : lk[i] = q
  BY DEF FilesInv, FilesTypeOK
<1>2. Locks(l[q], pc[q], i) /\ fs.ref[i] \in Nat
  BY <1>1, Nats DEF FilesInv, ProcessOK
<1>3. CASE q = p
  <2>1. Mine(l[p], i) \in Nat /\ Mine(l[p], i) >= 2
    BY <1>2, <1>3, LockIsReferenced
  <2>2. Mine(l[p], i) <= fs.ref[i]
    BY OwedIsReferenced DEF Mine
  <2> QED
    BY <1>2, <2>1, <2>2
<1>4. CASE q # p
  <2>1. Mine(l[q], i) \in Nat \ {0}
    BY <1>2, LockIsReferenced
  <2>2. Mine(l[p], i) \in Nat \ {0}
    <3>1. l[p].agenda # <<>> /\ Head(l[p].agenda).op # "unlock" /\ Head(l[p].agenda).i = i
      BY DEF PutsFirst
    <3>2. Owes(l[p].agenda, i) = Owes(Tail(l[p].agenda), i) + 1 /\ Owes(Tail(l[p].agenda), i) \in Nat
      BY <3>1, HeadDropped DEF Drops, Is
    <3>3. InHand(l[p], i) \in Nat
      BY HandCounted
    <3> QED
      BY <3>2, <3>3 DEF Mine
  <2>3. Mine(l[p], i) + Mine(l[q], i) <= fs.ref[i]
    BY <1>4, TwoAreReferenced
  <2> QED
    BY <1>2, <2>1, <2>2, <2>3
<1> QED
  BY <1>3, <1>4

LEMMA PutDropStays ==
  ASSUME FilesInv, TreeInv, NEW p \in Procs, PutDrop(p)
  PROVE  Stays
<1> DEFINE a == l[p].agenda
           i == Head(a).i
           b == Tail(a)
           x == WithAgenda(l[p], b)
<1>1. /\ a # <<>> /\ Head(a).op \in {"put", "drop"} /\ fs' = Unref(fs, i)
      /\ l' = [l EXCEPT ![p] = x]
      /\ UNCHANGED <<lk, cwd, pc>> /\ UNCHANGED fileVars
  BY DEF PutDrop, Pop, Set, fileVars, WithAgenda
<1>2. /\ a \in Seq(Todos) /\ AgendaOK(a) /\ i \in Inums
      /\ lk \in [Inums -> Procs \cup {Nobody}] /\ Nobody \notin Procs /\ l[p] \in Locals
  BY <1>1, HeadAndTail, AgendaIs
<1>3. /\ 1 \in DOMAIN a /\ Head(a) = a[1]
      /\ \A k \in DOMAIN Tail(a) : k \in Nat \ {0} /\ k + 1 \in DOMAIN a /\ Tail(a)[k] = a[k + 1]
      /\ Tail(a) # <<>> => 1 \in DOMAIN Tail(a) /\ Head(Tail(a)) = Tail(a)[1]
  BY <1>1, <1>2, TailIs
<1>4. /\ Own(p) /\ Sound(fs) /\ Refers(p, i)
      /\ \A k \in DOMAIN a : a[k].op # "drop" => Using(p, a[k].i)
  BY <1>1, <1>3, AgendaUsed
<1>5. \A k \in DOMAIN Tail(a) : Tail(a)[k].op \notin {"trunc", "drop"}
  BY <1>2, <1>3 DEF AgendaOK
<1>6. x.agenda = b /\ x.ip = l[p].ip /\ x.dp = l[p].dp
  BY <1>2 DEF WithAgenda, Locals
<1>7. fs.ref[i] > 0 /\ fs.ref[i] \in Nat
  <2>1. /\ Has(l[p], cwd[p], pc[p], i) \in Nat /\ fs.ref[i] \in Nat /\ Cardinality(OpenFiles(i)) \in Nat
        /\ Has(l[p], cwd[p], pc[p], i) + Cardinality(OpenFiles(i)) <= fs.ref[i]
    BY <1>2, Shares
  <2> QED
    BY <1>4, <2>1 DEF Refers
<1>8. /\ Sound(fs') /\ SameDisk(fs, fs')
      /\ \A j \in Inums : fs.valid[j] /\ (j = i => fs.ref[j] > 1) => fs'.valid[j]
  BY <1>1, <1>2, <1>4, <1>7, UnrefSound
<1>9. LocksStayed(p) /\ LockedOK'
  <2>1. lk[i] # Nobody => fs.ref[i] > 1
    BY <1>1, <1>2, PutLeavesLocked DEF PutsFirst
  <2> QED
    BY <1>1, <1>8, <2>1 DEF LocksStayed, TreeInv, LockedOK
<1>10. \A j \in Inums : fs'.ref[j] # fs.ref[j] => Refers(p, j)
  <2>1. Shape(fs)
    BY DEF FilesInv, FilesTypeOK
  <2>2. fs.ref \in [Inums -> Nat] /\ fs'.ref = [fs.ref EXCEPT ![i] = @ - 1]
    BY <1>1, <1>2, <1>7, <2>1, UnrefCounts DEF Shape
  <2> QED
    BY <1>4, <2>2
<1>11. \A k \in DOMAIN Tail(a) : Using(p, Tail(a)[k].i)
  BY <1>2, <1>3, <1>4, <1>5
<1> HIDE DEF x, b
<1>12. \A j \in Inums : Locks(x, pc[p], j) => lk'[j] = p
  <2> SUFFICES ASSUME NEW j \in Inums, Locks(x, pc[p], j) PROVE lk[j] = p
    BY <1>1
  <2>1. ASSUME ToUnlock(b, j) PROVE ToUnlock(a, j)
    BY <1>3, <2>1 DEF ToUnlock, b
  <2>2. Locks(l[p], pc[p], j)
    BY <1>6, <2>1 DEF Locks
  <2> QED
    BY <1>4, <2>2 DEF Own
<1>13. UnlocksOnce(x, pc[p])
  <2> SUFFICES ASSUME NEW k \in DOMAIN Tail(a), Tail(a)[k].op = "unlock"
               PROVE  pc[p] = "idle" /\ \A h \in DOMAIN Tail(a) : Tail(a)[h].op = "unlock" => h = k
    BY <1>6 DEF UnlocksOnce, b
  <2>1. k + 1 \in DOMAIN a /\ a[k + 1].op = "unlock"
    BY <1>3
  <2>2. pc[p] = "idle" /\ \A h \in DOMAIN a : a[h].op = "unlock" => h = k + 1
    BY <1>4, <2>1 DEF Own, UnlocksOnce
  <2>3. ASSUME NEW h \in DOMAIN Tail(a), Tail(a)[h].op = "unlock" PROVE h = k
    <3>1. h + 1 = k + 1 /\ h \in Nat /\ k \in Nat
      BY <1>3, <2>2, <2>3
    <3> QED
      BY <3>1
  <2> QED
    BY <2>2, <2>3
<1>14. Truncates(fs', x)
  BY <1>3, <1>5, <1>6 DEF Truncates, b
<1>15. UNCHANGED cwd /\ UNCHANGED fileVars /\ UNCHANGED pc /\ l' = [l EXCEPT ![p] = WithAgenda(l[p], b)]
  BY <1>1 DEF x
<1>16. /\ \A k \in DOMAIN b : b[k].op # "drop" => Using(p, b[k].i)
       /\ \A j \in Inums : Locks(WithAgenda(l[p], b), pc[p], j) => lk'[j] = p
       /\ UnlocksOnce(WithAgenda(l[p], b), pc[p]) /\ Truncates(fs', WithAgenda(l[p], b))
  BY <1>11, <1>12, <1>13, <1>14 DEF x, b
<1> QED
  BY <1>8, <1>9, <1>10, <1>15, <1>16, AgendaStays

(* Whoever frees an inode has nothing of it any more but the reference.    *)
Gone(p, x, i) ==
         /\ i \in Inums /\ fs.ref[i] = 1 /\ fs.disk[i].nlink = 0 /\ lk[i] = p /\ fs.valid[i]
         /\ OpenFiles(i) = {} /\ Residents(i) = {} /\ Using(p, i)
         /\ \A q \in Procs : q # p => ~Using(q, i)
         /\ ~Uses(x, cwd[p], pc[p], i) /\ ~Locks(x, pc[p], i)

LEMMA FreedIsGone ==
  ASSUME FilesInv, TreeInv, NEW p \in Procs, l[p].agenda # <<>>, Head(l[p].agenda).op = "trunc"
  PROVE  Gone(p, WithAgenda(l[p], Relabelled(l[p].agenda, "drop")), Head(l[p].agenda).i)
<1> DEFINE a == l[p].agenda
           i == Head(a).i
           x == WithAgenda(l[p], Relabelled(a, "drop"))
           b == Relabelled(a, "drop")
<1>1. /\ a \in Seq(Todos) /\ AgendaOK(a) /\ Head(a) = a[1] /\ l[p] \in Locals
      /\ Nobody \notin Procs
  BY HeadAndTail, AgendaIs
<1>2. 1 \in DOMAIN a /\ Head(a) = a[1]
  BY <1>1, TailIs
<1>3. Own(p) /\ Using(p, i) /\ i \in Inums
  BY <1>2, AgendaUsed
<1>4. fs.ref[i] = 1 /\ fs.disk[i].nlink = 0
  BY <1>3 DEF Own, Truncates
<1>5. lk[i] = p
  BY <1>2, <1>3 DEF Own, Locks, ToUnlock
<1>6. fs.valid[i]
  BY <1>1, <1>3, <1>5 DEF TreeInv, LockedOK
<1>7. /\ OpenFiles(i) = {} /\ Residents(i) = {}
      /\ \A q \in Procs : q # p => ~Using(q, i)
      /\ InHand(l[p], i) = 0 /\ Owes(Tail(a), i) = 0 /\ Lives(cwd[p], pc[p], i) = 0
  BY <1>4, LastReference DEF Using
<1>8. l[p].cur # i /\ l[p].ip # i /\ l[p].dp # i
  BY <1>7 DEF InHand, Is
<1>9. pc[p] # "chdirDone" => cwd[p] # i
  BY <1>7 DEF Lives, Is
<1>10. \A k \in DOMAIN a : k # 1 /\ a[k].op # "unlock" => a[k].i # i
  <2> SUFFICES ASSUME NEW k \in DOMAIN a, k # 1, a[k].op # "unlock", a[k].i = i PROVE FALSE
    OBVIOUS
  <2>a. Len(a) \in Nat \ {0} /\ DOMAIN a = 1..Len(a) /\ DOMAIN Tail(a) = 1..(Len(a) - 1)
    BY <1>1
  <2>b. k - 1 \in DOMAIN Tail(a) /\ (k - 1) + 1 = k
    BY <2>a
  <2>1. k - 1 \in DOMAIN Tail(a) /\ Tail(a)[k - 1] = a[k] /\ Tail(a) \in Seq(Todos)
    BY <1>1, <2>b, TailIs
  <2>2. Puts(Tail(a), i) # {}
    BY <2>1 DEF Puts
  <2>3. Owes(Tail(a), i) # 0
    BY <2>1, <2>2, PutsFinite, FS_EmptySet DEF Owes
  <2> QED
    BY <1>7, <2>3
<1>11. \A k \in DOMAIN a : k # 1 => a[k].i # i
  <2> SUFFICES ASSUME NEW k \in DOMAIN a, k # 1, a[k].op = "unlock", a[k].i = i PROVE FALSE
    BY <1>10
  <2>1. k + 1 \in DOMAIN a /\ a[k + 1] = Todo("put", i) /\ k + 1 # 1
    BY <1>1 DEF AgendaOK
  <2> QED
    BY <1>10, <2>1 DEF Todo
<1>12. /\ DOMAIN b = DOMAIN a /\ b[1].op = "drop"
       /\ \A k \in DOMAIN a : k # 1 => b[k] = a[k]
  BY <1>1, RelabelledIs
<1> HIDE DEF b
<1>13. x.agenda = b /\ x.cur = l[p].cur /\ x.ip = l[p].ip /\ x.dp = l[p].dp
  BY <1>1 DEF WithAgenda, Locals, b
<1> HIDE DEF x
<1>14. ~Uses(x, cwd[p], pc[p], i)
  BY <1>8, <1>9, <1>11, <1>12, <1>13 DEF Uses
<1>15. ~Locks(x, pc[p], i)
  BY <1>14 DEF Uses, Locks, ToUnlock
<1> QED
  BY <1>3, <1>4, <1>5, <1>6, <1>7, <1>14, <1>15 DEF Gone, x

LEMMA TruncFrees ==
  ASSUME NEW p, PutTrunc(p)
  PROVE  /\ fs' = Freed(fs, Head(l[p].agenda).i)
         /\ l[p].agenda # <<>> /\ Head(l[p].agenda).op = "trunc"
         /\ Unlock(Head(l[p].agenda).i) /\ Relabel(p, "drop")
         /\ UNCHANGED <<cwd, pc>> /\ UNCHANGED fileVars
<1>1. fs' = Freed(fs, Head(l[p].agenda).i)
  BY Zenon DEF PutTrunc, Freed
<1>2. /\ l[p].agenda # <<>> /\ Head(l[p].agenda).op = "trunc"
      /\ Unlock(Head(l[p].agenda).i) /\ Relabel(p, "drop")
      /\ UNCHANGED <<cwd, pc>> /\ UNCHANGED fileVars
  BY Zenon DEF PutTrunc, fileVars
<1> QED
  BY <1>1, <1>2

LEMMA PutTruncStays ==
  ASSUME FilesInv, TreeInv, NEW p \in Procs, PutTrunc(p)
  PROVE  TreeInv'
<1> DEFINE a == l[p].agenda
           i == Head(a).i
           b == Relabelled(a, "drop")
           x == WithAgenda(l[p], b)
<1>1. /\ a # <<>> /\ Head(a).op = "trunc" /\ fs' = Freed(fs, i)
      /\ lk' = [lk EXCEPT ![i] = Nobody] /\ l' = [l EXCEPT ![p] = x]
      /\ UNCHANGED <<cwd, pc>> /\ UNCHANGED fileVars
  <2>1. /\ fs' = Freed(fs, i) /\ a # <<>> /\ Head(a).op = "trunc"
        /\ Unlock(i) /\ Relabel(p, "drop")
        /\ UNCHANGED <<cwd, pc>> /\ UNCHANGED fileVars
    BY TruncFrees
  <2>2. lk' = [lk EXCEPT ![i] = Nobody] /\ l' = [l EXCEPT ![p] = x]
    BY <2>1 DEF Unlock, Relabel, Set, WithAgenda, Relabelled
  <2> QED
    BY <2>1, <2>2
<1>a. Gone(p, x, i)
  BY <1>1, FreedIsGone
<1> HIDE DEF x, b, i
<1>2. /\ i \in Inums /\ fs.ref[i] = 1 /\ fs.disk[i].nlink = 0 /\ lk[i] = p /\ fs.valid[i]
      /\ OpenFiles(i) = {} /\ Residents(i) = {} /\ Using(p, i)
      /\ \A q \in Procs : q # p => ~Using(q, i)
      /\ ~Uses(x, cwd[p], pc[p], i) /\ ~Locks(x, pc[p], i)
  BY <1>a DEF Gone
<1>3. /\ Own(p) /\ Alone(p) /\ Sound(fs) /\ BlocksOK(fs) /\ DiskOK(fs, Extra(l, pc))
      /\ l[p] \in Locals /\ a \in Seq(Todos) /\ a[1].op = "trunc" /\ Nobody \notin Procs
      /\ lk \in [Inums -> Procs \cup {Nobody}] /\ l \in [Procs -> Locals]
      /\ \A k \in DOMAIN a : k \in Nat
  BY <1>1, HeadAndTail, AgendaIs DEF TreeInv, DiskOK, FilesInv, FilesTypeOK
<1>4. /\ DOMAIN b = DOMAIN a /\ b[1].op = "drop" /\ b # <<>> /\ Head(b) = b[1]
      /\ \A k \in DOMAIN a : k # 1 => b[k] = a[k]
  BY <1>1, <1>3, RelabelledIs DEF b
<1>5. /\ x.agenda = b /\ x.cur = l[p].cur /\ x.ip = l[p].ip /\ x.dp = l[p].dp
      /\ x.path = l[p].path /\ x.call = l[p].call /\ x.f = l[p].f
  BY <1>3 DEF WithAgenda, Locals, x
<1>6. /\ fs'.dir = [fs.dir EXCEPT ![i] = NoEntries] /\ fs'.disk = [fs.disk EXCEPT ![i] = FreeInode]
      /\ fs'.ref = fs.ref /\ fs'.valid = [fs.valid EXCEPT ![i] = FALSE]
  BY <1>1, <1>2, <1>3, FreedSound
<1>7. /\ fs.disk \in [Inums -> Dinode] /\ fs.dir \in [Inums -> Directory]
      /\ fs.valid \in [Inums -> BOOLEAN]
  BY <1>3 DEF Sound, Typed, Shape
<1>8. /\ \A j \in Inums : j # i => /\ fs'.disk[j] = fs.disk[j] /\ fs'.dir[j] = fs.dir[j]
                                   /\ fs'.valid[j] = fs.valid[j] /\ lk'[j] = lk[j]
      /\ fs'.disk[i].nlink = 0 /\ lk'[i] = Nobody
  BY <1>1, <1>2, <1>3, <1>6, <1>7 DEF FreeInode
<1>9. /\ l'[p] = x /\ pc' = pc /\ cwd' = cwd /\ ft' = ft /\ ofile' = ofile
      /\ \A q \in Procs : q # p => l'[q] = l[q]
  BY <1>1, <1>3 DEF fileVars
<1>10. \A j \in Inums : Uses(x, cwd[p], pc[p], j) => Using(p, j) /\ j # i
  BY <1>2, <1>3, <1>4, <1>5 DEF Uses, Using
<1>11. \A j \in Inums : Locks(x, pc[p], j) => Locks(l[p], pc[p], j) /\ j # i
  BY <1>2, <1>3, <1>4, <1>5 DEF Locks, ToUnlock
<1>12. OthersStay(p) /\ LocksStayed(p) /\ FilesStay(p)
  BY <1>2, <1>8, <1>9 DEF OthersStay, LocksStayed, Others, FilesStay, OpenFiles
<1>13. TypesStay(p) /\ EntriesStay(p) /\ InodesStay(p) /\ CountsStay(p) /\ UsesStay(p)
  <2>1. TypesStay(p) /\ EntriesStay(p)
    BY <1>2, <1>8 DEF TypesStay, EntriesStay, Others
  <2>2. InodesStay(p)
    BY <1>2, <1>8 DEF InodesStay
  <2>3. CountsStay(p)
    BY <1>2, <1>6, <1>8 DEF CountsStay
  <2>4. UsesStay(p)
    BY <1>9, <1>10 DEF UsesStay, Using
  <2> QED
    BY <2>1, <2>2, <2>3, <2>4
<1>14. DiskOK(fs', Extra(l', pc'))
  <2>1. DiskOK(Freed(fs, i), Extra(l, pc))
    BY <1>2, <1>3, FreedOK
  <2>2. ExtraMoved(l, pc, l', pc', p)
    BY <1>9, PendingMoves
  <2>3. PendingOf(l'[p], pc'[p]) = PendingOf(l[p], pc[p])
    BY <1>5, <1>9 DEF PendingOf
  <2>4. NotMore(Extra(l, pc), Extra(l', pc'))
    BY <2>2, <2>3 DEF NotMore, ExtraMoved, Is
  <2>5. Sound(Freed(fs, i)) /\ SameDisk(Freed(fs, i), Freed(fs, i))
    BY <2>1 DEF DiskOK, SameDisk
  <2>6. fs' = Freed(fs, i)
    BY <1>1
  <2> QED
    BY <2>1, <2>4, <2>5, <2>6, SameDiskOK
<1>15. LockedOK' /\ OpenOK'
  <2>1. LockedOK'
    BY <1>2, <1>8 DEF TreeInv, LockedOK
  <2>2. ASSUME NEW f \in FileIds, ft[f].type \in {"inode", "device"}
        PROVE  fs'.disk[ft[f].ip].type # "none"
    <3>1. ft[f].ip \in Inums
      BY <2>2, InodeAssumption DEF FilesInv, FileOK, FilesTypeOK, Files, Inums, InodeAssumption
    <3>2. ft[f].ip # i
      BY <1>2, <2>2 DEF OpenFiles
    <3> QED
      BY <1>8, <2>2, <3>1, <3>2 DEF TreeInv, OpenOK
  <2> QED
    BY <1>9, <2>1, <2>2 DEF OpenOK
<1>16. Own(p)'
  <2>1. \A j \in Inums : Locks(x, pc[p], j) => lk'[j] = p
    BY <1>3, <1>8, <1>11 DEF Own
  <2>2. \A j \in Inums : Uses(x, cwd[p], pc[p], j) => fs'.disk[j].type # "none"
    BY <1>3, <1>8, <1>10 DEF Own, Using
  <2>3. PlaceOK(fs', x, cwd[p], pc[p])
    <3>1. l[p].ip # i /\ l[p].dp # i /\ l[p].ip \in 0..NInodes /\ l[p].dp \in 0..NInodes
      BY <1>2, <1>3, <1>5 DEF Uses, Locals
    <3>2. At(l[p], pc[p]) /\ PlaceOK(fs, l[p], cwd[p], pc[p]) /\ NInodes \in Nat
      BY <1>3, InodeAssumption DEF FilesInv, ProcessOK, Own, InodeAssumption
    <3>3. /\ l[p].dp # 0 => fs'.disk[l[p].dp] = fs.disk[l[p].dp] /\ fs'.dir[l[p].dp] = fs.dir[l[p].dp]
          /\ l[p].ip # 0 => fs'.disk[l[p].ip] = fs.disk[l[p].ip] /\ fs'.dir[l[p].ip] = fs.dir[l[p].ip]
      BY <1>8, <3>1, <3>2 DEF Inums
    <3>4. /\ pc[p] \in HasDp \cup HasBoth => l[p].dp # 0
          /\ pc[p] \in HasIp \cup HasBoth => l[p].ip # 0
      BY <3>2 DEF At
    <3> QED
      BY <1>5, <3>2, <3>3, <3>4 DEF PlaceOK, HasIp, HasDp, HasBoth
  <2>4. UnlocksOnce(x, pc[p])
    BY <1>3, <1>4, <1>5 DEF Own, UnlocksOnce
  <2>5. Truncates(fs', x) /\ Writes(ft, ofile[p], x, pc[p])
    BY <1>3, <1>4, <1>5 DEF Own, Truncates, Writes
  <2> QED
    BY <1>9, <2>1, <2>2, <2>3, <2>4, <2>5 DEF Own
<1>17. Alone(p)'
  BY <1>3, <1>5, <1>9 DEF Alone, OpenFiles
<1> QED
  BY <1>12, <1>13, <1>14, <1>15, <1>16, <1>17, TreeStep

-----------------------------------------------------------------------------
(* Steps of a call that owes nothing                                       *)

LEMMA OnePutIs ==
  ASSUME NEW v
  PROVE  /\ DOMAIN <<Todo("put", v)>> = {1} /\ Head(<<Todo("put", v)>>) = <<Todo("put", v)>>[1]
         /\ <<Todo("put", v)>>[1].op = "put" /\ <<Todo("put", v)>>[1].i = v
         /\ \A i : ~ToUnlock(<<Todo("put", v)>>, i) /\ ~ToUnlock(<<>>, i)
         /\ DOMAIN <<>> = {}
<1>1. /\ DOMAIN <<Todo("put", v)>> = {1} /\ Head(<<Todo("put", v)>>) = <<Todo("put", v)>>[1]
      /\ <<Todo("put", v)>>[1] = Todo("put", v) /\ DOMAIN <<>> = {}
  OBVIOUS
<1>2. Todo("put", v).op = "put" /\ Todo("put", v).i = v
  BY DEF Todo
<1> HIDE DEF Todo
<1> QED
  BY <1>1, <1>2 DEF ToUnlock

LEMMA ReadyUses ==
  ASSUME FilesInv, TreeInv, NEW p \in Procs
  PROVE  /\ l[p].cur \in Inums => Using(p, l[p].cur)
         /\ l[p].ip \in Inums => Using(p, l[p].ip)
         /\ l[p].dp \in Inums => Using(p, l[p].dp)
         /\ pc[p] # "chdirDone" /\ cwd[p] \in Inums => Using(p, cwd[p])
         /\ Own(p) /\ Alone(p) /\ Sound(fs) /\ DiskOK(fs, Extra(l, pc))
         /\ \A i \in Inums : Using(p, i) => fs.disk[i].type # "none" /\ Refers(p, i)
<1>1. \A i \in Inums : Using(p, i) => fs.disk[i].type # "none" /\ Refers(p, i)
  BY UsedTyped, UsesRefers DEF Using, Refers
<1>2. /\ l[p].cur \in Inums => Using(p, l[p].cur)
      /\ l[p].ip \in Inums => Using(p, l[p].ip)
      /\ l[p].dp \in Inums => Using(p, l[p].dp)
      /\ pc[p] # "chdirDone" /\ cwd[p] \in Inums => Using(p, cwd[p])
  BY DEF Using, Uses
<1>3. Own(p) /\ Alone(p) /\ Sound(fs) /\ DiskOK(fs, Extra(l, pc))
  BY DEF TreeInv, DiskOK
<1> QED
  BY <1>1, <1>2, <1>3

(* ilock() reads the inode.                                                *)
Fetched(s, i) == /\ Sound(s) /\ SameDisk(fs, s) /\ s.ref = fs.ref /\ Kept(fs, s)
                 /\ s.valid[i] /\ s.mem[i] = fs.disk[i] /\ Shape(s)

LEMMA LockFetches ==
  ASSUME FilesInv, TreeInv, NEW i \in Inums, fs.disk[i].type # "none"
  PROVE  Fetched(Ilock(fs, i), i)
<1>1. Sound(fs)
  BY DEF TreeInv, DiskOK
<1> QED
  BY <1>1, IlockSound DEF Fetched, Kept, Sound, Typed

(* Nothing that is read under the lock is missing on a disk in order.      *)
LEMMA LockReads ==
  ASSUME FilesInv, TreeInv, NEW i \in Inums, fs.disk[i].type # "none"
  PROVE  LET s == Ilock(fs, i)
         IN  /\ ReadAll(s, i) = [ok |-> TRUE, s |-> s]
             /\ \A off \in Nat : Readi(s, i, off).s = s
             /\ \A n : LET e == Dirlookup(s, i, n)
                      IN  e.ok /\ e.s = s /\ e.i = EntryAt(fs, i, n)
<1> DEFINE s == Ilock(fs, i)
<1>1. Fetched(s, i) /\ BlocksOK(fs)
  BY LockFetches DEF TreeInv, DiskOK
<1> HIDE DEF s
<1>2. Sound(s) /\ BlocksOK(s) /\ s.valid[i] /\ s.dir = fs.dir
  BY <1>1 DEF Fetched, SameDisk, BlocksOK
<1>3. ReadAll(s, i) = [ok |-> TRUE, s |-> s] /\ \A off \in Nat : Readi(s, i, off).s = s
  BY <1>2, ReadsAll
<1>4. \A n : EntryAt(s, i, n) = EntryAt(fs, i, n)
  BY <1>2 DEF EntryAt
<1>5. \A n : LET e == Dirlookup(s, i, n) IN e.ok /\ e.s = s /\ e.i = EntryAt(s, i, n)
  BY <1>2, DirlookupIs
<1> QED
  BY <1>3, <1>4, <1>5 DEF s

(* iget() after it, or idup().                                             *)
Gotten(s, j) == /\ Sound(s) /\ SameDisk(fs, s) /\ Kept(fs, s)
                /\ \A i \in Inums : s.ref[i] # fs.ref[i] => i = j

LEMMA GetAfter ==
  ASSUME NEW s, Sound(s), SameDisk(fs, s), s.ref = fs.ref, Kept(fs, s), NEW j \in Inums
  PROVE  /\ Gotten(Iget(s, j), j) /\ Gotten(Idup(s, j), j)
         /\ \A i \in Inums : s.valid[i] /\ s.ref[i] > 0 => Iget(s, j).valid[i]
         /\ \A i \in Inums : s.valid[i] => Idup(s, j).valid[i]
<1>1. Shape(s) /\ s.ref \in [Inums -> Nat]
  BY DEF Sound, Typed, Shape
<1>2. /\ Iget(s, j).ref = [s.ref EXCEPT ![j] = @ + 1]
      /\ Idup(s, j).ref = [s.ref EXCEPT ![j] = @ + 1]
  BY <1>1, IgetCounts
<1>3. /\ Sound(Iget(s, j)) /\ SameDisk(s, Iget(s, j)) /\ Sound(Idup(s, j)) /\ SameDisk(s, Idup(s, j))
      /\ \A i \in Inums : s.valid[i] /\ s.ref[i] > 0 => Iget(s, j).valid[i]
      /\ \A i \in Inums : s.valid[i] => Idup(s, j).valid[i]
  BY IgetSound
<1>4. \A i \in Inums : /\ Iget(s, j).ref[i] # s.ref[i] => i = j
                       /\ Idup(s, j).ref[i] # s.ref[i] => i = j
  BY <1>1, <1>2
<1>5. SameDisk(fs, Iget(s, j)) /\ SameDisk(fs, Idup(s, j))
  BY <1>3 DEF SameDisk
<1>6. Kept(fs, Iget(s, j)) /\ Kept(fs, Idup(s, j))
  BY <1>3 DEF Kept
<1> QED
  BY <1>3, <1>4, <1>5, <1>6 DEF Gotten

(* The locks: as they were, one more, one less.                            *)
LEMMA LocksKept ==
  ASSUME FilesInv, TreeInv, NEW p \in Procs, Kept(fs, fs')
  PROVE  /\ lk' = lk => LocksStayed(p) /\ LockedOK'
         /\ \A i \in Inums : lk[i] = Nobody /\ lk' = [lk EXCEPT ![i] = p] /\ fs'.valid[i] =>
               LocksStayed(p) /\ LockedOK' /\ lk'[i] = p
         /\ \A i \in Inums : lk[i] = p /\ lk' = [lk EXCEPT ![i] = Nobody] =>
               LocksStayed(p) /\ LockedOK'
<1>1. lk \in [Inums -> Procs \cup {Nobody}] /\ Nobody \notin Procs
  BY FileSysAssumption DEF FilesInv, FilesTypeOK, FileSysAssumption
<1>2. ASSUME lk' = lk PROVE LocksStayed(p) /\ LockedOK'
  BY <1>2, LockedStays DEF LocksStayed
<1>3. ASSUME NEW i \in Inums, lk[i] = Nobody, lk' = [lk EXCEPT ![i] = p], fs'.valid[i]
      PROVE  LocksStayed(p) /\ LockedOK' /\ lk'[i] = p
  <2>1. \A j \in Inums : lk'[j] # Nobody => lk[j] # Nobody \/ fs'.valid[j]
    BY <1>1, <1>3
  <2> QED
    BY <1>1, <1>3, <2>1, LockedStays DEF LocksStayed, Others
<1>4. ASSUME NEW i \in Inums, lk[i] = p, lk' = [lk EXCEPT ![i] = Nobody]
      PROVE  LocksStayed(p) /\ LockedOK'
  <2>1. \A j \in Inums : lk'[j] # Nobody => lk[j] # Nobody \/ fs'.valid[j]
    BY <1>1, <1>4
  <2> QED
    BY <1>1, <1>4, <2>1, LockedStays DEF LocksStayed, Others
<1> QED
  BY <1>2, <1>3, <1>4

(* A call goes on, with at most one put to do.                             *)
LEMMA GoStays ==
  ASSUME FilesInv, TreeInv, NEW p \in Procs, NEW x, NEW place, NEW v,
         place \notin {"new", "write"}, pc[p] # "chdirDone",
         x.agenda = <<>> \/ (x.agenda = <<Todo("put", v)>> /\ (v \in Inums => Using(p, v))),
         l' = [l EXCEPT ![p] = x], pc' = [pc EXCEPT ![p] = place],
         UNCHANGED cwd, UNCHANGED fileVars,
         SameDisk(fs, fs'), Sound(fs'), LocksStayed(p), LockedOK',
         \A i \in Inums : fs'.ref[i] # fs.ref[i] => Refers(p, i) \/ Known(i),
         \A i \in Inums : i = x.cur \/ i = x.ip \/ i = x.dp => Using(p, i) \/ Known(i),
         place \in {"made", "unlinkLast"} => lk'[x.ip] = p,
         place = "unlinkChild" => lk'[x.dp] = p,
         PlaceOK(fs, x, cwd[p], place), PendingOf(x, place) \in {0, PendingOf(l[p], pc[p])}
  PROVE  Stays
<1>1. /\ \A k \in DOMAIN x.agenda : x.agenda[k].op = "put"
      /\ x.agenda # <<>> => Head(x.agenda).op = "put"
      /\ \A i : ~ToUnlock(x.agenda, i)
      /\ \A i \in Inums : \A k \in DOMAIN x.agenda : x.agenda[k].i = i => Using(p, i)
  <2> DEFINE a == <<Todo("put", v)>>
  <2>1. /\ DOMAIN a = {1} /\ Head(a) = a[1] /\ a[1].op = "put" /\ a[1].i = v
        /\ \A i : ~ToUnlock(a, i) /\ ~ToUnlock(<<>>, i)
        /\ DOMAIN <<>> = {}
    BY OnePutIs
  <2> HIDE DEF a
  <2>2. CASE x.agenda = <<>>
    BY <2>1, <2>2
  <2>3. CASE x.agenda = a /\ (v \in Inums => Using(p, v))
    BY <2>1, <2>3
  <2> QED
    BY <2>2, <2>3 DEF a
<1>2. UnlocksOnce(x, place) /\ Truncates(fs', x)
  BY <1>1 DEF UnlocksOnce, Truncates
<1>3. PlaceOK(fs', x, cwd[p], place)
  BY DEF PlaceOK, SameDisk
<1>4. Fine(p, fs', ft, ofile[p], x, cwd[p], place)
  BY <1>2, <1>3 DEF Fine, Writes
<1>5. \A i \in Inums : Locks(x, place, i) => lk'[i] = p
  BY <1>1 DEF Locks
<1>6. \A i \in Inums : Uses(x, cwd[p], place, i) => Using(p, i) \/ Known(i)
  BY <1>1 DEF Uses, Using
<1> QED
  BY <1>4, <1>5, <1>6, CallStays

LEMMA ReturnPutStays ==
  ASSUME FilesInv, TreeInv, NEW p \in Procs, NEW v, Return(p, <<Todo("put", v)>>),
         pc[p] # "chdirDone", v \in Inums => Using(p, v),
         UNCHANGED cwd, UNCHANGED fileVars,
         SameDisk(fs, fs'), Sound(fs'), LocksStayed(p), LockedOK',
         \A i \in Inums : fs'.ref[i] # fs.ref[i] => Refers(p, i) \/ Known(i)
  PROVE  Stays
<1> DEFINE x == Owe(<<Todo("put", v)>>)
<1>1. l' = [l EXCEPT ![p] = x] /\ pc' = [pc EXCEPT ![p] = "idle"]
  BY DEF Return, Goto, Set
<1>2. x.agenda = <<Todo("put", v)>> /\ x.cur = 0 /\ x.ip = 0 /\ x.dp = 0
  BY DEF Owe, Local0
<1> HIDE DEF x
<1>3. \A i \in Inums : i # 0
  BY DEF Inums
<1>4. PlaceOK(fs, x, cwd[p], "idle") /\ PendingOf(x, "idle") = 0
  BY DEF PlaceOK, PendingOf, HasDp, HasBoth
<1>5. \A i \in Inums : i = x.cur \/ i = x.ip \/ i = x.dp => Using(p, i) \/ Known(i)
  BY <1>2, <1>3
<1> QED
  BY <1>1, <1>2, <1>4, <1>5, GoStays

-----------------------------------------------------------------------------
(* Path lookup                                                             *)

LEMMA RootKnown ==
  ASSUME FilesInv, TreeInv, NEW p \in Procs
  PROVE  ROOTINO \in Inums /\ Known(ROOTINO) /\ \A i \in Inums : Extra(l, pc)[i] >= 0
<1>1. ROOTINO \in Inums
  BY InodeAssumption DEF InodeAssumption, ROOTINO, Inums
<1>2. ExtraMoved(l, pc, l, pc, p)
  BY PendingMoves
<1>3. \A i \in Inums : Extra(l, pc)[i] \in Nat /\ Extra(l, pc)[i] >= Is(ROOTINO, i)
  BY <1>2 DEF ExtraMoved
<1>4. Extra(l, pc)[ROOTINO] > 0 /\ \A i \in Inums : Extra(l, pc)[i] >= 0
  BY <1>1, <1>3 DEF Is
<1>5. DiskOK(fs, Extra(l, pc))
  BY DEF TreeInv
<1>6. fs.disk[ROOTINO].nlink \in Nat \ {0}
  BY <1>1, <1>4, <1>5, HasLinks
<1> QED
  BY <1>1, <1>4, <1>6 DEF Known

LEMMA EntryKnown ==
  ASSUME FilesInv, TreeInv, NEW p \in Procs, NEW d \in Inums, NEW n \in Names,
         NEW i, i = fs.dir[d].ents[n], i # 0
  PROVE  i \in Inums /\ Known(i) /\ fs.disk[i].nlink \in Nat \ {0}
<1>1. DiskOK(fs, Extra(l, pc))
  BY DEF TreeInv
<1>2. i \in Inums
  BY <1>1, EntriesAreInums
<1>3. Extra(l, pc)[i] >= 0
  BY <1>2, RootKnown
<1>4. <<d, n>> \in NamingIn(fs.dir, i)
  BY DEF NamingIn
<1>5. fs.disk[i].nlink \in Nat \ {0}
  BY <1>1, <1>2, <1>3, <1>4, HasLinks
<1> QED
  BY <1>2, <1>5 DEF Known

LEMMA EntryIs ==
  ASSUME NEW s, NEW d, NEW n
  PROVE  /\ n = "." => EntryAt(s, d, n) = d
         /\ n = ".." => EntryAt(s, d, n) = s.dir[d].dotdot
         /\ n \notin {".", ".."} => EntryAt(s, d, n) = s.dir[d].ents[n]
<1>1. "." # ".."
  OBVIOUS
<1>2. ASSUME n = "." PROVE EntryAt(s, d, n) = d
  BY <1>1, <1>2 DEF EntryAt
<1>3. ASSUME n = ".." PROVE EntryAt(s, d, n) = s.dir[d].dotdot
  BY <1>1, <1>3 DEF EntryAt
<1>4. ASSUME n # ".", n # ".." PROVE EntryAt(s, d, n) = s.dir[d].ents[n]
  BY <1>1, <1>4 DEF EntryAt
<1> QED
  BY <1>2, <1>3, <1>4

(* What dirlookup() finds is known, or the directory itself.               *)
LEMMA FoundKnown ==
  ASSUME FilesInv, TreeInv, UpIsKnown, NEW p \in Procs, l[p].agenda = <<>>,
         pc[p] \in {"walk", "create"}, l[p].path # <<>>,
         pc[p] = "walk" => ~(l[p].parent /\ Len(l[p].path) = 1),
         NEW d, d = IF pc[p] = "walk" THEN l[p].cur ELSE l[p].dp, d \in Inums,
         fs.disk[d].type = "dir", NEW i, i = EntryAt(fs, d, Head(l[p].path)), i # 0
  PROVE  i \in Inums /\ (Using(p, i) \/ Known(i))
<1> DEFINE n == Head(l[p].path)
<1>1. n \in PathNames
  <2>1. l[p].path \in Seq(PathNames)
    BY ReadyIs
  <2> QED
    BY <2>1
<1>2. fs.dir[d].dotdot \in 0..NInodes /\ NInodes \in Nat
  BY InodeAssumption DEF FilesInv, FilesTypeOK, Shape, Directory, InodeAssumption
<1>3. CASE n = "."
  <2>1. i = d
    BY <1>3, EntryIs
  <2>2. d = l[p].cur \/ d = l[p].dp
    OBVIOUS
  <2> QED
    BY <2>1, <2>2, ReadyUses
<1>4. CASE n = ".."
  <2>1. i = fs.dir[d].dotdot
    BY <1>4, EntryIs
  <2>2. Known(i)
    BY <1>4, <2>1 DEF UpIsKnown
  <2> QED
    BY <1>2, <2>1, <2>2 DEF Inums
<1>5. CASE n \notin {".", ".."}
  <2>1. n \in Names
    BY <1>1, <1>5 DEF PathNames
  <2>2. i = fs.dir[d].ents[n]
    BY <1>5, EntryIs
  <2> QED
    BY <2>1, <2>2, EntryKnown
<1> QED
  BY <1>3, <1>4, <1>5

LEMMA PathCallStays ==
  ASSUME FilesInv, TreeInv, NEW p \in Procs, PathCall(p)
  PROVE  Stays
<1>1. PICK c \in Calls :
        LET w == NamexStart(p, c, c.path) IN
        /\ Start(p)
        /\ fs' = w.s
        /\ Set(p, [Local0 EXCEPT !.call = c, !.path = c.path.elems, !.cur = w.i,
                                 !.parent = WantsParent(c)])
        /\ Goto(p, "walk")
        /\ UNCHANGED <<lk, fileVars, cwd>>
  BY Zenon DEF PathCall
<1> DEFINE w == NamexStart(p, c, c.path)
           x == [Local0 EXCEPT !.call = c, !.path = c.path.elems, !.cur = w.i,
                               !.parent = WantsParent(c)]
<1>2. /\ pc[p] = "idle" /\ l[p].agenda = <<>> /\ fs' = w.s /\ l' = [l EXCEPT ![p] = x]
      /\ pc' = [pc EXCEPT ![p] = "walk"] /\ lk' = lk /\ UNCHANGED cwd /\ UNCHANGED fileVars
  BY <1>1 DEF Start, Ready, Set, Goto
<1>3. /\ w.i \in {ROOTINO, cwd[p]} /\ w.s \in {Iget(fs, w.i), Idup(fs, w.i)}
      /\ cwd[p] \in Inums /\ ROOTINO \in Inums /\ Known(ROOTINO) /\ Using(p, cwd[p])
  BY <1>2, ReadyIs, ReadyUses, RootKnown DEF NamexStart
<1>4. x.agenda = <<>> /\ x.ip = 0 /\ x.dp = 0 /\ x.cur = w.i
  BY DEF Local0
<1> HIDE DEF w, x
<1>5. Gotten(fs', w.i)
  <2>1. Sound(fs) /\ SameDisk(fs, fs) /\ fs.ref = fs.ref /\ Kept(fs, fs)
    BY DEF TreeInv, DiskOK, SameDisk, Kept
  <2>2. Gotten(Iget(fs, w.i), w.i) /\ Gotten(Idup(fs, w.i), w.i)
    BY <1>3, <2>1, GetAfter
  <2> QED
    BY <1>2, <1>3, <2>2
<1>6. /\ SameDisk(fs, fs') /\ Sound(fs') /\ Kept(fs, fs')
      /\ \A i \in Inums : fs'.ref[i] # fs.ref[i] => Refers(p, i) \/ Known(i)
  BY <1>3, <1>5, ReadyUses DEF Gotten
<1>7. LocksStayed(p) /\ LockedOK'
  BY <1>2, <1>6, LocksKept
<1>8. PlaceOK(fs, x, cwd[p], "walk") /\ PendingOf(x, "walk") = 0
  BY <1>4 DEF PlaceOK, PendingOf, HasDp, HasBoth
<1>9. \A i \in Inums : i = x.cur \/ i = x.ip \/ i = x.dp => Using(p, i) \/ Known(i)
  BY <1>3, <1>4 DEF Inums
<1> QED
  BY <1>2, <1>4, <1>6, <1>7, <1>8, <1>9, GoStays

LEMMA NamexFailsStays ==
  ASSUME FilesInv, TreeInv, NEW p \in Procs, pc[p] = "walk", l[p].agenda = <<>>, NamexFails(p),
         Sound(fs'), SameDisk(fs, fs'), Kept(fs, fs'), fs'.ref = fs.ref,
         lk' = lk, UNCHANGED cwd, UNCHANGED fileVars
  PROVE  Stays
<1> DEFINE i == l[p].cur
           a == <<Todo("put", i)>>
           x == [l[p] EXCEPT !.agenda = a, !.cur = 0, !.path = <<>>]
<1>1. /\ l[p] \in Locals /\ i \in Inums /\ l[p].dp = 0 /\ \A j \in Inums : j # 0
      /\ Using(p, i) /\ (l[p].ip \in Inums => Using(p, l[p].ip)) /\ Own(p)
  BY ReadyIs, ReadyUses DEF At, Inums
<1>2. LocksStayed(p) /\ LockedOK'
  BY LocksKept
<1>3. CASE l[p].ip = 0
  <2>1. Return(p, a)
    BY <1>3 DEF NamexFails
  <2> QED
    BY <1>1, <1>2, <2>1, ReturnPutStays
<1>4. CASE l[p].ip # 0
  <2>1. pc' = [pc EXCEPT ![p] = "linkBad"] /\ l' = [l EXCEPT ![p] = x]
    BY <1>4 DEF NamexFails, Goto, Set
  <2>2. /\ x.agenda = a /\ x.cur = 0 /\ x.ip = l[p].ip /\ x.dp = 0
    BY <1>1 DEF Locals
  <2> HIDE DEF x
  <2>3. PlaceOK(fs, x, cwd[p], "linkBad")
    BY <1>1, <1>4, <2>2 DEF Own, PlaceOK, HasDp, HasBoth
  <2>4. PendingOf(x, "linkBad") = PendingOf(l[p], pc[p])
    BY <2>2 DEF PendingOf
  <2>5. \A j \in Inums : j = x.cur \/ j = x.ip \/ j = x.dp => Using(p, j) \/ Known(j)
    BY <1>1, <2>2
  <2> QED
    BY <1>1, <1>2, <2>1, <2>2, <2>3, <2>4, <2>5, GoStays
<1> QED
  BY <1>3, <1>4

LEMMA NamexReturnsStays ==
  ASSUME FilesInv, TreeInv, NEW p \in Procs, pc[p] = "walk", l[p].agenda = <<>>, NamexReturns(p),
         l[p].parent => fs.disk[l[p].cur].type = "dir",
         Sound(fs'), SameDisk(fs, fs'), Kept(fs, fs'), fs'.ref = fs.ref,
         lk' = lk, UNCHANGED cwd, UNCHANGED fileVars
  PROVE  Stays
<1> DEFINE c == l[p].call
           place == Found(c, l[p].ip # 0)
           x == IF l[p].parent THEN [l[p] EXCEPT !.dp = l[p].cur, !.cur = 0]
                ELSE [l[p] EXCEPT !.ip = l[p].cur, !.cur = 0]
<1>1. /\ l[p] \in Locals /\ At(l[p], "walk") /\ l[p].cur \in Inums /\ l[p].dp = 0
      /\ c \in Calls /\ l[p].parent = (WantsParent(c) \/ l[p].ip # 0)
      /\ l[p].ip # 0 => c.op = "link"
      /\ Using(p, l[p].cur) /\ (l[p].ip \in Inums => Using(p, l[p].ip)) /\ Own(p)
      /\ \A j \in Inums : j # 0
  BY ReadyIs, ReadyUses DEF At, Inums
<1>2. pc' = [pc EXCEPT ![p] = place] /\ l' = [l EXCEPT ![p] = x]
  BY DEF NamexReturns, Goto, Set
<1>3. /\ x.agenda = <<>> /\ x.cur = 0 /\ x.call = c
      /\ l[p].parent => x.dp = l[p].cur /\ x.ip = l[p].ip
      /\ ~l[p].parent => x.ip = l[p].cur /\ x.dp = 0
  BY <1>1 DEF Locals
<1> HIDE DEF x
<1>4. c.op \in {"open", "mkdir", "mknod", "unlink", "link", "chdir", "exec"}
  BY <1>1, CallsAre
<1>5. /\ l[p].parent => \/ l[p].ip = 0 /\ place \in {"create", "unlink"}
                        \/ l[p].ip # 0 /\ place = "linkEntry"
      /\ ~l[p].parent => l[p].ip = 0 /\ place \in {"open", "link", "chdir", "exec"}
  BY <1>1, <1>4 DEF Found, WantsParent
<1>6. place = "create" => c.type \in Types \ {"none"}
  BY <1>1, <1>4, FileSysAssumption DEF Found, FileSysAssumption, Types
<1> HIDE DEF place
<1>7. LocksStayed(p) /\ LockedOK'
  BY LocksKept
<1>8. PlaceOK(fs, x, cwd[p], place) /\ PendingOf(x, place) \in {0, PendingOf(l[p], pc[p])}
  <2>1. CASE l[p].parent
    BY <1>1, <1>3, <1>5, <1>6, <2>1 DEF PlaceOK, PendingOf, Own, HasDp, HasBoth
  <2>2. CASE ~l[p].parent
    BY <1>1, <1>3, <1>5, <2>2 DEF PlaceOK, PendingOf, HasDp, HasBoth
  <2> QED
    BY <2>1, <2>2
<1>9. \A j \in Inums : j = x.cur \/ j = x.ip \/ j = x.dp => Using(p, j) \/ Known(j)
  BY <1>1, <1>3
<1>10. place \notin {"new", "write", "made", "unlinkLast", "unlinkChild"}
  BY <1>5
<1> QED
  BY <1>2, <1>3, <1>7, <1>8, <1>9, <1>10, GoStays

LEMMA WalkStays ==
  ASSUME FilesInv, TreeInv, UpIsKnown, NEW p \in Procs, Walk(p)
  PROVE  Stays
<1> DEFINE i == l[p].cur
           path == l[p].path
           s == Ilock(fs, i)
           e == Dirlookup(s, i, Head(path))
           next == e.i
           x == [l[p] EXCEPT !.cur = next, !.path = Tail(path), !.agenda = <<Todo("put", i)>>]
<1>1. /\ pc[p] = "walk" /\ l[p].agenda = <<>> /\ path # <<>>
      /\ lk' = lk /\ UNCHANGED cwd /\ UNCHANGED fileVars
      /\ \/ fs' \in {s, e.s} /\ NamexFails(p)
         \/ fs' = s /\ NamexReturns(p) /\ s.mem[i].type = "dir"
         \/ /\ next # 0 /\ fs' = Iget(e.s, next) /\ l' = [l EXCEPT ![p] = x] /\ UNCHANGED pc
            /\ s.mem[i].type = "dir" /\ ~(l[p].parent /\ Len(path) = 1)
  BY DEF Walk, Ready, Visit, Set
<1>2. /\ l[p] \in Locals /\ At(l[p], "walk") /\ i \in Inums /\ l[p].dp = 0
      /\ \A j \in Inums : j # 0
  BY <1>1, ReadyIs DEF At, Inums
<1>3. /\ Using(p, i) /\ Own(p) /\ fs.disk[i].type # "none"
      /\ (l[p].ip \in Inums => Using(p, l[p].ip))
  BY <1>2, ReadyUses
<1>4. /\ Sound(s) /\ SameDisk(fs, s) /\ Kept(fs, s) /\ s.ref = fs.ref
      /\ s.mem[i] = fs.disk[i] /\ s.dir = fs.dir
  BY <1>2, <1>3, LockFetches DEF Fetched, SameDisk
<1>8. e.s = s /\ next = EntryAt(fs, i, Head(path))
  BY <1>2, <1>3, LockReads
<1> HIDE DEF s, e
<1>5. CASE fs' \in {s, e.s} /\ NamexFails(p)
  BY <1>1, <1>4, <1>5, <1>8, NamexFailsStays
<1>6. CASE fs' = s /\ NamexReturns(p) /\ s.mem[i].type = "dir"
  BY <1>1, <1>4, <1>6, NamexReturnsStays
<1>7. CASE /\ next # 0 /\ fs' = Iget(e.s, next) /\ l' = [l EXCEPT ![p] = x] /\ UNCHANGED pc
           /\ s.mem[i].type = "dir" /\ ~(l[p].parent /\ Len(path) = 1)
  <2>1. next = EntryAt(fs, i, Head(path)) /\ fs' = Iget(s, next)
    BY <1>7, <1>8
  <2>2. next \in Inums /\ (Using(p, next) \/ Known(next))
    BY <1>1, <1>2, <1>4, <1>7, <2>1, FoundKnown
  <2> HIDE DEF next
  <2>3. /\ x.agenda = <<Todo("put", i)>> /\ x.cur = next /\ x.ip = l[p].ip /\ x.dp = 0
    BY <1>2 DEF Locals
  <2> HIDE DEF x
  <2>4. Gotten(Iget(s, next), next)
    BY <1>4, <2>2, GetAfter
  <2>5. /\ SameDisk(fs, fs') /\ Sound(fs') /\ Kept(fs, fs')
        /\ \A j \in Inums : fs'.ref[j] # fs.ref[j] => Refers(p, j) \/ Known(j)
    BY <2>1, <2>2, <2>4, ReadyUses DEF Gotten
  <2>6. LocksStayed(p) /\ LockedOK'
    BY <1>1, <2>5, LocksKept
  <2>7. PlaceOK(fs, x, cwd[p], "walk") /\ PendingOf(x, "walk") = PendingOf(l[p], pc[p])
    BY <1>1, <1>3, <2>3 DEF Own, PlaceOK, PendingOf, HasDp, HasBoth
  <2>8. \A j \in Inums : j = x.cur \/ j = x.ip \/ j = x.dp => Using(p, j) \/ Known(j)
    BY <1>2, <1>3, <2>2, <2>3
  <2>9. pc' = [pc EXCEPT ![p] = "walk"]
    BY <1>1, <1>7 DEF FilesInv, FilesTypeOK
  <2> QED
    BY <1>1, <1>3, <1>7, <2>3, <2>5, <2>6, <2>7, <2>8, <2>9, GoStays
<1> QED
  BY <1>1, <1>5, <1>6, <1>7

LEMMA WalkEndStays ==
  ASSUME FilesInv, TreeInv, NEW p \in Procs, WalkEnd(p)
  PROVE  Stays
<1>1. /\ pc[p] = "walk" /\ l[p].agenda = <<>> /\ fs' = fs
      /\ lk' = lk /\ UNCHANGED cwd /\ UNCHANGED fileVars
      /\ IF l[p].parent THEN NamexFails(p) ELSE NamexReturns(p)
  BY DEF WalkEnd, Ready
<1>2. Sound(fs) /\ SameDisk(fs, fs) /\ Kept(fs, fs)
  BY DEF TreeInv, DiskOK, SameDisk, Kept
<1> QED
  BY <1>1, <1>2, NamexFailsStays, NamexReturnsStays

-----------------------------------------------------------------------------
(* Steps that only read                                                    *)

(* An inode is locked, read and put.                                       *)
LEMMA VisitStays ==
  ASSUME FilesInv, TreeInv, NEW p \in Procs, l[p].agenda = <<>>, pc[p] # "chdirDone",
         NEW i \in Inums, Using(p, i), fs' = Ilock(fs, i), lk' = lk,
         Return(p, <<Todo("put", i)>>), UNCHANGED cwd, UNCHANGED fileVars
  PROVE  Stays
<1>1. Fetched(fs', i)
  BY ReadyUses, LockFetches
<1>2. LocksStayed(p) /\ LockedOK'
  BY <1>1, LocksKept DEF Fetched
<1> QED
  BY <1>1, <1>2, ReturnPutStays DEF Fetched

(* An inode stays locked.                                                  *)
LEMMA MadeStays ==
  ASSUME FilesInv, TreeInv, NEW p \in Procs, l[p].agenda = <<>>, pc[p] \in {"exists", "open"},
         fs' = Ilock(fs, l[p].ip), lk[l[p].ip] = Nobody, lk' = [lk EXCEPT ![l[p].ip] = p],
         pc' = [pc EXCEPT ![p] = "made"], UNCHANGED l, UNCHANGED cwd, UNCHANGED fileVars
  PROVE  Stays
<1> DEFINE i == l[p].ip
           x == l[p]
<1>1. l[p] \in Locals /\ At(l[p], pc[p]) /\ i \in Inums /\ x.cur = 0 /\ x.dp = 0
      /\ l' = [l EXCEPT ![p] = x]
  BY ReadyIs DEF At, HasIp, FilesInv, FilesTypeOK
<1>2. Using(p, i) /\ \A j \in Inums : j # 0
  BY <1>1, ReadyUses DEF Inums
<1>3. Fetched(fs', i)
  BY <1>1, <1>2, ReadyUses, LockFetches
<1>4. LocksStayed(p) /\ LockedOK' /\ lk'[i] = p
  BY <1>1, <1>3, LocksKept DEF Fetched
<1>5. PlaceOK(fs, x, cwd[p], "made") /\ PendingOf(x, "made") = 0
  BY DEF PlaceOK, PendingOf, HasDp, HasBoth
<1>6. \A j \in Inums : j = x.cur \/ j = x.ip \/ j = x.dp => Using(p, j) \/ Known(j)
  BY <1>1, <1>2
<1>7. x.agenda = <<>> /\ "made" \notin {"new", "write"} /\ pc[p] # "chdirDone"
  OBVIOUS
<1>8. /\ SameDisk(fs, fs') /\ Sound(fs')
      /\ \A j \in Inums : fs'.ref[j] # fs.ref[j] => Refers(p, j) \/ Known(j)
  BY <1>3 DEF Fetched
<1> HIDE DEF x
<1> QED
  BY <1>1, <1>4, <1>5, <1>6, <1>7, <1>8, GoStays DEF x

LEMMA CreateExistsStays ==
  ASSUME FilesInv, TreeInv, NEW p \in Procs, CreateExists(p)
  PROVE  Stays
<1>1. /\ pc[p] = "exists" /\ l[p].agenda = <<>> /\ UNCHANGED cwd /\ UNCHANGED fileVars
      /\ fs' = Ilock(fs, l[p].ip)
      /\ \/ /\ lk[l[p].ip] = Nobody /\ lk' = [lk EXCEPT ![l[p].ip] = p]
            /\ pc' = [pc EXCEPT ![p] = "made"] /\ UNCHANGED l
         \/ lk' = lk /\ Return(p, <<Todo("put", l[p].ip)>>)
  BY DEF CreateExists, Ready, Visit, Lock, Goto
<1>2. l[p].ip \in Inums /\ Using(p, l[p].ip)
  BY <1>1, ReadyIs, ReadyUses DEF At, HasIp
<1> QED
  BY <1>1, <1>2, VisitStays, MadeStays

LEMMA OpenExistingStays ==
  ASSUME FilesInv, TreeInv, NEW p \in Procs, OpenExisting(p)
  PROVE  Stays
<1>1. /\ pc[p] = "open" /\ l[p].agenda = <<>> /\ UNCHANGED cwd /\ UNCHANGED fileVars
      /\ fs' = Ilock(fs, l[p].ip)
      /\ \/ /\ lk[l[p].ip] = Nobody /\ lk' = [lk EXCEPT ![l[p].ip] = p]
            /\ pc' = [pc EXCEPT ![p] = "made"] /\ UNCHANGED l
         \/ lk' = lk /\ Return(p, <<Todo("put", l[p].ip)>>)
  BY DEF OpenExisting, Ready, Visit, Lock, Goto
<1>2. l[p].ip \in Inums /\ Using(p, l[p].ip)
  BY <1>1, ReadyIs, ReadyUses DEF At, HasIp
<1> QED
  BY <1>1, <1>2, VisitStays, MadeStays

LEMMA ExecStays ==
  ASSUME FilesInv, TreeInv, NEW p \in Procs, Exec(p)
  PROVE  Stays
<1>1. /\ pc[p] = "exec" /\ l[p].agenda = <<>> /\ UNCHANGED cwd /\ UNCHANGED fileVars
      /\ fs' = Readi(Ilock(fs, l[p].ip), l[p].ip, 0).s /\ lk' = lk /\ Return(p, <<Todo("put", l[p].ip)>>)
  BY DEF Exec, Ready, Visit
<1>2. l[p].ip \in Inums /\ Using(p, l[p].ip)
  BY <1>1, ReadyIs, ReadyUses DEF At, HasIp
<1>3. fs' = Ilock(fs, l[p].ip)
  BY <1>1, <1>2, ReadyUses, LockReads
<1> QED
  BY <1>1, <1>2, <1>3, VisitStays

(* What it has locked is let go of and put.                                *)
LEMMA MadePutStays ==
  ASSUME FilesInv, TreeInv, NEW p \in Procs, l[p].agenda = <<>>, pc[p] = "made",
         fs' = fs, lk' = [lk EXCEPT ![l[p].ip] = Nobody],
         Return(p, <<Todo("put", l[p].ip)>>), UNCHANGED cwd, UNCHANGED fileVars
  PROVE  Stays
<1>1. l[p].ip \in Inums /\ Using(p, l[p].ip) /\ Own(p) /\ Sound(fs)
  BY ReadyIs, ReadyUses DEF At, HasIp
<1>2. lk[l[p].ip] = p
  BY <1>1 DEF Own, Locks
<1>3. SameDisk(fs, fs') /\ Sound(fs') /\ Kept(fs, fs') /\ fs'.ref = fs.ref
  BY <1>1 DEF SameDisk, Kept
<1>4. LocksStayed(p) /\ LockedOK'
  BY <1>1, <1>2, <1>3, LocksKept
<1> QED
  BY <1>1, <1>3, <1>4, ReturnPutStays

LEMMA MakeDoneStays ==
  ASSUME FilesInv, TreeInv, NEW p \in Procs, MakeDone(p)
  PROVE  Stays
<1>1. /\ pc[p] = "made" /\ l[p].agenda = <<>> /\ fs' = fs /\ UNCHANGED cwd /\ UNCHANGED fileVars
      /\ lk' = [lk EXCEPT ![l[p].ip] = Nobody] /\ Return(p, <<Todo("put", l[p].ip)>>)
  BY DEF MakeDone, Ready, Unlock
<1> QED
  BY <1>1, MadePutStays

LEMMA UnlinkLookupStays ==
  ASSUME FilesInv, TreeInv, NEW p \in Procs, UnlinkLookup(p)
  PROVE  Stays
<1> DEFINE d == l[p].dp
           n == Head(l[p].path)
           s == Ilock(fs, d)
           e == Dirlookup(s, d, n)
           i == e.i
           x == [l[p] EXCEPT !.ip = i]
<1>1. /\ pc[p] = "unlink" /\ l[p].agenda = <<>> /\ UNCHANGED cwd /\ UNCHANGED fileVars
      /\ \/ lk' = lk /\ fs' \in {s, e.s} /\ Return(p, <<Todo("put", d)>>)
         \/ /\ n \notin {".", ".."} /\ i # 0 /\ fs' = Iget(e.s, i)
            /\ lk[d] = Nobody /\ lk' = [lk EXCEPT ![d] = p]
            /\ l' = [l EXCEPT ![p] = x] /\ pc' = [pc EXCEPT ![p] = "unlinkChild"]
  BY DEF UnlinkLookup, Ready, Visit, Lock, Set, Goto, Removable
<1>2. /\ l[p] \in Locals /\ At(l[p], "unlink") /\ d \in Inums /\ l[p].path # <<>>
      /\ l[p].path \in Seq(PathNames) /\ l[p].cur = 0 /\ l[p].ip = 0 /\ \A j \in Inums : j # 0
  BY <1>1, ReadyIs DEF At, HasDp, Inums
<1>3. /\ Using(p, d) /\ Own(p) /\ fs.disk[d].type # "none"
  BY <1>2, ReadyUses
<1>7. e.s = s /\ i = EntryAt(fs, d, n)
  BY <1>2, <1>3, LockReads
<1>4. CASE lk' = lk /\ fs' \in {s, e.s} /\ Return(p, <<Todo("put", d)>>)
  BY <1>1, <1>2, <1>3, <1>4, <1>7, VisitStays
<1>5. Fetched(s, d) /\ s.dir = fs.dir
  BY <1>2, <1>3, LockFetches DEF Fetched, SameDisk
<1> HIDE DEF s, e
<1>6. CASE /\ n \notin {".", ".."} /\ i # 0 /\ fs' = Iget(e.s, i)
           /\ lk[d] = Nobody /\ lk' = [lk EXCEPT ![d] = p]
           /\ l' = [l EXCEPT ![p] = x] /\ pc' = [pc EXCEPT ![p] = "unlinkChild"]
  <2>1. n \in Names /\ i = fs.dir[d].ents[n]
    <3>1. n \in PathNames
      BY <1>2
    <3>2. n \in Names
      BY <1>6, <3>1 DEF PathNames
    <3> QED
      BY <1>6, <1>7, <3>2, EntryIs
  <2>2. i \in Inums /\ Known(i)
    <3> HIDE DEF n, i
    <3> QED
      BY <1>2, <1>6, <2>1, EntryKnown
  <2>9. fs' = Iget(s, i)
    BY <1>6, <1>7
  <2> HIDE DEF n, i
  <2>3. /\ x.agenda = <<>> /\ x.cur = 0 /\ x.ip = i /\ x.dp = d /\ x.path = l[p].path
    BY <1>1, <1>2 DEF Locals
  <2> HIDE DEF x
  <2>4. /\ Gotten(fs', i) /\ fs'.valid[d]
    <3>1. Gotten(Iget(s, i), i) /\ \A j \in Inums : s.valid[j] /\ s.ref[j] > 0 => Iget(s, i).valid[j]
      BY <1>5, <2>2, GetAfter DEF Fetched
    <3>2. s.valid[d] /\ s.ref[d] > 0
      <4>1. Has(l[p], cwd[p], pc[p], d) > 0
        BY <1>2, <1>3, UsesRefers DEF Using
      <4>2. /\ fs.ref[d] \in Nat /\ Has(l[p], cwd[p], pc[p], d) \in Nat
            /\ Cardinality(OpenFiles(d)) \in Nat
            /\ Has(l[p], cwd[p], pc[p], d) + Cardinality(OpenFiles(d)) <= fs.ref[d]
        BY <1>2, Shares
      <4> QED
        BY <1>5, <4>1, <4>2 DEF Fetched
    <3> QED
      BY <1>2, <2>9, <3>1, <3>2
  <2>5. /\ SameDisk(fs, fs') /\ Sound(fs') /\ Kept(fs, fs')
        /\ \A j \in Inums : fs'.ref[j] # fs.ref[j] => Refers(p, j) \/ Known(j)
    BY <2>2, <2>4 DEF Gotten
  <2>6. LocksStayed(p) /\ LockedOK' /\ lk'[d] = p
    <3>1. d \in Inums /\ lk[d] = Nobody /\ lk' = [lk EXCEPT ![d] = p] /\ fs'.valid[d]
      BY <1>2, <1>6, <2>4
    <3> HIDE DEF d
    <3> QED
      BY <2>5, <3>1, LocksKept
  <2>7. PlaceOK(fs, x, cwd[p], "unlinkChild") /\ PendingOf(x, "unlinkChild") = 0
    <3>1. fs.disk[d].type = "dir"
      BY <1>1, <1>3 DEF Own, PlaceOK, HasDp
    <3>2. Head(x.path) \in Names /\ fs.dir[x.dp].ents[Head(x.path)] = x.ip
      BY <2>1, <2>3 DEF n
    <3>3. fs.disk[x.dp].type = "dir"
      BY <2>3, <3>1
    <3> QED
      BY <3>2, <3>3 DEF PlaceOK, PendingOf
  <2>8. \A j \in Inums : j = x.cur \/ j = x.ip \/ j = x.dp => Using(p, j) \/ Known(j)
    BY <1>2, <1>3, <2>2, <2>3
  <2> QED
    BY <1>1, <1>6, <2>3, <2>5, <2>6, <2>7, <2>8, GoStays
<1> QED
  BY <1>1, <1>4, <1>6

-----------------------------------------------------------------------------
(* Steps that change the disk                                              *)

LEMMA FileInodes ==
  ASSUME FilesInv, NEW f \in FileIds, ft[f].type \in {"inode", "device"}
  PROVE  ft[f].ip \in Inums /\ OpenFiles(ft[f].ip) # {}
<1>1. ft[f].ip \in Inums
  BY InodeAssumption DEF FilesInv, FileOK, FilesTypeOK, Files, Inums, InodeAssumption
<1> QED
  BY <1>1 DEF OpenFiles

LEMMA OpenStays ==
  ASSUME FilesInv, TreeInv, UNCHANGED fileVars,
         \A i \in Inums : fs.disk[i].type # "none" => fs'.disk[i].type # "none"
  PROVE  OpenOK'
<1>1. ASSUME NEW f \in FileIds, ft[f].type \in {"inode", "device"}
      PROVE  fs'.disk[ft[f].ip].type # "none"
  BY <1>1, FileInodes DEF TreeInv, OpenOK
<1> QED
  BY <1>1 DEF OpenOK, fileVars

(* No inode is allocated or freed, and what changes is in use.             *)
Reshapes(p) ==
    /\ \A i \in Inums : fs'.disk[i].type = fs.disk[i].type
    /\ \A i \in Inums : fs'.disk[i] # fs.disk[i] \/ fs'.dir[i] # fs.dir[i] =>
          Using(p, i) \/ OpenFiles(i) # {}
    /\ \A i \in Inums : fs'.ref[i] # fs.ref[i] => Refers(p, i) \/ Known(i)

LEMMA DiskStep ==
  ASSUME FilesInv, TreeInv, NEW p \in Procs, OthersStay(p), LocksStayed(p), FilesStay(p),
         Reshapes(p), EntriesStay(p),
         DiskOK(fs', Extra(l', pc')), LockedOK', OpenOK', pc'[p] # "new",
         \A i \in Inums : Using(p, i)' => Using(p, i) \/ Known(i),
         \A i \in Inums : Locks(l'[p], pc'[p], i) => lk'[i] = p,
         PlaceOK(fs', l'[p], cwd'[p], pc'[p]), UnlocksOnce(l'[p], pc'[p]),
         Truncates(fs', l'[p]), Writes(ft', ofile'[p], l'[p], pc'[p])
  PROVE  Stays
<1>1. \A i \in Inums : Using(p, i) => Refers(p, i)
  BY ReadyUses
<1>2. TypesStay(p) /\ InodesStay(p) /\ UsesStay(p)
  BY DEF Reshapes, TypesStay, InodesStay, UsesStay
<1>3. CountsStay(p)
  BY <1>1 DEF Reshapes, CountsStay, Known
<1>4. \A i \in Inums : Uses(l'[p], cwd'[p], pc'[p], i) => fs'.disk[i].type # "none"
  BY UsedTyped DEF Using, Reshapes
<1>5. Own(p)' /\ Alone(p)'
  BY <1>4 DEF Own, Alone
<1>6. TreeInv'
  BY <1>2, <1>3, <1>5, TreeStep
<1> QED
  BY <1>6 DEF Stays, NoneFreed, Reshapes

(* A call goes on, or is over, after it has changed the disk.              *)
LEMMA CallWrites ==
  ASSUME FilesInv, TreeInv, NEW p \in Procs, NEW x, NEW place, place \notin {"new", "write"},
         l' = [l EXCEPT ![p] = x], pc' = [pc EXCEPT ![p] = place],
         UNCHANGED cwd, UNCHANGED fileVars, pc[p] # "chdirDone",
         LocksStayed(p), Reshapes(p), EntriesStay(p), DiskOK(fs', Extra(l', pc')), LockedOK',
         \A i \in Inums : i = x.cur \/ i = x.ip \/ i = x.dp => Using(p, i) \/ Known(i),
         \A k \in DOMAIN x.agenda : x.agenda[k].i \in Inums => Using(p, x.agenda[k].i),
         \A i \in Inums : Locks(x, place, i) => lk'[i] = p,
         PlaceOK(fs', x, cwd[p], place), UnlocksOnce(x, place),
         x.agenda = <<>> \/ Head(x.agenda).op # "trunc"
  PROVE  Stays
<1>1. /\ l'[p] = x /\ pc'[p] = place /\ cwd' = cwd /\ ft' = ft /\ ofile' = ofile
      /\ \A q \in Procs : q # p => l'[q] = l[q] /\ pc'[q] = pc[q]
  BY DEF FilesInv, FilesTypeOK, fileVars
<1>2. OthersStay(p) /\ FilesStay(p)
  BY <1>1 DEF OthersStay, FilesStay, OpenFiles
<1>3. OpenOK'
  BY OpenStays DEF Reshapes
<1>4. \A i \in Inums : Using(p, i)' => Using(p, i) \/ Known(i)
  <2>1. ASSUME NEW i \in Inums, Uses(x, cwd[p], place, i)
        PROVE  Using(p, i) \/ Known(i)
    BY <2>1 DEF Uses, Using
  <2> QED
    BY <1>1, <2>1 DEF Using
<1>5. Truncates(fs', x) /\ Writes(ft', ofile'[p], x, place)
  BY DEF Truncates, Writes
<1> QED
  BY <1>1, <1>2, <1>3, <1>4, <1>5, DiskStep

LEMMA NotMorePending ==
  ASSUME NEW m, NEW g, NEW m2, NEW g2, NEW p, ExtraMoved(m, g, m2, g2, p),
         PendingOf(m2[p], g2[p]) \in {0, PendingOf(m[p], g[p])}
  PROVE  NotMore(Extra(m, g), Extra(m2, g2))
<1> DEFINE a == PendingOf(m[p], g[p])
           b == PendingOf(m2[p], g2[p])
<1>1. ASSUME NEW i \in Inums PROVE Is(b, i) <= Is(a, i) /\ Is(b, i) \in Nat /\ Is(a, i) \in Nat
  <2>1. i # 0
    BY DEF Inums
  <2> QED
    BY <2>1 DEF Is
<1> HIDE DEF a, b
<1>2. /\ Extra(m2, g2) \in [Inums -> Int]
      /\ \A i \in Inums : /\ Extra(m, g)[i] \in Nat /\ Extra(m2, g2)[i] \in Nat
                          /\ Extra(m2, g2)[i] + Is(a, i) = Extra(m, g)[i] + Is(b, i)
  BY DEF ExtraMoved, a, b
<1>3. ASSUME NEW i \in Inums PROVE Extra(m2, g2)[i] <= Extra(m, g)[i]
  BY <1>1, <1>2
<1> QED
  BY <1>2, <1>3 DEF NotMore

(* What is claimed is an inode that nobody refers to.                      *)
LEMMA FreeIsUnused ==
  ASSUME FilesInv, TreeInv, NEW i \in Inums, fs.disk[i].type = "none"
  PROVE  OpenFiles(i) = {} /\ \A q \in Procs : ~Using(q, i)
<1>1. \A q \in Procs : ~Using(q, i)
  BY UsedTyped
<1>2. OpenFiles(i) = {}
  BY DEF OpenFiles, TreeInv, OpenOK
<1> QED
  BY <1>1, <1>2

Alloced(s, t, i, type) ==
    /\ Sound(t) /\ t.dir = s.dir /\ Kept(s, t)
    /\ t.disk[i].type = type /\ t.disk[i].nlink = 0
    /\ \A j \in Inums : j # i => t.disk[j] = s.disk[j]

LEMMA AllocIs ==
  ASSUME NEW s, Sound(s), NEW i \in Inums, s.disk[i].type = "none", NEW type \in Types,
         type # "none"
  PROVE  Alloced(s, Ialloc(s, i, type), i, type)
<1> DEFINE t == Ialloc(s, i, type)
           d == [FreeInode EXCEPT !.type = type]
<1>1. /\ Sound(t) /\ t.disk = [s.disk EXCEPT ![i] = d] /\ t.dir = s.dir
      /\ \A j \in Inums : s.valid[j] /\ s.ref[j] > 0 => t.valid[j]
  BY IallocSound
<1>2. d.nlink = 0 /\ d.type = type
  BY DEF FreeInode
<1> HIDE DEF t, d
<1>3. t.disk[i] = d /\ \A j \in Inums : j # i => t.disk[j] = s.disk[j]
  BY <1>1 DEF Sound, Typed
<1>4. Alloced(s, t, i, type)
  BY <1>1, <1>2, <1>3 DEF Alloced, Kept
<1> QED
  BY <1>4 DEF t

LEMMA AllocStays ==
  ASSUME FilesInv, TreeInv, NEW p \in Procs, pc[p] = "create", l[p].agenda = <<>>,
         NEW s, Fetched(s, l[p].dp), NEW m \in Inums, s.disk[m].type = "none",
         lk[l[p].dp] = Nobody, lk' = [lk EXCEPT ![l[p].dp] = p],
         fs' = Ialloc(s, m, l[p].call.type), l' = [l EXCEPT ![p] = [l[p] EXCEPT !.ip = m]],
         pc' = [pc EXCEPT ![p] = "new"], UNCHANGED cwd, UNCHANGED fileVars
  PROVE  Stays
<1> DEFINE d == l[p].dp
           type == l[p].call.type
           x == [l[p] EXCEPT !.ip = m]
<1>1. /\ l[p] \in Locals /\ At(l[p], "create") /\ d \in Inums /\ l[p].cur = 0
      /\ cwd[p] \in Inums /\ \A j \in Inums : j # 0
      /\ l \in [Procs -> Locals] /\ pc \in [Procs -> PCs]
  BY ReadyIs DEF At, HasDp, Inums, FilesInv, FilesTypeOK
<1>2. /\ Using(p, d) /\ Using(p, cwd[p]) /\ Own(p) /\ DiskOK(fs, Extra(l, pc))
      /\ \A j \in Inums : Using(p, j) => fs.disk[j].type # "none"
  BY <1>1, ReadyUses
<1>3. /\ Sound(s) /\ SameDisk(fs, s) /\ s.ref = fs.ref /\ Kept(fs, s) /\ s.valid[d] /\ Shape(s)
      /\ s.disk = fs.disk /\ s.dir = fs.dir /\ fs.disk[m].type = "none"
  BY DEF Fetched, SameDisk
<1>4. type \in Types \ {"none"} /\ fs.disk[d].type = "dir"
  BY <1>1, <1>2 DEF Own, PlaceOK, HasDp
<1>5. OpenFiles(m) = {} /\ (\A q \in Procs : ~Using(q, m)) /\ d # m /\ cwd[p] # m
  BY <1>2, <1>3, FreeIsUnused
<1>6. /\ x.agenda = <<>> /\ x.cur = 0 /\ x.ip = m /\ x.dp = d /\ x.call = l[p].call
      /\ x.path = l[p].path
  BY <1>1 DEF Locals
<1> HIDE DEF x
<1>7. /\ l'[p] = x /\ pc'[p] = "new" /\ cwd' = cwd /\ ft' = ft /\ ofile' = ofile
      /\ \A q \in Procs : q # p => l'[q] = l[q] /\ pc'[q] = pc[q]
  BY <1>1 DEF fileVars, x
<1> HIDE DEF d, type
<1>8. Alloced(s, fs', m, type)
  <2>1. fs' = Ialloc(s, m, type)
    BY DEF type
  <2> QED
    BY <1>3, <1>4, <2>1, AllocIs
<1>9. fs'.ref = [fs.ref EXCEPT ![m] = @ + 1]
  BY <1>3, IallocCounts
<1>10. /\ fs.disk \in [Inums -> Dinode] /\ fs.ref \in [Inums -> Nat] /\ s.ref \in [Inums -> Nat]
  BY <1>3, RefsGot DEF DiskOK, Sound, Typed, Shape, FilesInv, FilesTypeOK
<1>11. /\ \A j \in Inums : j # m => fs'.disk[j] = fs.disk[j] /\ fs'.ref[j] = fs.ref[j]
       /\ fs'.disk[m].type = type /\ fs'.disk[m].nlink = 0
       /\ Sound(fs') /\ fs'.dir = fs.dir /\ Kept(s, fs')
  BY <1>3, <1>8, <1>9, <1>10 DEF Alloced
<1>12. Kept(fs, fs') /\ fs'.valid[d]
  <2>1. Kept(fs, fs')
    BY <1>3, <1>11 DEF Kept
  <2>2. fs.ref[d] > 0
    <3>1. d \in Inums /\ Has(l[p], cwd[p], pc[p], d) > 0
      BY <1>1, <1>2, UsesRefers DEF Using, d
    <3>2. /\ fs.ref[d] \in Nat /\ Has(l[p], cwd[p], pc[p], d) \in Nat
          /\ Cardinality(OpenFiles(d)) \in Nat
          /\ Has(l[p], cwd[p], pc[p], d) + Cardinality(OpenFiles(d)) <= fs.ref[d]
      BY <3>1, Shares
    <3> QED
      BY <3>1, <3>2
  <2> QED
    BY <1>1, <1>3, <1>11, <2>1, <2>2 DEF Kept, d
<1>13. LocksStayed(p) /\ LockedOK' /\ lk'[d] = p
  <2>1. d \in Inums /\ lk[d] = Nobody /\ lk' = [lk EXCEPT ![d] = p] /\ fs'.valid[d]
    BY <1>1, <1>12 DEF d
  <2> QED
    BY <1>12, <2>1, LocksKept
<1>14. OthersStay(p) /\ FilesStay(p)
  BY <1>7 DEF OthersStay, FilesStay, OpenFiles
<1>15. /\ TypesStay(p) /\ EntriesStay(p) /\ InodesStay(p)
  BY <1>3, <1>11 DEF TypesStay, EntriesStay, InodesStay
<1>16. \A j \in Inums : Uses(x, cwd[p], "new", j) => j = m \/ Using(p, j)
  BY <1>1, <1>2, <1>6 DEF Uses, Using, d
<1>17. CountsStay(p) /\ UsesStay(p)
  BY <1>3, <1>7, <1>11, <1>16 DEF CountsStay, UsesStay, Using
<1>18. DiskOK(fs', Extra(l', pc'))
  <2>1. DiskOK(s, Extra(l, pc))
    <3>1. NotMore(Extra(l, pc), Extra(l, pc))
      BY <1>2 DEF NotMore, DiskOK
    <3> QED
      BY <1>2, <1>3, <3>1, SameDiskOK
  <2>2. Extra(l, pc)[m] >= 0
    BY RootKnown
  <2>3. DiskOK(fs', Extra(l, pc))
    BY <1>3, <1>4, <2>1, <2>2, IallocOK DEF type
  <2>4. ExtraMoved(l, pc, l', pc', p)
    BY <1>7, PendingMoves
  <2>5. PendingOf(l'[p], pc'[p]) = PendingOf(l[p], pc[p])
    BY <1>7 DEF PendingOf
  <2>6. NotMore(Extra(l, pc), Extra(l', pc'))
    BY <2>4, <2>5, NotMorePending
  <2>7. Sound(fs') /\ SameDisk(fs', fs')
    BY <1>11 DEF SameDisk
  <2> QED
    BY <2>3, <2>6, <2>7, SameDiskOK
<1>19. OpenOK'
  BY <1>3, <1>11, OpenStays
<1>20. Own(p)'
  <2>1. \A j \in Inums : Locks(x, "new", j) => lk'[j] = p
    BY <1>6, <1>13, OnePutIs DEF Locks
  <2>2. \A j \in Inums : Uses(x, cwd[p], "new", j) => fs'.disk[j].type # "none"
    BY <1>2, <1>3, <1>4, <1>11, <1>16
  <2>3. PlaceOK(fs', x, cwd[p], "new")
    <3>1. fs'.disk[d].type = "dir"
      BY <1>1, <1>4, <1>5, <1>11 DEF d
    <3>2. fs'.dir[m] = NoEntries
      BY <1>2, <1>3, <1>11 DEF DiskOK, LeafOK
    <3> QED
      BY <1>4, <1>5, <1>6, <1>11, <3>1, <3>2 DEF PlaceOK, type
  <2>4. UnlocksOnce(x, "new") /\ Truncates(fs', x) /\ Writes(ft, ofile[p], x, "new")
    BY <1>6 DEF UnlocksOnce, Truncates, Writes
  <2> QED
    BY <1>7, <2>1, <2>2, <2>3, <2>4 DEF Own
<1>21. Alone(p)'
  BY <1>5, <1>6, <1>7 DEF Alone, OpenFiles, Using
<1>22. TreeInv'
  BY <1>13, <1>14, <1>15, <1>17, <1>18, <1>19, <1>20, <1>21, TreeStep
<1> QED
  BY <1>3, <1>11, <1>22 DEF Stays, NoneFreed

LEMMA CreateLookupStays ==
  ASSUME FilesInv, TreeInv, UpIsKnown, NEW p \in Procs, CreateLookup(p)
  PROVE  Stays
<1> DEFINE d == l[p].dp
           n == Head(l[p].path)
           s == Ilock(fs, d)
           e == Dirlookup(s, d, n)
           i == e.i
           m == Min(FreeInums(s))
           x == [l[p] EXCEPT !.ip = i, !.dp = 0, !.agenda = <<Todo("put", d)>>]
<1>9. /\ pc[p] = "create" /\ l[p].agenda = <<>> /\ UNCHANGED cwd /\ UNCHANGED fileVars
      /\ \/ /\ i # 0 /\ lk' = lk /\ fs' = Iget(e.s, i)
            /\ l' = [l EXCEPT ![p] = x] /\ pc' = [pc EXCEPT ![p] = "exists"]
         \/ lk' = lk /\ fs' = e.s /\ Return(p, <<Todo("put", d)>>)
         \/ /\ FreeInums(e.s) # {} /\ lk[d] = Nobody /\ lk' = [lk EXCEPT ![d] = p]
            /\ fs' = Ialloc(e.s, Min(FreeInums(e.s)), l[p].call.type)
            /\ l' = [l EXCEPT ![p] = [l[p] EXCEPT !.ip = Min(FreeInums(e.s))]]
            /\ pc' = [pc EXCEPT ![p] = "new"]
  <2>1. /\ Ready(p, "create") /\ UNCHANGED <<fileVars, cwd, calls>>
        /\ \/ /\ i # 0 /\ Visit(d) /\ fs' = Iget(e.s, i) /\ Set(p, x) /\ Goto(p, "exists")
           \/ Visit(d) /\ fs' = e.s /\ Return(p, <<Todo("put", d)>>)
           \/ /\ FreeInums(e.s) # {} /\ Lock(p, d)
              /\ fs' = Ialloc(e.s, Min(FreeInums(e.s)), l[p].call.type)
              /\ Set(p, [l[p] EXCEPT !.ip = Min(FreeInums(e.s))]) /\ Goto(p, "new")
    BY Zenon DEF CreateLookup
  <2> HIDE DEF d, e, i, x
  <2> QED
    BY <2>1 DEF Ready, Visit, Lock, Set, Goto
<1>10. pc[p] = "create" /\ l[p].agenda = <<>>
  BY <1>9
<1>2. /\ l[p] \in Locals /\ At(l[p], "create") /\ d \in Inums /\ l[p].path # <<>>
      /\ l[p].cur = 0 /\ l[p].ip = 0 /\ \A j \in Inums : j # 0
  BY <1>10, ReadyIs DEF At, HasDp, Inums
<1>3. Using(p, d) /\ Own(p) /\ fs.disk[d].type = "dir"
  <2>1. Using(p, d) /\ Own(p)
    BY <1>2, ReadyUses
  <2> QED
    BY <1>10, <2>1 DEF Own, PlaceOK, HasDp
<1>8. e.s = s /\ i = EntryAt(fs, d, n)
  BY <1>2, <1>3, LockReads
<1> HIDE DEF e, s
<1>1. /\ pc[p] = "create" /\ l[p].agenda = <<>> /\ UNCHANGED cwd /\ UNCHANGED fileVars
      /\ \/ /\ i # 0 /\ lk' = lk /\ fs' = Iget(s, i)
            /\ l' = [l EXCEPT ![p] = x] /\ pc' = [pc EXCEPT ![p] = "exists"]
         \/ lk' = lk /\ fs' = s /\ Return(p, <<Todo("put", d)>>)
         \/ /\ FreeInums(s) # {} /\ lk[d] = Nobody /\ lk' = [lk EXCEPT ![d] = p]
            /\ fs' = Ialloc(s, m, l[p].call.type)
            /\ l' = [l EXCEPT ![p] = [l[p] EXCEPT !.ip = m]] /\ pc' = [pc EXCEPT ![p] = "new"]
  <2> HIDE DEF i, x
  <2> QED
    BY <1>8, <1>9
<1> USE DEF s
<1>4. Fetched(s, d) /\ s.dir = fs.dir
  BY <1>2, <1>3, LockFetches DEF Fetched, SameDisk
<1>5. CASE lk' = lk /\ fs' = s /\ Return(p, <<Todo("put", d)>>)
  BY <1>1, <1>2, <1>3, <1>5, VisitStays
<1> HIDE DEF s
<1>6. CASE /\ FreeInums(s) # {} /\ lk[d] = Nobody /\ lk' = [lk EXCEPT ![d] = p]
           /\ fs' = Ialloc(s, m, l[p].call.type)
           /\ l' = [l EXCEPT ![p] = [l[p] EXCEPT !.ip = m]] /\ pc' = [pc EXCEPT ![p] = "new"]
  <2>1. m \in Inums /\ s.disk[m].type = "none"
    <3>1. FreeInums(s) \subseteq Nat /\ FreeInums(s) \subseteq Inums
      BY DEF FreeInums, Inums
    <3>2. m \in FreeInums(s)
      BY <1>6, <3>1, LeastOf
    <3> QED
      BY <3>2 DEF FreeInums
  <2> HIDE DEF m
  <2> QED
    BY <1>1, <1>4, <1>6, <2>1, AllocStays
<1>7. CASE /\ i # 0 /\ lk' = lk /\ fs' = Iget(s, i)
           /\ l' = [l EXCEPT ![p] = x] /\ pc' = [pc EXCEPT ![p] = "exists"]
  <2>1. i = EntryAt(fs, d, n)
    BY <1>8
  <2>2. i \in Inums /\ (Using(p, i) \/ Known(i))
    BY <1>1, <1>2, <1>3, <1>7, <2>1, FoundKnown
  <2> HIDE DEF n, i
  <2>3. /\ x.agenda = <<Todo("put", d)>> /\ x.cur = 0 /\ x.ip = i /\ x.dp = 0
    BY <1>2 DEF Locals
  <2> HIDE DEF x
  <2>4. Gotten(fs', i)
    BY <1>4, <1>7, <2>2, GetAfter DEF Fetched
  <2>5. /\ SameDisk(fs, fs') /\ Sound(fs') /\ Kept(fs, fs')
        /\ \A j \in Inums : fs'.ref[j] # fs.ref[j] => Refers(p, j) \/ Known(j)
    BY <2>2, <2>4, ReadyUses DEF Gotten
  <2>6. LocksStayed(p) /\ LockedOK'
    BY <1>7, <2>5, LocksKept
  <2>7. PlaceOK(fs, x, cwd[p], "exists") /\ PendingOf(x, "exists") = 0
    BY DEF PlaceOK, PendingOf, HasDp, HasBoth
  <2>8. \A j \in Inums : j = x.cur \/ j = x.ip \/ j = x.dp => Using(p, j) \/ Known(j)
    BY <1>2, <2>2, <2>3
  <2>9. "exists" \notin {"new", "write", "made", "unlinkLast", "unlinkChild"}
    OBVIOUS
  <2>10. Using(p, d)
    BY <1>3
  <2> HIDE DEF d
  <2> QED
    BY <1>1, <1>7, <2>3, <2>5, <2>6, <2>7, <2>8, <2>9, <2>10, GoStays
<1> QED
  BY <1>1, <1>5, <1>6, <1>7

-----------------------------------------------------------------------------
(* Directories and descriptors                                             *)

LEMMA ChdirStays ==
  ASSUME FilesInv, TreeInv, NEW p \in Procs, Chdir(p)
  PROVE  Stays
<1> DEFINE i == l[p].ip
           v == cwd[p]
           x == [l[p] EXCEPT !.agenda = <<Todo("put", v)>>]
<1>1. /\ pc[p] = "chdir" /\ l[p].agenda = <<>> /\ UNCHANGED cwd /\ UNCHANGED fileVars
      /\ fs' = Ilock(fs, i) /\ lk' = lk
      /\ \/ Return(p, <<Todo("put", i)>>)
         \/ l' = [l EXCEPT ![p] = x] /\ pc' = [pc EXCEPT ![p] = "chdirDone"]
  BY DEF Chdir, Ready, Visit, Set, Goto
<1>2. l[p] \in Locals /\ At(l[p], "chdir") /\ i \in Inums /\ v \in Inums /\ \A j \in Inums : j # 0
  BY <1>1, ReadyIs DEF At, HasIp, Inums
<1>3. Using(p, i) /\ Using(p, v)
  BY <1>1, <1>2, ReadyUses
<1>4. CASE Return(p, <<Todo("put", i)>>)
  BY <1>1, <1>2, <1>3, <1>4, VisitStays
<1>5. CASE l' = [l EXCEPT ![p] = x] /\ pc' = [pc EXCEPT ![p] = "chdirDone"]
  <2>1. /\ x.agenda = <<Todo("put", v)>> /\ x.cur = 0 /\ x.ip = i /\ x.dp = 0
    BY <1>2 DEF Locals, At, HasIp
  <2> HIDE DEF x
  <2>2. Fetched(fs', i)
    BY <1>1, <1>2, <1>3, ReadyUses, LockFetches
  <2>3. LocksStayed(p) /\ LockedOK'
    BY <1>1, <2>2, LocksKept DEF Fetched
  <2>4. /\ SameDisk(fs, fs') /\ Sound(fs')
        /\ \A j \in Inums : fs'.ref[j] # fs.ref[j] => Refers(p, j) \/ Known(j)
    BY <2>2 DEF Fetched
  <2>5. PlaceOK(fs, x, cwd[p], "chdirDone") /\ PendingOf(x, "chdirDone") = 0
    BY DEF PlaceOK, PendingOf, HasDp, HasBoth
  <2>6. \A j \in Inums : j = x.cur \/ j = x.ip \/ j = x.dp => Using(p, j) \/ Known(j)
    BY <1>2, <1>3, <2>1
  <2>7. "chdirDone" \notin {"new", "write", "made", "unlinkLast", "unlinkChild"}
    OBVIOUS
  <2> HIDE DEF v, i
  <2> QED
    BY <1>1, <1>3, <1>5, <2>1, <2>3, <2>4, <2>5, <2>6, <2>7, GoStays
<1> QED
  BY <1>1, <1>4, <1>5

(* No descriptor of a file that is closed is left.                         *)
Referenced == \A q \in Procs, d \in Fds : ofile[q][d] # 0 =>
    ofile[q][d] \in FileIds /\ ft[ofile[q][d]].ref \in Nat \ {0}
InodesOpen == \A f \in FileIds : ft[f].type \in {"inode", "device"} => ft[f].ip \in Inums

LEMMA OpensNow == FilesInv => Referenced /\ InodesOpen
BY OpenIsReferenced, FileInodes DEF Referenced, InodesOpen

LEMMA OpensThen == FilesInv' => Referenced' /\ InodesOpen'
BY OpensNow, PTL

(* Calls on descriptors, between calls on inodes.                          *)
LEMMA FdStays ==
  ASSUME FilesInv, FilesInv', TreeInv, NEW p \in Procs, OthersStay(p), FilesStay(p),
         SameDisk(fs, fs'), Sound(fs'), Kept(fs, fs'), lk' = lk,
         \A i \in Inums : fs'.ref[i] # fs.ref[i] => Refers(p, i) \/ Known(i),
         pc'[p] \in {"idle", "dead", "exit", "write"},
         \A k \in DOMAIN l'[p].agenda : l'[p].agenda[k].op = "put",
         l'[p].agenda # <<>> => Head(l'[p].agenda).op = "put",
         \A i \in Inums : Using(p, i)' => Using(p, i) \/ Known(i),
         Writes(ft', ofile'[p], l'[p], pc'[p])
  PROVE  Stays
<1>1. LocksStayed(p) /\ LockedOK'
  BY LocksKept
<1>2. OpenOK'
  <2>1. ASSUME NEW f \in FileIds, ft'[f].type \in {"inode", "device"}
        PROVE  fs'.disk[ft'[f].ip].type # "none"
    <3>1. PICK i \in Inums : i = ft'[f].ip
      BY <2>1, OpensThen DEF InodesOpen
    <3>2. OpenFiles(i)' # {}
      BY <2>1, <3>1 DEF OpenFiles
    <3>3. Known(i) \/ Using(p, i)
      BY <3>2 DEF FilesStay, Known
    <3>4. fs.disk[i].type # "none"
      BY <3>3, UsedTyped
    <3> QED
      BY <3>1, <3>4 DEF SameDisk
  <2> QED
    BY <2>1 DEF OpenOK
<1>3. Alone(p)'
  BY DEF Alone
<1>4. \A i \in Inums : ~Locks(l'[p], pc'[p], i)
  BY DEF Locks, ToUnlock
<1>5. Fine(p, fs', ft', ofile'[p], l'[p], cwd'[p], pc'[p])
  <2>1. PlaceOK(fs', l'[p], cwd'[p], pc'[p]) /\ PendingOf(l'[p], pc'[p]) = 0
    BY DEF PlaceOK, PendingOf, HasDp, HasBoth
  <2>2. UnlocksOnce(l'[p], pc'[p]) /\ Truncates(fs', l'[p])
    BY DEF UnlocksOnce, Truncates
  <2> QED
    BY <2>1, <2>2 DEF Fine
<1> QED
  BY <1>1, <1>2, <1>3, <1>4, <1>5, QuietStep

LEMMA ChdirDoneStays ==
  ASSUME FilesInv, FilesInv', TreeInv, NEW p \in Procs, ChdirDone(p)
  PROVE  Stays
<1>1. /\ pc[p] = "chdirDone" /\ l[p].agenda = <<>> /\ fs' = fs /\ lk' = lk /\ UNCHANGED fileVars
      /\ cwd' = [cwd EXCEPT ![p] = l[p].ip] /\ Return(p, <<>>)
  BY DEF ChdirDone, Ready
<1>2. /\ l'[p] = Owe(<<>>) /\ pc'[p] = "idle" /\ cwd'[p] = l[p].ip /\ ft' = ft /\ ofile' = ofile
      /\ \A q \in Procs : q # p => l'[q] = l[q] /\ pc'[q] = pc[q] /\ cwd'[q] = cwd[q]
  BY <1>1 DEF FilesInv, FilesTypeOK, fileVars, Return, Goto, Set
<1>3. OthersStay(p) /\ FilesStay(p)
  BY <1>2 DEF OthersStay, FilesStay, OpenFiles
<1>4. SameDisk(fs, fs') /\ Sound(fs') /\ Kept(fs, fs')
  BY <1>1, ReadyUses DEF SameDisk, Kept
<1>5. Owe(<<>>).agenda = <<>> /\ Owe(<<>>).cur = 0 /\ Owe(<<>>).ip = 0 /\ Owe(<<>>).dp = 0
  BY DEF Owe, Local0
<1>6. \A i \in Inums : Using(p, i)' => Using(p, i) \/ Known(i)
  <2>1. \A i \in Inums : i # 0
    BY DEF Inums
  <2> QED
    BY <1>2, <1>5, <2>1, ReadyUses DEF Using, Uses
<1> QED
  BY <1>1, <1>2, <1>3, <1>4, <1>5, <1>6, FdStays DEF Writes

LEMMA FileCloseStays ==
  ASSUME FilesInv, FilesInv', TreeInv, NEW p \in Procs, NEW d \in Fds, ofile[p][d] # 0,
         pc[p] \in {"idle", "exit"}, l[p].agenda = <<>>, FileClose(p, d), UNCHANGED <<fs, lk, cwd, pc>>
  PROVE  Stays
<1> DEFINE f == ofile[p][d]
           i == ft[f].ip
           last == ft[f].ref = 1 /\ ft[f].type \in {"inode", "device"}
           a == IF last THEN <<Todo("put", i)>> ELSE <<>>
<1>1. /\ fs' = fs /\ lk' = lk /\ cwd' = cwd /\ pc' = pc
      /\ ft' = [ft EXCEPT ![f] = Closed(ft[f])] /\ ofile' = [ofile EXCEPT ![p][d] = 0]
      /\ l' = [l EXCEPT ![p] = Owe(a)]
  BY DEF FileClose, Set
<1>2. /\ f \in FileIds /\ ft \in [FileIds -> Files] /\ 0 \in 0..NFile
      /\ last => i \in Inums /\ OpenFiles(i) # {}
  BY OpenIsReferenced, NoneOpen, FileInodes
<1>3. /\ l'[p] = Owe(a) /\ \A q \in Procs : q # p => l'[q] = l[q] /\ ofile'[q] = ofile[q]
  BY <1>1, <1>2, RowSet DEF FilesInv, FilesTypeOK
<1>4. Owe(a).agenda = a /\ Owe(a).cur = 0 /\ Owe(a).ip = 0 /\ Owe(a).dp = 0
  BY DEF Owe, Local0
<1>5. /\ \A k \in DOMAIN a : a[k].op = "put" /\ a[k].i = i /\ last
      /\ a # <<>> => Head(a).op = "put"
  BY OnePutIs
<1> HIDE DEF a, last
<1>6. /\ \A g \in FileIds : g # f => ft'[g] = ft[g]
      /\ ft'[f] = Closed(ft[f])
  BY <1>1, <1>2
<1>7. /\ Closed(ft[f]) = FreeFile \/ (Closed(ft[f]).type = ft[f].type /\ Closed(ft[f]).ip = i)
      /\ FreeFile.type = "none" /\ FreeFile.ref = 0
  BY <1>2 DEF Closed, Files, FreeFile
<1> HIDE DEF f
<1>8. \A j \in Inums : OpenFiles(j)' \subseteq OpenFiles(j)
  BY <1>2, <1>6, <1>7 DEF OpenFiles
<1>9. ASSUME NEW q \in Procs, NEW e \in Fds, q # p, ofile[q][e] # 0
      PROVE  ft'[ofile[q][e]].type = ft[ofile[q][e]].type
  <2>1. ofile'[q][e] = ofile[q][e]
    BY <1>3, <1>9
  <2>2. ofile[q][e] \in FileIds /\ ft'[ofile[q][e]].ref # 0
    BY <1>9, <2>1, OpensThen DEF Referenced
  <2> QED
    BY <1>6, <1>7, <2>2
<1>10. OthersStay(p) /\ FilesStay(p)
  BY <1>1, <1>3, <1>8, <1>9 DEF OthersStay, FilesStay
<1>11. SameDisk(fs, fs') /\ Sound(fs') /\ Kept(fs, fs')
  BY <1>1, ReadyUses DEF SameDisk, Kept
<1>12. \A j \in Inums : Using(p, j)' => Using(p, j) \/ Known(j)
  <2>1. \A j \in Inums : j # 0
    BY DEF Inums
  <2> QED
    BY <1>1, <1>2, <1>3, <1>4, <1>5, <2>1 DEF Using, Uses, Known
<1> QED
  BY <1>1, <1>3, <1>4, <1>5, <1>10, <1>11, <1>12, FdStays DEF Writes

LEMMA CloseStays ==
  ASSUME FilesInv, FilesInv', TreeInv, NEW p \in Procs, Close(p) \/ ExitClose(p)
  PROVE  Stays
<1>1. PICK d \in Fds : /\ pc[p] \in {"idle", "exit"} /\ l[p].agenda = <<>> /\ ofile[p][d] # 0
                       /\ FileClose(p, d) /\ UNCHANGED <<fs, lk, cwd, pc>>
  BY DEF Close, ExitClose, FdCall, Start, Ready
<1> QED
  BY <1>1, FileCloseStays

LEMMA DupStays ==
  ASSUME FilesInv, FilesInv', TreeInv, NEW p \in Procs, Dup(p)
  PROVE  Stays
<1>1. PICK d \in Fds :
         /\ pc[p] = "idle" /\ l[p].agenda = <<>> /\ ofile[p][d] # 0 /\ FreeFds(p) # {}
         /\ ofile' = [ofile EXCEPT ![p][Min(FreeFds(p))] = ofile[p][d]]
         /\ ft' = [ft EXCEPT ![ofile[p][d]].ref = ft[ofile[p][d]].ref + 1]
         /\ fs' = fs /\ lk' = lk /\ cwd' = cwd /\ pc' = pc /\ l' = l
  BY DEF Dup, FdCall, Start, Ready
<1> DEFINE f == ofile[p][d]
<1>2. f \in FileIds /\ ft \in [FileIds -> Files] /\ f \in 0..NFile /\ Min(FreeFds(p)) \in Fds
  BY <1>1, OpenIsReferenced, NoneOpen, LeastFd
<1>3. \A q \in Procs : q # p => ofile'[q] = ofile[q]
  BY <1>1, <1>2, RowSet
<1>4. \A g \in FileIds : ft'[g].type = ft[g].type /\ ft'[g].ip = ft[g].ip
  BY <1>1, <1>2 DEF Files
<1>5. ASSUME NEW q \in Procs, NEW e \in Fds, q # p, ofile[q][e] # 0
      PROVE  ft'[ofile[q][e]].type = ft[ofile[q][e]].type
  BY <1>4, <1>5, OpenIsReferenced
<1>6. OthersStay(p) /\ FilesStay(p)
  BY <1>1, <1>3, <1>4, <1>5, OpenFilesStay DEF OthersStay, FilesStay
<1>7. SameDisk(fs, fs') /\ Sound(fs') /\ Kept(fs, fs')
  BY <1>1, ReadyUses DEF SameDisk, Kept
<1> QED
  BY <1>1, <1>6, <1>7, FdStays DEF Writes, Using

(* A step that changes nothing of p but its place and its files.           *)
LEMMA IdleStays ==
  ASSUME FilesInv, FilesInv', TreeInv, NEW p \in Procs, pc[p] = "idle", l[p].agenda = <<>>,
         NEW place \in {"idle", "exit"}, pc' = [pc EXCEPT ![p] = place], UNCHANGED <<lk, cwd, l>>,
         \A q \in Procs : q # p => ofile'[q] = ofile[q], FilesStay(p),
         SameDisk(fs, fs'), Sound(fs'), Kept(fs, fs'), fs'.ref = fs.ref
  PROVE  Stays
<1>1. pc'[p] = place /\ \A q \in Procs : q # p => pc'[q] = pc[q]
  BY DEF FilesInv, FilesTypeOK
<1>2. OthersStay(p)
  BY <1>1 DEF OthersStay
<1>3. \A i \in Inums : Using(p, i)' => Using(p, i) \/ Known(i)
  BY <1>1 DEF Using, Uses
<1> QED
  BY <1>1, <1>2, <1>3, FdStays DEF Writes

LEMMA OffsetTypes ==
  ASSUME FilesInv, NEW f, OffsetMoved(f)
  PROVE  \A g \in FileIds : ft'[g].ref = ft[g].ref /\ ft'[g].type = ft[g].type /\ ft'[g].ip = ft[g].ip
<1>1. ft \in [FileIds -> Files]
  BY NoneOpen
<1>2. CASE ft' = ft
  BY <1>2
<1>3. CASE ft' = [ft EXCEPT ![f].off = @ + 1]
  <2>1. ASSUME NEW g \in FileIds
        PROVE  ft'[g].ref = ft[g].ref /\ ft'[g].type = ft[g].type /\ ft'[g].ip = ft[g].ip
    <3>1. ft[g] \in Files
      BY <1>1
    <3>2. [ft[g] EXCEPT !.off = @ + 1].ref = ft[g].ref
          /\ [ft[g] EXCEPT !.off = @ + 1].type = ft[g].type
          /\ [ft[g] EXCEPT !.off = @ + 1].ip = ft[g].ip
      BY <3>1 DEF Files
    <3>3. ft'[g] = IF g = f THEN [ft[g] EXCEPT !.off = @ + 1] ELSE ft[g]
      BY <1>1, <1>3
    <3> QED
      BY <3>2, <3>3
  <2> QED
    BY <2>1
<1> QED
  BY <1>2, <1>3 DEF OffsetMoved

(* Nothing of the files has changed that another process looks at.         *)
LEMMA TypesKept ==
  ASSUME FilesInv, \A g \in FileIds : ft'[g].type = ft[g].type /\ ft'[g].ip = ft[g].ip, NEW p
  PROVE  FilesStay(p) /\ \A i \in Inums : OpenFiles(i)' = OpenFiles(i)
<1>1. \A i \in Inums : OpenFiles(i)' = OpenFiles(i)
  BY OpenFilesStay
<1>2. ASSUME NEW q \in Procs, NEW e \in Fds, ofile[q][e] # 0
      PROVE  ft'[ofile[q][e]].type = ft[ofile[q][e]].type
  BY <1>2, OpenIsReferenced
<1> QED
  BY <1>1, <1>2 DEF FilesStay

LEMMA ReadStays ==
  ASSUME FilesInv, FilesInv', TreeInv, NEW p \in Procs, Read(p)
  PROVE  Stays
<1>1. PICK f, i : /\ pc[p] = "idle" /\ l[p].agenda = <<>> /\ fs' = Ilock(fs, i)
                  /\ \E d \in Fds : f = ofile[p][d] /\ f # 0
                  /\ i = ft[f].ip /\ ft[f].type = "inode" /\ OffsetMoved(f)
                  /\ UNCHANGED <<lk, ofile, cwd, pc, l>>
  <2>1. PICK d \in Fds, stat \in BOOLEAN :
          LET f == ofile[p][d]
              i == ft[f].ip
              s == Ilock(fs, i)
              r == IF stat THEN [ok |-> FALSE, s |-> s] ELSE Readi(s, i, ft[f].off)
          IN  /\ FdCall(p, "read", d) /\ ft[f].type = "inode" /\ Visit(i) /\ fs' = r.s
              /\ ft' = IF r.ok THEN [ft EXCEPT ![f].off = @ + 1] ELSE ft
              /\ UNCHANGED <<lk, ofile, cwd, pc, l>>
    BY Zenon DEF Read
  <2> DEFINE f == ofile[p][d]
             i == ft[f].ip
             s == Ilock(fs, i)
             r == IF stat THEN [ok |-> FALSE, s |-> s] ELSE Readi(s, i, ft[f].off)
  <2>2. /\ FdCall(p, "read", d) /\ ft[f].type = "inode" /\ Visit(i) /\ fs' = r.s
        /\ ft' = IF r.ok THEN [ft EXCEPT ![f].off = @ + 1] ELSE ft
        /\ UNCHANGED <<lk, ofile, cwd, pc, l>>
    BY <2>1
  <2>3. r.s \in {s, Readi(s, i, ft[f].off).s}
    OBVIOUS
  <2> HIDE DEF r
  <2>4. /\ pc[p] = "idle" /\ l[p].agenda = <<>> /\ OffsetMoved(f)
        /\ f # 0 /\ UNCHANGED <<lk, ofile, cwd, pc, l>>
    BY <2>2 DEF FdCall, Start, Ready, OffsetMoved
  <2>5. f \in FileIds
    BY <2>4, OpenIsReferenced
  <2>6. i \in Inums /\ fs.disk[i].type # "none" /\ ft[f].off \in Nat
    <3>1. ft[f].type = "inode"
      BY <2>2
    <3> HIDE DEF f
    <3>2. i \in Inums /\ OpenFiles(i) # {} /\ fs.disk[i].type # "none"
      BY <2>5, <3>1, FileInodes DEF TreeInv, OpenOK
    <3>3. ft[f].off \in Nat
      BY <2>5 DEF FilesInv, FilesTypeOK, Files
    <3> QED
      BY <3>2, <3>3
  <2>7. fs' = s
    BY <2>2, <2>3, <2>6, LockReads
  <2> HIDE DEF f
  <2> QED
    BY <2>2, <2>4, <2>7 DEF f
<1>2. f \in FileIds /\ i \in Inums /\ fs.disk[i].type # "none"
  <2>1. f \in FileIds
    BY <1>1, OpenIsReferenced
  <2> QED
    BY <1>1, <2>1, FileInodes DEF TreeInv, OpenOK
<1>3. Fetched(fs', i)
  BY <1>1, <1>2, LockFetches
<1>4. FilesStay(p)
  BY <1>1, OffsetTypes, TypesKept
<1>5. pc' = [pc EXCEPT ![p] = "idle"] /\ \A q \in Procs : q # p => ofile'[q] = ofile[q]
  BY <1>1, SameLocals
<1>6. /\ SameDisk(fs, fs') /\ Sound(fs') /\ Kept(fs, fs') /\ fs'.ref = fs.ref
      /\ UNCHANGED <<lk, cwd, l>> /\ pc[p] = "idle" /\ l[p].agenda = <<>>
  BY <1>1, <1>3 DEF Fetched
<1> QED
  BY <1>4, <1>5, <1>6, IdleStays

LEMMA ExitCallStays ==
  ASSUME FilesInv, FilesInv', TreeInv, NEW p \in Procs, ExitCall(p)
  PROVE  Stays
<1>1. /\ pc[p] = "idle" /\ l[p].agenda = <<>> /\ pc' = [pc EXCEPT ![p] = "exit"]
      /\ UNCHANGED <<lk, cwd, l>> /\ fs' = fs /\ ft' = ft /\ ofile' = ofile
  BY DEF ExitCall, Start, Ready, Goto, fileVars
<1>2. SameDisk(fs, fs') /\ Sound(fs') /\ Kept(fs, fs')
  BY <1>1, ReadyUses DEF SameDisk, Kept
<1>3. FilesStay(p)
  BY <1>1, TypesKept
<1> QED
  BY <1>1, <1>2, <1>3, IdleStays

LEMMA WriteStays ==
  ASSUME FilesInv, FilesInv', TreeInv, NEW p \in Procs, Write(p)
  PROVE  Stays
<1>1. PICK d \in Fds, n \in 1..2 :
        /\ FdCall(p, "write", d) /\ ft[ofile[p][d]].type = "inode"
        /\ Set(p, [Local0 EXCEPT !.f = ofile[p][d], !.n = n]) /\ Goto(p, "write")
        /\ UNCHANGED <<fs, lk, fileVars, cwd>>
  BY Zenon DEF Write
<1> DEFINE x == [Local0 EXCEPT !.f = ofile[p][d], !.n = n]
<1>2. /\ pc[p] = "idle" /\ l[p].agenda = <<>> /\ ofile[p][d] # 0
      /\ l' = [l EXCEPT ![p] = x] /\ pc' = [pc EXCEPT ![p] = "write"]
      /\ fs' = fs /\ lk' = lk /\ cwd' = cwd /\ ft' = ft /\ ofile' = ofile
  BY <1>1 DEF FdCall, Start, Ready, Set, Goto, fileVars
<1>3. x.agenda = <<>> /\ x.cur = 0 /\ x.ip = 0 /\ x.dp = 0 /\ x.f = ofile[p][d]
  BY DEF Local0
<1> HIDE DEF x
<1>4. /\ l'[p] = x /\ pc'[p] = "write" /\ \A q \in Procs : q # p => l'[q] = l[q] /\ pc'[q] = pc[q]
  BY <1>2 DEF FilesInv, FilesTypeOK
<1>5. OthersStay(p) /\ FilesStay(p)
  BY <1>2, <1>4, TypesKept DEF OthersStay
<1>6. SameDisk(fs, fs') /\ Sound(fs') /\ Kept(fs, fs')
  BY <1>2, ReadyUses DEF SameDisk, Kept
<1>7. \A i \in Inums : Using(p, i)' => Using(p, i) \/ Known(i)
  <2>1. \A i \in Inums : i # 0
    BY DEF Inums
  <2> QED
    BY <1>2, <1>3, <1>4, <2>1 DEF Using, Uses
<1>8. Writes(ft', ofile'[p], l'[p], pc'[p])
  BY <1>1, <1>2, <1>3, <1>4 DEF Writes
<1>9. /\ pc'[p] \in {"idle", "dead", "exit", "write"}
      /\ l'[p].agenda = <<>> /\ DOMAIN l'[p].agenda = {}
  BY <1>3, <1>4
<1> QED
  BY <1>2, <1>5, <1>6, <1>7, <1>8, <1>9, FdStays

LEMMA PipeCallStays ==
  ASSUME FilesInv, FilesInv', TreeInv, NEW p \in Procs, PipeCall(p)
  PROVE  Stays
<1> DEFINE f == Min(FreeFiles)
           g == Min(FreeFiles \ {f})
           d == Min(FreeFds(p))
           e == Min(FreeFds(p) \ {d})
           t == [FreeFile EXCEPT !.ref = 1, !.type = "pipe", !.writable = FALSE]
           u == [FreeFile EXCEPT !.ref = 1, !.type = "pipe", !.writable = TRUE]
           row == [ofile[p] EXCEPT ![d] = f, ![e] = g]
<1>1. /\ pc[p] = "idle" /\ l[p].agenda = <<>> /\ fs' = fs /\ UNCHANGED <<lk, cwd, pc, l>>
      /\ \/ ft' = ft /\ ofile' = ofile
         \/ /\ Cardinality(FreeFiles) > 1
            /\ ft' = [ft EXCEPT ![f] = t, ![g] = u] /\ ofile' = [ofile EXCEPT ![p] = row]
  BY DEF PipeCall, Start, Ready, fileVars
<1>2. SameDisk(fs, fs') /\ Sound(fs') /\ Kept(fs, fs') /\ pc' = [pc EXCEPT ![p] = "idle"]
  BY <1>1, ReadyUses, SameLocals DEF SameDisk, Kept
<1>3. CASE ft' = ft /\ ofile' = ofile
  BY <1>1, <1>2, <1>3, TypesKept, IdleStays
<1>4. CASE /\ Cardinality(FreeFiles) > 1
           /\ ft' = [ft EXCEPT ![f] = t, ![g] = u] /\ ofile' = [ofile EXCEPT ![p] = row]
  <2>1. f \in FileIds /\ ft[f].ref = 0 /\ g \in FileIds /\ ft[g].ref = 0
    <3>1. FreeFiles \subseteq Nat
      BY DEF FreeFiles, FileIds
    <3>2. f \in FreeFiles /\ g \in FreeFiles
      BY <1>4, <3>1, TwoLeast
    <3> QED
      BY <3>2 DEF FreeFiles
  <2>2. t.type = "pipe" /\ u.type = "pipe" /\ ft \in [FileIds -> Files]
    BY NoneOpen DEF FreeFile
  <2> HIDE DEF t, u, f, g, row
  <2>3. \A h \in FileIds : /\ h # f /\ h # g => ft'[h] = ft[h]
                           /\ h = f \/ h = g => ft'[h].type = "pipe"
    BY <1>4, <2>1, <2>2
  <2>4. \A q \in Procs : q # p => ofile'[q] = ofile[q]
    BY <1>4 DEF FilesInv, FilesTypeOK
  <2>5. \A i \in Inums : OpenFiles(i)' \subseteq OpenFiles(i)
    BY <2>3 DEF OpenFiles
  <2>6. ASSUME NEW q \in Procs, NEW k \in Fds, ofile[q][k] # 0
        PROVE  ft'[ofile[q][k]].type = ft[ofile[q][k]].type
    <3>1. ofile[q][k] \in FileIds /\ ft[ofile[q][k]].ref # 0
      BY <2>6, OpenIsReferenced
    <3> QED
      BY <2>1, <2>3, <3>1
  <2>7. FilesStay(p)
    BY <2>5, <2>6 DEF FilesStay
  <2> QED
    BY <1>1, <1>2, <2>4, <2>7, IdleStays
<1> QED
  BY <1>1, <1>3, <1>4

(* The child has what its parent has.                                      *)
LEMMA ForkStays ==
  ASSUME FilesInv, FilesInv', TreeInv, NEW p \in Procs, Fork(p)
  PROVE  Stays
<1>1. PICK q \in Procs :
        /\ pc[p] = "idle" /\ l[p].agenda = <<>> /\ pc[q] = "dead" /\ l[q].agenda = <<>>
        /\ ofile' = [ofile EXCEPT ![q] = ofile[p]]
        /\ ft' = [f \in FileIds |->
                    [ft[f] EXCEPT !.ref = @ + Cardinality({d \in Fds : ofile[p][d] = f})]]
        /\ cwd' = [cwd EXCEPT ![q] = cwd[p]] /\ fs' = Idup(fs, cwd[p])
        /\ pc' = [pc EXCEPT ![q] = "idle"] /\ UNCHANGED <<lk, l>>
  BY DEF Fork, Start, Ready, Goto
<1> DEFINE i == cwd[p]
<1>2. i \in Inums /\ At(l[q], "dead") /\ Sound(fs) /\ \A j \in Inums : j # 0
  BY <1>1, ReadyIs, ReadyUses DEF Inums
<1>3. /\ pc'[q] = "idle" /\ cwd'[q] = i
      /\ \A s \in Procs : s # q => pc'[s] = pc[s] /\ cwd'[s] = cwd[s] /\ ofile'[s] = ofile[s]
  BY <1>1 DEF FilesInv, FilesTypeOK
<1>4. \A f \in FileIds : ft'[f].type = ft[f].type /\ ft'[f].ip = ft[f].ip
  <2>1. ft \in [FileIds -> Files]
    BY NoneOpen
  <2>2. ASSUME NEW f \in FileIds PROVE ft'[f].type = ft[f].type /\ ft'[f].ip = ft[f].ip
    <3> DEFINE n == Cardinality({d \in Fds : ofile[p][d] = f})
    <3>1. ft'[f] = [ft[f] EXCEPT !.ref = @ + n] /\ ft[f] \in Files
      BY <1>1, <2>1
    <3> HIDE DEF n
    <3> QED
      BY <3>1 DEF Files
  <2> QED
    BY <2>2
<1>5. OthersStay(q) /\ FilesStay(q)
  BY <1>1, <1>3, <1>4, TypesKept DEF OthersStay
<1>6. Known(i)
  BY <1>1, <1>2 DEF Known, Residents
<1> HIDE DEF i
<1>7. Gotten(fs', i)
  <2>1. SameDisk(fs, fs) /\ Kept(fs, fs) /\ fs' = Idup(fs, i)
    BY <1>1 DEF SameDisk, Kept, i
  <2> QED
    BY <1>2, <2>1, GetAfter
<1>8. \A j \in Inums : Using(q, j)' => Using(q, j) \/ Known(j)
  BY <1>1, <1>2, <1>3, <1>6 DEF Using, Uses, At, HasNone
<1>9. DOMAIN l'[q].agenda = {} /\ l'[q].agenda = <<>>
  BY <1>1
<1> QED
  BY <1>1, <1>3, <1>5, <1>6, <1>7, <1>8, <1>9, FdStays DEF Gotten, Writes

LEMMA ExitCwdStays ==
  ASSUME FilesInv, FilesInv', TreeInv, NEW p \in Procs, ExitCwd(p)
  PROVE  Stays
<1> DEFINE v == cwd[p]
           x == Owe(<<Todo("put", v)>>)
<1>1. /\ pc[p] = "exit" /\ l[p].agenda = <<>>
      /\ l' = [l EXCEPT ![p] = x] /\ cwd' = [cwd EXCEPT ![p] = 0]
      /\ pc' = [pc EXCEPT ![p] = "dead"]
      /\ fs' = fs /\ lk' = lk /\ ft' = ft /\ ofile' = ofile
  BY DEF ExitCwd, Ready, Set, Goto, fileVars
<1>2. v \in Inums /\ Using(p, v) /\ \A j \in Inums : j # 0
  BY <1>1, ReadyIs, ReadyUses DEF Inums
<1>3. x.agenda = <<Todo("put", v)>> /\ x.cur = 0 /\ x.ip = 0 /\ x.dp = 0
  BY DEF Owe, Local0
<1> HIDE DEF v, x
<1>9. /\ DOMAIN x.agenda = {1} /\ Head(x.agenda) = x.agenda[1]
      /\ x.agenda[1].op = "put" /\ x.agenda[1].i = v
  <2> DEFINE a == <<Todo("put", v)>>
  <2>1. DOMAIN a = {1} /\ Head(a) = a[1] /\ a[1].op = "put" /\ a[1].i = v
    BY OnePutIs
  <2> HIDE DEF a
  <2>2. x.agenda = a
    BY <1>3 DEF a
  <2> QED
    BY <2>1, <2>2
<1>4. /\ l'[p] = x /\ pc'[p] = "dead" /\ cwd'[p] = 0
      /\ \A q \in Procs : q # p => l'[q] = l[q] /\ pc'[q] = pc[q] /\ cwd'[q] = cwd[q]
  BY <1>1 DEF FilesInv, FilesTypeOK
<1>5. OthersStay(p) /\ FilesStay(p)
  BY <1>1, <1>4, TypesKept DEF OthersStay
<1>6. SameDisk(fs, fs') /\ Sound(fs') /\ Kept(fs, fs')
  BY <1>1, ReadyUses DEF SameDisk, Kept
<1>7. \A j \in Inums : Using(p, j)' => Using(p, j) \/ Known(j)
  BY <1>2, <1>3, <1>4, <1>9 DEF Using, Uses
<1>8. /\ \A k \in DOMAIN l'[p].agenda : l'[p].agenda[k].op = "put"
      /\ Head(l'[p].agenda).op = "put"
  BY <1>3, <1>4, <1>9
<1> QED
  BY <1>1, <1>4, <1>5, <1>6, <1>7, <1>8, FdStays DEF Writes

-----------------------------------------------------------------------------
(* Links                                                                   *)

(* Only inodes of I have changed, and none of them its type.               *)
Reworked(t, I) ==
    /\ Kept(fs, t) /\ \A j \in Inums : t.disk[j].type = fs.disk[j].type
    /\ \A j \in Inums \ I : t.disk[j] = fs.disk[j] /\ t.dir[j] = fs.dir[j]

LEMMA ReworkedStays ==
  ASSUME NEW p, NEW I, Reworked(fs', I),
         \A j \in Inums \cap I : /\ Using(p, j) \/ OpenFiles(j) # {}
                                 /\ fs'.dir[j] = fs.dir[j] \/ lk[j] \in {p, Nobody},
         \A j \in Inums : fs'.ref[j] # fs.ref[j] => Refers(p, j) \/ Known(j)
  PROVE  Reshapes(p) /\ EntriesStay(p)
BY DEF Reworked, Reshapes, EntriesStay, Others

(* How the links that calls owe change with p.                             *)
Owing(p, i, i2) ==
    /\ Extra(l', pc') \in [Inums -> Int] /\ Extra(l, pc) \in [Inums -> Int]
    /\ \A j \in Inums : /\ Extra(l, pc)[j] \in Nat /\ Extra(l', pc')[j] \in Nat
                        /\ Is(i, j) \in Nat /\ Is(i2, j) \in Nat /\ Is(0, j) = 0
                        /\ Extra(l', pc')[j] + Is(i, j) = Extra(l, pc)[j] + Is(i2, j)

LEMMA OwingMoves ==
  ASSUME FilesInv, NEW p \in Procs, NEW x, NEW place,
         l' = [l EXCEPT ![p] = x], pc' = [pc EXCEPT ![p] = place]
  PROVE  Owing(p, PendingOf(l[p], pc[p]), PendingOf(x, place))
<1>1. /\ l'[p] = x /\ pc'[p] = place
      /\ \A q \in Procs : q # p => l'[q] = l[q] /\ pc'[q] = pc[q]
  BY DEF FilesInv, FilesTypeOK
<1>2. ExtraMoved(l, pc, l', pc', p)
  BY <1>1, PendingMoves
<1>3. \A j \in Inums : \A i : Is(i, j) \in Nat /\ Is(0, j) = 0
  BY DEF Is, Inums
<1> QED
  BY <1>1, <1>2, <1>3 DEF ExtraMoved, Owing

LEMMA FetchedOK ==
  ASSUME TreeInv, NEW i \in Inums, NEW s, Fetched(s, i)
  PROVE  /\ DiskOK(s, Extra(l, pc)) /\ s.disk = fs.disk /\ s.dir = fs.dir
         /\ Sound(s) /\ BlocksOK(s) /\ s.valid[i] /\ s.mem[i] = fs.disk[i]
<1>1. DiskOK(fs, Extra(l, pc)) /\ Extra(l, pc) \in [Inums -> Int]
  BY DEF TreeInv, DiskOK
<1>2. NotMore(Extra(l, pc), Extra(l, pc))
  <2>1. \A j \in Inums : Extra(l, pc)[j] <= Extra(l, pc)[j]
    BY <1>1
  <2> QED
    BY <1>1, <2>1 DEF NotMore
<1>3. DiskOK(s, Extra(l, pc))
  BY <1>1, <1>2, SameDiskOK DEF Fetched
<1> QED
  BY <1>3 DEF Fetched, SameDisk, DiskOK

(* What an inode that is rewritten leaves valid.                           *)
LEMMA RewrittenReworks ==
  ASSUME TreeInv, NEW i \in Inums, NEW s, Fetched(s, i), NEW t, Rewritten(s, t, i),
         \A j \in Inums : j # i => t.dir[j] = s.dir[j]
  PROVE  Reworked(t, {i}) /\ t.ref = fs.ref /\ t.valid[i]
BY DEF Reworked, Rewritten, Fetched, SameDisk, Kept

(* i has another number of links.                                          *)
Relinked(t, i, e2) ==
    /\ DiskOK(t, e2) /\ Sound(t) /\ t.dir = fs.dir /\ t.ref = fs.ref
    /\ Reworked(t, {i}) /\ t.valid[i]

LEMMA LinksOK ==
  ASSUME NEW s, NEW e, DiskOK(s, e), NEW i \in Inums, s.valid[i], NEW n \in Nat,
         NEW e2 \in [Inums -> Int], \A j \in Inums : j # i => e2[j] <= e[j],
         e2[i] + s.disk[i].nlink <= e[i] + n
  PROVE  LET t == SetNlink(s, i, n)
         IN  /\ DiskOK(t, e2) /\ t.dir = s.dir /\ t.ref = s.ref /\ t.valid = s.valid
             /\ t.disk[i].type = s.disk[i].type /\ t.disk[i].nlink = n
             /\ \A j \in Inums : j # i => t.disk[j] = s.disk[j]
<1> DEFINE t == SetNlink(s, i, n)
           d == [s.disk[i] EXCEPT !.nlink = n]
<1>1. Sound(s) /\ BlocksOK(s) /\ s.disk[i].type # "none"
  BY DEF DiskOK, Sound, Cached
<1>2. Sound(t) /\ Written(s, t, i, d) /\ t.dir = s.dir /\ t.used = s.used
  BY <1>1, NlinkSet
<1> HIDE DEF t
<1>3. s.disk[i] \in Dinode /\ s.disk \in [Inums -> Dinode]
  BY <1>1 DEF Sound, Typed
<1>4. d \in Dinode /\ d.type = s.disk[i].type /\ d.nlink = n /\ BlocksOf(d) = BlocksOf(s.disk[i])
      /\ (OwnOK(s.disk[i]) => OwnOK(d))
  <2>1. /\ d \in Dinode /\ d.type = s.disk[i].type /\ d.nlink = n
        /\ d.size = s.disk[i].size /\ d.data = s.disk[i].data /\ d.ind = s.disk[i].ind
    BY <1>1, <1>3 DEF Dinode
  <2> HIDE DEF d
  <2> QED
    BY <2>1 DEF BlocksOf, OwnOK, Filled, PerBlock
<1> HIDE DEF d
<1>5. /\ t.disk[i] = d /\ t.ref = s.ref /\ t.valid = s.valid
      /\ \A j \in Inums : j # i => t.disk[j] = s.disk[j]
  BY <1>2, <1>3 DEF Written
<1>6. BlocksOK(t)
  <2>1. \A j \in Inums : /\ BlocksOf(t.disk[j]) = BlocksOf(s.disk[j])
                         /\ OwnOK(s.disk[j]) => OwnOK(t.disk[j])
    BY <1>4, <1>5
  <2>2. UNION {BlocksOf(t.disk[j]) : j \in Inums} = UNION {BlocksOf(s.disk[j]) : j \in Inums}
    BY <2>1
  <2> QED
    BY <1>1, <1>2, <2>1, <2>2 DEF BlocksOK
<1>7. DiskOK(t, e2)
  <2>1. /\ t.disk[i].type = s.disk[i].type /\ s.disk[i].type # "none"
        /\ e2[i] + s.disk[i].nlink <= e[i] + t.disk[i].nlink
    BY <1>1, <1>4, <1>5
  <2> QED
    BY <1>1, <1>2, <1>5, <1>6, <2>1, NlinkOK
<1> QED
  BY <1>2, <1>4, <1>5, <1>7 DEF t

LEMMA LinksSet ==
  ASSUME FilesInv, TreeInv, NEW i \in Inums, NEW s, Fetched(s, i),
         NEW n \in Nat, NEW e2 \in [Inums -> Int],
         \A j \in Inums : j # i => e2[j] <= Extra(l, pc)[j],
         e2[i] + fs.disk[i].nlink <= Extra(l, pc)[i] + n
  PROVE  Relinked(SetNlink(s, i, n), i, e2)
<1> DEFINE t == SetNlink(s, i, n)
           e == Extra(l, pc)
<1>1. DiskOK(s, e) /\ s.disk = fs.disk /\ s.dir = fs.dir /\ s.valid[i]
  BY FetchedOK
<1>2. e2[i] + s.disk[i].nlink <= e[i] + n /\ \A j \in Inums : j # i => e2[j] <= e[j]
  BY <1>1
<1> HIDE DEF e
<1>3. /\ DiskOK(t, e2) /\ t.dir = s.dir /\ t.ref = s.ref /\ t.valid = s.valid
      /\ t.disk[i].type = s.disk[i].type
      /\ \A j \in Inums : j # i => t.disk[j] = s.disk[j]
  BY <1>1, <1>2, LinksOK
<1> HIDE DEF t
<1>4. Reworked(t, {i}) /\ t.ref = fs.ref /\ t.valid[i]
  <2>1. Kept(fs, t) /\ t.ref = fs.ref /\ t.valid[i]
    BY <1>1, <1>3 DEF Kept, Fetched
  <2> QED
    BY <1>1, <1>3, <2>1 DEF Reworked
<1> QED
  BY <1>1, <1>3, <1>4 DEF Relinked, DiskOK, t

(* At most one put to do.                                                  *)
LEMMA OnePut ==
  ASSUME NEW p, NEW x, NEW v,
         x.agenda = <<>> \/ (x.agenda = <<Todo("put", v)>> /\ (v \in Inums => Using(p, v)))
  PROVE  /\ \A k \in DOMAIN x.agenda : x.agenda[k].op = "put"
         /\ x.agenda # <<>> => Head(x.agenda).op = "put"
         /\ \A i : ~ToUnlock(x.agenda, i)
         /\ \A k \in DOMAIN x.agenda : x.agenda[k].i \in Inums => Using(p, x.agenda[k].i)
<1> DEFINE a == <<Todo("put", v)>>
<1>1. /\ DOMAIN a = {1} /\ Head(a) = a[1] /\ a[1].op = "put" /\ a[1].i = v
      /\ \A i : ~ToUnlock(a, i) /\ ~ToUnlock(<<>>, i)
      /\ DOMAIN <<>> = {}
  BY OnePutIs
<1> HIDE DEF a
<1>2. CASE x.agenda = <<>>
  BY <1>1, <1>2
<1>3. CASE x.agenda = a /\ (v \in Inums => Using(p, v))
  BY <1>1, <1>3
<1> QED
  BY <1>2, <1>3 DEF a

LEMMA GoWrites ==
  ASSUME FilesInv, TreeInv, NEW p \in Procs, NEW x, NEW place, NEW v,
         place \notin {"new", "write"}, pc[p] # "chdirDone",
         x.agenda = <<>> \/ (x.agenda = <<Todo("put", v)>> /\ (v \in Inums => Using(p, v))),
         l' = [l EXCEPT ![p] = x], pc' = [pc EXCEPT ![p] = place],
         UNCHANGED cwd, UNCHANGED fileVars,
         LocksStayed(p), Reshapes(p), EntriesStay(p), DiskOK(fs', Extra(l', pc')), LockedOK',
         \A i \in Inums : i = x.cur \/ i = x.ip \/ i = x.dp => Using(p, i) \/ Known(i),
         place \in {"made", "unlinkLast"} => lk'[x.ip] = p,
         place = "unlinkChild" => lk'[x.dp] = p,
         PlaceOK(fs', x, cwd[p], place)
  PROVE  Stays
<1>1. /\ \A k \in DOMAIN x.agenda : x.agenda[k].op = "put"
      /\ x.agenda # <<>> => Head(x.agenda).op = "put"
      /\ \A i : ~ToUnlock(x.agenda, i)
      /\ \A k \in DOMAIN x.agenda : x.agenda[k].i \in Inums => Using(p, x.agenda[k].i)
  BY OnePut
<1>2. UnlocksOnce(x, place)
  BY <1>1 DEF UnlocksOnce
<1>3. \A i \in Inums : Locks(x, place, i) => lk'[i] = p
  BY <1>1 DEF Locks
<1> QED
  BY <1>1, <1>2, <1>3, CallWrites

LEMMA ReturnWrites ==
  ASSUME FilesInv, TreeInv, NEW p \in Procs, NEW a, Return(p, a), pc[p] # "chdirDone",
         UNCHANGED cwd, UNCHANGED fileVars,
         LocksStayed(p), Reshapes(p), EntriesStay(p), DiskOK(fs', Extra(l', pc')), LockedOK',
         \A k \in DOMAIN a : Using(p, a[k].i) /\ a[k].op # "trunc"
                             /\ (a[k].op = "unlock" => lk'[a[k].i] = p),
         a # <<>> => Head(a) = a[1] /\ 1 \in DOMAIN a,
         \A k, h \in DOMAIN a : a[k].op = "unlock" /\ a[h].op = "unlock" => h = k
  PROVE  Stays
<1> DEFINE x == Owe(a)
<1>1. l' = [l EXCEPT ![p] = x] /\ pc' = [pc EXCEPT ![p] = "idle"]
  BY DEF Return, Goto, Set
<1>2. x.agenda = a /\ x.cur = 0 /\ x.ip = 0 /\ x.dp = 0
  BY DEF Owe, Local0
<1> HIDE DEF x
<1>3. \A i \in Inums : i = x.cur \/ i = x.ip \/ i = x.dp => Using(p, i) \/ Known(i)
  BY <1>2 DEF Inums
<1>4. \A i \in Inums : Locks(x, "idle", i) => lk'[i] = p
  BY <1>2 DEF Locks, ToUnlock
<1>5. PlaceOK(fs', x, cwd[p], "idle") /\ UnlocksOnce(x, "idle")
  BY <1>2 DEF PlaceOK, UnlocksOnce, HasDp, HasBoth
<1>6. /\ \A k \in DOMAIN x.agenda : x.agenda[k].i \in Inums => Using(p, x.agenda[k].i)
      /\ x.agenda = <<>> \/ Head(x.agenda).op # "trunc"
      /\ "idle" \notin {"new", "write"}
  BY <1>2
<1> QED
  BY <1>1, <1>3, <1>4, <1>5, <1>6, CallWrites

(* The call is over, with at most one put to do.                           *)
LEMMA ReturnOnePut ==
  ASSUME FilesInv, TreeInv, NEW p \in Procs, NEW v, Using(p, v), Return(p, <<Todo("put", v)>>),
         pc[p] # "chdirDone", UNCHANGED cwd, UNCHANGED fileVars,
         LocksStayed(p), Reshapes(p), EntriesStay(p), DiskOK(fs', Extra(l', pc')), LockedOK'
  PROVE  Stays
<1> DEFINE a == <<Todo("put", v)>>
<1>1. /\ DOMAIN a = {1} /\ Head(a) = a[1] /\ a[1].op = "put" /\ a[1].i = v
  BY OnePutIs
<1>2. Return(p, a)
  OBVIOUS
<1> HIDE DEF a
<1> QED
  BY <1>1, <1>2, ReturnWrites

LEMMA ReturnOwes ==
  ASSUME FilesInv, NEW p \in Procs, NEW a, Return(p, a)
  PROVE  Owing(p, PendingOf(l[p], pc[p]), 0)
<1>1. l' = [l EXCEPT ![p] = Owe(a)] /\ pc' = [pc EXCEPT ![p] = "idle"]
  BY DEF Return, Goto, Set
<1>2. PendingOf(Owe(a), "idle") = 0
  BY DEF PendingOf
<1> QED
  BY <1>1, <1>2, OwingMoves

(* The link that p has left over is taken back.                            *)
LEMMA LinkTaken ==
  ASSUME FilesInv, TreeInv, NEW p \in Procs, l[p].agenda = <<>>, pc[p] \in {"linkBad", "unlinkLast"},
         NEW s, Fetched(s, l[p].ip), fs' = FewerLinks(s, l[p].ip),
         LocksStayed(p), Kept(fs, fs') => LockedOK',
         Return(p, <<Todo("put", l[p].ip)>>), UNCHANGED cwd, UNCHANGED fileVars
  PROVE  Stays
<1> DEFINE i == l[p].ip
           n == fs.disk[i].nlink - 1
<1>1. i \in Inums /\ Using(p, i) /\ fs.disk[i].type # "none"
  BY ReadyIs, ReadyUses DEF At, HasIp
<1>2. Owing(p, i, 0)
  BY ReturnOwes DEF PendingOf
<1>3. Is(i, i) = 1 /\ \A j \in Inums : j # i => Is(i, j) = 0
  BY DEF Is
<1> HIDE DEF i
<1>4. /\ fs.disk[i].nlink \in Nat \ {0} /\ DiskOK(fs, Extra(l, pc))
  <2>1. DiskOK(fs, Extra(l, pc)) /\ Extra(l, pc)[i] \in Nat \ {0}
    BY <1>1, <1>2, <1>3 DEF Owing, TreeInv
  <2> QED
    BY <1>1, <2>1, HasLinks
<1>5. n \in Nat /\ n + 1 = fs.disk[i].nlink
  BY <1>4
<1>6. fs' = SetNlink(s, i, n)
  BY <1>1, FetchedOK DEF FewerLinks, i
<1> HIDE DEF n
<1>7. Relinked(fs', i, Extra(l', pc'))
  <2>1. \A j \in Inums : j # i => Extra(l', pc')[j] <= Extra(l, pc)[j]
    BY <1>2, <1>3 DEF Owing
  <2>2. Extra(l', pc')[i] + fs.disk[i].nlink <= Extra(l, pc)[i] + n
    BY <1>1, <1>2, <1>3, <1>4, <1>5 DEF Owing
  <2>3. Extra(l', pc') \in [Inums -> Int] /\ Fetched(s, i)
    BY <1>2 DEF Owing, i
  <2> QED
    BY <1>1, <1>5, <1>6, <2>1, <2>2, <2>3, LinksSet
<1>8. Reshapes(p) /\ EntriesStay(p)
  <2>1. \A j \in Inums : fs'.ref[j] # fs.ref[j] => Refers(p, j) \/ Known(j)
    BY <1>7 DEF Relinked
  <2>2. \A j \in Inums \cap {i} : /\ Using(p, j) \/ OpenFiles(j) # {}
                                  /\ fs'.dir[j] = fs.dir[j] \/ lk[j] \in {p, Nobody}
    BY <1>1, <1>7 DEF Relinked
  <2> QED
    BY <1>7, <2>1, <2>2, ReworkedStays DEF Relinked
<1>9. Return(p, <<Todo("put", i)>>)
  BY DEF i
<1> QED
  BY <1>1, <1>7, <1>8, <1>9, ReturnOnePut DEF Relinked, Reworked

LEMMA LinkBadStays ==
  ASSUME FilesInv, TreeInv, NEW p \in Procs, LinkBad(p)
  PROVE  Stays
<1>1. /\ pc[p] = "linkBad" /\ l[p].agenda = <<>> /\ lk' = lk
      /\ fs' = FewerLinks(Ilock(fs, l[p].ip), l[p].ip)
      /\ Return(p, <<Todo("put", l[p].ip)>>) /\ UNCHANGED cwd /\ UNCHANGED fileVars
  BY DEF LinkBad, Ready, Visit
<1>2. l[p].ip \in Inums /\ fs.disk[l[p].ip].type # "none"
  BY <1>1, ReadyIs, ReadyUses DEF At, HasIp
<1>3. Fetched(Ilock(fs, l[p].ip), l[p].ip)
  BY <1>2, LockFetches
<1>4. LocksStayed(p) /\ (Kept(fs, fs') => LockedOK')
  BY <1>1, LocksKept DEF LocksStayed
<1> QED
  BY <1>1, <1>3, <1>4, LinkTaken

LEMMA UnlinkLastStays ==
  ASSUME FilesInv, TreeInv, NEW p \in Procs, UnlinkLast(p)
  PROVE  Stays
<1>1. /\ pc[p] = "unlinkLast" /\ l[p].agenda = <<>> /\ lk' = [lk EXCEPT ![l[p].ip] = Nobody]
      /\ fs' = FewerLinks(fs, l[p].ip)
      /\ Return(p, <<Todo("put", l[p].ip)>>) /\ UNCHANGED cwd /\ UNCHANGED fileVars
  BY DEF UnlinkLast, Ready, Unlock
<1>2. l[p].ip \in Inums /\ fs.disk[l[p].ip].type # "none" /\ Own(p)
  BY <1>1, ReadyIs, ReadyUses DEF At, HasIp
<1>3. lk[l[p].ip] = p /\ p # Nobody
  BY <1>1, <1>2, FileSysAssumption DEF Own, Locks, FileSysAssumption
<1>4. Fetched(fs, l[p].ip)
  <2>1. fs.valid[l[p].ip] /\ Sound(fs) /\ Shape(fs)
    BY <1>2, <1>3, ReadyUses DEF TreeInv, LockedOK, Sound, Typed
  <2> QED
    BY <1>2, <2>1 DEF Fetched, SameDisk, Kept, Sound, Cached
<1>5. LocksStayed(p) /\ (Kept(fs, fs') => LockedOK')
  <2>1. LocksStayed(p)
    BY <1>1, <1>2, <1>3 DEF LocksStayed, Others, FilesInv, FilesTypeOK
  <2> QED
    BY <1>1, <1>2, <1>3, <2>1, LocksKept
<1> QED
  BY <1>1, <1>4, <1>5, LinkTaken

(* A reference more, of an inode that is known.                            *)
LEMMA GotReworked ==
  ASSUME FilesInv, NEW s, NEW I, Reworked(s, I), Sound(s), s.ref = fs.ref, NEW e, DiskOK(s, e),
         NEW j \in Inums, NEW t, t = Iget(s, j) \/ t = Idup(s, j)
  PROVE  /\ Reworked(t, I) /\ DiskOK(t, e) /\ t.disk = s.disk /\ t.dir = s.dir
         /\ \A i \in Inums : t.ref[i] # fs.ref[i] => i = j
<1>1. /\ Sound(t) /\ SameDisk(s, t) /\ \A i \in Inums : s.valid[i] /\ s.ref[i] > 0 => t.valid[i]
  BY IgetSound
<1>2. t.ref = [s.ref EXCEPT ![j] = @ + 1] /\ s.ref \in [Inums -> Nat]
  BY IgetCounts DEF Sound, Typed, Shape
<1>3. Reworked(t, I)
  BY <1>1 DEF Reworked, SameDisk, Kept
<1>4. NotMore(e, e)
  <2>1. e \in [Inums -> Int]
    BY DEF DiskOK
  <2>2. \A i \in Inums : e[i] <= e[i]
    BY <2>1
  <2> QED
    BY <2>1, <2>2 DEF NotMore
<1>5. DiskOK(t, e)
  BY <1>1, <1>4, SameDiskOK
<1> QED
  BY <1>1, <1>2, <1>3, <1>5 DEF SameDisk

LEMMA LinkOldStays ==
  ASSUME FilesInv, TreeInv, NEW p \in Procs, LinkOld(p)
  PROVE  Stays
<1> DEFINE i == l[p].ip
           c == l[p].call
           s == Ilock(fs, i)
           s1 == MoreLinks(s, i)
           start == IF c.new.abs THEN ROOTINO ELSE cwd[p]
           x == [l[p] EXCEPT !.path = c.new.elems, !.parent = TRUE, !.cur = start]
           n == fs.disk[i].nlink + 1
<1>1. /\ pc[p] = "link" /\ l[p].agenda = <<>> /\ lk' = lk /\ UNCHANGED cwd /\ UNCHANGED fileVars
      /\ \/ fs' = s /\ Return(p, <<Todo("put", i)>>)
         \/ /\ s.mem[i].type # "dir" /\ (fs' = Iget(s1, start) \/ fs' = Idup(s1, start))
            /\ l' = [l EXCEPT ![p] = x] /\ pc' = [pc EXCEPT ![p] = "walk"]
  BY DEF LinkOld, Ready, Visit, Set, Goto
<1>2. /\ l[p] \in Locals /\ i \in Inums /\ Using(p, i) /\ fs.disk[i].type # "none"
      /\ cwd[p] \in Inums /\ Using(p, cwd[p]) /\ l[p].dp = 0 /\ \A j \in Inums : j # 0
  BY <1>1, ReadyIs, ReadyUses DEF At, HasIp, Inums
<1>3. CASE fs' = s /\ Return(p, <<Todo("put", i)>>)
  BY <1>1, <1>2, <1>3, VisitStays
<1>4. CASE /\ s.mem[i].type # "dir" /\ (fs' = Iget(s1, start) \/ fs' = Idup(s1, start))
           /\ l' = [l EXCEPT ![p] = x] /\ pc' = [pc EXCEPT ![p] = "walk"]
  <2>1. start \in Inums /\ (Using(p, start) \/ Known(start))
    BY <1>2, RootKnown
  <2>2. /\ x.agenda = <<>> /\ x.cur = start /\ x.ip = i /\ x.dp = 0
    BY <1>1, <1>2 DEF Locals
  <2> HIDE DEF x, start
  <2>3. Owing(p, 0, i)
    <3>1. PendingOf(l[p], pc[p]) = 0 /\ PendingOf(x, "walk") = i
      BY <1>1, <2>2 DEF PendingOf
    <3> QED
      BY <1>4, <3>1, OwingMoves
  <2>4. Is(i, i) = 1 /\ \A j \in Inums : j # i => Is(i, j) = 0
    BY DEF Is
  <2>5. Fetched(s, i) /\ s.mem[i] = fs.disk[i]
    BY <1>2, LockFetches, FetchedOK
  <2> HIDE DEF i, s
  <2>6. fs.disk[i].nlink \in Nat /\ Extra(l, pc)[i] \in Nat
    <3>1. DiskOK(fs, Extra(l, pc))
      BY DEF TreeInv
    <3> QED
      BY <1>2, <2>3, <3>1, LinksAreNat DEF Owing
  <2>7. n \in Nat /\ s1 = SetNlink(s, i, n)
    BY <2>5, <2>6 DEF MoreLinks
  <2>8. Relinked(s1, i, Extra(l', pc'))
    <3>1. \A j \in Inums : j # i => Extra(l', pc')[j] <= Extra(l, pc)[j]
      BY <2>3, <2>4 DEF Owing
    <3>2. Extra(l', pc')[i] + fs.disk[i].nlink <= Extra(l, pc)[i] + n
      BY <1>2, <2>3, <2>4, <2>6 DEF Owing
    <3>3. Extra(l', pc') \in [Inums -> Int]
      BY <2>3 DEF Owing
    <3> HIDE DEF n, s1
    <3> QED
      BY <1>2, <2>5, <2>7, <3>1, <3>2, <3>3, LinksSet
  <2> HIDE DEF s1, n
  <2>9. /\ Reworked(fs', {i}) /\ DiskOK(fs', Extra(l', pc')) /\ fs'.dir = s1.dir
        /\ \A j \in Inums : fs'.ref[j] # fs.ref[j] => j = start
    BY <1>4, <2>1, <2>8, GotReworked DEF Relinked
  <2>10. Reshapes(p) /\ EntriesStay(p)
    <3>1. \A j \in Inums : fs'.ref[j] # fs.ref[j] => Refers(p, j) \/ Known(j)
      BY <2>1, <2>9, ReadyUses
    <3>2. \A j \in Inums \cap {i} : /\ Using(p, j) \/ OpenFiles(j) # {}
                                    /\ fs'.dir[j] = fs.dir[j] \/ lk[j] \in {p, Nobody}
      BY <1>2, <2>8, <2>9 DEF Relinked
    <3> QED
      BY <2>9, <3>1, <3>2, ReworkedStays
  <2>11. LocksStayed(p) /\ LockedOK'
    BY <1>1, <2>9, LocksKept DEF Reworked
  <2>12. PlaceOK(fs', x, cwd[p], "walk")
    <3>1. fs'.disk[x.ip].type # "dir"
      BY <1>2, <1>4, <2>2, <2>5, <2>9 DEF Reworked
    <3> QED
      BY <3>1 DEF PlaceOK, HasDp, HasBoth
  <2>13. \A j \in Inums : j = x.cur \/ j = x.ip \/ j = x.dp => Using(p, j) \/ Known(j)
    BY <1>2, <2>1, <2>2
  <2>14. "walk" \notin {"new", "write", "made", "unlinkLast", "unlinkChild"} /\ pc[p] # "chdirDone"
    BY <1>1
  <2> QED
    BY <1>1, <1>4, <2>2, <2>9, <2>10, <2>11, <2>12, <2>13, <2>14, GoWrites
<1> QED
  BY <1>1, <1>3, <1>4

(* dirlink() in a directory that has been fetched.                         *)
Linked(s, e, d, n, i) ==
    /\ Sound(e.s) /\ BlocksOK(e.s) /\ Rewritten(s, e.s, d) /\ SameLinks(s, e.s) /\ e.ok \in BOOLEAN
    /\ e.ok => /\ e.s.dir = NewEntry(s.dir, d, n, i)
               /\ n \in Names => s.dir[d].ents[n] = 0
    /\ ~e.ok => e.s.dir = s.dir

LEMMA DirlinkIs ==
  ASSUME NEW s, Sound(s), BlocksOK(s), NEW d \in Inums, s.valid[d], s.disk[d].type # "none",
         NEW n, NEW i \in Inums
  PROVE  Linked(s, Dirlink(s, d, n, i), d, n, i)
<1> DEFINE e == Dirlink(s, d, n, i)
<1>1. /\ Sound(e.s) /\ BlocksOK(e.s) /\ Rewritten(s, e.s, d) /\ e.ok \in BOOLEAN
      /\ e.ok => EntryAt(s, d, n) = 0 /\ e.s.dir = NewEntry(s.dir, d, n, i)
      /\ ~e.ok => e.s.dir = s.dir
  BY DirlinkSound
<1> HIDE DEF e
<1>2. SameLinks(s, e.s)
  BY <1>1, RewrittenLinks
<1>3. n \in Names => n \notin {".", ".."}
  BY InodeAssumption DEF InodeAssumption
<1>4. EntryAt(s, d, n) = 0 /\ n \in Names => s.dir[d].ents[n] = 0
  BY <1>3, EntryIs
<1>5. Linked(s, e, d, n, i)
  BY <1>1, <1>2, <1>4 DEF Linked
<1> QED
  BY <1>5 DEF e

LEMMA LinkEntryStays ==
  ASSUME FilesInv, TreeInv, NEW p \in Procs, LinkEntry(p)
  PROVE  Stays
<1> DEFINE d == l[p].dp
           i == l[p].ip
           n == Head(l[p].path)
           s == Ilock(fs, d)
           e == Dirlink(s, d, n, i)
           a == <<Todo("put", d), Todo("put", i)>>
           x == [l[p] EXCEPT !.dp = 0, !.agenda = <<Todo("put", d)>>]
<1>1. /\ pc[p] = "linkEntry" /\ l[p].agenda = <<>> /\ lk' = lk /\ lk[d] = Nobody
      /\ UNCHANGED cwd /\ UNCHANGED fileVars /\ fs' = e.s
      /\ \/ e.ok /\ Return(p, a)
         \/ ~e.ok /\ l' = [l EXCEPT ![p] = x] /\ pc' = [pc EXCEPT ![p] = "linkBad"]
  BY DEF LinkEntry, Ready, Visit, Set, Goto
<1>2. /\ l[p] \in Locals /\ i \in Inums /\ Using(p, i) /\ d \in Inums /\ Using(p, d)
      /\ l[p].cur = 0 /\ Own(p) /\ \A j \in Inums : j # 0
  BY <1>1, ReadyIs, ReadyUses DEF At, HasBoth, Inums
<1>3. fs.disk[d].type = "dir" /\ fs.disk[i].type # "dir"
  BY <1>1, <1>2 DEF Own, PlaceOK, HasBoth
<1>4. /\ x.agenda = <<Todo("put", d)>> /\ x.cur = 0 /\ x.ip = i /\ x.dp = 0
  BY <1>2 DEF Locals
<1>5. /\ DOMAIN a = {1, 2} /\ Head(a) = a[1] /\ a[1].op = "put" /\ a[2].op = "put"
      /\ a[1].i = d /\ a[2].i = i
  BY DEF Todo
<1> HIDE DEF x, a
<1>6. Fetched(s, d)
  BY <1>2, <1>3, LockFetches
<1> HIDE DEF d, i, s, n
<1>7. /\ DiskOK(s, Extra(l, pc)) /\ s.disk = fs.disk /\ s.dir = fs.dir
      /\ Sound(s) /\ BlocksOK(s) /\ s.valid[d]
  BY <1>2, <1>6, FetchedOK
<1>8. Linked(s, e, d, n, i)
  BY <1>2, <1>3, <1>7, DirlinkIs
<1> HIDE DEF e
<1>9. \A j \in Inums : j # d => e.s.dir[j] = s.dir[j]
  BY <1>2, <1>7, <1>8, NewEntryIs DEF Linked, OneEntry
<1>10. Reworked(fs', {d}) /\ fs'.ref = fs.ref
  <2>1. Rewritten(s, fs', d) /\ \A j \in Inums : j # d => fs'.dir[j] = s.dir[j]
    BY <1>1, <1>8, <1>9 DEF Linked
  <2> QED
    BY <1>2, <1>6, <2>1, RewrittenReworks
<1>11. Reshapes(p) /\ EntriesStay(p)
  <2>1. \A j \in Inums \cap {d} : /\ Using(p, j) \/ OpenFiles(j) # {}
                                  /\ fs'.dir[j] = fs.dir[j] \/ lk[j] \in {p, Nobody}
    BY <1>1, <1>2
  <2>2. \A j \in Inums : fs'.ref[j] # fs.ref[j] => Refers(p, j) \/ Known(j)
    BY <1>10
  <2> QED
    BY <1>10, <2>1, <2>2, ReworkedStays
<1>12. LocksStayed(p) /\ LockedOK'
  BY <1>1, <1>10, LocksKept DEF Reworked
<1>13. PendingOf(l[p], pc[p]) = i
  BY <1>1 DEF PendingOf, i
<1>14. CASE e.ok /\ Return(p, a)
  <2>1. Owing(p, i, 0)
    BY <1>13, <1>14, ReturnOwes
  <2>2. DiskOK(fs', Extra(l', pc'))
    <3>1. Fits(s, d, i) /\ s.disk[d].type = "dir" /\ s.disk[i].type # "dir"
      BY <1>3, <1>7 DEF Fits
    <3>2. \A j \in Inums : Extra(l', pc')[j] + Is(i, j) + 0 <= Extra(l, pc)[j]
      BY <2>1 DEF Owing
    <3>3. Extra(l', pc') \in [Inums -> Int]
      BY <2>1 DEF Owing
    <3>4. \A j \in Inums : Extra(l', pc')[j] + Is(i, j)
                             + (IF s.disk[i].type = "dir" THEN Is(d, j) ELSE 0) <= Extra(l, pc)[j]
      BY <3>1, <3>2
    <3>5. n \in Names => s.dir[d].ents[n] = 0
      BY <1>8, <1>14 DEF Linked
    <3>6. Sound(fs') /\ BlocksOK(fs') /\ SameLinks(s, fs') /\ fs'.dir = NewEntry(s.dir, d, n, i)
      BY <1>1, <1>8, <1>14 DEF Linked
    <3> QED
      BY <1>2, <1>7, <3>1, <3>3, <3>4, <3>5, <3>6, EntryInOK
  <2>3. \A k \in DOMAIN a : Using(p, a[k].i) /\ a[k].op = "put"
    BY <1>2, <1>5
  <2> QED
    BY <1>1, <1>5, <1>11, <1>12, <1>14, <2>2, <2>3, ReturnWrites
<1>15. CASE ~e.ok /\ l' = [l EXCEPT ![p] = x] /\ pc' = [pc EXCEPT ![p] = "linkBad"]
  <2>1. Owing(p, i, i)
    <3>1. PendingOf(x, "linkBad") = i
      BY <1>4 DEF PendingOf
    <3> QED
      BY <1>13, <1>15, <3>1, OwingMoves
  <2>2. DiskOK(fs', Extra(l', pc'))
    <3>1. NotMore(Extra(l, pc), Extra(l', pc'))
      BY <2>1 DEF Owing, NotMore
    <3>2. Sound(fs') /\ BlocksOK(fs') /\ SameLinks(s, fs') /\ fs'.dir = s.dir
      BY <1>1, <1>8, <1>15 DEF Linked
    <3> QED
      BY <1>7, <3>1, <3>2, ContentsOK
  <2>3. PlaceOK(fs', x, cwd[p], "linkBad")
    <3>1. fs'.disk[x.ip].type # "dir"
      BY <1>2, <1>3, <1>4, <1>10 DEF Reworked
    <3> QED
      BY <3>1 DEF PlaceOK, HasDp, HasBoth
  <2>4. \A j \in Inums : j = x.cur \/ j = x.ip \/ j = x.dp => Using(p, j) \/ Known(j)
    BY <1>2, <1>4
  <2>5. "linkBad" \notin {"new", "write", "made", "unlinkLast", "unlinkChild"} /\ pc[p] # "chdirDone"
    BY <1>1
  <2> QED
    BY <1>1, <1>2, <1>4, <1>11, <1>12, <1>15, <2>2, <2>3, <2>4, <2>5, GoWrites
<1> QED
  BY <1>1, <1>14, <1>15

-----------------------------------------------------------------------------
(* Contents                                                                *)

(* The copy of an inode that is locked counts.                             *)
LEMMA LockedFetched ==
  ASSUME FilesInv, TreeInv, NEW i \in Inums, lk[i] # Nobody
  PROVE  Fetched(fs, i) /\ fs.disk[i].type # "none"
<1>1. fs.valid[i] /\ Sound(fs)
  BY DEF TreeInv, LockedOK, DiskOK
<1> QED
  BY <1>1 DEF Fetched, SameDisk, Kept, Sound, Typed, Cached

LEMMA FileTypesStay ==
  ASSUME FilesInv, TreeInv,
         \A j \in Inums : fs.disk[j].type # "none" => fs'.disk[j].type # "none",
         \A g \in FileIds : ft'[g].type \in {"inode", "device"} =>
            \/ ft[g].type \in {"inode", "device"} /\ ft'[g].ip = ft[g].ip
            \/ ft'[g].ip \in Inums /\ fs.disk[ft'[g].ip].type # "none"
  PROVE  OpenOK'
<1>1. ASSUME NEW g \in FileIds, ft'[g].type \in {"inode", "device"}
      PROVE  fs'.disk[ft'[g].ip].type # "none"
  <2>1. CASE ft[g].type \in {"inode", "device"} /\ ft'[g].ip = ft[g].ip
    BY <2>1, FileInodes DEF TreeInv, OpenOK
  <2>2. CASE ft'[g].ip \in Inums /\ fs.disk[ft'[g].ip].type # "none"
    BY <2>2
  <2> QED
    BY <1>1, <2>1, <2>2
<1> QED
  BY <1>1 DEF OpenOK

LEMMA OwingNoMore ==
  ASSUME NEW p, NEW i, Owing(p, i, 0)
  PROVE  NotMore(Extra(l, pc), Extra(l', pc'))
<1>1. ASSUME NEW j \in Inums PROVE Extra(l', pc')[j] <= Extra(l, pc)[j]
  <2> DEFINE e == Extra(l, pc)[j]
             e2 == Extra(l', pc')[j]
             a == Is(i, j)
  <2>1. e \in Nat /\ e2 \in Nat /\ a \in Nat /\ Is(0, j) = 0 /\ e2 + a = e + Is(0, j)
    BY DEF Owing
  <2> HIDE DEF e, e2, a
  <2>2. e2 <= e
    BY <2>1
  <2> QED
    BY <2>2 DEF e, e2
<1> QED
  BY <1>1 DEF Owing, NotMore

(* Contents have been written, and the call that did goes on with nothing  *)
(* in hand.                                                                *)
LEMMA ContentsWritten ==
  ASSUME FilesInv, TreeInv, NEW p \in Procs, NEW x, NEW place \in {"idle", "write"},
         l[p].agenda = <<>>, pc[p] \in {"write", "made"},
         l' = [l EXCEPT ![p] = x], pc' = [pc EXCEPT ![p] = place], UNCHANGED cwd,
         \A q \in Procs : q # p => ofile'[q] = ofile[q],
         x.agenda = <<>> /\ x.cur = 0 /\ x.ip = 0 /\ x.dp = 0,
         NEW i, Reworked(fs', {i}), fs'.ref = fs.ref, fs'.dir = fs.dir,
         i \in Inums => Using(p, i) \/ OpenFiles(i) # {},
         DiskOK(fs', Extra(l, pc)),
         LocksStayed(p), LockedOK', FilesStay(p), OpenOK', Writes(ft', ofile'[p], x, place)
  PROVE  Stays
<1>1. /\ l'[p] = x /\ pc'[p] = place /\ cwd' = cwd
      /\ \A q \in Procs : q # p => l'[q] = l[q] /\ pc'[q] = pc[q]
  BY DEF FilesInv, FilesTypeOK
<1>2. OthersStay(p)
  BY <1>1 DEF OthersStay
<1>3. Reshapes(p) /\ EntriesStay(p)
  BY ReworkedStays
<1>4. DiskOK(fs', Extra(l', pc'))
  <2>1. PendingOf(x, place) = 0 /\ PendingOf(l[p], pc[p]) = 0
    BY DEF PendingOf
  <2>2. Owing(p, 0, 0)
    BY <2>1, OwingMoves
  <2>3. NotMore(Extra(l, pc), Extra(l', pc'))
    BY <2>2, OwingNoMore
  <2>4. SameDisk(fs', fs') /\ Sound(fs')
    BY DEF SameDisk, DiskOK
  <2> QED
    BY <2>3, <2>4, SameDiskOK
<1>5. \A j \in Inums : Using(p, j)' => Using(p, j) \/ Known(j)
  <2>1. \A j \in Inums : j # 0
    BY DEF Inums
  <2> QED
    BY <1>1, <2>1 DEF Using, Uses
<1>6. \A j \in Inums : ~Locks(x, place, j)
  BY DEF Locks, ToUnlock
<1>7. PlaceOK(fs', x, cwd[p], place) /\ UnlocksOnce(x, place) /\ Truncates(fs', x)
  BY DEF PlaceOK, UnlocksOnce, Truncates, HasDp, HasBoth
<1> QED
  BY <1>1, <1>2, <1>3, <1>4, <1>5, <1>6, <1>7, DiskStep

LEMMA WriteChunkStays ==
  ASSUME FilesInv, TreeInv, NEW p \in Procs, WriteChunk(p)
  PROVE  Stays
<1> DEFINE f == l[p].f
           i == ft[f].ip
           off == ft[f].off
           s == Ilock(fs, i)
           w == Writei(s, i, off)
           x == [l[p] EXCEPT !.n = @ - 1]
           y == Owe(<<>>)
<1>1. /\ pc[p] = "write" /\ l[p].agenda = <<>> /\ fs' = w.s /\ lk' = lk /\ ofile' = ofile
      /\ cwd' = cwd /\ OffsetMoved(f)
      /\ \/ l' = [l EXCEPT ![p] = x] /\ pc' = pc
         \/ l' = [l EXCEPT ![p] = y] /\ pc' = [pc EXCEPT ![p] = "idle"]
  BY DEF WriteChunk, Ready, Visit, Set, Return, Goto, OffsetMoved
<1>2. l[p] \in Locals /\ At(l[p], "write") /\ Own(p)
  BY <1>1, ReadyIs, ReadyUses
<1>3. /\ ft[f].type = "inode" /\ f # 0 /\ \E d \in Fds : ofile[p][d] = f
  BY <1>1, <1>2 DEF Own, Writes
<1>4. f \in FileIds /\ i \in Inums /\ OpenFiles(i) # {} /\ off \in Nat /\ fs.disk[i].type # "none"
  <2>1. f \in FileIds /\ ft[f] \in Files
    BY <1>3, OpenIsReferenced
  <2> QED
    BY <1>3, <2>1, FileInodes DEF Files, TreeInv, OpenOK
<1>5. Fetched(s, i)
  BY <1>4, LockFetches
<1>6. /\ x.agenda = <<>> /\ x.cur = 0 /\ x.ip = 0 /\ x.dp = 0 /\ x.f = f
      /\ y.agenda = <<>> /\ y.cur = 0 /\ y.ip = 0 /\ y.dp = 0
  BY <1>1, <1>2 DEF At, HasNone, Locals, Owe, Local0
<1> HIDE DEF s, i, x, y, off
<1>7. /\ DiskOK(s, Extra(l, pc)) /\ s.disk = fs.disk /\ s.dir = fs.dir
      /\ Sound(s) /\ BlocksOK(s) /\ s.valid[i]
  BY <1>4, <1>5, FetchedOK
<1>8. Sound(fs') /\ BlocksOK(fs') /\ fs'.dir = s.dir /\ Rewritten(s, fs', i)
  BY <1>1, <1>4, <1>7, WriteiSound
<1> HIDE DEF w
<1>9. DiskOK(fs', Extra(l, pc))
  <2>1. SameLinks(s, fs')
    BY <1>4, <1>7, <1>8, RewrittenLinks
  <2>2. Extra(l, pc) \in [Inums -> Int] /\ \A j \in Inums : Extra(l, pc)[j] <= Extra(l, pc)[j]
    BY <1>7 DEF DiskOK
  <2> QED
    BY <1>7, <1>8, <2>1, <2>2, ContentsOK DEF NotMore
<1>10. Reworked(fs', {i}) /\ fs'.ref = fs.ref
  BY <1>4, <1>5, <1>8, RewrittenReworks
<1>11. LocksStayed(p) /\ LockedOK'
  BY <1>1, <1>10, LocksKept DEF Reworked
<1>12. \A g \in FileIds : ft'[g].type = ft[g].type /\ ft'[g].ip = ft[g].ip
  BY <1>1, OffsetTypes
<1>13. FilesStay(p)
  BY <1>12, TypesKept
<1>14. OpenOK'
  BY <1>10, <1>12, FileTypesStay DEF Reworked
<1>15. Writes(ft', ofile'[p], x, "write") /\ Writes(ft', ofile'[p], y, "idle")
  BY <1>1, <1>3, <1>4, <1>6, <1>12 DEF Writes
<1>16. pc' = pc => pc' = [pc EXCEPT ![p] = "write"]
  BY <1>1, SameLocals
<1>17. /\ fs'.dir = fs.dir /\ UNCHANGED cwd /\ \A q \in Procs : q # p => ofile'[q] = ofile[q]
  BY <1>1, <1>7, <1>8
<1>18. CASE l' = [l EXCEPT ![p] = x] /\ pc' = pc
  BY <1>1, <1>4, <1>6, <1>9, <1>10, <1>11, <1>13, <1>14, <1>15, <1>16, <1>17, <1>18, ContentsWritten
<1>19. CASE l' = [l EXCEPT ![p] = y] /\ pc' = [pc EXCEPT ![p] = "idle"]
  BY <1>1, <1>4, <1>6, <1>9, <1>10, <1>11, <1>13, <1>14, <1>15, <1>17, <1>19, ContentsWritten
<1> QED
  BY <1>1, <1>18, <1>19

(* open() has a file: the inode may be truncated.                          *)
LEMMA OpenTruncates ==
  ASSUME FilesInv, TreeInv, NEW i \in Inums, lk[i] # Nobody,
         fs' = fs \/ (fs' = Itrunc(fs, i) /\ fs.mem[i].type # "dir")
  PROVE  /\ Reworked(fs', {i}) /\ fs'.ref = fs.ref /\ fs'.dir = fs.dir
         /\ DiskOK(fs', Extra(l, pc))
<1>1. Fetched(fs, i) /\ fs.disk[i].type # "none"
  BY LockedFetched
<1>2. DiskOK(fs, Extra(l, pc)) /\ Sound(fs) /\ BlocksOK(fs) /\ fs.valid[i] /\ fs.mem[i] = fs.disk[i]
  BY <1>1, FetchedOK
<1>3. CASE fs' = fs
  BY <1>2, <1>3 DEF Reworked, Kept
<1>4. CASE fs' = Itrunc(fs, i) /\ fs.mem[i].type # "dir"
  <2>1. DiskOK(fs', Extra(l, pc)) /\ fs'.dir = fs.dir
    BY <1>2, <1>4, TruncatedOK
  <2>2. Rewritten(fs, fs', i)
    BY <1>2, <1>4, ItruncSound
  <2>3. Reworked(fs', {i}) /\ fs'.ref = fs.ref
    BY <1>1, <2>1, <2>2, RewrittenReworks
  <2> QED
    BY <2>1, <2>3
<1> QED
  BY <1>3, <1>4

LEMMA OpenDoneStays ==
  ASSUME FilesInv, TreeInv, NEW p \in Procs, pc[p] = "made", l[p].agenda = <<>>,
         NEW f \in FileIds, ft[f].ref = 0, NEW d \in Fds, NEW t, t.ip = l[p].ip,
         ft' = [ft EXCEPT ![f] = t], ofile' = [ofile EXCEPT ![p][d] = f],
         lk' = [lk EXCEPT ![l[p].ip] = Nobody], Return(p, <<>>), UNCHANGED cwd,
         fs' = fs \/ (fs' = Itrunc(fs, l[p].ip) /\ fs.mem[l[p].ip].type # "dir")
  PROVE  Stays
<1> DEFINE i == l[p].ip
           x == Owe(<<>>)
<1>1. i \in Inums /\ Using(p, i) /\ fs.disk[i].type # "none" /\ Own(p)
  BY ReadyIs, ReadyUses DEF At, HasIp
<1>2. lk[i] = p /\ p # Nobody
  BY <1>1, FileSysAssumption DEF Own, Locks, FileSysAssumption
<1>3. l' = [l EXCEPT ![p] = x] /\ pc' = [pc EXCEPT ![p] = "idle"]
  BY DEF Return, Goto, Set
<1>4. x.agenda = <<>> /\ x.cur = 0 /\ x.ip = 0 /\ x.dp = 0
  BY DEF Owe, Local0
<1>5. /\ Reworked(fs', {i}) /\ fs'.ref = fs.ref /\ fs'.dir = fs.dir
      /\ DiskOK(fs', Extra(l, pc))
  BY <1>1, <1>2, OpenTruncates
<1>6. LocksStayed(p) /\ LockedOK'
  BY <1>1, <1>2, <1>5, LocksKept DEF Reworked
<1> HIDE DEF x, i
<1>7. /\ ft'[f] = t /\ t.ip = i /\ \A g \in FileIds : g # f => ft'[g] = ft[g]
  BY NoneOpen DEF i
<1>8. \A q \in Procs : q # p => ofile'[q] = ofile[q]
  BY DEF FilesInv, FilesTypeOK
<1>9. \A j \in Inums : OpenFiles(j)' # {} => OpenFiles(j) # {} \/ Using(p, j)
  BY <1>1, <1>7 DEF OpenFiles
<1>10. ASSUME NEW q \in Procs, NEW e \in Fds, ofile[q][e] # 0
       PROVE  ft'[ofile[q][e]].type = ft[ofile[q][e]].type
  <2>1. ofile[q][e] \in FileIds /\ ft[ofile[q][e]].ref # 0
    BY <1>10, OpenIsReferenced
  <2> QED
    BY <1>7, <2>1
<1>11. FilesStay(p)
  BY <1>9, <1>10 DEF FilesStay
<1>12. OpenOK'
  <2>1. \A j \in Inums : fs.disk[j].type # "none" => fs'.disk[j].type # "none"
    BY <1>5 DEF Reworked
  <2>2. \A g \in FileIds : ft'[g].type \in {"inode", "device"} =>
            \/ ft[g].type \in {"inode", "device"} /\ ft'[g].ip = ft[g].ip
            \/ ft'[g].ip \in Inums /\ fs.disk[ft'[g].ip].type # "none"
    BY <1>1, <1>7
  <2> QED
    BY <2>1, <2>2, FileTypesStay
<1>13. Writes(ft', ofile'[p], x, "idle")
  BY DEF Writes
<1> QED
  BY <1>1, <1>3, <1>4, <1>5, <1>6, <1>8, <1>11, <1>12, <1>13, ContentsWritten

LEMMA OpenFileStays ==
  ASSUME FilesInv, TreeInv, NEW p \in Procs, OpenFile(p)
  PROVE  Stays
<1> DEFINE i == l[p].ip
           c == l[p].call
           ty == fs.mem[i].type
           f == Min(FreeFiles)
           d == Min(FreeFds(p))
           t == [ref |-> 1, ip |-> i, off |-> 0,
                 type |-> IF ty = "device" THEN "device" ELSE "inode",
                 writable |-> c.omode \in {"w", "trunc"}]
<1>1. /\ pc[p] = "made" /\ l[p].agenda = <<>> /\ UNCHANGED cwd
      /\ lk' = [lk EXCEPT ![i] = Nobody]
      /\ \/ Return(p, <<Todo("put", i)>>) /\ fs' = fs /\ UNCHANGED fileVars
         \/ /\ FreeFiles # {} /\ FreeFds(p) # {}
            /\ ft' = [ft EXCEPT ![f] = t] /\ ofile' = [ofile EXCEPT ![p][d] = f]
            /\ fs' = fs \/ (fs' = Itrunc(fs, i) /\ ty = "file")
            /\ Return(p, <<>>)
  BY DEF OpenFile, Ready, Unlock
<1>2. t.ip = i
  OBVIOUS
<1> HIDE DEF t
<1>3. CASE Return(p, <<Todo("put", i)>>) /\ fs' = fs /\ UNCHANGED fileVars
  BY <1>1, <1>3, MadePutStays
<1>4. CASE /\ FreeFiles # {} /\ FreeFds(p) # {}
           /\ ft' = [ft EXCEPT ![f] = t] /\ ofile' = [ofile EXCEPT ![p][d] = f]
           /\ fs' = fs \/ (fs' = Itrunc(fs, i) /\ ty = "file")
           /\ Return(p, <<>>)
  <2>1. f \in FileIds /\ ft[f].ref = 0 /\ d \in Fds
    BY <1>4, LeastFile, LeastFd
  <2> HIDE DEF f, d
  <2>2. fs' = fs \/ (fs' = Itrunc(fs, i) /\ fs.mem[i].type # "dir")
    BY <1>4
  <2> QED
    BY <1>1, <1>2, <1>4, <2>1, <2>2, OpenDoneStays
<1> QED
  BY <1>1, <1>3, <1>4

-----------------------------------------------------------------------------
(* A directory and an inode in it                                          *)

Working(t, e, i, d) ==
    /\ DiskOK(t, e) /\ Reworked(t, {i, d}) /\ t.ref = fs.ref /\ t.valid[i] /\ t.valid[d]

LEMMA WorkOn ==
  ASSUME NEW i \in Inums, NEW d \in Inums, NEW k \in {i, d}, NEW s, NEW e, Working(s, e, i, d),
         NEW t, NEW e2, DiskOK(t, e2), Rewritten(s, t, k),
         \A j \in Inums : j \notin {i, d} => t.dir[j] = s.dir[j]
  PROVE  Working(t, e2, i, d)
<1>1. /\ t.ref = s.ref /\ t.valid = s.valid /\ t.disk[k].type = s.disk[k].type
      /\ \A j \in Inums : j # k => t.disk[j] = s.disk[j]
  BY DEF Rewritten
<1>2. Reworked(t, {i, d})
  <2>1. Kept(fs, t)
    BY <1>1 DEF Working, Reworked, Kept
  <2>2. \A j \in Inums : t.disk[j].type = fs.disk[j].type
    BY <1>1 DEF Working, Reworked
  <2>3. \A j \in Inums \ {i, d} : t.disk[j] = fs.disk[j] /\ t.dir[j] = fs.dir[j]
    BY <1>1 DEF Working, Reworked
  <2> QED
    BY <2>1, <2>2, <2>3 DEF Reworked
<1> QED
  BY <1>1, <1>2 DEF Working

LEMMA WorkLinks ==
  ASSUME NEW i \in Inums, NEW d \in Inums, NEW k \in {i, d}, NEW s, NEW e, Working(s, e, i, d),
         NEW n \in Nat, NEW e2 \in [Inums -> Int], \A j \in Inums : j # k => e2[j] <= e[j],
         e2[k] + s.disk[k].nlink <= e[k] + n
  PROVE  LET t == SetNlink(s, k, n)
         IN  /\ Working(t, e2, i, d) /\ t.dir = s.dir /\ t.disk[k].nlink = n
             /\ \A j \in Inums : j # k => t.disk[j] = s.disk[j]
<1> DEFINE t == SetNlink(s, k, n)
<1>1. DiskOK(s, e) /\ k \in Inums /\ s.valid[k]
  BY DEF Working
<1>2. /\ DiskOK(t, e2) /\ t.dir = s.dir /\ t.ref = s.ref /\ t.valid = s.valid
      /\ t.disk[k].type = s.disk[k].type /\ t.disk[k].nlink = n
      /\ \A j \in Inums : j # k => t.disk[j] = s.disk[j]
  BY <1>1, LinksOK
<1> HIDE DEF t
<1>3. Reworked(t, {i, d})
  <2>1. Kept(fs, t)
    BY <1>2 DEF Working, Reworked, Kept
  <2>2. \A j \in Inums : t.disk[j].type = fs.disk[j].type
    BY <1>1, <1>2 DEF Working, Reworked
  <2>3. \A j \in Inums \ {i, d} : t.disk[j] = fs.disk[j] /\ t.dir[j] = fs.dir[j]
    BY <1>2 DEF Working, Reworked
  <2> QED
    BY <2>1, <2>2, <2>3 DEF Reworked
<1> QED
  BY <1>2, <1>3 DEF Working, t

(* A call that has a locked directory and an inode in hand.                *)
Pair(p) ==
    /\ l[p].ip \in Inums /\ Using(p, l[p].ip) /\ l[p].dp \in Inums /\ Using(p, l[p].dp)
    /\ l[p].cur = 0 /\ lk[l[p].dp] = p /\ fs.disk[l[p].dp].type = "dir"
    /\ Fetched(fs, l[p].dp) /\ l[p] \in Locals /\ pc[p] \in {"new", "unlinkChild"}
    /\ l[p].agenda = <<>> /\ fs.disk[l[p].ip].type # "none" /\ p # Nobody

LEMMA PairIs ==
  ASSUME FilesInv, TreeInv, NEW p \in Procs, l[p].agenda = <<>>, pc[p] \in {"new", "unlinkChild"}
  PROVE  Pair(p) /\ Own(p)
<1>1. /\ l[p] \in Locals /\ l[p].ip \in Inums /\ l[p].dp \in Inums /\ l[p].cur = 0
  BY ReadyIs DEF At, HasBoth
<1>2. Using(p, l[p].ip) /\ Using(p, l[p].dp) /\ Own(p)
  BY <1>1, ReadyUses
<1>3. lk[l[p].dp] = p /\ fs.disk[l[p].dp].type = "dir" /\ p # Nobody
  BY <1>1, <1>2, FileSysAssumption DEF Own, Locks, PlaceOK, HasBoth, FileSysAssumption
<1>4. Fetched(fs, l[p].dp) /\ fs.disk[l[p].ip].type # "none"
  BY <1>1, <1>2, <1>3, LockedFetched, ReadyUses
<1> QED
  BY <1>1, <1>2, <1>3, <1>4 DEF Pair

(* The inode is locked as well.                                            *)
LEMMA PairFetched ==
  ASSUME FilesInv, TreeInv, NEW p \in Procs, Pair(p)
  PROVE  LET s == Ilock(fs, l[p].ip)
         IN  /\ Working(s, Extra(l, pc), l[p].ip, l[p].dp) /\ Fetched(s, l[p].ip)
             /\ s.disk = fs.disk /\ s.dir = fs.dir
<1> DEFINE i == l[p].ip
           d == l[p].dp
           s == Ilock(fs, i)
<1>1. i \in Inums /\ d \in Inums /\ fs.valid[d] /\ lk[d] # Nobody /\ fs.disk[i].type # "none"
  BY DEF Pair, Fetched
<1>2. Fetched(s, i)
  BY <1>1, LockFetches
<1> HIDE DEF i, s, d
<1>3. DiskOK(s, Extra(l, pc)) /\ s.disk = fs.disk /\ s.dir = fs.dir /\ s.valid[i]
  BY <1>1, <1>2, FetchedOK
<1>4. s.valid[d]
  BY <1>1, <1>2, LockedIsReferenced DEF Fetched, Kept
<1>5. Working(s, Extra(l, pc), i, d)
  BY <1>2, <1>3, <1>4 DEF Working, Reworked, Fetched
<1> QED
  BY <1>2, <1>3, <1>5 DEF i, d, s

LEMMA WorkStays ==
  ASSUME FilesInv, TreeInv, NEW p \in Procs, Pair(p), lk[l[p].ip] = Nobody,
         NEW e, Working(fs', e, l[p].ip, l[p].dp)
  PROVE  /\ Reshapes(p) /\ EntriesStay(p) /\ DiskOK(fs', e)
         /\ lk' = lk => LocksStayed(p) /\ LockedOK'
         /\ lk' = [lk EXCEPT ![l[p].ip] = p, ![l[p].dp] = Nobody] =>
               LocksStayed(p) /\ LockedOK' /\ lk'[l[p].ip] = p
<1> DEFINE i == l[p].ip
           d == l[p].dp
<1>1. /\ i \in Inums /\ d \in Inums /\ Using(p, i) /\ Using(p, d) /\ lk[i] = Nobody /\ lk[d] = p
      /\ Reworked(fs', {i, d}) /\ fs'.ref = fs.ref /\ fs'.valid[i] /\ DiskOK(fs', e) /\ p # Nobody
  BY DEF Pair, Working
<1> HIDE DEF i, d
<1>2. Reshapes(p) /\ EntriesStay(p)
  <2>1. \A j \in Inums \cap {i, d} : /\ Using(p, j) \/ OpenFiles(j) # {}
                                     /\ fs'.dir[j] = fs.dir[j] \/ lk[j] \in {p, Nobody}
    BY <1>1
  <2>2. \A j \in Inums : fs'.ref[j] # fs.ref[j] => Refers(p, j) \/ Known(j)
    BY <1>1
  <2> QED
    BY <1>1, <2>1, <2>2, ReworkedStays
<1>3. lk' = lk => LocksStayed(p) /\ LockedOK'
  BY <1>1, LocksKept DEF Reworked
<1>4. ASSUME lk' = [lk EXCEPT ![i] = p, ![d] = Nobody]
      PROVE  LocksStayed(p) /\ LockedOK' /\ lk'[i] = p
  <2>1. lk \in [Inums -> Procs \cup {Nobody}]
    BY DEF FilesInv, FilesTypeOK
  <2>2. /\ lk'[i] = p /\ \A j \in Inums : lk'[j] # lk[j] => lk[j] \in {p, Nobody}
        /\ \A j \in Inums : lk'[j] # Nobody => lk[j] # Nobody \/ j = i
    BY <1>1, <1>4, <2>1
  <2>3. LocksStayed(p)
    BY <2>2 DEF LocksStayed, Others
  <2>4. LockedOK'
    BY <1>1, <2>2, LockedStays DEF Reworked
  <2> QED
    BY <2>2, <2>3, <2>4
<1> QED
  BY <1>1, <1>2, <1>3, <1>4 DEF i, d

(* Both are given back.                                                    *)
LEMMA BothIs ==
  ASSUME NEW i, NEW d
  PROVE  LET a == <<Todo("put", i), Todo("unlock", d), Todo("put", d)>>
         IN  /\ DOMAIN a = {1, 2, 3} /\ Head(a) = a[1] /\ a # <<>>
             /\ a[1].op = "put" /\ a[2].op = "unlock" /\ a[3].op = "put"
             /\ a[1].i = i /\ a[2].i = d /\ a[3].i = d
BY DEF Todo

LEMMA BothReturn ==
  ASSUME FilesInv, TreeInv, NEW p \in Procs, Pair(p), lk[l[p].ip] = Nobody,
         Return(p, <<Todo("put", l[p].ip), Todo("unlock", l[p].dp), Todo("put", l[p].dp)>>),
         lk' = lk, UNCHANGED cwd, UNCHANGED fileVars,
         Working(fs', Extra(l', pc'), l[p].ip, l[p].dp)
  PROVE  Stays
<1> DEFINE i == l[p].ip
           d == l[p].dp
           a == <<Todo("put", i), Todo("unlock", d), Todo("put", d)>>
<1>1. /\ Reshapes(p) /\ EntriesStay(p) /\ DiskOK(fs', Extra(l', pc')) /\ LocksStayed(p) /\ LockedOK'
  BY WorkStays
<1>2. /\ Using(p, i) /\ Using(p, d) /\ lk'[d] = p /\ pc[p] # "chdirDone"
  BY DEF Pair
<1>3. Return(p, a)
  OBVIOUS
<1>4. /\ DOMAIN a = {1, 2, 3} /\ Head(a) = a[1]
      /\ a[1].op = "put" /\ a[2].op = "unlock" /\ a[3].op = "put"
      /\ a[1].i = i /\ a[2].i = d /\ a[3].i = d
  BY BothIs
<1> HIDE DEF a, i, d
<1>5. \A k \in DOMAIN a : Using(p, a[k].i) /\ a[k].op # "trunc" /\ (a[k].op = "unlock" => lk'[a[k].i] = p)
  BY <1>2, <1>4
<1>6. \A k, h \in DOMAIN a : a[k].op = "unlock" /\ a[h].op = "unlock" => h = k
  BY <1>4
<1>7. Head(a) = a[1] /\ 1 \in DOMAIN a
  BY <1>4
<1> QED
  BY <1>1, <1>2, <1>3, <1>5, <1>6, <1>7, ReturnWrites

(* The directory is given back, the inode stays locked.                    *)
KeepsIp(p, place) ==
    /\ l' = [l EXCEPT ![p] = [l[p] EXCEPT !.dp = 0, !.agenda = <<Todo("put", l[p].dp)>>]]
    /\ pc' = [pc EXCEPT ![p] = place] /\ lk' = [lk EXCEPT ![l[p].ip] = p, ![l[p].dp] = Nobody]

LEMMA BothGo ==
  ASSUME FilesInv, TreeInv, NEW p \in Procs, Pair(p), lk[l[p].ip] = Nobody,
         NEW place \in {"made", "unlinkLast"},
         KeepsIp(p, place),
         UNCHANGED cwd, UNCHANGED fileVars, Working(fs', Extra(l', pc'), l[p].ip, l[p].dp)
  PROVE  Stays
<1> DEFINE i == l[p].ip
           d == l[p].dp
           x == [l[p] EXCEPT !.dp = 0, !.agenda = <<Todo("put", d)>>]
<1>1. /\ Reshapes(p) /\ EntriesStay(p) /\ DiskOK(fs', Extra(l', pc')) /\ LocksStayed(p) /\ LockedOK'
      /\ lk'[i] = p
  BY WorkStays DEF KeepsIp
<1>2. /\ Using(p, i) /\ Using(p, d) /\ pc[p] # "chdirDone" /\ l[p] \in Locals /\ l[p].cur = 0
      /\ \A j \in Inums : j # 0
  BY DEF Pair, Inums
<1>3. x.agenda = <<Todo("put", d)>> /\ x.cur = 0 /\ x.ip = i /\ x.dp = 0
  BY <1>2 DEF Locals
<1>4. l' = [l EXCEPT ![p] = x] /\ pc' = [pc EXCEPT ![p] = place]
  BY DEF KeepsIp
<1> HIDE DEF x, i, d
<1>5. PlaceOK(fs', x, cwd[p], place)
  BY DEF PlaceOK, HasDp, HasBoth
<1>6. \A j \in Inums : j = x.cur \/ j = x.ip \/ j = x.dp => Using(p, j) \/ Known(j)
  BY <1>2, <1>3
<1>7. place \notin {"new", "write", "unlinkChild"} /\ lk'[x.ip] = p
  BY <1>1, <1>3
<1> QED
  BY <1>1, <1>2, <1>3, <1>4, <1>5, <1>6, <1>7, GoWrites

-----------------------------------------------------------------------------
(* The rest of create() and of unlink()                                    *)

LEMMA WorkLess ==
  ASSUME NEW i \in Inums, NEW d \in Inums, NEW t, NEW e, Working(t, e, i, d), NEW e2, NotMore(e, e2)
  PROVE  Working(t, e2, i, d)
<1>1. DiskOK(t, e) /\ Sound(t) /\ SameDisk(t, t)
  BY DEF Working, DiskOK, SameDisk
<1>2. DiskOK(t, e2)
  BY <1>1, SameDiskOK
<1> QED
  BY <1>2 DEF Working

(* Contents or entries written in one of the two.                          *)
LEMMA WorkContents ==
  ASSUME NEW i \in Inums, NEW d \in Inums, NEW k \in {i, d}, NEW s, NEW e, Working(s, e, i, d),
         NEW t, Sound(t), BlocksOK(t), Rewritten(s, t, k), t.dir = s.dir
  PROVE  Working(t, e, i, d)
<1>1. DiskOK(s, e) /\ s.valid[k] /\ k \in Inums
  BY DEF Working
<1>2. s.disk[k].type # "none"
  BY <1>1 DEF DiskOK, Sound, Cached
<1>3. SameLinks(s, t)
  BY <1>2, RewrittenLinks
<1>4. NotMore(e, e)
  BY <1>1 DEF NotMore, DiskOK
<1>5. DiskOK(t, e)
  BY <1>1, <1>3, <1>4, ContentsOK
<1> QED
  BY <1>5, WorkOn

(* nlink = 1 before there is an entry.                                     *)
With(e, i) == [j \in Inums |-> e[j] + Is(i, j)]

LEMMA WithIs ==
  ASSUME NEW i \in Inums, NEW e, \A j \in Inums : e[j] \in Nat
  PROVE  /\ With(e, i) \in [Inums -> Int] /\ With(e, i)[i] = e[i] + 1
         /\ \A j \in Inums : /\ With(e, i)[j] \in Nat /\ With(e, i)[j] = e[j] + Is(i, j)
                             /\ Is(i, j) \in Nat /\ e[j] <= With(e, i)[j]
                             /\ j # i => With(e, i)[j] = e[j]
BY DEF With, Is

LEMMA NewLinked ==
  ASSUME NEW i \in Inums, NEW d \in Inums, NEW s, NEW e, Working(s, e, i, d), i # d,
         \A j \in Inums : e[j] \in Nat, s.disk[i].nlink = 0
  PROVE  LET t == SetNlink(s, i, 1)
         IN  /\ Working(t, With(e, i), i, d) /\ t.dir = s.dir /\ t.disk[i].nlink = 1
             /\ t.disk[d] = s.disk[d]
<1>1. /\ With(e, i) \in [Inums -> Int] /\ With(e, i)[i] = e[i] + 1
      /\ \A j \in Inums : j # i => With(e, i)[j] <= e[j]
  BY WithIs
<1>2. With(e, i)[i] + s.disk[i].nlink <= e[i] + 1
  BY <1>1
<1> QED
  BY <1>1, <1>2, WorkLinks

LEMMA DotsMade ==
  ASSUME NEW i \in Inums, NEW d \in Inums, NEW s, NEW e, Working(s, e, i, d), i # d,
         s.disk[i].type = "dir", NamingIn(s.dir, i) = {}, s.dir[i] = NoEntries
  PROVE  LET w == MakeDots(s, i, d)
         IN  /\ Working(w.s, e, i, d) /\ w.ok \in BOOLEAN
             /\ w.ok => Fits(w.s, d, i) /\ w.s.dir[d] = s.dir[d]
             /\ w.s.disk[d] = s.disk[d] /\ w.s.disk[i].nlink = s.disk[i].nlink
             /\ w.s.disk[i].type = s.disk[i].type
<1> DEFINE w == MakeDots(s, i, d)
<1>1. DiskOK(s, e) /\ Sound(s) /\ BlocksOK(s) /\ s.valid[i]
  BY DEF Working, DiskOK
<1>2. /\ Sound(w.s) /\ BlocksOK(w.s) /\ Rewritten(s, w.s, i) /\ w.ok \in BOOLEAN
      /\ w.ok => w.s.dir = NewDotdot(s.dir, i, d)
      /\ ~w.ok => w.s.dir = s.dir
  BY <1>1, MakeDotsSound
<1> HIDE DEF w
<1>3. SameLinks(s, w.s)
  BY <1>2, RewrittenLinks
<1>4. ASSUME w.ok
      PROVE  Working(w.s, e, i, d) /\ Fits(w.s, d, i) /\ w.s.dir[d] = s.dir[d]
  <2>1. /\ DiskOK(w.s, e) /\ \A j \in Inums : j # i => w.s.dir[j] = s.dir[j]
        /\ w.s.dir[i].dotdot = d /\ w.s.dir[i].ents = s.dir[i].ents
        /\ \A j \in Inums : NamingIn(w.s.dir, j) = NamingIn(s.dir, j)
    BY <1>1, <1>2, <1>3, <1>4, DotdotOK
  <2>2. Working(w.s, e, i, d)
    BY <1>2, <2>1, WorkOn
  <2>3. Fits(w.s, d, i)
    BY <2>1, NoEntriesIs DEF Fits
  <2> QED
    BY <2>1, <2>2, <2>3
<1>5. ASSUME ~w.ok
      PROVE  Working(w.s, e, i, d)
  BY <1>2, <1>5, WorkContents
<1>6. w.s.disk[d] = s.disk[d] /\ w.s.disk[i].nlink = s.disk[i].nlink /\ w.s.disk[i].type = s.disk[i].type
  BY <1>2 DEF Rewritten
<1> QED
  BY <1>2, <1>4, <1>5, <1>6 DEF w

LEMMA EntryMade ==
  ASSUME NEW i \in Inums, NEW d \in Inums, i # d, NEW s, NEW e, Working(s, e, i, d),
         s.disk[d].type = "dir", Fits(s, d, i), NEW n, NEW e2 \in [Inums -> Int],
         \A j \in Inums : e2[j] + Is(i, j) + (IF s.disk[i].type = "dir" THEN Is(d, j) ELSE 0)
                            <= e[j]
  PROVE  LET r == Dirlink(s, d, n, i)
         IN  /\ r.ok \in BOOLEAN /\ r.s.disk[i].nlink = s.disk[i].nlink
             /\ r.ok => Working(r.s, e2, i, d)
             /\ ~r.ok => Working(r.s, e, i, d)
<1> DEFINE r == Dirlink(s, d, n, i)
<1>1. DiskOK(s, e) /\ Sound(s) /\ BlocksOK(s) /\ s.valid[d]
  BY DEF Working, DiskOK
<1>2. Linked(s, r, d, n, i)
  BY <1>1, DirlinkIs
<1> HIDE DEF r
<1>3. /\ Sound(r.s) /\ BlocksOK(r.s) /\ Rewritten(s, r.s, d) /\ SameLinks(s, r.s)
      /\ r.ok \in BOOLEAN /\ (~r.ok => r.s.dir = s.dir)
  BY <1>2 DEF Linked
<1>4. ASSUME r.ok
      PROVE  Working(r.s, e2, i, d)
  <2>1. r.s.dir = NewEntry(s.dir, d, n, i) /\ (n \in Names => s.dir[d].ents[n] = 0)
    BY <1>2, <1>4 DEF Linked
  <2>2. DiskOK(r.s, e2)
    BY <1>1, <1>3, <2>1, EntryInOK
  <2>3. \A j \in Inums : j # d => r.s.dir[j] = s.dir[j]
    <3>1. OneEntry(s.dir, d, n, i, NewEntry(s.dir, d, n, i))
      BY <1>1, NewEntryIs
    <3> QED
      BY <2>1, <3>1 DEF OneEntry
  <2> QED
    BY <1>3, <2>2, <2>3, WorkOn
<1>5. ASSUME ~r.ok
      PROVE  Working(r.s, e, i, d)
  BY <1>3, <1>5, WorkContents
<1>6. r.s.disk[i].nlink = s.disk[i].nlink
  BY <1>3 DEF SameLinks
<1> QED
  BY <1>3, <1>4, <1>5, <1>6 DEF r

(* What create() makes of the pair, and what it undoes.                    *)
Made(s, i, d, n, isDir) ==
    LET s1 == SetNlink(s, i, 1)
        w == IF isDir THEN MakeDots(s1, i, d) ELSE [ok |-> TRUE, s |-> s1]
    IN  IF w.ok THEN Dirlink(w.s, d, n, i) ELSE w

LEMMA SecondLink ==
  ASSUME NEW i \in Inums, NEW d \in Inums, NEW t, NEW e \in [Inums -> Int], NEW e1,
         Working(t, e1, i, d), \A j \in Inums : e1[j] \in Int /\ e[j] = e1[j] + Is(d, j)
  PROVE  Working(MoreLinks(t, d), e, i, d)
<1>1. t.valid[d] /\ DiskOK(t, e1)
  BY DEF Working
<1>2. t.mem[d] = t.disk[d] /\ t.disk[d].nlink \in Nat
  BY <1>1 DEF DiskOK, Sound, Cached, Typed, Dinode
<1>3. e[d] + t.disk[d].nlink <= e1[d] + (t.disk[d].nlink + 1) /\ \A j \in Inums : j # d => e[j] <= e1[j]
  BY <1>2 DEF Is
<1>4. t.disk[d].nlink + 1 \in Nat
  BY <1>2
<1>5. Working(SetNlink(t, d, t.disk[d].nlink + 1), e, i, d)
  BY <1>3, <1>4, WorkLinks
<1> QED
  BY <1>2, <1>5 DEF MoreLinks

LEMMA NewMade ==
  ASSUME NEW i \in Inums, NEW d \in Inums, NEW s, NEW e, Working(s, e, i, d), i # d,
         \A j \in Inums : e[j] \in Nat, s.disk[i].nlink = 0, s.dir[i] = NoEntries,
         s.disk[d].type = "dir", NEW n, NEW isDir, isDir <=> s.disk[i].type = "dir"
  PROVE  LET r == Made(s, i, d, n, isDir)
         IN  /\ r.ok => Working(IF isDir THEN MoreLinks(r.s, d) ELSE r.s, e, i, d)
             /\ ~r.ok => Working(SetNlink(r.s, i, 0), e, i, d)
<1> DEFINE s1 == SetNlink(s, i, 1)
           w == IF isDir THEN MakeDots(s1, i, d) ELSE [ok |-> TRUE, s |-> s1]
           r == IF w.ok THEN Dirlink(w.s, d, n, i) ELSE w
           e1 == With(e, i)
<1>1. Working(s1, e1, i, d) /\ s1.dir = s.dir /\ s1.disk[i].nlink = 1 /\ s1.disk[d] = s.disk[d]
  BY NewLinked
<1>2. /\ e1 \in [Inums -> Int]
      /\ \A j \in Inums : e1[j] \in Nat /\ e1[j] = e[j] + Is(i, j) /\ Is(i, j) \in Nat
                          /\ (j # i => e1[j] = e[j])
  BY WithIs
<1>3. /\ DiskOK(s, e) /\ e[i] >= 0 /\ s1.disk[i].type = s.disk[i].type
  BY <1>1 DEF Working, Reworked
<1> HIDE DEF s1, e1
<1>4. NamingIn(s.dir, i) = {}
  BY <1>3, NoLinks
<1>5. /\ Working(w.s, e1, i, d) /\ w.ok \in BOOLEAN /\ w.s.disk[d] = s.disk[d]
      /\ w.s.disk[i].nlink = 1 /\ w.s.disk[i].type = s.disk[i].type
      /\ w.ok => Fits(w.s, d, i)
  <2>1. CASE isDir
    <3>1. w = MakeDots(s1, i, d)
      BY <2>1
    <3> QED
      BY <1>1, <1>3, <1>4, <2>1, <3>1, DotsMade
  <2>2. CASE ~isDir
    <3>1. w.ok = TRUE /\ w.s = s1
      BY <2>2
    <3> QED
      BY <1>1, <1>3, <2>2, <3>1 DEF Fits
  <2> QED
    BY <2>1, <2>2
<1> HIDE DEF w
<1>6. ASSUME NEW e2 \in [Inums -> Int], w.ok,
             \A j \in Inums : e2[j] + Is(i, j) + (IF isDir THEN Is(d, j) ELSE 0) <= e1[j]
      PROVE  /\ r.ok \in BOOLEAN /\ r.s.disk[i].nlink = 1
             /\ r.ok => Working(r.s, e2, i, d)
             /\ ~r.ok => Working(r.s, e1, i, d)
  <2>1. r = Dirlink(w.s, d, n, i)
    BY <1>6
  <2>2. \A j \in Inums : e2[j] + Is(i, j) + (IF w.s.disk[i].type = "dir" THEN Is(d, j) ELSE 0)
                            <= e1[j]
    BY <1>5, <1>6
  <2>3. w.s.disk[d].type = "dir" /\ Fits(w.s, d, i)
    BY <1>5, <1>6
  <2> HIDE DEF r
  <2> QED
    BY <1>5, <2>1, <2>2, <2>3, EntryMade
<1>7. ~w.ok => r = w
  OBVIOUS
<1> HIDE DEF r
<1>8. ASSUME NEW t, Working(t, e1, i, d), t.disk[i].nlink = 1
      PROVE  Working(SetNlink(t, i, 0), e, i, d)
  <2>1. e \in [Inums -> Int] /\ \A j \in Inums : j # i => e[j] <= e1[j]
    BY <1>2, <1>3 DEF DiskOK
  <2>2. e[i] + t.disk[i].nlink <= e1[i] + 0
    BY <1>2, <1>8 DEF Is
  <2> QED
    BY <1>8, <2>1, <2>2, WorkLinks
<1>9. ASSUME isDir
      PROVE  /\ r.ok => Working(MoreLinks(r.s, d), e, i, d)
             /\ ~r.ok => Working(SetNlink(r.s, i, 0), e, i, d)
  <2> DEFINE e2 == [j \in Inums |-> e[j] - Is(d, j)]
  <2>1. e \in [Inums -> Int]
    BY <1>3 DEF DiskOK
  <2>2. e2 \in [Inums -> Int] /\ \A j \in Inums : e2[j] \in Int /\ e[j] = e2[j] + Is(d, j)
    BY <2>1 DEF Is
  <2> HIDE DEF e2
  <2>3. \A j \in Inums : e2[j] + Is(i, j) + Is(d, j) <= e1[j]
    BY <1>2, <2>2 DEF Is
  <2>4. CASE w.ok
    <3>1. /\ r.ok \in BOOLEAN /\ r.s.disk[i].nlink = 1
          /\ r.ok => Working(r.s, e2, i, d)
          /\ ~r.ok => Working(r.s, e1, i, d)
      BY <1>6, <1>9, <2>2, <2>3, <2>4
    <3> QED
      BY <1>8, <2>1, <2>2, <3>1, SecondLink
  <2>5. CASE ~w.ok
    BY <1>5, <1>7, <1>8, <2>5
  <2> QED
    BY <1>5, <2>4, <2>5
<1>10. ASSUME ~isDir
       PROVE  /\ r.ok => Working(r.s, e, i, d)
              /\ ~r.ok => Working(SetNlink(r.s, i, 0), e, i, d)
  <2>1. e \in [Inums -> Int]
    BY <1>3 DEF DiskOK
  <2>2. \A j \in Inums : e[j] + Is(i, j) + 0 <= e1[j]
    BY <1>2, <2>1
  <2>3. CASE w.ok
    <3>1. /\ r.ok \in BOOLEAN /\ r.s.disk[i].nlink = 1
          /\ r.ok => Working(r.s, e, i, d)
          /\ ~r.ok => Working(r.s, e1, i, d)
      BY <1>6, <1>10, <2>1, <2>2, <2>3
    <3> QED
      BY <1>8, <3>1
  <2>4. CASE ~w.ok
    BY <1>5, <1>7, <1>8, <2>4
  <2> QED
    BY <1>5, <2>3, <2>4
<1> QED
  BY <1>9, <1>10 DEF Made, r, w, s1

LEMMA CreateNewStays ==
  ASSUME FilesInv, TreeInv, NEW p \in Procs, CreateNew(p)
  PROVE  Stays
<1> DEFINE d == l[p].dp
           i == l[p].ip
           n == Head(l[p].path)
           isDir == l[p].call.type = "dir"
           s == Ilock(fs, i)
           r == Made(s, i, d, n, isDir)
           a == <<Todo("put", i), Todo("unlock", d), Todo("put", d)>>
           x == [l[p] EXCEPT !.dp = 0, !.agenda = <<Todo("put", d)>>]
<1>1. /\ pc[p] = "new" /\ l[p].agenda = <<>> /\ lk[i] = Nobody
      /\ UNCHANGED cwd /\ UNCHANGED fileVars
      /\ \/ /\ r.ok /\ fs' = (IF isDir THEN MoreLinks(r.s, d) ELSE r.s)
            /\ lk' = [lk EXCEPT ![i] = p, ![d] = Nobody]
            /\ l' = [l EXCEPT ![p] = x] /\ pc' = [pc EXCEPT ![p] = "made"]
         \/ ~r.ok /\ fs' = SetNlink(r.s, i, 0) /\ lk' = lk /\ Return(p, a)
  BY Zenon DEF CreateNew, Made, Ready, Set, Goto
<1>2. Pair(p) /\ Own(p)
  BY <1>1, PairIs
<1>3. /\ Working(s, Extra(l, pc), i, d) /\ Fetched(s, i) /\ s.disk = fs.disk /\ s.dir = fs.dir
  BY <1>2, PairFetched
<1> HIDE DEF s, r, x, a
<1>4. /\ d # i /\ s.disk[i].nlink = 0 /\ s.dir[i] = NoEntries /\ (isDir <=> s.disk[i].type = "dir")
      /\ s.disk[d].type = "dir" /\ i \in Inums /\ d \in Inums
  BY <1>1, <1>2, <1>3 DEF Own, PlaceOK, Pair
<1>5. PendingOf(l[p], pc[p]) = 0
  BY <1>1 DEF PendingOf
<1> HIDE DEF d, i, n, isDir
<1>6. Owing(p, 0, 0)
  <2>1. CASE l' = [l EXCEPT ![p] = x] /\ pc' = [pc EXCEPT ![p] = "made"]
    <3>1. PendingOf(x, "made") = 0
      BY DEF PendingOf
    <3> QED
      BY <1>5, <2>1, <3>1, OwingMoves
  <2>2. CASE Return(p, a)
    BY <1>5, <2>2, ReturnOwes
  <2> QED
    BY <1>1, <2>1, <2>2
<1>7. NotMore(Extra(l, pc), Extra(l', pc')) /\ \A j \in Inums : Extra(l, pc)[j] \in Nat
  BY <1>6, OwingNoMore DEF Owing
<1>8. /\ r.ok => Working(IF isDir THEN MoreLinks(r.s, d) ELSE r.s, Extra(l, pc), i, d)
      /\ ~r.ok => Working(SetNlink(r.s, i, 0), Extra(l, pc), i, d)
  BY <1>3, <1>4, <1>7, NewMade DEF r
<1>9. Working(fs', Extra(l, pc), i, d)
  BY <1>1, <1>8
<1>10. Working(fs', Extra(l', pc'), i, d)
  BY <1>4, <1>7, <1>9, WorkLess
<1>11. CASE Return(p, a) /\ lk' = lk
  BY <1>1, <1>2, <1>10, <1>11, BothReturn DEF a, i, d
<1>12. CASE /\ lk' = [lk EXCEPT ![i] = p, ![d] = Nobody]
            /\ l' = [l EXCEPT ![p] = x] /\ pc' = [pc EXCEPT ![p] = "made"]
  <2>1. KeepsIp(p, "made") /\ lk[l[p].ip] = Nobody
    BY <1>1, <1>12 DEF x, i, d, KeepsIp
  <2>2. Working(fs', Extra(l', pc'), l[p].ip, l[p].dp)
    BY <1>10 DEF i, d
  <2> QED
    BY <1>1, <1>2, <2>1, <2>2, BothGo
<1> QED
  BY <1>1, <1>11, <1>12

(* iupdate() of what the disk says already.                                *)
LEMMA UpdatedSame ==
  ASSUME NEW s, DOMAIN s = Fields, NEW g, NEW t, t = [s EXCEPT !.dir = g]
  PROVE  [t EXCEPT !.disk = t.disk] = t
BY DEF Fields

(* The entry goes, and with a directory the link of its "..".              *)
LEMMA EntryTaken ==
  ASSUME NEW i \in Inums, NEW d \in Inums, NEW s, NEW e, Working(s, e, i, d), i # d,
         \A j \in Inums : e[j] \in Nat, NEW n \in Names, s.dir[d].ents[n] = i,
         NEW isDir, isDir <=> s.disk[i].type = "dir"
  PROVE  LET t == Iupdate(WithEntry(s, d, n, 0), d)
         IN  Working(IF isDir THEN FewerLinks(t, d) ELSE t, With(e, i), i, d)
<1> DEFINE t == WithEntry(s, d, n, 0)
<1>1. DiskOK(s, e) /\ Sound(s) /\ BlocksOK(s) /\ s.valid[d]
  BY DEF Working, DiskOK
<1>2. 0 \in 0..NInodes
  BY InodeAssumption DEF InodeAssumption
<1>3. /\ Sound(t) /\ BlocksOK(t) /\ Rewritten(s, t, d) /\ t.dir = NewEntry(s.dir, d, n, 0)
  BY <1>1, <1>2, EntrySetSound
<1> HIDE DEF t
<1>4. t.valid[d] /\ t.mem[d] = t.disk[d] /\ t.disk \in [Inums -> Dinode]
  BY <1>1, <1>3 DEF Rewritten, Sound, Cached, Typed
<1>5. Iupdate(t, d) = t
  <2>1. DOMAIN t = Fields /\ [t.disk EXCEPT ![d] = t.mem[d]] = t.disk
    BY <1>3, <1>4 DEF Sound, Typed, Shape
  <2>2. Iupdate(t, d) = [t EXCEPT !.disk = [t.disk EXCEPT ![d] = t.mem[d]]]
    BY DEF Iupdate
  <2>3. PICK g : t = [s EXCEPT !.dir = g]
    BY DEF t, WithEntry
  <2>4. DOMAIN s = Fields
    BY <1>1 DEF Sound, Typed, Shape
  <2>5. [t EXCEPT !.disk = t.disk] = t
    BY <2>3, <2>4, UpdatedSame
  <2> QED
    BY <2>1, <2>2, <2>5
<1>6. SameLinks(s, t) /\ s.disk[d].type # "none"
  BY <1>1, <1>3, RewrittenLinks DEF Sound, Cached
<1>7. \A j \in Inums : j # d => t.dir[j] = s.dir[j]
  <2>1. OneEntry(s.dir, d, n, 0, NewEntry(s.dir, d, n, 0))
    BY <1>1, NewEntryIs
  <2> QED
    BY <1>3, <2>1 DEF OneEntry
<1>8. /\ With(e, i) \in [Inums -> Int]
      /\ \A j \in Inums : With(e, i)[j] \in Nat /\ With(e, i)[j] = e[j] + Is(i, j)
  BY WithIs
<1>9. ASSUME isDir
      PROVE  Working(FewerLinks(t, d), With(e, i), i, d)
  <2> DEFINE e1 == With(e, i)
             e2 == [j \in Inums |-> e1[j] + Is(d, j)]
  <2>1. /\ e1 \in [Inums -> Int] /\ e2 \in [Inums -> Int]
        /\ \A j \in Inums : e2[j] \in Nat /\ e1[j] \in Nat /\ e2[j] = e1[j] + Is(d, j)
    BY <1>8 DEF Is
  <2>2. \A j \in Inums : e2[j] <= e[j] + Is(i, j) + (IF s.disk[i].type = "dir" THEN Is(d, j) ELSE 0)
    BY <1>8, <1>9, <2>1 DEF Is
  <2> HIDE DEF e1, e2
  <2>3. DiskOK(t, e2)
    BY <1>1, <1>3, <1>6, <2>1, <2>2, EntryOutOK
  <2>4. Working(t, e2, i, d)
    BY <1>3, <1>7, <2>3, WorkOn
  <2>5. e2[d] > 0 /\ e2[d] >= 0 /\ e2[d] = e1[d] + 1
    BY <2>1 DEF Is
  <2>6. t.disk[d].nlink \in Nat \ {0}
    BY <2>3, <2>5, HasLinks
  <2>7. \A j \in Inums : j # d => e1[j] <= e2[j]
    BY <2>1 DEF Is
  <2>8. e1[d] + t.disk[d].nlink <= e2[d] + (t.disk[d].nlink - 1) /\ t.disk[d].nlink - 1 \in Nat
    BY <2>1, <2>5, <2>6
  <2>9. Working(SetNlink(t, d, t.disk[d].nlink - 1), e1, i, d)
    BY <2>1, <2>4, <2>7, <2>8, WorkLinks
  <2> QED
    BY <1>4, <2>9 DEF FewerLinks, e1
<1>10. ASSUME ~isDir
       PROVE  Working(t, With(e, i), i, d)
  <2>1. \A j \in Inums : With(e, i)[j] <= e[j] + Is(i, j)
                           + (IF s.disk[i].type = "dir" THEN Is(d, j) ELSE 0)
    BY <1>8, <1>10 DEF Is
  <2>2. DiskOK(t, With(e, i))
    BY <1>1, <1>3, <1>6, <1>8, <2>1, EntryOutOK
  <2> QED
    BY <1>3, <1>7, <2>2, WorkOn
<1> QED
  BY <1>5, <1>9, <1>10 DEF t

LEMMA UnlinkChildStays ==
  ASSUME FilesInv, TreeInv, NEW p \in Procs, UnlinkChild(p)
  PROVE  Stays
<1> DEFINE d == l[p].dp
           i == l[p].ip
           n == Head(l[p].path)
           s == Ilock(fs, i)
           isDir == s.mem[i].type = "dir"
           e == IF isDir THEN IsDirEmpty(s, i) ELSE [empty |-> TRUE, ok |-> TRUE, s |-> s]
           t0 == Iupdate(WithEntry(e.s, d, n, 0), d)
           t == Iupdate(WithEntry(s, d, n, 0), d)
           a == <<Todo("put", i), Todo("unlock", d), Todo("put", d)>>
<1>8. /\ Ready(p, "unlinkChild") /\ lk[i] = Nobody
      /\ UNCHANGED cwd /\ UNCHANGED fileVars
      /\ IF ~e.empty THEN fs' = s /\ lk' = lk /\ Return(p, a)
         ELSE fs' = (IF isDir THEN FewerLinks(t0, d) ELSE t0) /\ KeepsIp(p, "unlinkLast")
  BY Zenon DEF UnlinkChild, WithEntry, Set, Goto, KeepsIp
<1>9. l[p].agenda = <<>> /\ pc[p] = "unlinkChild" /\ i \in Inums /\ fs.disk[i].type # "none"
  <2>1. l[p].agenda = <<>> /\ pc[p] = "unlinkChild"
    BY <1>8 DEF Ready
  <2> QED
    BY <2>1, ReadyIs, ReadyUses DEF At, HasBoth
<1>10. e.s = s
  <2>1. ReadAll(s, i) = [ok |-> TRUE, s |-> s]
    BY <1>9, LockReads
  <2> QED
    BY <2>1 DEF IsDirEmpty
<1> HIDE DEF e, s
<1>1. /\ pc[p] = "unlinkChild" /\ l[p].agenda = <<>> /\ lk[i] = Nobody
      /\ UNCHANGED cwd /\ UNCHANGED fileVars
      /\ \/ fs' = s /\ lk' = lk /\ Return(p, a)
         \/ fs' = (IF isDir THEN FewerLinks(t, d) ELSE t) /\ KeepsIp(p, "unlinkLast")
  <2> HIDE DEF a, i, d, n, isDir
  <2> QED
    BY <1>8, <1>9, <1>10
<1> USE DEF s
<1>2. Pair(p) /\ Own(p)
  BY <1>1, PairIs
<1>3. /\ Working(s, Extra(l, pc), i, d) /\ Fetched(s, i) /\ s.disk = fs.disk /\ s.dir = fs.dir
  BY <1>2, PairFetched
<1> HIDE DEF s, t, a
<1>4. /\ n \in Names /\ s.dir[d].ents[n] = i /\ (isDir <=> s.disk[i].type = "dir")
      /\ i \in Inums /\ d \in Inums /\ i # d
  BY <1>1, <1>2, <1>3 DEF Own, PlaceOK, Pair, Fetched
<1>5. PendingOf(l[p], pc[p]) = 0
  BY <1>1 DEF PendingOf
<1> HIDE DEF d, i, n, isDir
<1>6. CASE fs' = s /\ lk' = lk /\ Return(p, a)
  <2>1. Owing(p, 0, 0)
    BY <1>5, <1>6, ReturnOwes
  <2>2. NotMore(Extra(l, pc), Extra(l', pc'))
    BY <2>1, OwingNoMore
  <2>3. Working(fs', Extra(l', pc'), i, d)
    BY <1>3, <1>4, <1>6, <2>2, WorkLess
  <2> QED
    BY <1>1, <1>2, <1>6, <2>3, BothReturn DEF a, i, d
<1>7. CASE fs' = (IF isDir THEN FewerLinks(t, d) ELSE t) /\ KeepsIp(p, "unlinkLast")
  <2> DEFINE x == [l[p] EXCEPT !.dp = 0, !.agenda = <<Todo("put", d)>>]
  <2>1. l' = [l EXCEPT ![p] = x] /\ pc' = [pc EXCEPT ![p] = "unlinkLast"]
    BY <1>7 DEF KeepsIp, d
  <2>2. x.ip = i
    BY <1>2 DEF Pair, Locals, i
  <2> HIDE DEF x
  <2>3. Owing(p, 0, i)
    <3>1. PendingOf(x, "unlinkLast") = i
      BY <2>2 DEF PendingOf
    <3> QED
      BY <1>5, <2>1, <3>1, OwingMoves
  <2>4. \A j \in Inums : Extra(l, pc)[j] \in Nat
    BY <2>3 DEF Owing
  <2>5. NotMore(With(Extra(l, pc), i), Extra(l', pc'))
    <3>1. ASSUME NEW j \in Inums PROVE Extra(l', pc')[j] <= With(Extra(l, pc), i)[j]
      <4>1. With(Extra(l, pc), i)[j] = Extra(l, pc)[j] + Is(i, j)
        BY <1>4, <2>4, WithIs
      <4>2. /\ Extra(l, pc)[j] \in Nat /\ Extra(l', pc')[j] \in Nat /\ Is(i, j) \in Nat
            /\ Extra(l', pc')[j] + Is(0, j) = Extra(l, pc)[j] + Is(i, j) /\ Is(0, j) = 0
        BY <2>3 DEF Owing
      <4> DEFINE u1 == Extra(l, pc)[j]
                 u2 == Extra(l', pc')[j]
                 v == Is(i, j)
      <4> HIDE DEF u1, u2, v
      <4>3. u2 <= u1 + v
        BY <4>2 DEF u1, u2, v
      <4> QED
        BY <4>1, <4>3 DEF u1, u2, v
    <3> QED
      BY <2>3, <3>1 DEF NotMore, Owing
  <2>6. Working(fs', With(Extra(l, pc), i), i, d)
    BY <1>3, <1>4, <1>7, <2>4, EntryTaken DEF t
  <2>7. Working(fs', Extra(l', pc'), i, d)
    BY <1>4, <2>5, <2>6, WorkLess
  <2>8. "unlinkLast" \in {"made", "unlinkLast"}
    OBVIOUS
  <2> QED
    BY <1>1, <1>2, <1>7, <2>7, <2>8, BothGo DEF i, d
<1> QED
  BY <1>1, <1>6, <1>7

-----------------------------------------------------------------------------
(* The start, a crash, and every step                                      *)

(* A disk on which nothing is pending but the root.                        *)
InOrder(s) ==
    /\ s.disk \in [Inums -> Dinode] /\ s.used \in SUBSET Blocks
    /\ BlocksOK(s) /\ FreeOK(s) /\ LeafOK(s) /\ OneName(s) /\ Acyclic(s)
    /\ s.disk[ROOTINO].type # "none"
    /\ \A i \in Inums : s.disk[i].nlink >= Named(s.dir, i) + Is(ROOTINO, i)

FreshTree == Fresh /\ InOrder(fs)

LEMMA FreshTreeInv == FreshTree => TreeInv
<1> SUFFICES ASSUME FreshTree PROVE TreeInv
  OBVIOUS
<1>1. PICK disk, used : \E dir \in [Inums -> Directory] : fs = References(Booted(disk, used, dir))
  BY DEF FreshTree, Fresh
<1>2. PICK dir \in [Inums -> Directory] : fs = References(Booted(disk, used, dir))
  BY <1>1
<1>3. /\ fs.mem = [i \in Inums |-> FreeInode] /\ fs.valid = [i \in Inums |-> FALSE]
  BY <1>2 DEF References, Booted
<1>4. FilesInv /\ InOrder(fs)
  BY FreshFiles DEF FreshTree
<1>5. Sound(fs)
  BY <1>3, <1>4, FreeInodeTyped DEF Sound, Typed, Cached, InOrder, FilesInv, FilesTypeOK
<1>6. /\ lk = [i \in Inums |-> Nobody] /\ ft = [f \in FileIds |-> FreeFile]
      /\ cwd = [p \in Procs |-> ROOTINO] /\ pc = [p \in Procs |-> "idle"]
      /\ l = [p \in Procs |-> Local0]
  BY DEF FreshTree, Fresh
<1>7. /\ Local0.agenda = <<>> /\ Local0.cur = 0 /\ Local0.ip = 0 /\ Local0.dp = 0
      /\ FreeFile.type = "none" /\ \A i \in Inums : i # 0
  BY DEF Local0, FreeFile, Inums
<1>8. \A i \in Inums : Extra(l, pc)[i] = Is(ROOTINO, i)
  <2>1. \A i \in Inums : PendingBy(l, pc, i) = {}
    BY <1>6, <1>7 DEF PendingBy, PendingOf
  <2> QED
    BY <2>1, FS_EmptySet DEF Extra, Is
<1>9. DiskOK(fs, Extra(l, pc))
  <2>1. Extra(l, pc) \in [Inums -> Int]
    BY <1>8 DEF Extra, Is
  <2>2. Covers(fs, Extra(l, pc))
    BY <1>4, <1>8 DEF InOrder, Covers, Named
  <2> QED
    BY <1>4, <1>5, <2>1, <2>2 DEF DiskOK, InOrder
<1>10. LockedOK /\ OpenOK
  BY <1>6, <1>7 DEF LockedOK, OpenOK
<1>11. ASSUME NEW p \in Procs PROVE Own(p) /\ Alone(p)
  <2>1. l[p] = Local0 /\ pc[p] = "idle" /\ cwd[p] = ROOTINO
    BY <1>6
  <2>2. \A i \in Inums : ~Locks(l[p], pc[p], i)
    BY <1>7, <2>1, OnePutIs DEF Locks
  <2>3. \A i \in Inums : Uses(l[p], cwd[p], pc[p], i) => fs.disk[i].type # "none"
    BY <1>4, <1>7, <2>1 DEF Uses, InOrder
  <2>4. PlaceOK(fs, l[p], cwd[p], pc[p]) /\ UnlocksOnce(l[p], pc[p]) /\ Truncates(fs, l[p])
        /\ Writes(ft, ofile[p], l[p], pc[p])
    BY <1>7, <2>1 DEF PlaceOK, HasDp, HasBoth, UnlocksOnce, Truncates, Writes
  <2> QED
    BY <2>1, <2>2, <2>3, <2>4 DEF Own, Alone
<1> QED
  BY <1>9, <1>10, <1>11 DEF TreeInv

LEMMA TreeInOrder ==
  ASSUME NEW t, TreeOK(t), NEW s, s.disk = t.disk, s.used = t.used, s.dir = t.dir
  PROVE  InOrder(s)
<1>1. /\ BlocksOK(s) /\ FreeOK(s) /\ LeafOK(s) /\ OneName(s)
  BY DEF TreeOK, BlocksOK, FreeOK, LeafOK, OneName
<1>2. Acyclic(s)
  <2>1. PICK rank \in [Inums -> 0..NInodes] : Below(t, rank)
    BY DEF TreeOK
  <2>2. rank \in [Inums -> Nat] /\ Below(s, rank)
    BY <2>1, InodeAssumption DEF InodeAssumption, Below
  <2> QED
    BY <2>2 DEF Acyclic
<1>3. \A i \in Inums : s.disk[i].nlink >= Named(s.dir, i) + Is(ROOTINO, i)
  BY DEF TreeOK, Named, Is
<1>4. s.disk \in [Inums -> Dinode] /\ s.used \in SUBSET Blocks /\ s.disk[ROOTINO].type # "none"
  BY DEF TreeOK
<1> QED
  BY <1>1, <1>2, <1>3, <1>4 DEF InOrder

LEMMA ReferencesIs ==
  ASSUME NEW disk, NEW used, NEW dir
  PROVE  LET s == References(Booted(disk, used, dir))
         IN  s.disk = disk /\ s.used = used /\ s.dir = dir
BY DEF References, Booted

LEMMA TreeInvInit == Init => TreeInv
<1> SUFFICES ASSUME Init PROVE FreshTree
  BY FreshTreeInv
<1>1. Fresh
  BY FileSysAssumption DEF FileSysAssumption, TreeOK, Init, Fresh
<1>2. PICK t \in InitTrees : fs = References(Booted(t.disk, t.used, t.dir))
  BY DEF Init
<1>3. TreeOK(t)
  BY FileSysAssumption DEF FileSysAssumption
<1>4. fs.disk = t.disk /\ fs.used = t.used /\ fs.dir = t.dir
  BY <1>2, ReferencesIs
<1> QED
  BY <1>1, <1>3, <1>4, TreeInOrder DEF FreshTree

LEMMA CrashStays ==
  ASSUME FilesInv, TreeInv, Crash
  PROVE  TreeInv'
<1>1. fs.dir \in [Inums -> Directory]
  BY DEF FilesInv, FilesTypeOK, Shape
<1>2. Fresh'
  BY <1>1 DEF Crash, Boot, Fresh, References, Booted
<1>3. fs'.disk = fs.disk /\ fs'.used = fs.used /\ fs'.dir = fs.dir
  BY ReferencesIs DEF Crash, Boot
<1>4. DiskOK(fs, Extra(l, pc))
  BY DEF TreeInv
<1>5. \A i \in Inums : Extra(l, pc)[i] = Is(ROOTINO, i)
  <2>1. ASSUME NEW p \in Procs PROVE PendingOf(l[p], pc[p]) = 0
    <3>1. pc[p] \in {"idle", "dead"}
      BY DEF Crash, InKernel
    <3> QED
      BY <3>1 DEF PendingOf
  <2>2. \A i \in Inums : PendingBy(l, pc, i) = {}
    BY <2>1 DEF PendingBy, Inums
  <2> QED
    BY <2>2, FS_EmptySet DEF Extra, Is
<1>6. ROOTINO \in Inums
  BY InodeAssumption DEF InodeAssumption, ROOTINO, Inums
<1>7. fs.disk[ROOTINO].type # "none"
  BY <1>4, <1>5, <1>6, HasLinks DEF Is
<1>8. InOrder(fs')
  <2>1. /\ BlocksOK(fs') /\ FreeOK(fs') /\ LeafOK(fs') /\ OneName(fs') /\ Acyclic(fs')
    <3>1. BlocksOK(fs')
      BY <1>3, <1>4 DEF DiskOK, BlocksOK
    <3>2. FreeOK(fs') /\ LeafOK(fs') /\ OneName(fs')
      BY <1>3, <1>4 DEF DiskOK, FreeOK, LeafOK, OneName
    <3>3. Acyclic(fs')
      <4>1. Acyclic(fs) /\ NoMoreDirs(fs, fs')
        BY <1>3, <1>4 DEF DiskOK, NoMoreDirs
      <4> QED
        BY <4>1, AcyclicStays
    <3> QED
      BY <3>1, <3>2, <3>3
  <2>2. \A i \in Inums : fs'.disk[i].nlink >= Named(fs'.dir, i) + Is(ROOTINO, i)
    BY <1>3, <1>4, <1>5 DEF DiskOK, Covers, Named
  <2> QED
    BY <1>3, <1>4, <1>7, <2>1, <2>2 DEF InOrder, DiskOK, Sound, Typed
<1>9. FreshTree'
  BY <1>2, <1>8 DEF FreshTree
<1>10. FreshTree' => TreeInv'
  BY FreshTreeInv, PTL
<1> QED
  BY <1>9, <1>10

LEMMA TruncUnused ==
  ASSUME FilesInv, TreeInv, NEW p \in Procs, PutTrunc(p)
  PROVE  UnusedFreed
<1> DEFINE i == Head(l[p].agenda).i
<1>1. fs' = Freed(fs, i) /\ l[p].agenda # <<>> /\ Head(l[p].agenda).op = "trunc"
  BY TruncFrees
<1>2. /\ i \in Inums /\ fs.ref[i] = 1 /\ fs.disk[i].nlink = 0 /\ fs.valid[i]
      /\ OpenFiles(i) = {} /\ Residents(i) = {}
  BY <1>1, FreedIsGone DEF Gone
<1> HIDE DEF i
<1>3. DiskOK(fs, Extra(l, pc)) /\ Extra(l, pc)[i] >= 0 /\ Sound(fs) /\ BlocksOK(fs)
  BY <1>2, RootKnown DEF TreeInv, DiskOK
<1>4. Naming(i) = {}
  BY <1>2, <1>3, NoLinks DEF Naming
<1>5. fs'.disk = [fs.disk EXCEPT ![i] = FreeInode]
  BY <1>1, <1>2, <1>3, FreedSound
<1>6. \A j \in Inums : j # i => fs'.disk[j] = fs.disk[j]
  BY <1>3, <1>5 DEF Sound, Typed
<1> QED
  BY <1>2, <1>4, <1>6 DEF UnusedFreed

(* The files move as they must, so that the other half may say so.         *)
LEMMA TreeInvProc ==
  ASSUME FilesInv, FilesInv', TreeInv, UpIsKnown, NEW p \in Procs, ProcNext(p)
  PROVE  TreeInv' /\ UnusedFreed
<1>1. CASE PutTrunc(p)
  BY <1>1, PutTruncStays, TruncUnused
<1>2. ASSUME ~PutTrunc(p) PROVE Stays
  <2>1. CASE PathCall(p) \/ Walk(p) \/ WalkEnd(p)
    BY <2>1, PathCallStays, WalkStays, WalkEndStays
  <2>2. CASE Unlocking(p) \/ PutFree(p) \/ PutDrop(p)
    BY <2>2, UnlockingStays, PutFreeStays, PutDropStays
  <2>3. CASE CreateLookup(p) \/ CreateExists(p) \/ CreateNew(p)
    BY <2>3, CreateLookupStays, CreateExistsStays, CreateNewStays
  <2>4. CASE OpenExisting(p) \/ OpenFile(p) \/ MakeDone(p)
    BY <2>4, OpenExistingStays, OpenFileStays, MakeDoneStays
  <2>5. CASE UnlinkLookup(p) \/ UnlinkChild(p) \/ UnlinkLast(p)
    BY <2>5, UnlinkLookupStays, UnlinkChildStays, UnlinkLastStays
  <2>6. CASE LinkOld(p) \/ LinkEntry(p) \/ LinkBad(p)
    BY <2>6, LinkOldStays, LinkEntryStays, LinkBadStays
  <2>7. CASE Chdir(p) \/ ChdirDone(p) \/ Exec(p)
    BY <2>7, ChdirStays, ChdirDoneStays, ExecStays
  <2>8. CASE Close(p) \/ Dup(p) \/ Read(p) \/ Write(p) \/ WriteChunk(p) \/ PipeCall(p)
    BY <2>8, CloseStays, DupStays, ReadStays, WriteStays, WriteChunkStays, PipeCallStays
  <2>9. CASE Fork(p) \/ ExitCall(p) \/ ExitClose(p) \/ ExitCwd(p)
    BY <2>9, ForkStays, ExitCallStays, CloseStays, ExitCwdStays
  <2> QED
    BY <1>2, <2>1, <2>2, <2>3, <2>4, <2>5, <2>6, <2>7, <2>8, <2>9 DEF ProcNext
<1> QED
  BY <1>1, <1>2 DEF Stays, NoneFreed, UnusedFreed

LEMMA TreeInvSame ==
  ASSUME TreeInv, UNCHANGED vars
  PROVE  TreeInv'
<1>1. /\ fs' = fs /\ lk' = lk /\ ft' = ft /\ ofile' = ofile /\ cwd' = cwd /\ pc' = pc /\ l' = l
  BY DEF vars
<1>2. DiskOK(fs, Extra(l, pc))' /\ LockedOK' /\ OpenOK'
  BY <1>1 DEF TreeInv, LockedOK, OpenOK
<1>3. ASSUME NEW p \in Procs PROVE Own(p)' /\ Alone(p)'
  BY <1>1 DEF TreeInv, Own, Alone, OpenFiles
<1> QED
  BY <1>2, <1>3 DEF TreeInv

LEMMA TreeInvNext ==
  FilesInv /\ FilesInv' /\ TreeInv /\ UpIsKnown /\ [Next]_vars => TreeInv' /\ [UnusedFreed]_vars
<1> SUFFICES ASSUME FilesInv, FilesInv', TreeInv, UpIsKnown, [Next]_vars
             PROVE  TreeInv' /\ [UnusedFreed]_vars
  OBVIOUS
<1>1. CASE UNCHANGED vars
  BY <1>1, TreeInvSame
<1>2. CASE Crash
  <2>1. fs'.disk = fs.disk
    BY <1>2, ReferencesIs DEF Crash, Boot
  <2> QED
    BY <1>2, <2>1, CrashStays DEF UnusedFreed
<1>3. ASSUME NEW p \in Procs, ProcNext(p) PROVE TreeInv' /\ UnusedFreed
  BY <1>3, TreeInvProc
<1> QED
  BY <1>1, <1>2, <1>3 DEF Next, Finished

(* The disk, the inode table and the calls in flight belong together, as   *)
(* long as no lookup of ".." finds an inode that is gone.                  *)
THEOREM TreeInOrderAlways == Spec /\ []UpIsKnown => []TreeInv
<1>1. Spec => []FilesInv
  BY FilesAgree
<1> QED
  BY <1>1, TreeInvInit, TreeInvNext, PTL DEF Spec

-----------------------------------------------------------------------------
(* What follows                                                            *)

LEMMA ExtraIsNat == \A i \in Inums : Extra(l, pc)[i] \in Nat
<1>1. ASSUME NEW i \in Inums PROVE Extra(l, pc)[i] \in Nat
  <2>1. PendingBy(l, pc, i) \in SUBSET Procs
    BY DEF PendingBy
  <2>2. Cardinality(PendingBy(l, pc, i)) \in Nat
    BY <2>1, FileSysAssumption, FS_Subset, FS_CardinalityType DEF FileSysAssumption
  <2> QED
    BY <2>2 DEF Extra, Is
<1> QED
  BY <1>1

LEMMA TreeInvDisk == FilesInv /\ TreeInv => DiskConsistent
<1> SUFFICES ASSUME FilesInv, TreeInv PROVE DiskConsistent
  OBVIOUS
<1>1. DiskOK(fs, Extra(l, pc)) /\ Sound(fs)
  BY DEF TreeInv, DiskOK
<1>2. TypeOK
  BY <1>1 DEF TypeOK, Sound, Typed, FilesInv, FilesTypeOK, Shape, Files
<1>3. LinksCover
  <2>1. ASSUME NEW i \in Inums
        PROVE  fs.disk[i].nlink >= Cardinality(Naming(i)) + Cardinality(Children(i))
    <3>1. Extra(l, pc)[i] \in Nat
      BY ExtraIsNat
    <3>2. /\ fs.disk[i].nlink \in Nat /\ Named(fs.dir, i) \in Nat
          /\ fs.disk[i].nlink >= Named(fs.dir, i) + Extra(l, pc)[i]
      BY <1>1, LinksAreNat
    <3> DEFINE e == Extra(l, pc)[i]
    <3> HIDE DEF e
    <3>3. fs.disk[i].nlink >= Named(fs.dir, i)
      BY <3>1, <3>2 DEF e
    <3> QED
      BY <3>3 DEF Named, Naming, Children
  <2> QED
    BY <2>1 DEF LinksCover
<1>4. BlocksOwned /\ CacheAgrees
  BY <1>1 DEF DiskOK, BlocksOwned, CacheAgrees, Sound, Cached
<1> QED
  BY <1>2, <1>3, <1>4 DEF DiskConsistent

LEMMA TreeInvPanics == FilesInv /\ TreeInv => NoPanic
<1> SUFFICES ASSUME FilesInv, TreeInv PROVE NoPanic
  OBVIOUS
<1>1. \A i \in Inums : fs.valid[i] => fs.mem[i].type # "none"
  BY DEF TreeInv, DiskOK, Sound, Cached
<1>2. ASSUME NEW p \in Procs, Ready(p, "unlinkChild")
      PROVE  Ilock(fs, l[p].ip).mem[l[p].ip].nlink >= 1
  <2> DEFINE i == l[p].ip
             d == l[p].dp
             n == Head(l[p].path)
             s == Ilock(fs, i)
  <2>1. pc[p] = "unlinkChild" /\ l[p].agenda = <<>>
    BY <1>2 DEF Ready
  <2>2. Pair(p) /\ Own(p)
    BY <2>1, PairIs
  <2>3. n \in Names /\ fs.dir[d].ents[n] = i /\ i \in Inums /\ d \in Inums /\ i # 0
    BY <2>1, <2>2 DEF Own, PlaceOK, Pair, Inums
  <2>4. Fetched(s, i)
    BY <2>2, PairFetched
  <2> HIDE DEF i, d, n, s
  <2>5. fs.disk[i].nlink \in Nat \ {0}
    BY <2>3, EntryKnown
  <2>6. s.mem[i].nlink >= 1
    BY <2>4, <2>5 DEF Fetched
  <2> QED
    BY <2>6 DEF s, i
<1>3. ASSUME NEW p \in Procs, pc[p] \in {"create", "unlink", "linkEntry"}
      PROVE  fs.disk[l[p].dp].type = "dir"
  BY <1>3 DEF TreeInv, Own, PlaceOK, HasDp, HasBoth
<1>4. ASSUME NEW i \in Inums, fs.disk[i].type = "dir"
      PROVE  ReadAll(Ilock(fs, i), i).ok
  BY <1>4, LockReads
<1> QED
  BY <1>1, <1>2, <1>3, <1>4 DEF NoPanic

(* Who waits for a lock that somebody has.                                 *)
Climbs(p) == pc[p] \in {"new", "unlinkChild"} /\ l[p].agenda = <<>>

LEMMA HolderClimbs ==
  ASSUME FilesInv, TreeInv, NEW q \in Procs, NEW i \in Inums, lk[i] = q, WaitsFor(q) # 0,
         lk[WaitsFor(q)] # Nobody
  PROVE  Climbs(q) /\ l[q].dp = i
<1>1. Locks(l[q], pc[q], i)
  BY DEF FilesInv, ProcessOK
<1>2. l[q].agenda = <<>>
  BY FilesInvWontBlock DEF WaitsFor, PutWontBlock
<1>3. pc[q] \notin {"made", "unlinkLast"}
  BY <1>2 DEF WaitsFor
<1>4. ~ToUnlock(l[q].agenda, i)
  BY <1>2 DEF ToUnlock
<1> QED
  BY <1>1, <1>2, <1>3, <1>4 DEF Locks, Climbs

LEMMA ClimbsDown ==
  ASSUME FilesInv, TreeInv, NEW q \in Procs, Climbs(q), NEW r \in Procs, Climbs(r),
         lk[l[q].ip] = r, l[r].dp = l[q].ip, NEW rank \in [Inums -> Nat], Below(fs, rank)
  PROVE  rank[l[r].dp] < rank[l[q].dp]
<1>1. Pair(q) /\ Own(q) /\ Pair(r) /\ Own(r)
  BY PairIs DEF Climbs
<1>2. l[q].ip \in Inums /\ l[q].dp \in Inums /\ lk[l[q].dp] = q /\ fs.disk[l[q].ip].type = "dir"
      /\ l[q].ip # 0
  BY <1>1 DEF Pair, Inums
<1>3. pc[q] # "new"
  <2>1. SUFFICES ASSUME pc[q] = "new" PROVE FALSE
    OBVIOUS
  <2>2. Alone(q) /\ Using(r, l[q].ip)
    BY <1>1 DEF TreeInv, Pair
  <2>3. r = q
    BY <2>1, <2>2 DEF Alone, Using
  <2> QED
    BY <1>1, <2>1, <2>3 DEF Own, PlaceOK
<1>4. Head(l[q].path) \in Names /\ fs.dir[l[q].dp].ents[Head(l[q].path)] = l[q].ip
  BY <1>1, <1>3 DEF Climbs, Own, PlaceOK
<1> QED
  BY <1>2, <1>4 DEF Below

LEMMA WaitsInode ==
  ASSUME FilesInv, TreeInv, NEW p \in Procs, WaitsFor(p) # 0, lk[WaitsFor(p)] # Nobody
  PROVE  WaitsFor(p) \in Inums
<1>1. l[p].agenda = <<>>
  BY FilesInvWontBlock DEF WaitsFor, PutWontBlock
<1>2. WaitsFor(p) = (CASE pc[p] = "walk" -> IF l[p].path = <<>> THEN 0 ELSE l[p].cur
           [] pc[p] \in {"create", "unlink", "linkEntry"} -> l[p].dp
           [] pc[p] \in {"open", "exists", "new", "unlinkChild", "link", "linkBad",
                         "chdir", "exec"} -> l[p].ip
           [] pc[p] = "write" -> ft[l[p].f].ip
           [] OTHER -> 0)
  BY <1>1 DEF WaitsFor
<1>3. WaitsFor(p) \in {l[p].cur, l[p].ip, l[p].dp} \/ (pc[p] = "write" /\ WaitsFor(p) = ft[l[p].f].ip)
  BY <1>2
<1>4. CASE WaitsFor(p) \in {l[p].cur, l[p].ip, l[p].dp}
  BY <1>1, <1>4, ReadyIs
<1>5. CASE pc[p] = "write" /\ WaitsFor(p) = ft[l[p].f].ip
  <2>1. l[p].f # 0 /\ ft[l[p].f].type = "inode"
    BY <1>5 DEF TreeInv, Own, Writes
  <2>2. l[p].f \in FileIds
    BY <2>1, FileSysAssumption DEF FileSysAssumption, FilesInv, FilesTypeOK, Locals, FileIds
  <2> QED
    BY <1>5, <2>1, <2>2, FileInodes
<1> QED
  BY <1>3, <1>4, <1>5

LEMMA TreeInvLocks == FilesInv /\ TreeInv => NoCircularWait
<1> SUFFICES ASSUME FilesInv, TreeInv, NEW S \in SUBSET Procs, S # {},
                    \A p \in S : WaitsFor(p) # 0 /\ lk[WaitsFor(p)] \in S
             PROVE  FALSE
  BY DEF NoCircularWait
<1>1. Nobody \notin Procs /\ \A p \in S : p \in Procs /\ lk[WaitsFor(p)] # Nobody
  BY FileSysAssumption DEF FileSysAssumption
<1> DEFINE T == {lk[WaitsFor(p)] : p \in S}
<1>2. \A p \in S : WaitsFor(p) \in Inums
  BY <1>1, WaitsInode
<1>3. ASSUME NEW q \in T
      PROVE  /\ q \in S /\ q \in Procs /\ Climbs(q) /\ WaitsFor(q) = l[q].ip
             /\ l[q].dp \in Inums /\ l[q].ip \in Inums
  <2>1. PICK p \in S : q = lk[WaitsFor(p)]
    BY <1>3
  <2>2. q \in S /\ q \in Procs
    BY <2>1
  <2>3. Climbs(q)
    BY <1>1, <1>2, <2>1, <2>2, HolderClimbs
  <2>4. WaitsFor(q) = l[q].ip
    BY <2>3 DEF Climbs, WaitsFor
  <2>5. Pair(q)
    BY <2>2, <2>3, PairIs DEF Climbs
  <2> QED
    BY <2>2, <2>3, <2>4, <2>5 DEF Pair
<1>4. PICK rank \in [Inums -> Nat] : Below(fs, rank)
  BY DEF TreeInv, DiskOK, Acyclic
<1> DEFINE R == {rank[l[q].dp] : q \in T}
<1>5. R \subseteq Nat /\ R # {}
  BY <1>3
<1>6. Min(R) \in R /\ \A v \in R : Min(R) <= v
  BY <1>5, LeastOf
<1>7. PICK q \in T : rank[l[q].dp] = Min(R)
  BY <1>6
<1> DEFINE r == lk[l[q].ip]
<1>8. r \in T /\ r \in Procs /\ q \in Procs /\ Climbs(q) /\ Climbs(r) /\ l[r].dp \in Inums
  BY <1>3, <1>7
<1>9. l[r].dp = l[q].ip
  <2>1. r \in S /\ WaitsFor(r) # 0 /\ lk[WaitsFor(r)] # Nobody /\ l[q].ip \in Inums
    BY <1>1, <1>3, <1>7, <1>8
  <2> QED
    BY <1>8, <2>1, HolderClimbs
<1>10. rank[l[r].dp] < rank[l[q].dp]
  BY <1>4, <1>8, <1>9, ClimbsDown
<1>11. rank[l[r].dp] \in R /\ Min(R) \in Nat /\ rank[l[r].dp] \in Nat
  BY <1>5, <1>6, <1>8
<1> HIDE DEF R, T, r
<1> QED
  BY <1>6, <1>7, <1>10, <1>11

-----------------------------------------------------------------------------
(* Programs that never say ".."                                            *)

(* What is left of a path comes from a call, and only gets shorter.        *)
Plain(path) == \A k \in 1..Len(path) : path[k] # ".."
NoUps == \A c \in Calls : Plain(c.path.elems) /\ (c.op = "link" => Plain(c.new.elems))
PlainPaths == \A p \in Procs : Plain(l[p].path)
Follows(x, y) ==
    \/ y.path = x.path \/ y.path = <<>>
    \/ x.path # <<>> /\ y.path = Tail(x.path)
    \/ \E c \in Calls : y.path = c.path.elems \/ (c.op = "link" /\ y.path = c.new.elems)
PathFollows(p) == \E y : l' = [l EXCEPT ![p] = y] /\ Follows(l[p], y)

LEMMA LocalPath ==
  ASSUME FilesInv, NEW p \in Procs
  PROVE  /\ l[p] \in Locals /\ l \in [Procs -> Locals]
         /\ \A a : Owe(a).path = <<>> /\ Follows(l[p], Owe(a))
         /\ l' = l => PathFollows(p)
         /\ \A a : Set(p, Owe(a)) => PathFollows(p)
<1>1. l[p] \in Locals /\ l \in [Procs -> Locals]
  BY DEF FilesInv, FilesTypeOK
<1>2. \A a : Owe(a).path = <<>>
  BY DEF Owe, Local0
<1>3. l' = l => PathFollows(p)
  <2>1. Follows(l[p], l[p]) /\ l = [l EXCEPT ![p] = l[p]]
    BY <1>1 DEF Follows
  <2> QED
    BY <2>1 DEF PathFollows
<1> QED
  BY <1>1, <1>2, <1>3 DEF Follows, PathFollows, Set

(* The steps that change some other field of the call.                     *)
LEMMA SamePath ==
  ASSUME FilesInv, NEW p \in Procs, NEW y, Set(p, y), y.path = l[p].path
  PROVE  PathFollows(p)
BY DEF PathFollows, Follows, Set

LEMMA LookupFollows ==
  ASSUME FilesInv, NEW p \in Procs, PathCall(p) \/ Walk(p) \/ WalkEnd(p)
  PROVE  PathFollows(p)
<1> DEFINE Starts(c, i) == Set(p, [Local0 EXCEPT !.call = c, !.path = c.path.elems, !.cur = i,
                                                 !.parent = WantsParent(c)])
           Fails(a) == Set(p, [l[p] EXCEPT !.agenda = a, !.cur = 0, !.path = <<>>])
           Steps(i, a) == Set(p, [l[p] EXCEPT !.cur = i, !.path = Tail(l[p].path), !.agenda = a])
<1>1. l[p] \in Locals
  BY LocalPath
<1>2. ASSUME NEW c \in Calls, NEW i, Starts(c, i) PROVE PathFollows(p)
  <2>1. PICK y : Set(p, y) /\ y.path = c.path.elems
    <3>1. [Local0 EXCEPT !.call = c, !.path = c.path.elems, !.cur = i,
                         !.parent = WantsParent(c)].path = c.path.elems
      BY DEF Local0
    <3> QED
      BY <1>2, <3>1, Zenon
  <2> QED
    BY <2>1 DEF PathFollows, Follows, Set
<1>3. ASSUME NEW a, Fails(a) PROVE PathFollows(p)
  <2>1. PICK y : Set(p, y) /\ y.path = <<>>
    <3>1. [l[p] EXCEPT !.agenda = a, !.cur = 0, !.path = <<>>].path = <<>>
      BY <1>1 DEF Locals
    <3> QED
      BY <1>3, <3>1, Zenon
  <2> QED
    BY <2>1 DEF PathFollows, Follows, Set
<1>4. ASSUME NEW i, NEW a, l[p].path # <<>>, Steps(i, a) PROVE PathFollows(p)
  <2>1. PICK y : Set(p, y) /\ y.path = Tail(l[p].path)
    <3>1. [l[p] EXCEPT !.cur = i, !.path = Tail(l[p].path), !.agenda = a].path = Tail(l[p].path)
      BY <1>1 DEF Locals
    <3> QED
      BY <1>4, <3>1, Zenon
  <2> QED
    BY <1>4, <2>1 DEF PathFollows, Follows, Set
<1>5. NamexReturns(p) => PathFollows(p)
  <2>1. /\ [l[p] EXCEPT !.dp = l[p].cur, !.cur = 0].path = l[p].path
        /\ [l[p] EXCEPT !.ip = l[p].cur, !.cur = 0].path = l[p].path
    BY <1>1 DEF Locals
  <2> QED
    BY <2>1, SamePath DEF NamexReturns
<1>6. NamexFails(p) => (\E a : Set(p, Owe(a))) \/ \E a : Fails(a)
  BY Zenon DEF NamexFails, Return
<1>7. PathCall(p) => \E c \in Calls : \E i : Starts(c, i)
  BY Zenon DEF PathCall
<1>8. Walk(p) => NamexFails(p) \/ NamexReturns(p) \/ (l[p].path # <<>> /\ \E i, a : Steps(i, a))
  BY Zenon DEF Walk
<1>9. WalkEnd(p) => NamexFails(p) \/ NamexReturns(p)
  BY Zenon DEF WalkEnd
<1> HIDE DEF Starts, Fails, Steps
<1> QED
  BY <1>2, <1>3, <1>4, <1>5, <1>6, <1>7, <1>8, <1>9, LocalPath

LEMMA PutFollows ==
  ASSUME FilesInv, NEW p \in Procs, Unlocking(p) \/ PutFree(p) \/ PutTrunc(p) \/ PutDrop(p)
  PROVE  PathFollows(p)
<1>1. l[p] \in Locals
  BY LocalPath
<1>2. [l[p] EXCEPT !.agenda = Tail(l[p].agenda)].path = l[p].path
  BY <1>1 DEF Locals
<1>3. \A op : [l[p] EXCEPT !.agenda[1].op = op].path = l[p].path
  BY <1>1 DEF Locals
<1>4. Pop(p) => PathFollows(p)
  BY <1>2, SamePath DEF Pop
<1>5. \A op : Relabel(p, op) => PathFollows(p)
  BY <1>3, SamePath DEF Relabel
<1>6. Unlocking(p) \/ PutDrop(p) => Pop(p)
  BY Zenon DEF Unlocking, PutDrop
<1>7. PutFree(p) \/ PutTrunc(p) => \E op : Relabel(p, op)
  BY Zenon DEF PutFree, PutTrunc
<1> QED
  BY <1>4, <1>5, <1>6, <1>7

LEMMA CreateFollows ==
  ASSUME FilesInv, NEW p \in Procs,
         \/ CreateLookup(p) \/ CreateExists(p) \/ CreateNew(p)
         \/ OpenExisting(p) \/ OpenFile(p) \/ MakeDone(p)
  PROVE  PathFollows(p)
<1> DEFINE Exists(i, a) == Set(p, [l[p] EXCEPT !.ip = i, !.dp = 0, !.agenda = a])
           Finds(i) == Set(p, [l[p] EXCEPT !.ip = i])
           Leaves(a) == Set(p, [l[p] EXCEPT !.dp = 0, !.agenda = a])
<1>1. l[p] \in Locals
  BY LocalPath
<1>2. CASE \E a : Set(p, Owe(a))
  BY <1>2, LocalPath
<1>3. CASE l' = l
  BY <1>3, LocalPath
<1>4. ASSUME NEW i, NEW a, Exists(i, a)
      PROVE  PathFollows(p)
  <2>1. [l[p] EXCEPT !.ip = i, !.dp = 0, !.agenda = a].path = l[p].path
    BY <1>1 DEF Locals
  <2> QED
    BY <1>4, <2>1, SamePath
<1>5. ASSUME NEW i, Finds(i) PROVE PathFollows(p)
  <2>1. [l[p] EXCEPT !.ip = i].path = l[p].path
    BY <1>1 DEF Locals
  <2> QED
    BY <1>5, <2>1, SamePath
<1>6. ASSUME NEW a, Leaves(a) PROVE PathFollows(p)
  <2>1. [l[p] EXCEPT !.dp = 0, !.agenda = a].path = l[p].path
    BY <1>1 DEF Locals
  <2> QED
    BY <1>6, <2>1, SamePath
<1>7. CreateLookup(p) => \/ \E i, a : Exists(i, a)
                         \/ \E a : Set(p, Owe(a))
                         \/ \E i : Finds(i)
  BY Zenon DEF CreateLookup, Return
<1>8. CreateExists(p) \/ OpenExisting(p) \/ OpenFile(p) \/ MakeDone(p) =>
        l' = l \/ \E a : Set(p, Owe(a))
  BY Zenon DEF CreateExists, OpenExisting, OpenFile, MakeDone, Return
<1>9. CreateNew(p) => \/ \E a : Leaves(a)
                      \/ \E a : Set(p, Owe(a))
  BY Zenon DEF CreateNew, Return
<1> HIDE DEF Exists, Finds, Leaves
<1> QED
  BY <1>2, <1>3, <1>4, <1>5, <1>6, <1>7, <1>8, <1>9

LEMMA NameFollows ==
  ASSUME FilesInv, NEW p \in Procs,
         \/ UnlinkLookup(p) \/ UnlinkChild(p) \/ UnlinkLast(p)
         \/ LinkOld(p) \/ LinkEntry(p) \/ LinkBad(p)
  PROVE  PathFollows(p)
<1> DEFINE Finds(i) == Set(p, [l[p] EXCEPT !.ip = i])
           Leaves(a) == Set(p, [l[p] EXCEPT !.dp = 0, !.agenda = a])
           Again(i) == Set(p, [l[p] EXCEPT !.path = l[p].call.new.elems, !.parent = TRUE, !.cur = i])
<1>1. l[p] \in Locals /\ ProcessOK(p)
  BY LocalPath DEF FilesInv
<1>2. CASE \E a : Set(p, Owe(a))
  BY <1>2, LocalPath
<1>3. ASSUME NEW i, Finds(i) PROVE PathFollows(p)
  <2>1. [l[p] EXCEPT !.ip = i].path = l[p].path
    BY <1>1 DEF Locals
  <2> QED
    BY <1>3, <2>1, SamePath
<1>4. ASSUME NEW a, Leaves(a) PROVE PathFollows(p)
  <2>1. [l[p] EXCEPT !.dp = 0, !.agenda = a].path = l[p].path
    BY <1>1 DEF Locals
  <2> QED
    BY <1>4, <2>1, SamePath
<1>5. ASSUME NEW i, pc[p] = "link",
             Again(i)
      PROVE  PathFollows(p)
  <2>1. [l[p] EXCEPT !.path = l[p].call.new.elems, !.parent = TRUE, !.cur = i].path
          = l[p].call.new.elems
    BY <1>1 DEF Locals
  <2>2. l[p].call \in Calls /\ l[p].call.op = "link"
    BY <1>1, <1>5 DEF ProcessOK, At
  <2> QED
    BY <1>5, <2>1, <2>2 DEF PathFollows, Follows, Set
<1>6. UnlinkLookup(p) => (\E a : Set(p, Owe(a))) \/ \E i : Finds(i)
  BY Zenon DEF UnlinkLookup, Return
<1>7. UnlinkChild(p) \/ LinkEntry(p) =>
        (\E a : Set(p, Owe(a))) \/ \E a : Leaves(a)
  BY Zenon DEF UnlinkChild, LinkEntry, Return
<1>8. UnlinkLast(p) \/ LinkBad(p) => \E a : Set(p, Owe(a))
  BY Zenon DEF UnlinkLast, LinkBad, Return
<1>9. LinkOld(p) =>
        \/ \E a : Set(p, Owe(a))
        \/ /\ pc[p] = "link"
           /\ \E i : Again(i)
  BY Zenon DEF LinkOld, Return, Ready
<1> HIDE DEF Finds, Leaves, Again
<1> QED
  BY <1>2, <1>3, <1>4, <1>5, <1>6, <1>7, <1>8, <1>9

LEMMA FileFollows ==
  ASSUME FilesInv, NEW p \in Procs,
         \/ Chdir(p) \/ ChdirDone(p) \/ Exec(p)
         \/ Close(p) \/ Dup(p) \/ Read(p) \/ Write(p) \/ WriteChunk(p) \/ PipeCall(p)
         \/ Fork(p) \/ ExitCall(p) \/ ExitClose(p) \/ ExitCwd(p)
  PROVE  PathFollows(p)
<1> DEFINE Leaves(a) == Set(p, [l[p] EXCEPT !.agenda = a])
           Begins(f, n) == Set(p, [Local0 EXCEPT !.f = f, !.n = n])
           Less == Set(p, [l[p] EXCEPT !.n = l[p].n - 1])
<1>1. l[p] \in Locals
  BY LocalPath
<1>2. CASE \E a : Set(p, Owe(a))
  BY <1>2, LocalPath
<1>3. CASE l' = l
  BY <1>3, LocalPath
<1>4. ASSUME NEW a, Leaves(a) PROVE PathFollows(p)
  <2>1. [l[p] EXCEPT !.agenda = a].path = l[p].path
    BY <1>1 DEF Locals
  <2> QED
    BY <1>4, <2>1, SamePath
<1>5. ASSUME NEW f, NEW n, Begins(f, n) PROVE PathFollows(p)
  <2>1. PICK y : Set(p, y) /\ y.path = <<>>
    <3>1. [Local0 EXCEPT !.f = f, !.n = n].path = <<>>
      BY DEF Local0
    <3> QED
      BY <1>5, <3>1, Zenon
  <2> QED
    BY <2>1 DEF PathFollows, Follows, Set
<1>6. ASSUME Less PROVE PathFollows(p)
  <2>1. [l[p] EXCEPT !.n = l[p].n - 1].path = l[p].path
    BY <1>1 DEF Locals
  <2> QED
    BY <1>6, <2>1, SamePath
<1>7. Chdir(p) \/ ChdirDone(p) \/ Exec(p) =>
        (\E a : Set(p, Owe(a))) \/ \E a : Leaves(a)
  BY Zenon DEF Chdir, ChdirDone, Exec, Return
<1>8. Close(p) \/ ExitClose(p) \/ ExitCwd(p) => \E a : Set(p, Owe(a))
  BY Zenon DEF Close, ExitClose, ExitCwd, FileClose
<1>9. Dup(p) \/ Read(p) \/ PipeCall(p) \/ Fork(p) \/ ExitCall(p) => l' = l
  BY Zenon DEF Dup, Read, PipeCall, Fork, ExitCall
<1>10. Write(p) => \E f, n : Begins(f, n)
  BY Zenon DEF Write
<1>11. WriteChunk(p) => (\E a : Set(p, Owe(a))) \/ Less
  BY Zenon DEF WriteChunk, Return
<1> HIDE DEF Leaves, Begins, Less
<1> QED
  BY <1>2, <1>3, <1>4, <1>5, <1>6, <1>7, <1>8, <1>9, <1>10, <1>11

LEMMA PlainNext ==
  NoUps /\ FilesInv /\ PlainPaths /\ [Next]_vars => PlainPaths'
<1> SUFFICES ASSUME NoUps, FilesInv, PlainPaths, [Next]_vars PROVE PlainPaths'
  OBVIOUS
<1>1. CASE UNCHANGED vars
  BY <1>1 DEF vars, PlainPaths
<1>2. CASE Crash
  BY <1>2 DEF Crash, Boot, PlainPaths, Plain, Local0
<1>3. ASSUME NEW p \in Procs, ProcNext(p) PROVE PlainPaths'
  <2>1. PathFollows(p)
    BY <1>3, LookupFollows, PutFollows, CreateFollows, NameFollows, FileFollows DEF ProcNext
  <2>2. PICK y : l' = [l EXCEPT ![p] = y] /\ Follows(l[p], y)
    BY <2>1 DEF PathFollows
  <2>3. l[p].path \in Seq(PathNames) /\ l \in [Procs -> Locals]
    BY LocalPath DEF Locals
  <2>4. Plain(y.path)
    <3>1. CASE l[p].path # <<>> /\ y.path = Tail(l[p].path)
      <4>1. /\ Len(Tail(l[p].path)) = Len(l[p].path) - 1
            /\ \A k \in 1..Len(Tail(l[p].path)) : Tail(l[p].path)[k] = l[p].path[k + 1]
        BY <2>3, <3>1
      <4> QED
        BY <2>3, <3>1, <4>1 DEF PlainPaths, Plain
    <3>2. CASE y.path = l[p].path \/ y.path = <<>>
      BY <3>2 DEF PlainPaths, Plain
    <3> QED
      BY <2>2, <3>1, <3>2 DEF Follows, NoUps
  <2> QED
    BY <2>2, <2>3, <2>4 DEF PlainPaths
<1> QED
  BY <1>1, <1>2, <1>3 DEF Next, Finished

LEMMA PlainIsKnown == FilesInv /\ PlainPaths => UpIsKnown
<1> SUFFICES ASSUME FilesInv, PlainPaths, NEW p \in Procs, l[p].path # <<>>,
                    Head(l[p].path) = ".."
             PROVE  FALSE
  BY DEF UpIsKnown
<1>1. l[p].path \in Seq(PathNames)
  BY LocalPath DEF Locals
<1> QED
  BY <1>1 DEF PlainPaths, Plain

(* If no call names "..", no lookup of it goes wrong.                      *)
LEMMA KnownWithoutUps ==
  ASSUME NoUps
  PROVE  Spec => []UpIsKnown
<1>1. Init => PlainPaths
  BY DEF Init, PlainPaths, Plain, Local0
<1>2. FilesInv /\ PlainPaths /\ [Next]_vars => PlainPaths'
  BY PlainNext
<1> QED
  BY <1>1, <1>2, PlainIsKnown, FilesAgree, PTL DEF Spec

-----------------------------------------------------------------------------
(* What follows for the file system                                        *)

(* Whatever moment the power fails at between two operations, nlink covers *)
(* the entries and the children of each inode, no block has two owners or  *)
(* is both free and owned, and what the inode table holds is on disk.      *)
THEOREM DiskStaysConsistent == Spec /\ []UpIsKnown => []DiskConsistent
BY FilesAgree, TreeInOrderAlways, TreeInvDisk, PTL

(* ilock() finds no inode without a type, unlink() none without a link,    *)
(* and dirlookup() and dirlink() are given directories only.               *)
THEOREM FilesNeverPanic == Spec /\ []UpIsKnown => []NoPanic
BY FilesAgree, TreeInOrderAlways, TreeInvPanics, PTL

(* The locks of inodes are taken down the tree, so no calls wait for one   *)
(* another in a ring, and iput() takes its lock without waiting.           *)
THEOREM LocksStaySafe == Spec /\ []UpIsKnown => []LocksSafe
<1>1. FilesInv /\ TreeInv => LocksSafe
  BY TreeInvLocks, FilesInvWontBlock DEF LocksSafe
<1> QED
  BY <1>1, FilesAgree, TreeInOrderAlways, PTL

(* iput() frees an inode on disk only when nothing names it, has it open   *)
(* or stands in it, and nobody else holds a reference.                     *)
THEOREM OnlyUnusedFreed == Spec /\ []UpIsKnown => FreedUnused
<1>1. FilesInv /\ FilesInv' /\ TreeInv /\ UpIsKnown /\ [Next]_vars => [UnusedFreed]_vars
  BY TreeInvNext
<1> QED
  BY <1>1, FilesAgree, TreeInOrderAlways, PTL DEF Spec, FreedUnused

(* For programs that never name "..", all of it holds without a condition. *)
THEOREM SafeWithoutUps ==
  ASSUME NoUps
  PROVE  Spec => [](DiskConsistent /\ NoPanic /\ LocksSafe) /\ FreedUnused
BY KnownWithoutUps, DiskStaysConsistent, FilesNeverPanic, LocksStaySafe, OnlyUnusedFreed, PTL

=============================================================================
