----------------------------- MODULE CacheProofs -----------------------------
(* Proofs about the buffer cache over the disk driver (module BufCache):   *)
(* for any number of processes, buffers, blocks and descriptors, CacheInv  *)
(* is an invariant, and who holds a block sees what was last put into it.  *)
EXTENDS BufCache, FiniteSetTheorems, TLAPS

(* What the constants are assumed to be.                                   *)
Constants == VirtioAssumption /\ BufCacheAssumption

-----------------------------------------------------------------------------
(* Least and greatest elements, and sequences without duplicates.          *)

LEMMA LeastNat ==
  ASSUME NEW T, T \subseteq Nat, T # {}
  PROVE  \E x \in T : \A y \in T : x <= y
<1> DEFINE R == OpToRel(<, Nat)
<1>1. IsWellFoundedOn(R, Nat)
  BY NatLessThanWellFounded
<1>2. R = {r \in Nat \X Nat : r[1] < r[2]}
  BY DEF OpToRel
<1> HIDE DEF R
<1>3. \E x \in T : \A y \in T : ~(<<y, x>> \in R)
  BY <1>1, WFMin
<1>4. \A x, y \in Nat : y < x => <<y, x>> \in R
  BY <1>2
<1>5. PICK x \in T : \A y \in T : ~(<<y, x>> \in R)
  BY <1>3
<1>6. ASSUME NEW y \in T PROVE x <= y
  <2>1. x \in Nat /\ y \in Nat
    OBVIOUS
  <2>2. ~(y < x)
    BY <1>4, <1>5, <2>1, Zenon
  <2> QED
    BY <2>1, <2>2
<1> QED
  BY <1>6

LEMMA MinOf ==
  ASSUME NEW T, T \subseteq Nat, T # {}
  PROVE  Min(T) \in T
BY LeastNat DEF Min

LEMMA MaxOf ==
  ASSUME NEW N \in Nat, NEW T, T \subseteq 1..N, T # {}
  PROVE  Max(T) \in T
<1> DEFINE Below == {N - x : x \in T}
<1>1. Below \subseteq Nat /\ Below # {}
  <2>1. \A x \in T : N - x \in Nat
    OBVIOUS
  <2> QED
    BY <2>1
<1>2. PICK m \in Below : \A y \in Below : m <= y
  BY <1>1, LeastNat
<1>3. PICK x \in T : m = N - x
  BY <1>2
<1>4. ASSUME NEW y \in T PROVE x >= y
  <2>1. m <= N - y
    BY <1>2
  <2> QED
    BY <2>1, <1>3
<1> QED
  BY <1>4 DEF Max

LEMMA AppendOnce ==
  ASSUME NEW S, NEW s \in Seq(S), NEW x \in S, IsInjective(s), x \notin ToSet(s)
  PROVE  /\ Append(s, x) \in Seq(S) /\ IsInjective(Append(s, x))
         /\ ToSet(Append(s, x)) = ToSet(s) \cup {x}
<1> DEFINE t == Append(s, x)
<1>1. /\ t \in Seq(S) /\ Len(t) = Len(s) + 1 /\ DOMAIN t = 1..(Len(s) + 1)
      /\ DOMAIN s = 1..Len(s) /\ Len(s) \in Nat
      /\ t[Len(s) + 1] = x /\ \A n \in 1..Len(s) : t[n] = s[n]
  OBVIOUS
<1> HIDE DEF t
<1>2. \A n \in 1..Len(s) : s[n] # x
  BY <1>1 DEF ToSet
<1>3. \A m, n \in 1..Len(s) : s[m] = s[n] => m = n
  BY <1>1 DEF IsInjective
<1>4. ASSUME NEW m \in 1..(Len(s) + 1), NEW n \in 1..(Len(s) + 1), t[m] = t[n]
      PROVE  m = n
  BY <1>1, <1>2, <1>3, <1>4
<1>5. IsInjective(t)
  BY <1>1, <1>4 DEF IsInjective
<1>6. ToSet(t) \subseteq ToSet(s) \cup {x}
  BY <1>1 DEF ToSet
<1>7. ToSet(s) \cup {x} \subseteq ToSet(t)
  <2>1. \A n \in 1..Len(s) : n \in DOMAIN t
    BY <1>1
  <2>2. Len(s) + 1 \in DOMAIN t
    BY <1>1
  <2> QED
    BY <1>1, <2>1, <2>2 DEF ToSet
<1> QED
  BY <1>1, <1>5, <1>6, <1>7 DEF t

LEMMA TailOnce ==
  ASSUME NEW S, NEW s \in Seq(S), s # <<>>, IsInjective(s)
  PROVE  /\ Head(s) \in ToSet(s) /\ Head(s) \in S
         /\ Tail(s) \in Seq(S) /\ IsInjective(Tail(s))
         /\ ToSet(Tail(s)) = ToSet(s) \ {Head(s)}
<1> DEFINE t == Tail(s)
<1>1. /\ t \in Seq(S) /\ DOMAIN t = 1..(Len(s) - 1) /\ DOMAIN s = 1..Len(s)
      /\ Len(s) \in Nat /\ Len(s) >= 1 /\ Head(s) = s[1] /\ s[1] \in S
      /\ \A n \in 1..(Len(s) - 1) : t[n] = s[n + 1]
  OBVIOUS
<1> HIDE DEF t
<1>2. \A m, n \in 1..Len(s) : s[m] = s[n] => m = n
  BY <1>1 DEF IsInjective
<1>3. ASSUME NEW m \in 1..(Len(s) - 1), NEW n \in 1..(Len(s) - 1), t[m] = t[n]
      PROVE  m = n
  <2>1. m + 1 \in 1..Len(s) /\ n + 1 \in 1..Len(s) /\ s[m + 1] = s[n + 1]
    BY <1>1, <1>3
  <2> QED
    BY <1>2, <2>1
<1>4. IsInjective(t)
  BY <1>1, <1>3 DEF IsInjective
<1>5. ASSUME NEW y \in ToSet(t)
      PROVE  y \in ToSet(s) /\ y # s[1]
  <2>1. PICK n \in 1..(Len(s) - 1) : y = s[n + 1]
    BY <1>1 DEF ToSet
  <2>2. n + 1 \in 1..Len(s) /\ 1 \in 1..Len(s) /\ n + 1 # 1
    BY <1>1
  <2> QED
    BY <1>1, <1>2, <2>1, <2>2 DEF ToSet
<1>6. ASSUME NEW y \in ToSet(s), y # s[1]
      PROVE  y \in ToSet(t)
  <2>1. PICK n \in 1..Len(s) : y = s[n]
    BY <1>1 DEF ToSet
  <2>2. n - 1 \in 1..(Len(s) - 1) /\ (n - 1) + 1 = n
    BY <1>1, <1>6, <2>1
  <2>3. t[n - 1] = y
    BY <1>1, <2>1, <2>2
  <2> QED
    BY <1>1, <2>2, <2>3 DEF ToSet
<1>7. s[1] \in ToSet(s)
  BY <1>1 DEF ToSet
<1> QED
  BY <1>1, <1>4, <1>5, <1>6, <1>7 DEF t

LEMMA SetOfSeq ==
  ASSUME NEW S, NEW s \in Seq(S)
  PROVE  ToSet(s) \subseteq S /\ (s # <<>> => s[1] \in ToSet(s))
BY DEF ToSet

LEMMA Three ==
  ASSUME NEW x, NEW y, NEW z
  PROVE  ToSet(<<x, y, z>>) = {x, y, z} /\ <<x, y, z>>[1] = x /\ <<x, y, z>> # <<>>
BY DEF ToSet

LEMMA ToSetEmpty == ToSet(<<>>) = {}
BY DEF ToSet

-----------------------------------------------------------------------------
(* References: a buffer is unused just when nobody has or pins it.         *)

Users(f, b) == {p \in Procs : f[p] = b}

LEMMA UsersCount ==
  ASSUME Constants, NEW f, NEW b
  PROVE  /\ IsFiniteSet(Users(f, b)) /\ Cardinality(Users(f, b)) \in Nat
         /\ Cardinality(Users(f, b)) = 0 <=> Users(f, b) = {}
<1>1. IsFiniteSet(Procs) /\ Users(f, b) \in SUBSET Procs
  BY DEF Constants, VirtioAssumption, Users
<1>2. IsFiniteSet(Users(f, b))
  BY <1>1, FS_Subset
<1> QED
  BY <1>2, FS_CardinalityType, FS_EmptySet

(* A process comes to a buffer, or leaves it.                              *)
LEMMA UsersChange ==
  ASSUME Constants, NEW f, NEW p \in Procs, NEW b, f = [q \in Procs |-> f[q]], f[p] # b
  PROVE  LET g == [f EXCEPT ![p] = b] IN
         /\ Cardinality(Users(g, b)) = Cardinality(Users(f, b)) + 1
         /\ Cardinality(Users(g, f[p])) = Cardinality(Users(f, f[p])) - 1
         /\ \A c : c # b /\ c # f[p] => Users(g, c) = Users(f, c)
<1> DEFINE g == [f EXCEPT ![p] = b]
<1>1. Users(g, b) = Users(f, b) \cup {p} /\ p \notin Users(f, b)
  BY DEF Users
<1>2. Users(g, f[p]) = Users(f, f[p]) \ {p} /\ p \in Users(f, f[p])
  BY DEF Users
<1>3. \A c : c # b /\ c # f[p] => Users(g, c) = Users(f, c)
  BY DEF Users
<1> HIDE DEF g
<1>4. Cardinality(Users(g, b)) = Cardinality(Users(f, b)) + 1
  BY <1>1, UsersCount, FS_AddElement
<1>5. Cardinality(Users(g, f[p])) = Cardinality(Users(f, f[p])) - 1
  BY <1>2, UsersCount, FS_RemoveElement
<1> QED
  BY <1>3, <1>4, <1>5 DEF g

LEMMA RefsCount ==
  ASSUME Constants, TypeOK, OneBuffer, NEW b \in Bufs
  PROVE  /\ refcnt[b] = Cardinality(Users(buf, b)) + (IF b \in pinned THEN 1 ELSE 0)
         /\ b \in Unused <=> b \notin pinned /\ \A p \in Procs : buf[p] # b
<1>1. refcnt[b] = Cardinality(Users(buf, b)) + (IF b \in pinned THEN 1 ELSE 0)
  BY DEF OneBuffer, Users
<1>2. refcnt[b] = 0 <=> b \notin pinned /\ Users(buf, b) = {}
  BY <1>1, UsersCount
<1> QED
  BY <1>1, <1>2 DEF Unused, Users

(* The victim of bget() is a buffer without references.                    *)
LEMMA VictimUnused ==
  ASSUME Constants, TypeOK, Unused # {}
  PROVE  Victim \in Unused /\ Victim \in Bufs
<1> DEFINE T == {n \in Bufs : lru[n] \in Unused}
<1>1. PICK b \in Bufs : b \in Unused
  BY DEF Unused
<1>2. PICK n \in Bufs : lru[n] = b
  BY DEF TypeOK
<1>3. T # {} /\ T \subseteq 1..NBUF
  BY <1>1, <1>2 DEF Bufs
<1>4. Max(T) \in T
  BY <1>3, MaxOf DEF Constants, VirtioAssumption
<1> QED
  BY <1>4 DEF Victim, Unused

(* ToFront() keeps every buffer in the list.                               *)
LEMMA ToFrontKeeps ==
  ASSUME Constants, TypeOK, NEW b \in Bufs
  PROVE  /\ ToFront(b) \in [Bufs -> Bufs]
         /\ \A c \in Bufs : \E m \in Bufs : ToFront(b)[m] = c
<1> DEFINE n == CHOOSE m \in Bufs : lru[m] = b
<1>1. /\ NBUF \in Nat /\ lru \in [Bufs -> Bufs]
      /\ \A c \in Bufs : \E m \in Bufs : lru[m] = c
  BY DEF Constants, VirtioAssumption, TypeOK
<1>2. n \in Bufs /\ lru[n] = b
  BY <1>1
<1>3. ToFront(b) = [m \in Bufs |-> IF m = 1 THEN b
                                   ELSE IF m <= n THEN lru[m - 1] ELSE lru[m]]
  BY DEF ToFront
<1> HIDE DEF n
<1>4. ASSUME NEW m \in Bufs PROVE ToFront(b)[m] \in Bufs
  <2>1. m # 1 => m - 1 \in Bufs
    BY <1>1 DEF Bufs
  <2> QED
    BY <1>1, <1>3, <2>1
<1>5. ASSUME NEW c \in Bufs PROVE \E m \in Bufs : ToFront(b)[m] = c
  <2>1. PICK m \in Bufs : lru[m] = c
    BY <1>1
  <2>2. CASE m = n
    <3>1. 1 \in Bufs /\ b = c
      BY <1>1, <1>2, <2>1, <2>2 DEF Bufs
    <3>2. ToFront(b)[1] = c
      BY <1>3, <3>1
    <3> QED
      BY <3>1, <3>2
  <2>3. CASE m > n
    BY <1>2, <1>3, <2>1, <2>3 DEF Bufs
  <2>4. CASE m < n
    <3>1. m + 1 \in Bufs /\ m + 1 # 1 /\ m + 1 <= n /\ (m + 1) - 1 = m
      BY <1>1, <1>2, <2>4 DEF Bufs
    <3>2. ToFront(b)[m + 1] = c
      BY <1>3, <2>1, <3>1
    <3> QED
      BY <3>1, <3>2
  <2> QED
    BY <1>2, <2>2, <2>3, <2>4 DEF Bufs
<1>6. ToFront(b) = [m \in Bufs |-> ToFront(b)[m]]
  BY <1>3
<1> QED
  BY <1>4, <1>5, <1>6

(* alloc3_desc() takes three free descriptors.                             *)
LEMMA Lowest3Free ==
  ASSUME Constants, TypeOK, Cardinality(free) >= 3
  PROVE  /\ Lowest3 \in Seq(Descs) /\ Lowest3 # <<>>
         /\ Lowest3[1] \in free /\ Lowest3[1] \in ToSet(Lowest3)
         /\ ToSet(Lowest3) \subseteq free
<1> DEFINE i == Min(free)
           j == Min(free \ {i})
           k == Min(free \ {i, j})
<1>1. free \subseteq Nat /\ free \subseteq Descs
  BY DEF TypeOK, DriverTypeOK, Descs
<1>2. IsFiniteSet(free)
  <2>1. IsFiniteSet(0..(NUM - 1))
    BY FS_Interval DEF Constants, VirtioAssumption
  <2> QED
    BY <1>1, <2>1, FS_Subset DEF Descs
<1>3. free # {}
  BY <1>2, FS_EmptySet
<1>4. i \in free
  BY <1>1, <1>3, MinOf
<1> HIDE DEF i, j, k
<1>5. IsFiniteSet(free \ {i}) /\ Cardinality(free \ {i}) = Cardinality(free) - 1
  BY <1>2, <1>4, FS_RemoveElement
<1>6. free \ {i} # {}
  BY <1>2, <1>5, FS_EmptySet, FS_CardinalityType
<1>7. j \in free \ {i}
  BY <1>1, <1>6, MinOf DEF j
<1>8. Cardinality((free \ {i}) \ {j}) = Cardinality(free \ {i}) - 1
  BY <1>5, <1>7, FS_RemoveElement
<1>9. free \ {i, j} # {}
  <2>1. (free \ {i}) \ {j} = free \ {i, j}
    OBVIOUS
  <2>2. Cardinality((free \ {i}) \ {j}) # 0
    BY <1>2, <1>5, <1>8, FS_CardinalityType
  <2> QED
    BY <2>1, <2>2, FS_EmptySet
<1>10. k \in free \ {i, j}
  BY <1>1, <1>9, MinOf DEF k
<1>11. Lowest3 = <<i, j, k>>
  BY DEF Lowest3, i, j, k
<1> QED
  BY <1>1, <1>4, <1>7, <1>10, <1>11, Three

-----------------------------------------------------------------------------
(* Each part of CacheInv is kept by every step.  First the types.          *)

(* A request on its way is that of one process, which waits for it.        *)
Asks(p, h) ==
    /\ rw[p] = "wait" /\ chain[p][1] = h /\ h \in Descs
    /\ buf[p] \in Bufs /\ want[p] \in Blocks /\ pc[p] \in {"read", "write"}
    /\ info[h] = [buf |-> buf[p], blk |-> want[p], write |-> pc[p] = "write"]

LEMMA Requester ==
  ASSUME CacheInv, NEW h \in OnTheirWay
  PROVE  \E p \in Procs : Asks(p, h)
<1>1. h \in {chain[p][1] : p \in {q \in Procs : rw[q] = "wait"}}
  BY DEF CacheInv, RequestsAccounted
<1>2. PICK p \in Procs : rw[p] = "wait" /\ chain[p][1] = h
  BY <1>1
<1>3. pc[p] \in {"read", "write"} /\ buf[p] \in Bufs /\ want[p] \in Blocks
  BY <1>2 DEF CacheInv, CallInv, CallOK, Referring, PCs
<1>4. info[h] = [buf |-> buf[p], blk |-> want[p], write |-> pc[p] = "write"]
  BY <1>2 DEF CacheInv, AsksForHeld
<1>5. h \in Descs
  BY SetOfSeq DEF CacheInv, TypeOK, DriverTypeOK, OnTheirWay
<1> QED
  BY <1>2, <1>3, <1>4, <1>5 DEF Asks

LEMMA DriverTypes ==
  ASSUME Constants, CacheInv, Next
  PROVE  DriverTypeOK'
<1>0. TypeOK /\ CallInv /\ ChainInv /\ RequestsAccounted
  BY DEF CacheInv
<1> USE <1>0 DEF TypeOK, DriverTypeOK
<1>1. CASE UNCHANGED virtioVars /\ asleep' \in SUBSET Procs
  BY <1>1 DEF virtioVars
<1>2. ASSUME NEW p \in Procs, StartRw(p), UNCHANGED asleep
      PROVE  DriverTypeOK'
  BY <1>2 DEF StartRw, Goto, RwPlaces, deviceVars
<1>3. ASSUME NEW p \in Procs, Change(p)
      PROVE  DriverTypeOK'
  <2>1. UNCHANGED <<driverVars, asleep>> /\ data' = [data EXCEPT ![buf[p]] = 1 - @]
    BY <1>3 DEF Change
  <2>2. buf[p] \in Bufs
    BY <1>3 DEF Change, Step, CallInv, CallOK, Referring, PCs
  <2>3. data' \in [Bufs -> {0, 1}]
    <3>1. data[buf[p]] \in {0, 1}
      BY <2>2
    <3>2. 1 - data[buf[p]] \in {0, 1}
      BY <3>1
    <3> QED
      BY <2>1, <2>2, <3>2
  <2> QED
    BY <2>1, <2>3 DEF driverVars
<1>4. ASSUME NEW p \in Procs, BgetMiss(p)
      PROVE  DriverTypeOK'
  BY <1>4 DEF BgetMiss, driverVars, virtioVars, Step
<1>5. ASSUME NEW p \in Procs, Driver(p)
      PROVE  DriverTypeOK'
  <2>1. CASE pc[p] \in {"read", "write"} /\ Submit(p, buf[p], blockno[buf[p]], pc[p] = "write")
    <3>1. /\ Lowest3 \in Seq(Descs) /\ Lowest3[1] \in Descs /\ ToSet(Lowest3) \subseteq free
          /\ buf[p] \in Bufs /\ blockno[buf[p]] \in Blocks \cup {0}
      BY <2>1, Lowest3Free DEF Submit, CallInv, CallOK, Referring, PCs
    <3>2. [buf |-> buf[p], blk |-> blockno[buf[p]], write |-> pc[p] = "write"] \in Request
      BY <3>1 DEF Request
    <3> QED
      BY <2>1, <3>1, <3>2 DEF Submit, Goto, RwPlaces
  <2>2. CASE SubmitFull(p)
    BY <2>2 DEF SubmitFull, Goto, RwPlaces, deviceVars
  <2>3. CASE Finish(p)
    <3>1. /\ chain[p] \in Seq(Descs) /\ ToSet(chain[p]) \subseteq Descs
          /\ chain[p] # <<>> /\ chain[p][1] \in Descs
      BY <2>3, SetOfSeq DEF Finish, At, ChainInv
    <3>2. NoOp \in Request
      BY DEF NoOp, Request
    <3>3. <<>> \in Seq(Descs)
      OBVIOUS
    <3> QED
      BY <2>3, <3>1, <3>2, <3>3 DEF Finish, Goto, RwPlaces, deviceVars
  <2>4. CASE WaitAgain(p)
    BY <2>4 DEF WaitAgain, virtioVars
  <2> QED
    BY <1>5, <2>1, <2>2, <2>3, <2>4 DEF Driver
<1>6. CASE Hardware
  <2>1. CASE DeviceTake
    <3>1. Head(avail) \in Descs /\ Tail(avail) \in Seq(Descs)
      BY <2>1, TailOnce DEF DeviceTake, RequestsAccounted
    <3> QED
      BY <2>1, <3>1 DEF DeviceTake
  <2>2. CASE DeviceDone
    <3>1. PICK h \in busy : LET r == info[h] IN
            /\ busy' = busy \ {h} /\ used' = Append(used, h) /\ pending' = TRUE
            /\ content' = IF r.write THEN [content EXCEPT ![r.blk] = data[r.buf]] ELSE content
            /\ data' = IF r.write THEN data ELSE [data EXCEPT ![r.buf] = content[r.blk]]
            /\ UNCHANGED <<free, info, avail, inIntr, bdisk, rw, chain, asleep>>
      BY <2>2 DEF DeviceDone
    <3>2. h \in OnTheirWay
      BY DEF OnTheirWay
    <3>3. PICK p \in Procs : Asks(p, h)
      BY <3>2, Requester
    <3>5. info[h].blk \in Blocks /\ info[h].buf \in Bufs
      BY <3>3 DEF Asks
    <3>4. used' \in Seq(Descs)
      BY <3>1
    <3> QED
      BY <3>1, <3>4, <3>5
  <2>3. CASE IntrEnter
    BY <2>3 DEF IntrEnter
  <2>4. CASE IntrOne
    <3>1. Tail(used) \in Seq(Descs)
      BY <2>4, TailOnce DEF IntrOne, RequestsAccounted
    <3> QED
      BY <2>4, <3>1 DEF IntrOne
  <2>5. CASE IntrLeave
    BY <2>5 DEF IntrLeave, deviceVars
  <2> QED
    BY <1>6, <2>1, <2>2, <2>3, <2>4, <2>5 DEF Hardware, Device, Interrupt
<1>7. ASSUME NEW p \in Procs, Serve(p) \/ Use(p) \/ Kill(p)
      PROVE  DriverTypeOK'
  BY <1>7, <1>1, <1>2, <1>3, <1>4, <1>5
     DEF Serve, Use, Kill, Bread, BgetHit, AcquireSleep, AcquireSleepWaits, ReleaseSleep,
         Unref, ReadNeeded, ReadCached, ReadDone, Bpin, Bwrite, WriteDone
<1> QED
  BY <1>6, <1>7 DEF Next

LEMMA TypeNext ==
  ASSUME Constants, CacheInv, Next
  PROVE  TypeOK'
<1>0. TypeOK /\ CallInv /\ OneBuffer
  BY DEF CacheInv
<1> USE <1>0 DEF TypeOK, PCs
<1>1. DriverTypeOK'
  BY DriverTypes
<1> USE <1>1
<1>2. CASE UNCHANGED <<cacheVars, slk, callVars>>
  BY <1>2 DEF cacheVars, callVars
<1>3. ASSUME NEW p \in Procs, Bread(p)
      PROVE  TypeOK'
  BY <1>3 DEF Bread, Step, cacheVars
<1>4. ASSUME NEW p \in Procs, BgetHit(p)
      PROVE  TypeOK'
  BY <1>4 DEF BgetHit, Step, Cached
<1>5. ASSUME NEW p \in Procs, BgetMiss(p)
      PROVE  TypeOK'
  <2>1. Victim \in Bufs
    BY <1>5, VictimUnused DEF BgetMiss
  <2> QED
    BY <1>5, <2>1 DEF BgetMiss, Step
<1>6. ASSUME NEW p \in Procs, AcquireSleep(p) \/ AcquireSleepWaits(p) \/ ReleaseSleep(p)
      PROVE  TypeOK'
  BY <1>6 DEF AcquireSleep, AcquireSleepWaits, ReleaseSleep, Step, cacheVars, callVars
<1>7. ASSUME NEW p \in Procs, Unref(p)
      PROVE  TypeOK'
  <2>1. buf[p] \in Bufs
    BY <1>7 DEF Unref, Step, CallInv, CallOK, Referring
  <2>2. p \in Users(buf, buf[p])
    BY DEF Users
  <2>3. refcnt[buf[p]] - 1 \in Nat
    BY <2>1, <2>2, RefsCount, UsersCount
  <2>4. lru' \in [Bufs -> Bufs] /\ \A b \in Bufs : \E n \in Bufs : lru'[n] = b
    BY <1>7, <2>1, ToFrontKeeps DEF Unref
  <2> QED
    BY <1>7, <2>1, <2>3, <2>4 DEF Unref, Step
<1>8. ASSUME NEW p \in Procs, ReadNeeded(p) \/ ReadCached(p) \/ ReadDone(p) \/ Bwrite(p)
      PROVE  TypeOK'
  BY <1>8 DEF ReadNeeded, ReadCached, ReadDone, Bwrite, Step, cacheVars
<1>9. ASSUME NEW p \in Procs, Change(p)
      PROVE  TypeOK'
  <2>1. buf[p] \in Bufs /\ data[buf[p]] \in {0, 1}
    BY <1>9 DEF Change, Step, CallInv, CallOK, Referring, DriverTypeOK
  <2>2. 1 - data[buf[p]] \in {0, 1}
    BY <2>1
  <2> QED
    BY <1>9, <2>2 DEF Change, Step, cacheVars
<1>10. ASSUME NEW p \in Procs, Bpin(p)
       PROVE  TypeOK'
  BY <1>10 DEF Bpin, Step, CallInv, CallOK, Referring
<1>11. ASSUME NEW p \in Procs, WriteDone(p)
       PROVE  TypeOK'
  <2>1. buf[p] \in Bufs
    BY <1>11 DEF WriteDone, Step, CallInv, CallOK, Referring
  <2>2. p \in Users(buf, buf[p])
    BY DEF Users
  <2>3. refcnt[buf[p]] - 1 \in Nat
    BY <2>1, <2>2, RefsCount, UsersCount
  <2> QED
    BY <1>11, <2>1, <2>3 DEF WriteDone, Step
<1> QED
  BY <1>2, <1>3, <1>4, <1>5, <1>6, <1>7, <1>8, <1>9, <1>10, <1>11
     DEF Next, Serve, Use, Kill, Driver, Hardware

-----------------------------------------------------------------------------
(* Who has which buffer.                                                   *)

(* A step of another process leaves a process that has locked its buffer,  *)
(* or only refers to it, as it was.                                        *)
LEMMA OtherCall ==
  ASSUME NEW q \in Procs, CallOK(q),
         pc'[q] = pc[q], want'[q] = want[q], buf'[q] = buf[q], rw'[q] = rw[q],
         dirty'[q] = dirty[q], q \in asleep' => q \in asleep,
         buf[q] \in Bufs => blockno'[buf[q]] = blockno[buf[q]],
         pc[q] \in {"have", "write", "read"} => valid'[buf[q]] = valid[buf[q]]
  PROVE  CallOK(q)'
BY DEF CallOK, Referring, PCs, Bufs

LEMMA CallNext ==
  ASSUME Constants, CacheInv, Next
  PROVE  \A q \in Procs : CallOK(q)'
<1>0. TypeOK /\ OneBuffer /\ ChainInv /\ LockInv /\ \A q \in Procs : CallOK(q)
  BY DEF CacheInv, CallInv
<1>1. ASSUME UNCHANGED <<cacheVars, callVars, rw>>, asleep' \subseteq asleep
      PROVE  \A q \in Procs : CallOK(q)'
  BY <1>0, <1>1, OtherCall DEF cacheVars, callVars
<1> USE DEF TypeOK, DriverTypeOK, Step
<1>2. ASSUME NEW p \in Procs, NEW q \in Procs, p # q, Serve(p) \/ Use(p)
      PROVE  CallOK(q)'
  <2>1. CASE Driver(p)
    BY <1>0, <1>2, <2>1, OtherCall
       DEF Driver, Submit, SubmitFull, Finish, WaitAgain, Goto, cacheVars, callVars, virtioVars
  <2>2. CASE BgetMiss(p)
    <3>1. Victim \in Bufs /\ buf[q] # Victim
      BY <1>0, <2>2, VictimUnused, RefsCount DEF BgetMiss
    <3>2. /\ UNCHANGED <<rw, asleep, want, dirty>>
          /\ pc'[q] = pc[q] /\ buf'[q] = buf[q]
          /\ \A b \in Bufs : b # Victim => blockno'[b] = blockno[b] /\ valid'[b] = valid[b]
      BY <1>0, <1>2, <2>2 DEF BgetMiss, driverVars, virtioVars
    <3>3. pc[q] \in {"have", "write", "read"} => buf[q] \in Bufs
      BY <1>0 DEF CallOK, Referring, PCs
    <3> QED
      BY <1>0, <3>1, <3>2, <3>3, OtherCall
  <2>3. CASE ReadDone(p)
    <3>1. pc[p] = "read" /\ buf[p] \in Bufs /\ slk[buf[p]] = p
      BY <1>0, <2>3 DEF ReadDone, LockInv, Holding, CallOK, Referring, PCs
    <3>2. pc[q] \in {"have", "write", "read"} => buf[q] \in Bufs /\ slk[buf[q]] = q
      <4>1. pc[q] \in {"have", "write", "read"} => buf[q] \in Bufs
        BY <1>0 DEF CallOK, Referring, PCs
      <4> QED
        BY <1>0, <4>1 DEF LockInv, Holding
    <3>3. pc[q] \in {"have", "write", "read"} => valid'[buf[q]] = valid[buf[q]]
      BY <1>0, <1>2, <2>3, <3>1, <3>2 DEF ReadDone
    <3>4. /\ UNCHANGED <<rw, asleep, want, dirty, buf, blockno>>
          /\ pc'[q] = pc[q]
      BY <1>0, <1>2, <2>3 DEF ReadDone, virtioVars
    <3> QED
      BY <1>0, <3>3, <3>4, OtherCall
  <2>4. CASE Bread(p) \/ BgetHit(p) \/ Unref(p)
    BY <1>0, <1>2, <2>4, OtherCall DEF Bread, BgetHit, Unref, cacheVars, virtioVars
  <2>5. CASE AcquireSleep(p) \/ AcquireSleepWaits(p) \/ ReleaseSleep(p)
    BY <1>0, <1>2, <2>5, OtherCall
       DEF AcquireSleep, AcquireSleepWaits, ReleaseSleep, cacheVars, callVars, virtioVars
  <2>6. CASE ReadNeeded(p) \/ ReadCached(p) \/ Bwrite(p)
    BY <1>0, <1>2, <2>6, OtherCall
       DEF ReadNeeded, ReadCached, Bwrite, StartRw, Goto, cacheVars, virtioVars
  <2>7. CASE Change(p) \/ Bpin(p) \/ WriteDone(p)
    BY <1>0, <1>2, <2>7, OtherCall DEF Change, Bpin, WriteDone, cacheVars, virtioVars, driverVars
  <2> QED
    BY <1>2, <2>1, <2>2, <2>3, <2>4, <2>5, <2>6, <2>7 DEF Serve, Use
<1>3. ASSUME NEW p \in Procs, Serve(p) \/ Use(p)
      PROVE  CallOK(p)'
  <2> USE <1>0 DEF CallOK, Referring, PCs
  <2>1. CASE Driver(p)
    BY <2>1 DEF Driver, Submit, SubmitFull, Finish, WaitAgain, At, Goto, cacheVars, callVars,
                virtioVars, WantDescs
  <2>2. CASE BgetMiss(p)
    <3>1. Victim \in Bufs
      BY <2>2, VictimUnused DEF BgetMiss
    <3>2. /\ pc[p] = "bget" /\ pc'[p] = "lock" /\ buf'[p] = Victim /\ p \notin asleep
          /\ blockno'[Victim] = want[p] /\ UNCHANGED <<rw, asleep, want, dirty>>
      BY <2>2, <3>1 DEF BgetMiss, driverVars, virtioVars
    <3> HIDE DEF TypeOK
    <3> QED
      BY <3>1, <3>2
  <2>3. CASE Bread(p)
    <3>1. PICK k \in Blocks :
            /\ pc[p] = "idle" /\ pc'[p] = "bget" /\ want'[p] = k /\ p \notin asleep
            /\ UNCHANGED <<rw, asleep, buf, dirty>>
      BY <2>3 DEF Bread, virtioVars
    <3> QED
      BY <3>1
  <2>4. CASE BgetHit(p)
    <3>1. PICK b \in Bufs :
            /\ pc[p] = "bget" /\ pc'[p] = "lock" /\ buf'[p] = b /\ p \notin asleep
            /\ blockno[b] = want[p] /\ UNCHANGED <<rw, asleep, blockno, want, dirty>>
      BY <2>4 DEF BgetHit, Cached, virtioVars
    <3> QED
      BY <3>1
  <2>5. CASE Unref(p)
    BY <2>5 DEF Unref, virtioVars
  <2>6. CASE AcquireSleep(p) \/ AcquireSleepWaits(p) \/ ReleaseSleep(p)
    BY <2>6 DEF AcquireSleep, AcquireSleepWaits, ReleaseSleep, cacheVars, callVars, virtioVars
  <2>7. CASE ReadNeeded(p) \/ Bwrite(p)
    BY <2>7 DEF ReadNeeded, Bwrite, StartRw, Goto, cacheVars
  <2>8. CASE ReadCached(p)
    BY <2>8 DEF ReadCached, cacheVars, virtioVars
  <2>9. CASE ReadDone(p)
    BY <2>9 DEF ReadDone, virtioVars
  <2>10. CASE Change(p)
    BY <2>10 DEF Change, cacheVars, driverVars
  <2>11. CASE Bpin(p) \/ WriteDone(p)
    BY <2>11 DEF Bpin, WriteDone, virtioVars
  <2> QED
    BY <1>3, <2>1, <2>2, <2>3, <2>4, <2>5, <2>6, <2>7, <2>8, <2>9, <2>10, <2>11 DEF Serve, Use
<1>4. CASE Hardware
  BY <1>1, <1>4 DEF Hardware, Device, DeviceTake, DeviceDone, Interrupt, IntrEnter, IntrOne,
                    IntrLeave
<1>5. ASSUME NEW p \in Procs, Kill(p)
      PROVE  \A q \in Procs : CallOK(q)'
  BY <1>1, <1>5 DEF Kill, virtioVars
<1> QED
  BY <1>2, <1>3, <1>4, <1>5 DEF Next

LEMMA LockNext ==
  ASSUME Constants, CacheInv, Next
  PROVE  LockInv'
<1>0. /\ TypeOK /\ OneBuffer /\ LockInv /\ \A q \in Procs : CallOK(q)
      /\ Nobody \notin Procs /\ TypeOK'
  BY TypeNext DEF CacheInv, CallInv, Constants, BufCacheAssumption
<1>1. ASSUME UNCHANGED slk,
             \A q \in Procs : /\ pc'[q] \in Holding <=> pc[q] \in Holding
                              /\ pc[q] \in Holding => buf'[q] = buf[q]
      PROVE  LockInv'
  BY <1>0, <1>1 DEF LockInv
<1> USE DEF Step
<1>2. ASSUME NEW p \in Procs, AcquireSleep(p)
      PROVE  LockInv'
  <2>1. buf[p] \in Bufs /\ slk[buf[p]] = Nobody /\ pc[p] = "lock" /\ pc'[p] = "locked"
    BY <1>0, <1>2 DEF AcquireSleep, CallOK, Referring, PCs, TypeOK
  <2>2. slk' = [slk EXCEPT ![buf[p]] = p] /\ UNCHANGED buf
    BY <1>2 DEF AcquireSleep
  <2>3. \A q \in Procs : q # p => pc'[q] = pc[q]
    BY <1>0, <1>2 DEF AcquireSleep, TypeOK
  <2>4. \A q \in Procs : buf[q] = buf[p] => pc[q] \notin Holding
    BY <1>0, <2>1 DEF LockInv
  <2>5. slk \in [Bufs -> Procs \cup {Nobody}]
    BY <1>0 DEF TypeOK
  <2> QED
    BY <1>0, <2>1, <2>2, <2>3, <2>4, <2>5 DEF LockInv, Holding
<1>3. ASSUME NEW p \in Procs, ReleaseSleep(p)
      PROVE  LockInv'
  <2>1. buf[p] \in Bufs /\ pc[p] = "have" /\ pc'[p] = "unref"
    BY <1>0, <1>3 DEF ReleaseSleep, CallOK, Referring, PCs, TypeOK
  <2>2. slk' = [slk EXCEPT ![buf[p]] = Nobody] /\ UNCHANGED buf
    BY <1>3 DEF ReleaseSleep
  <2>3. \A q \in Procs : q # p => pc'[q] = pc[q]
    BY <1>0, <1>3 DEF ReleaseSleep, TypeOK
  <2>4. \A q \in Procs : buf[q] = buf[p] /\ pc[q] \in Holding => q = p
    BY <1>0, <2>1 DEF LockInv, Holding
  <2>5. slk \in [Bufs -> Procs \cup {Nobody}]
    BY <1>0 DEF TypeOK
  <2> QED
    BY <1>0, <2>1, <2>2, <2>3, <2>4, <2>5 DEF LockInv, Holding
<1>4. ASSUME NEW p \in Procs,
             \/ Bread(p) \/ BgetHit(p) \/ BgetMiss(p) \/ Unref(p)
             \/ ReadNeeded(p) \/ ReadCached(p) \/ ReadDone(p) \/ Change(p) \/ Bpin(p)
             \/ Bwrite(p) \/ WriteDone(p)
      PROVE  LockInv'
  <2>1. /\ UNCHANGED slk
        /\ pc'[p] \in Holding <=> pc[p] \in Holding
        /\ pc[p] \in Holding => buf'[p] = buf[p]
        /\ \A q \in Procs : q # p => pc'[q] = pc[q] /\ buf'[q] = buf[q]
    BY <1>0, <1>4 DEF Bread, BgetHit, BgetMiss, Unref, ReadNeeded, ReadCached, ReadDone, Change,
                      Bpin, Bwrite, WriteDone, Holding, TypeOK, cacheVars
  <2> QED
    BY <1>1, <2>1
<1>5. ASSUME UNCHANGED <<slk, callVars>>
      PROVE  LockInv'
  BY <1>1, <1>5 DEF callVars
<1> QED
  BY <1>2, <1>3, <1>4, <1>5 DEF Next, Serve, Use, Kill, Driver, Hardware, AcquireSleepWaits

-----------------------------------------------------------------------------
(* One buffer for a block, and its references.                             *)

LEMMA OneBufferNext ==
  ASSUME Constants, CacheInv, Next
  PROVE  OneBuffer'
<1>0. TypeOK /\ OneBuffer /\ CallInv /\ TypeOK'
  BY TypeNext DEF CacheInv
<1> DEFINE Refs(b) == refcnt[b] = Cardinality(Users(buf, b)) + (IF b \in pinned THEN 1 ELSE 0)
<1>1. \A b \in Bufs : Refs(b)
  BY <1>0 DEF OneBuffer, Users
<1>2. buf = [q \in Procs |-> buf[q]] /\ refcnt \in [Bufs -> Nat]
  BY <1>0 DEF TypeOK
<1>3. \A b \in Bufs : Cardinality(Users(buf, b)) \in Nat
  BY UsersCount
<1>4. ASSUME \A b \in Bufs : Refs(b)',
             UNCHANGED <<blockno, valid>>, \A b \in pinned' : valid[b]
      PROVE  OneBuffer'
  <2>1. \A b \in Bufs : refcnt'[b] = Cardinality({p \in Procs : buf'[p] = b})
                                     + (IF b \in pinned' THEN 1 ELSE 0)
    BY <1>4 DEF Users
  <2> QED
    BY <1>0, <1>4, <2>1 DEF OneBuffer
<1>5. CASE UNCHANGED <<blockno, valid, refcnt, pinned, buf>>
  BY <1>0, <1>5 DEF OneBuffer
<1> USE DEF Step
<1>6. ASSUME NEW p \in Procs, BgetHit(p)
      PROVE  OneBuffer'
  <2>1. PICK b \in Bufs :
          /\ refcnt' = [refcnt EXCEPT ![b] = @ + 1] /\ buf' = [buf EXCEPT ![p] = b]
          /\ UNCHANGED <<blockno, valid, pinned>> /\ pc[p] = "bget"
    BY <1>6 DEF BgetHit, Cached
  <2>2. buf[p] = 0 /\ buf[p] # b /\ \A c \in Bufs : c # 0
    BY <1>0, <2>1 DEF CallInv, CallOK, Referring, PCs, Bufs
  <2>3. /\ Cardinality(Users(buf', b)) = Cardinality(Users(buf, b)) + 1
        /\ \A c \in Bufs : c # b => Users(buf', c) = Users(buf, c)
    BY <1>2, <2>1, <2>2, UsersChange
  <2>4. ASSUME NEW c \in Bufs PROVE Refs(c)'
    <3>1. CASE c = b
      BY <1>1, <1>2, <1>3, <2>1, <2>3, <3>1
    <3>2. CASE c # b
      BY <1>1, <1>2, <2>1, <2>3, <3>2
    <3> QED
      BY <3>1, <3>2
  <2> QED
    BY <1>0, <1>4, <2>1, <2>4 DEF OneBuffer
<1>7. ASSUME NEW p \in Procs, BgetMiss(p)
      PROVE  OneBuffer'
  <2>1. PICK b \in Bufs : b = Victim /\ b \in Unused
    BY <1>0, <1>7, VictimUnused DEF BgetMiss
  <2>2. /\ blockno' = [blockno EXCEPT ![b] = want[p]] /\ valid' = [valid EXCEPT ![b] = FALSE]
        /\ refcnt' = [refcnt EXCEPT ![b] = 1] /\ buf' = [buf EXCEPT ![p] = b]
        /\ UNCHANGED pinned /\ pc[p] = "bget" /\ \A c \in Bufs : blockno[c] # want[p]
    BY <1>7, <2>1 DEF BgetMiss, Cached
  <2>3. buf[p] = 0 /\ b # 0 /\ b \notin pinned /\ \A q \in Procs : buf[q] # b
    BY <1>0, <2>1, <2>2, RefsCount DEF CallInv, CallOK, Referring, PCs, Bufs
  <2>4. Cardinality(Users(buf, b)) = 0
    <3>1. Users(buf, b) = {}
      BY <2>3 DEF Users
    <3> QED
      BY <3>1, UsersCount
  <2>5. /\ Cardinality(Users(buf', b)) = Cardinality(Users(buf, b)) + 1
        /\ \A c \in Bufs : c # b => Users(buf', c) = Users(buf, c)
    BY <1>2, <2>2, <2>3, UsersChange DEF Bufs
  <2>6. ASSUME NEW c \in Bufs PROVE Refs(c)'
    <3>1. CASE c = b
      BY <1>1, <1>2, <1>3, <2>2, <2>3, <2>4, <2>5, <3>1
    <3>2. CASE c # b
      BY <1>1, <1>2, <2>2, <2>3, <2>4, <2>5, <3>2
    <3> QED
      BY <3>1, <3>2
  <2>7. \A c \in Bufs : refcnt'[c] = Cardinality({q \in Procs : buf'[q] = c})
                                     + (IF c \in pinned' THEN 1 ELSE 0)
    BY <2>6 DEF Users
  <2>8. /\ blockno'[b] = want[p] /\ ~valid'[b]
        /\ \A c \in Bufs : c # b => blockno'[c] = blockno[c] /\ valid'[c] = valid[c]
    BY <1>0, <2>2 DEF TypeOK
  <2>9. pinned \subseteq Bufs
    BY <1>0 DEF TypeOK
  <2>10. /\ \A c, d \in Bufs : blockno'[c] = blockno'[d] /\ blockno'[c] # 0 => c = d
         /\ \A c \in Bufs : valid'[c] => blockno'[c] # 0
         /\ \A c \in pinned : valid'[c]
    BY <1>0, <2>2, <2>3, <2>8, <2>9 DEF OneBuffer
  <2> QED
    BY <2>2, <2>7, <2>10 DEF OneBuffer
<1>8. ASSUME NEW p \in Procs, Unref(p)
      PROVE  OneBuffer'
  <2>1. PICK b \in Bufs : b = buf[p]
    BY <1>0, <1>8 DEF Unref, CallInv, CallOK, Referring, PCs
  <2>2. /\ refcnt' = [refcnt EXCEPT ![b] = @ - 1] /\ buf' = [buf EXCEPT ![p] = 0]
        /\ UNCHANGED <<blockno, valid, pinned>> /\ buf[p] # 0
    BY <1>8, <2>1 DEF Unref, Bufs
  <2>3. /\ Cardinality(Users(buf', b)) = Cardinality(Users(buf, b)) - 1
        /\ \A c \in Bufs : c # b => Users(buf', c) = Users(buf, c)
    BY <1>2, <2>1, <2>2, UsersChange DEF Bufs
  <2>4. ASSUME NEW c \in Bufs PROVE Refs(c)'
    <3>1. CASE c = b
      BY <1>1, <1>2, <1>3, <2>2, <2>3, <3>1
    <3>2. CASE c # b
      BY <1>1, <1>2, <2>2, <2>3, <3>2
    <3> QED
      BY <3>1, <3>2
  <2> QED
    BY <1>0, <1>4, <2>2, <2>4 DEF OneBuffer
<1>9. ASSUME NEW p \in Procs, ReadDone(p)
      PROVE  OneBuffer'
  <2>1. /\ UNCHANGED <<blockno, refcnt, pinned, buf>> /\ valid' = [valid EXCEPT ![buf[p]] = TRUE]
        /\ pc[p] = "read"
    BY <1>9 DEF ReadDone
  <2>2. buf[p] \in Bufs /\ blockno[buf[p]] # 0
    BY <1>0, <2>1 DEF CallInv, CallOK, Referring, PCs, Constants, BufCacheAssumption
  <2>3. valid \in [Bufs -> BOOLEAN] /\ pinned \subseteq Bufs
    BY <1>0 DEF TypeOK
  <2>4. /\ \A b \in Bufs : valid'[b] => blockno[b] # 0
        /\ \A b \in pinned : valid'[b]
    BY <1>0, <2>1, <2>2, <2>3 DEF OneBuffer
  <2> QED
    BY <1>0, <2>1, <2>4 DEF OneBuffer
<1>10. ASSUME NEW p \in Procs, Bpin(p) \/ WriteDone(p)
       PROVE  OneBuffer'
  <2>1. PICK b \in Bufs : b = buf[p] /\ valid[b]
    BY <1>0, <1>10 DEF Bpin, WriteDone, CallInv, CallOK, Referring, PCs
  <2>2. /\ UNCHANGED <<blockno, valid, buf>>
        /\ \/ /\ refcnt' = IF b \in pinned THEN refcnt ELSE [refcnt EXCEPT ![b] = @ + 1]
              /\ pinned' = pinned \cup {b}
           \/ /\ refcnt' = IF b \in pinned THEN [refcnt EXCEPT ![b] = @ - 1] ELSE refcnt
              /\ pinned' = pinned \ {b}
    BY <1>10, <2>1 DEF Bpin, WriteDone
  <2>3. \A c \in Bufs : Refs(c)'
    BY <1>0, <1>1, <1>2, <1>3, <2>2 DEF TypeOK
  <2> QED
    BY <1>0, <1>4, <2>1, <2>2, <2>3 DEF OneBuffer
<1> HIDE DEF Step
<1> QED
  BY <1>5, <1>6, <1>7, <1>8, <1>9, <1>10
     DEF Next, Serve, Use, Kill, Driver, Hardware, Bread, AcquireSleep, AcquireSleepWaits,
         ReleaseSleep, ReadNeeded, ReadCached, Change, Bwrite, cacheVars, callVars

-----------------------------------------------------------------------------
(* bget() finds a buffer.                                                  *)

Asked == {want[p] : p \in {q \in Procs : pc[q] = "bget"}}
InUse == {blockno[b] : b \in Bufs \ Unused}

LEMMA ImageFinite ==
  ASSUME NEW S, IsFiniteSet(S), NEW f
  PROVE  LET T == {f[x] : x \in S} IN
         IsFiniteSet(T) /\ Cardinality(T) \in Nat /\ Cardinality(T) <= Cardinality(S)
<1> DEFINE T == {f[x] : x \in S}
           g == [x \in S |-> f[x]]
<1>1. g \in Surjection(S, T)
  BY DEF Surjection
<1> HIDE DEF g, T
<1>2. IsFiniteSet(T) /\ Cardinality(T) <= Cardinality(S)
  BY <1>1, FS_Surjection
<1> QED
  BY <1>2, FS_CardinalityType DEF T

LEMMA NeededFinite ==
  ASSUME Constants
  PROVE  /\ IsFiniteSet(Needed) /\ Cardinality(Needed) \in Nat
         /\ IsFiniteSet(Unused) /\ Cardinality(Unused) \in Nat
         /\ IsFiniteSet(Bufs) /\ Cardinality(Bufs) = NBUF
<1>1. IsFiniteSet({q \in Procs : pc[q] = "bget"})
  BY FS_Subset DEF Constants, VirtioAssumption
<1>2. IsFiniteSet(Asked)
  BY <1>1, ImageFinite DEF Asked
<1>3. IsFiniteSet(Needed)
  <2>1. Needed \in SUBSET Asked
    BY DEF Needed, Asked
  <2> QED
    BY <1>2, <2>1, FS_Subset
<1>4. IsFiniteSet(Bufs) /\ Cardinality(Bufs) = NBUF
  BY FS_Interval DEF Bufs, Constants, VirtioAssumption
<1>5. IsFiniteSet(Unused)
  <2>1. Unused \in SUBSET Bufs
    BY DEF Unused
  <2> QED
    BY <1>4, <2>1, FS_Subset
<1> QED
  BY <1>3, <1>4, <1>5, FS_CardinalityType

(* The demand that a caller's bread() is held to counts no less than the   *)
(* blocks that need a buffer, and the buffers that are in use.             *)
LEMMA DemandCovers ==
  ASSUME Constants, TypeOK, OneBuffer, Demand < Cardinality(Bufs)
  PROVE  Cardinality(Needed) + 1 <= Cardinality(Unused)
<1> DEFINE Had   == pinned \cup ({buf[q] : q \in Procs} \ {0})
           Queue == {q \in Procs : pc[q] = "bget" /\ ~PinnedBlock(want[q])}
           Blks  == {want[q] : q \in Queue}
<1>1. Had = Bufs \ Unused
  <2>1. Had \subseteq Bufs
    BY DEF TypeOK
  <2>2. \A b \in Bufs : b \in Had <=> b \notin Unused
    <3>1. \A b \in Bufs : b # 0
      BY DEF Bufs
    <3> QED
      BY <3>1, RefsCount
  <2> QED
    BY <2>1, <2>2
<1>2. Unused = Bufs \ Had /\ Had \in SUBSET Bufs
  BY <1>1 DEF Unused
<1>3. Cardinality(Unused) = Cardinality(Bufs) - Cardinality(Had) /\ Cardinality(Had) \in Nat
  <2>1. IsFiniteSet(Had)
    BY <1>2, NeededFinite, FS_Subset
  <2>2. Bufs \cap Had = Had
    BY <1>2
  <2> HIDE DEF Had
  <2>3. Cardinality(Bufs \ Had) = Cardinality(Bufs) - Cardinality(Bufs \cap Had)
    BY NeededFinite, FS_Difference
  <2> QED
    BY <1>2, <2>1, <2>2, <2>3, FS_CardinalityType
<1>4. IsFiniteSet(Queue) /\ Cardinality(Queue) \in Nat
  <2>1. Queue \in SUBSET Procs
    OBVIOUS
  <2> QED
    BY <2>1, FS_Subset, FS_CardinalityType DEF Constants, VirtioAssumption
<1>5. IsFiniteSet(Blks) /\ Cardinality(Blks) <= Cardinality(Queue) /\ Cardinality(Blks) \in Nat
  BY <1>4, ImageFinite
<1>6. Needed \in SUBSET Blks
  <2>1. ASSUME NEW k \in Needed PROVE k \in Blks
    <3>1. PICK q \in Procs : pc[q] = "bget" /\ want[q] = k
      BY DEF Needed
    <3>2. ~PinnedBlock(k)
      <4>1. \A b \in Bufs \ Unused : blockno[b] # k
        BY DEF Needed
      <4>2. \A b \in pinned : b \in Bufs \ Unused
        BY <1>1
      <4> QED
        BY <4>1, <4>2 DEF PinnedBlock
    <3> QED
      BY <3>1, <3>2
  <2> QED
    BY <2>1
<1>7. Cardinality(Needed) <= Cardinality(Blks)
  <2> HIDE DEF Blks
  <2> QED
    BY <1>5, <1>6, FS_Subset
<1>8. Cardinality(Had) + Cardinality(Queue) < Cardinality(Bufs)
  BY DEF Demand
<1> HIDE DEF Had, Queue, Blks
<1> QED
  BY <1>3, <1>4, <1>5, <1>7, <1>8, NeededFinite DEF Constants, VirtioAssumption

LEMMA StillEnough ==
  ASSUME NEW N, NEW U, NEW N2, NEW U2, NEW k, NEW b,
         IsFiniteSet(N), IsFiniteSet(U), Cardinality(N) <= Cardinality(U),
         \/ N2 \subseteq N /\ U2 = U
         \/ N2 \subseteq N \ {k} /\ k \in N /\ U2 = U \ {b} /\ b \in U
         \/ N2 \subseteq N \cup {k} /\ U2 = U \cup {b} /\ b \notin U
         \/ N2 \subseteq N \cup {k} /\ U2 = U /\ Cardinality(N) + 1 <= Cardinality(U)
  PROVE  Cardinality(N2) <= Cardinality(U2)
<1>1. Cardinality(N) \in Nat /\ Cardinality(U) \in Nat
  BY FS_CardinalityType
<1>2. /\ IsFiniteSet(N \ {k})
      /\ k \in N => Cardinality(N \ {k}) = Cardinality(N) - 1
      /\ IsFiniteSet(N \cup {k}) /\ Cardinality(N \cup {k}) <= Cardinality(N) + 1
      /\ Cardinality(N \cup {k}) \in Nat /\ Cardinality(N \ {k}) \in Nat
  BY <1>1, FS_AddElement, FS_RemoveElement, FS_CardinalityType
<1>3. /\ b \in U => Cardinality(U \ {b}) = Cardinality(U) - 1
      /\ b \notin U => Cardinality(U \cup {b}) = Cardinality(U) + 1
  BY <1>1, FS_AddElement, FS_RemoveElement
<1>4. \A S : IsFiniteSet(S) /\ N2 \subseteq S =>
        Cardinality(N2) \in Nat /\ Cardinality(N2) <= Cardinality(S)
  BY FS_Subset, FS_CardinalityType
<1>5. CASE N2 \subseteq N /\ U2 = U
  BY <1>1, <1>4, <1>5
<1>6. CASE N2 \subseteq N \ {k} /\ k \in N /\ U2 = U \ {b} /\ b \in U
  <2>1. Cardinality(N2) \in Nat /\ Cardinality(N2) <= Cardinality(N \ {k})
    BY <1>2, <1>4, <1>6
  <2>2. Cardinality(U2) = Cardinality(U) - 1
    BY <1>3, <1>6
  <2> QED
    BY <1>1, <1>2, <1>6, <2>1, <2>2
<1>7. CASE N2 \subseteq N \cup {k} /\ U2 = U \cup {b} /\ b \notin U
  <2>1. Cardinality(N2) \in Nat /\ Cardinality(N2) <= Cardinality(N \cup {k})
    BY <1>2, <1>4, <1>7
  <2>2. Cardinality(U2) = Cardinality(U) + 1
    BY <1>3, <1>7
  <2> QED
    BY <1>1, <1>2, <2>1, <2>2
<1>8. CASE N2 \subseteq N \cup {k} /\ U2 = U /\ Cardinality(N) + 1 <= Cardinality(U)
  <2>1. Cardinality(N2) \in Nat /\ Cardinality(N2) <= Cardinality(N \cup {k})
    BY <1>2, <1>4, <1>8
  <2> QED
    BY <1>1, <1>2, <1>8, <2>1
<1> QED
  BY <1>5, <1>6, <1>7, <1>8

LEMMA NeededParts == Needed = Asked \ InUse
BY DEF Needed, Asked, InUse

LEMMA EnoughNext ==
  ASSUME Constants, CacheInv, Next
  PROVE  EnoughBuffers'
<1>0. /\ TypeOK /\ OneBuffer /\ CallInv /\ EnoughBuffers
      /\ refcnt \in [Bufs -> Nat] /\ Unused \subseteq Bufs
      /\ pc \in [Procs -> PCs] /\ want \in [Procs -> Blocks \cup {0}]
      /\ blockno \in [Bufs -> Blocks \cup {0}]
  BY DEF CacheInv, TypeOK, Unused
<1>1. IsFiniteSet(Needed) /\ IsFiniteSet(Unused) /\ Cardinality(Needed) <= Cardinality(Unused)
  BY <1>0, NeededFinite DEF EnoughBuffers
<1>2. Needed = Asked \ InUse /\ Needed' = Asked' \ InUse'
  BY NeededParts DEF Needed, Asked, InUse
<1>3. ASSUME NEW k, NEW b,
             \/ Needed' \subseteq Needed /\ Unused' = Unused
             \/ Needed' \subseteq Needed \ {k} /\ k \in Needed /\ Unused' = Unused \ {b} /\ b \in Unused
             \/ Needed' \subseteq Needed \cup {k} /\ Unused' = Unused \cup {b} /\ b \notin Unused
             \/ /\ Needed' \subseteq Needed \cup {k} /\ Unused' = Unused
                /\ Cardinality(Needed) + 1 <= Cardinality(Unused)
      PROVE  EnoughBuffers'
  BY <1>1, <1>3, StillEnough DEF EnoughBuffers
<1>4. ASSUME UNCHANGED <<blockno, refcnt, want>>,
             \A q \in Procs : pc'[q] = "bget" => pc[q] = "bget"
      PROVE  EnoughBuffers'
  <2>1. Asked' \subseteq Asked /\ InUse' = InUse /\ Unused' = Unused
    BY <1>4 DEF Asked, InUse, Unused
  <2> QED
    BY <1>2, <1>3, <2>1
<1> USE DEF Step
<1>5. ASSUME NEW p \in Procs, Bread(p)
      PROVE  EnoughBuffers'
  <2>1. PICK k \in Blocks :
          /\ Demand < Cardinality(Bufs) \/ PinnedBlock(k)
          /\ pc[p] = "idle" /\ pc' = [pc EXCEPT ![p] = "bget"]
          /\ want' = [want EXCEPT ![p] = k] /\ UNCHANGED <<blockno, refcnt>>
    BY <1>5 DEF Bread, cacheVars
  <2>2. Asked' \subseteq Asked \cup {k} /\ InUse' = InUse /\ Unused' = Unused
    BY <1>0, <2>1 DEF Asked, InUse, Unused
  <2>3. CASE PinnedBlock(k)
    <3>1. k \in InUse
      <4>1. PICK b \in pinned : blockno[b] = k
        BY <2>3 DEF PinnedBlock
      <4>2. b \in Bufs \ Unused
        BY <1>0, <4>1, RefsCount DEF TypeOK
      <4> QED
        BY <4>1, <4>2 DEF InUse
    <3> QED
      BY <1>2, <1>3, <2>2, <3>1
  <2>4. CASE Demand < Cardinality(Bufs)
    BY <1>0, <1>2, <1>3, <2>2, <2>4, DemandCovers
  <2> QED
    BY <2>1, <2>3, <2>4
<1>6. ASSUME NEW p \in Procs, BgetHit(p)
      PROVE  EnoughBuffers'
  <2>1. PICK b \in Bufs :
          /\ blockno[b] = want[p] /\ refcnt' = [refcnt EXCEPT ![b] = @ + 1]
          /\ pc[p] = "bget" /\ pc' = [pc EXCEPT ![p] = "lock"] /\ UNCHANGED <<blockno, want>>
    BY <1>6 DEF BgetHit, Cached
  <2>2. Asked' \subseteq Asked /\ Unused' = Unused \ {b} /\ want[p] \in Asked
    BY <1>0, <2>1 DEF Asked, Unused
  <2>3. InUse \cup {want[p]} \subseteq InUse'
    BY <1>0, <2>1, <2>2 DEF InUse
  <2>4. CASE b \in Unused
    <3>1. want[p] \in Blocks /\ want[p] # 0
      BY <1>0, <2>1 DEF CallInv, CallOK, Constants, BufCacheAssumption
    <3>2. want[p] \notin InUse
      BY <1>0, <2>1, <2>4, <3>1 DEF InUse, OneBuffer
    <3> QED
      BY <1>2, <1>3, <2>2, <2>3, <2>4, <3>2
  <2>5. CASE b \notin Unused
    BY <1>2, <1>3, <2>2, <2>3, <2>5
  <2> QED
    BY <2>4, <2>5
<1>7. ASSUME NEW p \in Procs, BgetMiss(p)
      PROVE  EnoughBuffers'
  <2>1. PICK b \in Bufs : b = Victim /\ b \in Unused
    BY <1>0, <1>7, VictimUnused DEF BgetMiss
  <2>2. /\ blockno' = [blockno EXCEPT ![b] = want[p]] /\ refcnt' = [refcnt EXCEPT ![b] = 1]
        /\ pc[p] = "bget" /\ pc' = [pc EXCEPT ![p] = "lock"] /\ UNCHANGED want
        /\ \A c \in Bufs : blockno[c] # want[p]
    BY <1>7, <2>1 DEF BgetMiss, Cached
  <2>3. Asked' \subseteq Asked /\ Unused' = Unused \ {b} /\ want[p] \in Asked
    BY <1>0, <2>2 DEF Asked, Unused
  <2>4. InUse \cup {want[p]} \subseteq InUse' /\ want[p] \notin InUse
    <3>1. blockno'[b] = want[p] /\ \A c \in Bufs : c # b => blockno'[c] = blockno[c]
      BY <1>0, <2>2
    <3>2. b \notin Unused' /\ \A c \in Bufs \ Unused : c # b /\ c \notin Unused'
      BY <2>1, <2>3
    <3> QED
      BY <2>2, <3>1, <3>2 DEF InUse
  <2> QED
    BY <1>2, <1>3, <2>1, <2>3, <2>4
<1>8. ASSUME NEW p \in Procs, Unref(p)
      PROVE  EnoughBuffers'
  <2>1. PICK b \in Bufs : b = buf[p]
    BY <1>0, <1>8 DEF Unref, CallInv, CallOK, Referring, PCs
  <2>2. /\ refcnt' = [refcnt EXCEPT ![b] = @ - 1] /\ UNCHANGED blockno
        /\ pc[p] = "unref" /\ pc' = [pc EXCEPT ![p] = "idle"] /\ want' = [want EXCEPT ![p] = 0]
    BY <1>8, <2>1 DEF Unref
  <2>3. b \notin Unused
    BY <1>0, <2>1, RefsCount
  <2>4. Asked' \subseteq Asked
    BY <1>0, <2>2 DEF Asked
  <2>5. CASE refcnt[b] = 1
    <3>1. Unused' = Unused \cup {b}
      BY <1>0, <2>2, <2>5 DEF Unused
    <3>2. InUse \ {blockno[b]} \subseteq InUse'
      BY <2>2, <3>1 DEF InUse
    <3> QED
      BY <1>2, <1>3, <2>3, <2>4, <3>1, <3>2
  <2>6. CASE refcnt[b] # 1
    <3>1. Unused' = Unused
      BY <1>0, <2>2, <2>3, <2>6 DEF Unused
    <3>2. InUse' = InUse
      BY <2>2, <3>1 DEF InUse
    <3> QED
      BY <1>2, <1>3, <2>4, <3>1, <3>2
  <2> QED
    BY <2>5, <2>6
<1>9. ASSUME NEW p \in Procs, Bpin(p) \/ WriteDone(p)
      PROVE  EnoughBuffers'
  <2>1. PICK b \in Bufs : b = buf[p]
    BY <1>0, <1>9 DEF Bpin, WriteDone, CallInv, CallOK, Referring, PCs
  <2>2. /\ UNCHANGED <<blockno, want>> /\ \A q \in Procs : pc'[q] = "bget" => pc[q] = "bget"
        /\ \/ refcnt' = refcnt
           \/ refcnt' = [refcnt EXCEPT ![b] = @ + 1]
           \/ refcnt' = [refcnt EXCEPT ![b] = @ - 1] /\ b \in pinned
    BY <1>0, <1>9, <2>1 DEF Bpin, WriteDone
  <2>3. refcnt[b] # 0 /\ b \in pinned => refcnt[b] # 1
    <3>1. Users(buf, b) # {}
      BY <2>1 DEF Users
    <3> QED
      BY <1>0, <3>1, RefsCount, UsersCount
  <2>4. refcnt[b] # 0
    BY <1>0, <2>1, RefsCount DEF Unused
  <2>5. Unused' = Unused
    BY <1>0, <2>2, <2>3, <2>4 DEF Unused
  <2>6. Asked' \subseteq Asked /\ InUse' = InUse
    BY <2>2, <2>5 DEF Asked, InUse
  <2> QED
    BY <1>2, <1>3, <2>5, <2>6
<1>10. ASSUME NEW p \in Procs,
              \/ AcquireSleep(p) \/ AcquireSleepWaits(p) \/ ReleaseSleep(p) \/ ReadNeeded(p)
              \/ ReadCached(p) \/ ReadDone(p) \/ Change(p) \/ Bwrite(p)
       PROVE  EnoughBuffers'
  <2>1. /\ UNCHANGED <<blockno, refcnt, want>>
        /\ \A q \in Procs : pc'[q] = "bget" => pc[q] = "bget"
    BY <1>0, <1>10 DEF AcquireSleep, AcquireSleepWaits, ReleaseSleep, ReadNeeded, ReadCached,
                       ReadDone, Change, Bwrite, cacheVars, callVars
  <2> QED
    BY <1>4, <2>1
<1>11. ASSUME UNCHANGED <<cacheVars, callVars>>
       PROVE  EnoughBuffers'
  BY <1>4, <1>11 DEF cacheVars, callVars
<1> HIDE DEF Step
<1> QED
  BY <1>5, <1>6, <1>7, <1>8, <1>9, <1>10, <1>11 DEF Next, Serve, Use, Kill, Driver, Hardware

(* As many unused buffers as blocks that need one: bget() finds one.       *)
LEMMA OneLeft ==
  ASSUME NEW N, NEW U, NEW k \in N, IsFiniteSet(N), IsFiniteSet(U), Cardinality(N) <= Cardinality(U)
  PROVE  U # {}
<1>1. Cardinality(N) # 0 /\ Cardinality(N) \in Nat
  BY FS_EmptySet, FS_CardinalityType
<1> QED
  BY <1>1, FS_EmptySet

LEMMA EnoughForAll ==
  ASSUME Constants, EnoughBuffers
  PROVE  BufferForAll
<1>1. SUFFICES ASSUME NEW p \in Procs, pc[p] = "bget", Cached(want[p]) = {}
               PROVE  Unused # {}
  BY DEF BufferForAll
<1>2. want[p] \in Needed
  BY <1>1 DEF Needed, Cached
<1> QED
  BY <1>2, NeededFinite, OneLeft DEF EnoughBuffers

LEMMA BufferNext ==
  ASSUME Constants, CacheInv, Next
  PROVE  BufferForAll'
<1>1. SUFFICES ASSUME NEW p \in Procs, pc'[p] = "bget", \A b \in Bufs : blockno'[b] # want'[p]
               PROVE  Unused' # {}
  BY DEF BufferForAll, Cached
<1>2. want'[p] \in Needed'
  BY <1>1 DEF Needed
<1>3. IsFiniteSet(Needed')
  <2>1. IsFiniteSet({q \in Procs : pc'[q] = "bget"})
    BY FS_Subset DEF Constants, VirtioAssumption
  <2>2. IsFiniteSet({want'[q] : q \in {r \in Procs : pc'[r] = "bget"}})
    BY <2>1, ImageFinite
  <2>3. Needed' \in SUBSET {want'[q] : q \in {r \in Procs : pc'[r] = "bget"}}
    BY DEF Needed
  <2> QED
    BY <2>2, <2>3, FS_Subset
<1>4. IsFiniteSet(Unused')
  <2>1. Unused' \in SUBSET Bufs
    BY DEF Unused
  <2> QED
    BY <2>1, NeededFinite, FS_Subset
<1>5. Cardinality(Needed') <= Cardinality(Unused')
  BY EnoughNext DEF EnoughBuffers
<1> QED
  BY <1>2, <1>3, <1>4, <1>5, OneLeft

-----------------------------------------------------------------------------
(* Descriptors and requests.                                               *)

LEMMA HeadsApart ==
  ASSUME CacheInv, NEW p \in Procs, NEW q \in Procs,
         rw[p] = "wait", rw[q] = "wait", p # q
  PROVE  chain[p][1] # chain[q][1] /\ chain[p][1] \in ToSet(chain[p])
         /\ chain[q][1] \notin ToSet(chain[p]) /\ buf[p] # buf[q]
         /\ chain[p][1] \notin free /\ chain[p][1] \in Descs
<1>1. /\ chain[p] \in Seq(Descs) /\ chain[p] # <<>>
      /\ chain[q] \in Seq(Descs) /\ chain[q] # <<>>
  BY DEF CacheInv, TypeOK, DriverTypeOK, ChainInv
<1>2. chain[p][1] \in ToSet(chain[p]) /\ chain[q][1] \in ToSet(chain[q]) /\ chain[p][1] \in Descs
  BY <1>1, SetOfSeq
<1>3. ToSet(chain[p]) \cap ToSet(chain[q]) = {} /\ ToSet(chain[p]) \cap free = {}
  BY DEF CacheInv, DescsConserved
<1>4. CallOK(p) /\ CallOK(q)
  BY DEF CacheInv, CallInv
<1>5. pc[p] \in Holding /\ pc[q] \in Holding /\ buf[p] \in Bufs /\ buf[q] \in Bufs
  BY <1>4 DEF CallOK, Holding, Referring, PCs
<1>6. slk[buf[p]] = p /\ slk[buf[q]] = q
  BY <1>5 DEF CacheInv, CallInv, LockInv
<1> QED
  BY <1>2, <1>3, <1>6

(* What a step may do to the descriptors and the requests.                 *)
QuietDriver ==
    /\ UNCHANGED <<free, info, avail, busy, used, bdisk, chain>>
    /\ \A q \in Procs : rw'[q] = "wait" <=> rw[q] = "wait"

LEMMA CallersQuiet ==
  ASSUME TypeOK, CallInv, NEW p \in Procs, Serve(p) \/ Use(p) \/ Kill(p), ~Driver(p)
  PROVE  /\ QuietDriver /\ UNCHANGED <<pending, inIntr>>
         /\ \A q \in Procs : rw[q] = "wait" =>
              buf'[q] = buf[q] /\ want'[q] = want[q] /\ (pc'[q] = "write" <=> pc[q] = "write")
<1> USE DEF Step, TypeOK, DriverTypeOK
<1>1. CASE Kill(p) \/ AcquireSleepWaits(p)
  BY <1>1 DEF Kill, AcquireSleepWaits, QuietDriver, virtioVars, callVars
<1>2. CallOK(p)
  BY DEF CallInv
<1>3. CASE Bread(p) \/ BgetHit(p) \/ Unref(p) \/ AcquireSleep(p) \/ ReleaseSleep(p) \/ ReadCached(p)
           \/ ReadDone(p) \/ WriteDone(p) \/ Bpin(p)
  BY <1>2, <1>3 DEF CallOK, Bread, BgetHit, Unref, AcquireSleep, ReleaseSleep, ReadCached,
                    ReadDone, WriteDone, Bpin, QuietDriver, virtioVars
<1>4. CASE BgetMiss(p) \/ Change(p)
  BY <1>2, <1>4 DEF CallOK, BgetMiss, Change, QuietDriver, driverVars, virtioVars
<1>5. CASE ReadNeeded(p) \/ Bwrite(p)
  BY <1>2, <1>5 DEF CallOK, ReadNeeded, Bwrite, StartRw, Goto, QuietDriver, deviceVars
<1> QED
  BY <1>1, <1>3, <1>4, <1>5 DEF Serve, Use

(* The driver takes three free descriptors and passes a request on.        *)
LEMMA SubmitKeeps ==
  ASSUME Constants, CacheInv, NEW p \in Procs,
         Submit(p, buf[p], blockno[buf[p]], pc[p] = "write"), UNCHANGED callVars
  PROVE  (DescsConserved /\ ChainInv /\ RequestsAccounted /\ AsksForHeld)'
<1>0. TypeOK /\ DescsConserved /\ ChainInv /\ RequestsAccounted /\ AsksForHeld /\ CallOK(p)
  BY DEF CacheInv, CallInv
<1>1. PICK c \in Seq(Descs) :
        c = Lowest3 /\ c # <<>> /\ c[1] \in free /\ c[1] \in ToSet(c) /\ ToSet(c) \subseteq free
  BY <1>0, Lowest3Free DEF Submit
<1>2. /\ rw[p] \in {"start", "full"}
      /\ free' = free \ ToSet(c) /\ chain' = [chain EXCEPT ![p] = c]
      /\ info' = [info EXCEPT ![c[1]] = [buf |-> buf[p], blk |-> blockno[buf[p]],
                                         write |-> pc[p] = "write"]]
      /\ bdisk' = bdisk \cup {buf[p]} /\ avail' = Append(avail, c[1])
      /\ rw' = [rw EXCEPT ![p] = "wait"]
      /\ UNCHANGED <<busy, used>>
  BY <1>1 DEF Submit, Goto
<1>3. /\ chain \in [Procs -> Seq(Descs)] /\ rw \in [Procs -> RwPlaces] /\ info \in [Descs -> Request]
      /\ free \subseteq Descs /\ avail \in Seq(Descs) /\ busy \subseteq Descs /\ used \in Seq(Descs)
  BY <1>0 DEF TypeOK, DriverTypeOK
<1>4. chain[p] = <<>> /\ ToSet(chain[p]) = {}
  BY <1>0, <1>2, ToSetEmpty DEF ChainInv
<1>5. /\ chain'[p] = c /\ \A q \in Procs : q # p => chain'[q] = chain[q]
      /\ rw'[p] = "wait" /\ \A q \in Procs : q # p => rw'[q] = rw[q]
  BY <1>2, <1>3
<1>6. \A q \in Procs : ToSet(chain[q]) \cap free = {}
  BY <1>0 DEF DescsConserved
<1>7. \A q \in Procs : rw[q] = "wait" => chain[q][1] \in Descs /\ chain[q][1] \notin free
  BY <1>0, <1>3, <1>6, SetOfSeq DEF ChainInv
<1>8. DescsConserved'
  <2>1. \A q \in Procs : ToSet(chain'[q]) \cap free' = {}
    BY <1>2, <1>5, <1>6
  <2>2. \A q, r \in Procs : q # r => ToSet(chain'[q]) \cap ToSet(chain'[r]) = {}
    BY <1>0, <1>1, <1>5, <1>6 DEF DescsConserved
  <2>3. free' \cup UNION {ToSet(chain'[q]) : q \in Procs} = Descs
    <3>1. free \cup UNION {ToSet(chain[q]) : q \in Procs} = Descs
      BY <1>0 DEF DescsConserved
    <3>2. \A d : d \in UNION {ToSet(chain'[q]) : q \in Procs}
                 <=> d \in ToSet(c) \/ d \in UNION {ToSet(chain[q]) : q \in Procs}
      BY <1>4, <1>5
    <3> QED
      BY <1>1, <1>2, <3>1, <3>2
  <2> QED
    BY <2>1, <2>2, <2>3 DEF DescsConserved
<1>9. ChainInv'
  BY <1>0, <1>1, <1>5 DEF ChainInv
<1>10. c[1] \in Descs /\ c[1] \notin OnTheirWay
  <2>1. \A h \in OnTheirWay : h \notin free
    BY <1>0, <1>7 DEF RequestsAccounted
  <2> QED
    BY <1>1, <1>3, <2>1
<1>11. AsksForHeld'
  <2>1. blockno[buf[p]] = want[p]
    BY <1>0, <1>2 DEF CallOK, Referring, PCs
  <2>2. info'[c[1]] = [buf |-> buf[p], blk |-> want[p], write |-> pc[p] = "write"]
    BY <1>2, <1>3, <1>10, <2>1
  <2>3. \A q \in Procs : q # p /\ rw[q] = "wait" => info'[chain[q][1]] = info[chain[q][1]]
    BY <1>1, <1>2, <1>3, <1>7
  <2> QED
    BY <1>0, <1>5, <2>2, <2>3 DEF AsksForHeld, callVars
<1>12. RequestsAccounted'
  <2>1. c[1] \notin ToSet(avail) /\ c[1] \notin busy /\ c[1] \notin ToSet(used) /\ IsInjective(avail)
    BY <1>0, <1>10 DEF OnTheirWay, RequestsAccounted
  <2>2. IsInjective(avail') /\ ToSet(avail') = ToSet(avail) \cup {c[1]}
    BY <1>2, <1>3, <1>10, <2>1, AppendOnce
  <2>3. OnTheirWay' = OnTheirWay \cup {c[1]}
    BY <1>2, <2>2 DEF OnTheirWay
  <2>4. info'[c[1]].buf = buf[p] /\ \A h \in OnTheirWay : info'[h] = info[h]
    BY <1>2, <1>3, <1>10 DEF OnTheirWay
  <2>5. bdisk' = {info'[h].buf : h \in OnTheirWay'}
    BY <1>0, <1>2, <2>3, <2>4 DEF RequestsAccounted
  <2>6. OnTheirWay' \subseteq {chain'[q][1] : q \in {r \in Procs : rw'[r] = "wait"}}
    BY <1>0, <1>2, <1>5, <2>3 DEF RequestsAccounted
  <2> QED
    BY <1>0, <1>2, <2>1, <2>2, <2>5, <2>6 DEF RequestsAccounted
<1> QED
  BY <1>8, <1>9, <1>11, <1>12

(* The caller gives its three descriptors back.                            *)
LEMMA FinishKeeps ==
  ASSUME Constants, CacheInv, NEW p \in Procs, Finish(p), UNCHANGED callVars
  PROVE  (DescsConserved /\ ChainInv /\ RequestsAccounted /\ AsksForHeld)'
<1>0. TypeOK /\ DescsConserved /\ ChainInv /\ RequestsAccounted /\ AsksForHeld
  BY DEF CacheInv
<1>1. PICK h \in Descs : h = chain[p][1]
  BY <1>0, SetOfSeq DEF Finish, At, ChainInv, TypeOK, DriverTypeOK
<1>2. /\ rw[p] = "wait" /\ info[h].buf \notin bdisk
      /\ free' = free \cup ToSet(chain[p]) /\ chain' = [chain EXCEPT ![p] = <<>>]
      /\ info' = [info EXCEPT ![h] = NoOp] /\ rw' = [rw EXCEPT ![p] = "out"]
      /\ UNCHANGED <<avail, busy, used, bdisk>>
  BY <1>1 DEF Finish, At, Goto, deviceVars
<1>3. /\ chain \in [Procs -> Seq(Descs)] /\ rw \in [Procs -> RwPlaces] /\ info \in [Descs -> Request]
  BY <1>0 DEF TypeOK, DriverTypeOK
<1>4. /\ chain'[p] = <<>> /\ \A q \in Procs : q # p => chain'[q] = chain[q]
      /\ rw'[p] = "out" /\ \A q \in Procs : q # p => rw'[q] = rw[q]
  BY <1>2, <1>3
<1>5. ToSet(chain'[p]) = {}
  BY <1>4, ToSetEmpty
<1>6. h \notin OnTheirWay /\ OnTheirWay' = OnTheirWay
  BY <1>0, <1>2 DEF RequestsAccounted, OnTheirWay
<1>7. \A q \in Procs : q # p /\ rw[q] = "wait" => chain[q][1] # h
  BY <1>1, <1>2, HeadsApart
<1>8. DescsConserved'
  <2>1. \A q \in Procs : ToSet(chain'[q]) \cap free' = {}
    BY <1>0, <1>2, <1>4, <1>5 DEF DescsConserved
  <2>2. \A q, r \in Procs : q # r => ToSet(chain'[q]) \cap ToSet(chain'[r]) = {}
    BY <1>0, <1>4, <1>5 DEF DescsConserved
  <2>3. free' \cup UNION {ToSet(chain'[q]) : q \in Procs} = Descs
    <3>1. free \cup UNION {ToSet(chain[q]) : q \in Procs} = Descs
      BY <1>0 DEF DescsConserved
    <3>2. \A d : d \in UNION {ToSet(chain[q]) : q \in Procs}
                 <=> d \in ToSet(chain[p]) \/ d \in UNION {ToSet(chain'[q]) : q \in Procs}
      BY <1>4, <1>5
    <3> QED
      BY <1>2, <3>1, <3>2
  <2> QED
    BY <2>1, <2>2, <2>3 DEF DescsConserved
<1>9. ChainInv'
  BY <1>0, <1>4 DEF ChainInv
<1>10. AsksForHeld'
  <2>1. \A q \in Procs : q # p /\ rw[q] = "wait" => info'[chain[q][1]] = info[chain[q][1]]
    BY <1>2, <1>3, <1>7
  <2> QED
    BY <1>0, <1>4, <2>1 DEF AsksForHeld, callVars
<1>11. RequestsAccounted'
  <2>1. \A k \in OnTheirWay : info'[k] = info[k]
    BY <1>2, <1>3, <1>6
  <2>2. bdisk' = {info'[k].buf : k \in OnTheirWay'}
    BY <1>0, <1>2, <1>6, <2>1 DEF RequestsAccounted
  <2>3. OnTheirWay' \subseteq {chain'[q][1] : q \in {r \in Procs : rw'[r] = "wait"}}
    BY <1>0, <1>1, <1>4, <1>6 DEF RequestsAccounted
  <2> QED
    BY <1>0, <1>2, <2>2, <2>3 DEF RequestsAccounted
<1> QED
  BY <1>8, <1>9, <1>10, <1>11

(* The handler takes a completion: the mark of its buffer, and no other.   *)
LEMMA IntrOneKeeps ==
  ASSUME Constants, CacheInv, IntrOne
  PROVE  RequestsAccounted'
<1>0. TypeOK /\ RequestsAccounted
  BY DEF CacheInv
<1>1. PICK h : h = Head(used)
  OBVIOUS
<1>2. /\ used # <<>> /\ used' = Tail(used) /\ bdisk' = bdisk \ {info[h].buf}
      /\ UNCHANGED <<info, avail, busy, rw, chain>>
  BY <1>1 DEF IntrOne
<1>3. /\ h \in ToSet(used) /\ IsInjective(used') /\ ToSet(used') = ToSet(used) \ {h}
  BY <1>0, <1>1, <1>2, TailOnce DEF TypeOK, DriverTypeOK, RequestsAccounted
<1>4. OnTheirWay' = OnTheirWay \ {h} /\ h \in OnTheirWay
  BY <1>0, <1>2, <1>3 DEF OnTheirWay, RequestsAccounted
<1>5. \A k \in OnTheirWay : k # h => info[k].buf # info[h].buf
  <2>1. SUFFICES ASSUME NEW k \in OnTheirWay, k # h PROVE info[k].buf # info[h].buf
    OBVIOUS
  <2>2. PICK p \in Procs : Asks(p, h)
    BY <1>4, Requester
  <2>3. PICK q \in Procs : Asks(q, k)
    BY Requester
  <2>4. buf[p] # buf[q]
    BY <2>1, <2>2, <2>3, HeadsApart DEF Asks
  <2> QED
    BY <2>2, <2>3, <2>4 DEF Asks
<1>6. bdisk' = {info[k].buf : k \in OnTheirWay'}
  BY <1>0, <1>2, <1>4, <1>5 DEF RequestsAccounted
<1> QED
  BY <1>0, <1>2, <1>3, <1>4, <1>6 DEF RequestsAccounted

LEMMA DeviceKeeps ==
  ASSUME Constants, CacheInv, Device
  PROVE  RequestsAccounted' /\ OnTheirWay' = OnTheirWay
<1>0. TypeOK /\ RequestsAccounted
  BY DEF CacheInv
<1>1. avail \in Seq(Descs) /\ used \in Seq(Descs) /\ busy \subseteq Descs
  BY <1>0 DEF TypeOK, DriverTypeOK
<1>2. CASE DeviceTake
  <2>1. /\ avail # <<>> /\ busy' = busy \cup {Head(avail)} /\ avail' = Tail(avail)
        /\ UNCHANGED <<info, used, bdisk, rw, chain>>
    BY <1>2 DEF DeviceTake
  <2>2. /\ Head(avail) \in ToSet(avail) /\ IsInjective(avail')
        /\ ToSet(avail') = ToSet(avail) \ {Head(avail)}
    BY <1>0, <1>1, <2>1, TailOnce DEF RequestsAccounted
  <2>3. OnTheirWay' = OnTheirWay
    BY <2>1, <2>2 DEF OnTheirWay
  <2> QED
    BY <1>0, <2>1, <2>2, <2>3 DEF RequestsAccounted
<1>3. CASE DeviceDone
  <2>1. PICK h \in busy : /\ busy' = busy \ {h} /\ used' = Append(used, h)
                          /\ UNCHANGED <<info, avail, bdisk, rw, chain>>
    BY <1>3 DEF DeviceDone
  <2>2. h \notin ToSet(used) /\ h \notin ToSet(avail) /\ h \in Descs
    BY <1>0, <1>1 DEF RequestsAccounted
  <2>3. IsInjective(used') /\ ToSet(used') = ToSet(used) \cup {h}
    BY <1>0, <1>1, <2>1, <2>2, AppendOnce DEF RequestsAccounted
  <2>4. OnTheirWay' = OnTheirWay
    BY <2>1, <2>3 DEF OnTheirWay
  <2> QED
    BY <1>0, <2>1, <2>2, <2>3, <2>4 DEF RequestsAccounted
<1> QED
  BY <1>2, <1>3 DEF Device

LEMMA DriverNext ==
  ASSUME Constants, CacheInv, Next
  PROVE  (DescsConserved /\ ChainInv /\ RequestsAccounted /\ AsksForHeld)'
<1>0. /\ TypeOK /\ CallInv /\ DescsConserved /\ ChainInv /\ RequestsAccounted /\ AsksForHeld
      /\ rw \in [Procs -> RwPlaces]
  BY DEF CacheInv, TypeOK, DriverTypeOK
<1>1. ASSUME QuietDriver,
             \A q \in Procs : rw[q] = "wait" =>
               buf'[q] = buf[q] /\ want'[q] = want[q] /\ (pc'[q] = "write" <=> pc[q] = "write")
      PROVE  (DescsConserved /\ ChainInv /\ RequestsAccounted /\ AsksForHeld)'
  <2>1. (DescsConserved /\ ChainInv)'
    BY <1>0, <1>1 DEF QuietDriver, DescsConserved, ChainInv
  <2>2. AsksForHeld'
    BY <1>0, <1>1 DEF QuietDriver, AsksForHeld
  <2>3. RequestsAccounted'
    <3>1. {q \in Procs : rw'[q] = "wait"} = {q \in Procs : rw[q] = "wait"}
      BY <1>1 DEF QuietDriver
    <3> QED
      BY <1>0, <1>1, <3>1 DEF QuietDriver, RequestsAccounted, OnTheirWay
  <2> QED
    BY <2>1, <2>2, <2>3
<1>2. ASSUME NEW p \in Procs, Serve(p) \/ Use(p) \/ Kill(p), ~Driver(p)
      PROVE  (DescsConserved /\ ChainInv /\ RequestsAccounted /\ AsksForHeld)'
  BY <1>0, <1>1, <1>2, CallersQuiet
<1>3. ASSUME NEW p \in Procs, Driver(p)
      PROVE  (DescsConserved /\ ChainInv /\ RequestsAccounted /\ AsksForHeld)'
  <2>1. CASE SubmitFull(p) \/ WaitAgain(p)
    <3>1. QuietDriver /\ UNCHANGED callVars
      BY <1>0, <1>3, <2>1
         DEF Driver, SubmitFull, WaitAgain, Goto, QuietDriver, virtioVars, deviceVars,
             Submit, Finish, At, callVars
    <3> QED
      BY <1>1, <3>1 DEF callVars
  <2> QED
    BY <1>3, <2>1, SubmitKeeps, FinishKeeps DEF Driver
<1>4. CASE Hardware
  <2>1. UNCHANGED <<free, info, rw, chain, buf, want, pc>>
    BY <1>4 DEF Hardware, Device, DeviceTake, DeviceDone, Interrupt, IntrEnter, IntrOne,
                IntrLeave, callVars
  <2>2. (DescsConserved /\ ChainInv /\ AsksForHeld)'
    BY <1>0, <2>1 DEF DescsConserved, ChainInv, AsksForHeld
  <2>3. CASE Device
    BY <2>2, <2>3, DeviceKeeps
  <2>4. CASE IntrOne
    BY <2>2, <2>4, IntrOneKeeps
  <2>5. CASE IntrEnter \/ IntrLeave
    <3>1. UNCHANGED <<info, avail, busy, used, bdisk, rw, chain>>
      BY <2>5 DEF IntrEnter, IntrLeave, deviceVars
    <3> QED
      BY <1>0, <2>2, <3>1 DEF RequestsAccounted, OnTheirWay
  <2> QED
    BY <1>4, <2>3, <2>4, <2>5 DEF Hardware, Interrupt
<1> QED
  BY <1>2, <1>3, <1>4 DEF Next

LEMMA InterruptNext ==
  ASSUME Constants, CacheInv, Next
  PROVE  InterruptComes'
<1>0. InterruptComes /\ TypeOK /\ CallInv
  BY DEF CacheInv
<1>1. ASSUME UNCHANGED <<used, pending, inIntr>>
      PROVE  InterruptComes'
  BY <1>0, <1>1 DEF InterruptComes
<1>2. ASSUME NEW p \in Procs, Serve(p) \/ Use(p) \/ Kill(p), ~Driver(p)
      PROVE  InterruptComes'
  BY <1>0, <1>1, <1>2, CallersQuiet DEF QuietDriver
<1>3. ASSUME NEW p \in Procs, Driver(p)
      PROVE  InterruptComes'
  BY <1>1, <1>3 DEF Driver, Submit, SubmitFull, Finish, WaitAgain, virtioVars, deviceVars
<1>4. CASE Hardware
  BY <1>0, <1>4 DEF InterruptComes, Hardware, Device, DeviceTake, DeviceDone, Interrupt, IntrEnter,
                    IntrOne, IntrLeave, deviceVars
<1> QED
  BY <1>2, <1>3, <1>4 DEF Next

-----------------------------------------------------------------------------
(* No wakeup is lost.                                                      *)

LEMMA SleepersNext ==
  ASSUME Constants, CacheInv, Next
  PROVE  SleepersHaveReason'
<1>0. /\ TypeOK /\ CallInv /\ OneBuffer /\ ChainInv /\ AsksForHeld /\ SleepersHaveReason
      /\ asleep \subseteq Procs /\ Nobody \notin Procs /\ free \subseteq Descs
      /\ rw \in [Procs -> RwPlaces] /\ buf \in [Procs -> Bufs \cup {0}]
      /\ slk \in [Bufs -> Procs \cup {Nobody}]
  BY DEF CacheInv, TypeOK, DriverTypeOK, Constants, BufCacheAssumption
<1>1. IsFiniteSet(free)
  <2>1. IsFiniteSet(Descs)
    BY FS_Interval DEF Constants, VirtioAssumption, Descs
  <2> QED
    BY <1>0, <2>1, FS_Subset
<1>h. ASSUME NEW q \in Procs, rw[q] = "wait"
      PROVE  info[chain[q][1]].buf = buf[q]
  <2>1. info[chain[q][1]] = [buf |-> buf[q], blk |-> want[q], write |-> pc[q] = "write"]
    BY <1>0, <1>h DEF AsksForHeld
  <2> QED
    BY <2>1
(* Whoever sleeps on slept before, for the same reason.                    *)
<1>2. ASSUME UNCHANGED <<free, bdisk>>,
             \A q \in asleep' : /\ q \in asleep /\ rw'[q] = rw[q] /\ buf'[q] = buf[q]
                                /\ rw[q] \notin {"full", "wait"} /\ slk[buf[q]] # Nobody
                                     => slk'[buf[q]] # Nobody
      PROVE  SleepersHaveReason'
  BY <1>0, <1>2 DEF SleepersHaveReason, HasReason
<1> USE DEF Step
<1>3. ASSUME NEW p \in Procs,
             \/ Bread(p) \/ BgetHit(p) \/ BgetMiss(p) \/ Unref(p)
             \/ ReadNeeded(p) \/ ReadCached(p) \/ ReadDone(p) \/ Change(p) \/ Bpin(p)
             \/ Bwrite(p) \/ WriteDone(p)
      PROVE  SleepersHaveReason'
  <2>1. /\ UNCHANGED <<free, bdisk, asleep, slk>> /\ p \notin asleep
        /\ \A q \in Procs : q # p => rw'[q] = rw[q] /\ buf'[q] = buf[q]
    BY <1>0, <1>3 DEF Bread, BgetHit, BgetMiss, Unref, ReadNeeded, ReadCached, ReadDone, Change,
                      Bpin, Bwrite, WriteDone, StartRw, Goto, cacheVars, virtioVars, driverVars
  <2> QED
    BY <1>0, <1>2, <2>1
<1>4. ASSUME NEW p \in Procs, AcquireSleep(p)
      PROVE  SleepersHaveReason'
  <2>1. /\ UNCHANGED <<free, bdisk, asleep, rw, buf>> /\ slk' = [slk EXCEPT ![buf[p]] = p]
    BY <1>4 DEF AcquireSleep, virtioVars
  <2> QED
    BY <1>0, <1>2, <2>1
<1>5. ASSUME NEW p \in Procs, AcquireSleepWaits(p)
      PROVE  SleepersHaveReason'
  <2>1. /\ UNCHANGED <<free, bdisk, slk, rw, buf>> /\ asleep' = asleep \cup {p}
        /\ slk[buf[p]] # Nobody /\ pc[p] = "lock"
    BY <1>5 DEF AcquireSleepWaits, virtioVars, callVars
  <2>2. rw[p] = "out"
    BY <1>0, <2>1 DEF CallInv, CallOK
  <2> QED
    BY <1>0, <2>1, <2>2 DEF SleepersHaveReason, HasReason
<1>6. ASSUME NEW p \in Procs, ReleaseSleep(p)
      PROVE  SleepersHaveReason'
  <2>1. /\ UNCHANGED <<free, bdisk, rw, buf>> /\ slk' = [slk EXCEPT ![buf[p]] = Nobody]
        /\ asleep' = asleep \ LockWaiters(buf[p]) /\ pc[p] = "have"
    BY <1>6 DEF ReleaseSleep, virtioVars
  <2>2. ASSUME NEW q \in asleep', rw[q] \notin {"full", "wait"}, slk[buf[q]] # Nobody
        PROVE  slk'[buf[q]] # Nobody
    <3>1. pc[q] = "lock" /\ q \in Procs
      BY <1>0, <2>1, <2>2 DEF CallInv, CallOK
    <3>2. buf[q] # buf[p]
      BY <2>1, <3>1 DEF LockWaiters
    <3> QED
      BY <1>0, <2>1, <2>2, <3>2
  <2> QED
    BY <1>0, <1>2, <2>1, <2>2
<1>7. ASSUME NEW p \in Procs, Driver(p)
      PROVE  SleepersHaveReason'
  <2>0. UNCHANGED <<slk, buf>>
    BY <1>7 DEF Driver, callVars
  <2>1. CASE Submit(p, buf[p], blockno[buf[p]], pc[p] = "write")
    <3>1. /\ free' \subseteq free /\ rw' = [rw EXCEPT ![p] = "wait"]
          /\ bdisk' = bdisk \cup {buf[p]} /\ asleep' = asleep \cup {p}
      BY <2>1 DEF Submit, Goto
    <3>2. IsFiniteSet(free') /\ Cardinality(free') <= Cardinality(free)
          /\ Cardinality(free') \in Nat /\ Cardinality(free) \in Nat
      BY <1>1, <3>1, FS_Subset, FS_CardinalityType
    <3>3. ASSUME NEW q \in asleep, q # p
          PROVE  HasReason(q)'
      <4>1. HasReason(q) /\ rw'[q] = rw[q]
        BY <1>0, <3>1, <3>3 DEF SleepersHaveReason
      <4> QED
        BY <2>0, <3>1, <3>2, <4>1 DEF HasReason
    <3>4. HasReason(p)'
      BY <1>0, <2>0, <3>1 DEF HasReason
    <3> QED
      BY <3>1, <3>3, <3>4 DEF SleepersHaveReason
  <2>2. CASE SubmitFull(p)
    <3>1. /\ UNCHANGED <<free, bdisk>> /\ rw' = [rw EXCEPT ![p] = "full"]
          /\ asleep' \subseteq asleep \cup {p} /\ Cardinality(free) < 3
      BY <2>2 DEF SubmitFull, Goto
    <3> QED
      BY <1>0, <2>0, <3>1 DEF SleepersHaveReason, HasReason
  <2>3. CASE Finish(p)
    <3>1. /\ UNCHANGED bdisk /\ rw' = [rw EXCEPT ![p] = "out"] /\ asleep' = asleep \ WantDescs
          /\ p \notin asleep
      BY <2>3 DEF Finish, At, Goto
    <3>2. ASSUME NEW q \in asleep'
          PROVE  HasReason(q)'
      <4>1. HasReason(q) /\ rw'[q] = rw[q] /\ rw[q] # "full"
        BY <1>0, <3>1 DEF SleepersHaveReason, WantDescs
      <4> QED
        BY <2>0, <3>1, <4>1 DEF HasReason
    <3> QED
      BY <3>2 DEF SleepersHaveReason
  <2>4. CASE WaitAgain(p)
    <3>1. /\ UNCHANGED <<free, bdisk, rw>> /\ asleep' = asleep \cup {p}
          /\ rw[p] = "wait" /\ info[chain[p][1]].buf \in bdisk
      BY <2>4 DEF WaitAgain, At, virtioVars
    <3>2. buf[p] \in bdisk
      BY <1>h, <3>1
    <3> QED
      BY <1>0, <2>0, <3>1, <3>2 DEF SleepersHaveReason, HasReason
  <2> QED
    BY <1>7, <2>1, <2>2, <2>3, <2>4 DEF Driver
<1>8. ASSUME NEW p \in Procs, Kill(p)
      PROVE  SleepersHaveReason'
  BY <1>2, <1>8 DEF Kill, virtioVars, callVars
<1>9. CASE Hardware
  <2>1. UNCHANGED <<free, rw, slk, buf>>
    BY <1>9 DEF Hardware, Device, DeviceTake, DeviceDone, Interrupt, IntrEnter, IntrOne,
                IntrLeave, callVars
  <2>2. CASE IntrOne
    <3>1. PICK b : b = info[Head(used)].buf
      OBVIOUS
    <3>2. bdisk' = bdisk \ {b} /\ asleep' = asleep \ Awaiting(b)
      BY <2>2, <3>1 DEF IntrOne
    <3>3. ASSUME NEW q \in asleep'
          PROVE  HasReason(q)'
      <4>1. HasReason(q) /\ ~(rw[q] = "wait" /\ buf[q] = b)
        BY <1>0, <1>h, <3>2 DEF SleepersHaveReason, Awaiting
      <4> QED
        BY <2>1, <3>2, <4>1 DEF HasReason
    <3> QED
      BY <3>3 DEF SleepersHaveReason
  <2>3. CASE ~IntrOne
    <3>1. UNCHANGED <<bdisk, asleep>>
      BY <1>9, <2>3 DEF Hardware, Device, DeviceTake, DeviceDone, Interrupt, IntrEnter, IntrLeave
    <3> QED
      BY <1>0, <2>1, <3>1 DEF SleepersHaveReason, HasReason
  <2> QED
    BY <2>2, <2>3
<1> HIDE DEF Step
<1> QED
  BY <1>3, <1>4, <1>5, <1>6, <1>7, <1>8, <1>9 DEF Next, Serve, Use

-----------------------------------------------------------------------------
(* What is read is what was last put in.                                   *)

(* Nobody has the driver at a buffer, or has it to change it, but its      *)
(* holder.                                                                 *)
LEMMA HolderAlone ==
  ASSUME Constants, CacheInv, NEW p \in Procs, NEW q \in Procs, p # q,
         pc[p] \in Holding, pc[q] \in Holding
  PROVE  /\ buf[p] \in Bufs /\ buf[q] \in Bufs /\ buf[p] # buf[q]
         /\ want[p] \in Blocks /\ want[q] \in Blocks /\ want[p] # want[q]
<1>1. CallOK(p) /\ CallOK(q) /\ LockInv /\ OneBuffer
  BY DEF CacheInv, CallInv
<1>2. /\ buf[p] \in Bufs /\ buf[q] \in Bufs /\ want[p] \in Blocks /\ want[q] \in Blocks
      /\ blockno[buf[p]] = want[p] /\ blockno[buf[q]] = want[q]
  BY <1>1 DEF CallOK, Referring, Holding, PCs
<1>3. slk[buf[p]] = p /\ slk[buf[q]] = q
  BY <1>1, <1>2 DEF LockInv
<1>4. want[p] # 0
  BY <1>2 DEF Constants, BufCacheAssumption
<1> QED
  BY <1>1, <1>2, <1>3, <1>4 DEF OneBuffer

LEMMA HolderBuffer ==
  ASSUME Constants, CacheInv, NEW p \in Procs, pc[p] \in Referring
  PROVE  /\ buf[p] \in Bufs /\ want[p] \in Blocks /\ blockno[buf[p]] = want[p] /\ want[p] # 0
         /\ \A b \in Bufs : blockno[b] = want[p] => b = buf[p]
<1>1. CallOK(p) /\ OneBuffer
  BY DEF CacheInv, CallInv
<1>2. buf[p] \in Bufs /\ want[p] \in Blocks /\ blockno[buf[p]] = want[p] /\ want[p] # 0
  BY <1>1 DEF CallOK, Referring, PCs, Constants, BufCacheAssumption
<1> QED
  BY <1>1, <1>2 DEF OneBuffer

(* A step that leaves the buffer, the block and the request of q alone.    *)
LEMMA OtherServed ==
  ASSUME NEW q \in Procs, ServedOK(q), Served(q)' => Served(q),
         pc'[q] = pc[q], buf'[q] = buf[q], want'[q] = want[q],
         pc[q] \in {"read", "write"} =>
           /\ data'[buf[q]] = data[buf[q]] /\ content'[want[q]] = content[want[q]]
           /\ last'[want[q]] = last[want[q]]
  PROVE  ServedOK(q)'
BY DEF ServedOK, Served

(* A step that moves no data.                                              *)
LEMMA CalmStep ==
  ASSUME Coherent, UNCHANGED <<data, content, last, blockno, valid>>,
         \A b \in Bufs : Unwritten(b) => Unwritten(b)',
         \A q \in Procs : Served(q)' =>
            Served(q) /\ pc'[q] = pc[q] /\ buf'[q] = buf[q] /\ want'[q] = want[q]
  PROVE  Coherent'
<1>1. BufferLatest'
  BY DEF Coherent, BufferLatest
<1>2. DiskLatest'
  BY DEF Coherent, DiskLatest
<1>3. ASSUME NEW q \in Procs PROVE ServedOK(q)'
  BY DEF Coherent, ServedOK
<1> QED
  BY <1>1, <1>2, <1>3 DEF Coherent

LEMMA CallersCalm ==
  ASSUME Constants, CacheInv, NEW p \in Procs,
         \/ Bread(p) \/ BgetHit(p) \/ AcquireSleep(p) \/ AcquireSleepWaits(p) \/ ReleaseSleep(p)
         \/ Unref(p) \/ ReadNeeded(p) \/ ReadCached(p) \/ Bpin(p) \/ Bwrite(p) \/ Kill(p)
  PROVE  Coherent'
<1>0. /\ Coherent /\ TypeOK /\ CallOK(p)
      /\ rw \in [Procs -> RwPlaces] /\ pc \in [Procs -> PCs] /\ buf \in [Procs -> Bufs \cup {0}]
      /\ dirty \in [Procs -> BOOLEAN] /\ want \in [Procs -> Blocks \cup {0}]
  BY DEF CacheInv, CallInv, TypeOK, DriverTypeOK
<1>1. UNCHANGED <<data, content, last, blockno, valid, avail, busy, chain>>
  BY DEF Bread, BgetHit, AcquireSleep, AcquireSleepWaits, ReleaseSleep, Unref, ReadNeeded,
         ReadCached, Bpin, Bwrite, Kill, StartRw, virtioVars, cacheVars, callVars, deviceVars
<1>2. /\ pinned \subseteq pinned'
      /\ \A q \in Procs : q # p => dirty'[q] = dirty[q] /\ buf'[q] = buf[q]
      /\ dirty[p] => buf[p] \in pinned' \/ (dirty'[p] /\ buf'[p] = buf[p])
  BY <1>0 DEF Bread, BgetHit, AcquireSleep, AcquireSleepWaits, ReleaseSleep, Unref, ReadNeeded,
         ReadCached, Bpin, Bwrite, Kill, cacheVars, callVars, Step, CallOK
<1>3. \A b \in Bufs : Unwritten(b) => Unwritten(b)'
  BY <1>2 DEF Unwritten
<1>4. ASSUME NEW q \in Procs, q # p
      PROVE  pc'[q] = pc[q] /\ buf'[q] = buf[q] /\ want'[q] = want[q] /\ rw'[q] = rw[q]
  BY <1>0, <1>4 DEF Bread, BgetHit, AcquireSleep, AcquireSleepWaits, ReleaseSleep, Unref, ReadNeeded,
         ReadCached, Bpin, Bwrite, Kill, StartRw, Goto, virtioVars, cacheVars, callVars, Step
<1>5. Served(p)' => UNCHANGED <<pc, buf, want, rw>>
  <2>1. CASE Kill(p)
    BY <2>1 DEF Kill, virtioVars, callVars
  <2>2. CASE ReadNeeded(p) \/ Bwrite(p)
    BY <1>0, <2>2 DEF ReadNeeded, Bwrite, StartRw, Goto, Served
  <2>3. CASE ~Kill(p) /\ ~ReadNeeded(p) /\ ~Bwrite(p)
    <3>1. pc'[p] \notin {"read", "write"}
      BY <1>0, <2>3 DEF Bread, BgetHit, AcquireSleep, AcquireSleepWaits, ReleaseSleep, Unref,
                        ReadCached, Bpin, Step, callVars
    <3> QED
      BY <3>1 DEF Served
  <2> QED
    BY <2>1, <2>2, <2>3
<1>6. \A q \in Procs : Served(q)' =>
        Served(q) /\ pc'[q] = pc[q] /\ buf'[q] = buf[q] /\ want'[q] = want[q]
  BY <1>1, <1>4, <1>5 DEF Served
<1> QED
  BY <1>0, <1>1, <1>3, <1>6, CalmStep

LEMMA DriverCalm ==
  ASSUME Constants, CacheInv, NEW p \in Procs, Driver(p)
  PROVE  Coherent'
<1>0. /\ Coherent /\ TypeOK /\ ChainInv /\ RequestsAccounted /\ AsksForHeld
      /\ rw \in [Procs -> RwPlaces] /\ chain \in [Procs -> Seq(Descs)] /\ avail \in Seq(Descs)
  BY DEF CacheInv, TypeOK, DriverTypeOK
<1>1. UNCHANGED <<data, content, last, blockno, valid, busy, pinned, dirty, buf, pc, want>>
  BY DEF Driver, Submit, SubmitFull, Finish, WaitAgain, virtioVars, deviceVars, cacheVars, callVars
<1>2. \A b \in Bufs : Unwritten(b) => Unwritten(b)'
  BY <1>1 DEF Unwritten
<1>3. ASSUME NEW q \in Procs, Served(q)' PROVE Served(q)
  <2>1. CASE Submit(p, buf[p], blockno[buf[p]], pc[p] = "write")
    <3>1. PICK c \in Seq(Descs) : c = Lowest3 /\ c # <<>> /\ c[1] \in Descs
      BY <1>0, <2>1, Lowest3Free DEF Submit, TypeOK, DriverTypeOK
    <3>2. /\ chain' = [chain EXCEPT ![p] = c] /\ avail' = Append(avail, c[1])
          /\ rw' = [rw EXCEPT ![p] = "wait"]
      BY <2>1, <3>1 DEF Submit, Goto
    <3>3. ToSet(avail) \cup {c[1]} \subseteq ToSet(avail')
      <4>1. /\ DOMAIN avail' = 1..(Len(avail) + 1) /\ Len(avail) \in Nat
            /\ DOMAIN avail = 1..Len(avail)
            /\ avail'[Len(avail) + 1] = c[1] /\ \A n \in 1..Len(avail) : avail'[n] = avail[n]
        BY <1>0, <3>1, <3>2
      <4>2. /\ Len(avail) + 1 \in DOMAIN avail'
            /\ \A n \in 1..Len(avail) : n \in DOMAIN avail'
        BY <4>1
      <4> QED
        BY <4>1, <4>2 DEF ToSet
    <3> QED
      BY <1>0, <1>1, <1>3, <3>2, <3>3 DEF Served
  <2>2. CASE SubmitFull(p)
    BY <1>0, <1>1, <1>3, <2>2 DEF SubmitFull, Goto, Served, deviceVars
  <2>3. CASE Finish(p)
    <3>1. /\ rw[p] = "wait" /\ info[chain[p][1]].buf \notin bdisk
          /\ rw' = [rw EXCEPT ![p] = "out"] /\ chain' = [chain EXCEPT ![p] = <<>>] /\ UNCHANGED avail
      BY <2>3 DEF Finish, At, Goto, deviceVars
    <3>2. chain[p][1] \notin OnTheirWay
      BY <1>0, <3>1 DEF RequestsAccounted
    <3> QED
      BY <1>0, <1>1, <1>3, <3>1, <3>2 DEF Served, OnTheirWay
  <2>4. CASE WaitAgain(p)
    BY <1>1, <1>3, <2>4 DEF WaitAgain, Served, virtioVars
  <2> QED
    BY <2>1, <2>2, <2>3, <2>4 DEF Driver
<1> QED
  BY <1>0, <1>1, <1>2, <1>3, CalmStep

(* A recycled buffer was neither pinned nor held.                          *)
LEMMA MissCoherent ==
  ASSUME Constants, CacheInv, NEW p \in Procs, BgetMiss(p)
  PROVE  Coherent'
<1>0. /\ Coherent /\ TypeOK /\ OneBuffer /\ CallOK(p)
      /\ pc \in [Procs -> PCs] /\ buf \in [Procs -> Bufs \cup {0}]
      /\ blockno \in [Bufs -> Blocks \cup {0}] /\ valid \in [Bufs -> BOOLEAN]
      /\ data \in [Bufs -> {0, 1}]
  BY DEF CacheInv, CallInv, TypeOK, DriverTypeOK
<1>1. PICK v \in Bufs : v = Victim /\ v \in Unused
  BY <1>0, VictimUnused DEF BgetMiss
<1>2. /\ pc[p] = "bget" /\ pc' = [pc EXCEPT ![p] = "lock"]
      /\ blockno' = [blockno EXCEPT ![v] = want[p]] /\ valid' = [valid EXCEPT ![v] = FALSE]
      /\ buf' = [buf EXCEPT ![p] = v] /\ data' = data
      /\ UNCHANGED <<pinned, want, dirty, last, content, rw, chain, avail, busy>>
  BY <1>1 DEF BgetMiss, Step, driverVars, virtioVars
<1>3. v \notin pinned /\ \A q \in Procs : buf[q] # v
  BY <1>0, <1>1, RefsCount
<1>4. \A b \in Bufs : b # v =>
        blockno'[b] = blockno[b] /\ valid'[b] = valid[b] /\ data'[b] = data[b]
  BY <1>0, <1>2
<1>5. ~dirty[p] /\ ~valid'[v]
  BY <1>0, <1>2 DEF CallOK
<1>6. BufferLatest'
  BY <1>0, <1>2, <1>4, <1>5 DEF Coherent, BufferLatest
<1>7. DiskLatest'
  <2>1. ASSUME NEW b \in Bufs, Unwritten(b)
        PROVE  b # v /\ Unwritten(b)'
    BY <1>0, <1>2, <1>3, <1>5, <2>1 DEF Unwritten
  <2> QED
    BY <1>0, <1>2, <1>4, <2>1 DEF Coherent, DiskLatest
<1>8. ASSUME NEW q \in Procs PROVE ServedOK(q)'
  <2>1. CASE q = p
    BY <1>0, <1>2, <2>1 DEF ServedOK, Served
  <2>2. CASE q # p
    <3>1. pc'[q] = pc[q] /\ buf'[q] = buf[q] /\ (Served(q)' => Served(q))
      BY <1>0, <1>2, <2>2 DEF Served
    <3>2. pc[q] \in {"read", "write"} => buf[q] \in Bufs
      BY HolderBuffer DEF Referring, PCs
    <3> QED
      BY <1>0, <1>2, <1>3, <1>4, <3>1, <3>2, OtherServed DEF Coherent
  <2> QED
    BY <2>1, <2>2
<1> QED
  BY <1>6, <1>7, <1>8 DEF Coherent

(* The read is done: the buffer is valid, with what the device put in it.  *)
LEMMA ReadDoneCoherent ==
  ASSUME Constants, CacheInv, NEW p \in Procs, ReadDone(p)
  PROVE  Coherent'
<1>0. /\ Coherent /\ TypeOK /\ pc \in [Procs -> PCs] /\ valid \in [Bufs -> BOOLEAN]
  BY DEF CacheInv, TypeOK
<1>1. /\ pc[p] = "read" /\ rw[p] = "out" /\ pc' = [pc EXCEPT ![p] = "have"]
      /\ valid' = [valid EXCEPT ![buf[p]] = TRUE]
      /\ UNCHANGED <<blockno, pinned, want, buf, dirty, last, data, content, rw, chain, avail, busy>>
  BY DEF ReadDone, Step, virtioVars
<1>2. buf[p] \in Bufs /\ blockno[buf[p]] = want[p]
  BY <1>1, HolderBuffer DEF Referring, PCs
<1>3. data[buf[p]] = last[want[p]]
  BY <1>0, <1>1 DEF Coherent, ServedOK, Served
<1>4. BufferLatest'
  BY <1>0, <1>1, <1>2, <1>3 DEF Coherent, BufferLatest
<1>5. DiskLatest'
  BY <1>0, <1>1 DEF Coherent, DiskLatest, Unwritten
<1>6. ASSUME NEW q \in Procs PROVE ServedOK(q)'
  BY <1>0, <1>1 DEF Coherent, ServedOK, Served
<1> QED
  BY <1>4, <1>5, <1>6 DEF Coherent

LEMMA ChangeCoherent ==
  ASSUME Constants, CacheInv, NEW p \in Procs, Change(p)
  PROVE  Coherent'
<1>0. /\ Coherent /\ TypeOK /\ OneBuffer /\ CallOK(p) /\ dirty \in [Procs -> BOOLEAN]
      /\ data \in [Bufs -> {0, 1}] /\ last \in [Blocks -> {0, 1}] /\ pc \in [Procs -> PCs]
      /\ blockno \in [Bufs -> Blocks \cup {0}]
  BY DEF CacheInv, CallInv, TypeOK, DriverTypeOK
<1>1. /\ pc[p] = "have" /\ UNCHANGED pc /\ data' = [data EXCEPT ![buf[p]] = 1 - @]
      /\ last' = [last EXCEPT ![want[p]] = 1 - data[buf[p]]]
      /\ dirty' = [dirty EXCEPT ![p] = TRUE]
      /\ UNCHANGED <<blockno, valid, pinned, want, buf, content, rw, chain, avail, busy>>
  BY <1>0 DEF Change, Step, cacheVars, driverVars
<1>2. /\ buf[p] \in Bufs /\ want[p] \in Blocks /\ blockno[buf[p]] = want[p]
      /\ \A b \in Bufs : blockno[b] = want[p] => b = buf[p]
  BY <1>1, HolderBuffer DEF Referring, PCs
<1>3. /\ data'[buf[p]] = last'[want[p]]
      /\ \A b \in Bufs : b # buf[p] => data'[b] = data[b]
      /\ \A k \in Blocks : k # want[p] => last'[k] = last[k]
  BY <1>0, <1>1, <1>2
<1>4. BufferLatest'
  <2>1. ASSUME NEW b \in Bufs, valid[b], b # buf[p]
        PROVE  data[b] = last[blockno[b]] /\ blockno[b] \in Blocks /\ blockno[b] # want[p]
    BY <1>0, <1>2, <2>1 DEF Coherent, BufferLatest, OneBuffer
  <2> QED
    BY <1>1, <1>2, <1>3, <2>1 DEF BufferLatest
<1>5. DiskLatest'
  <2>1. \A b \in Bufs : Unwritten(b) => Unwritten(b)'
    BY <1>0, <1>1 DEF Unwritten
  <2>2. ASSUME NEW k \in Blocks
        PROVE  content'[k] = last'[k] \/ \E b \in Bufs : blockno'[b] = k /\ Unwritten(b)'
    <3>1. CASE k = want[p]
      <4>1. PICK b \in Bufs : b = buf[p]
        BY <1>2
      <4>2. Unwritten(b)'
        BY <1>0, <1>1, <4>1 DEF Unwritten
      <4> QED
        BY <1>1, <1>2, <3>1, <4>1, <4>2
    <3>2. CASE k # want[p]
      BY <1>0, <1>1, <1>3, <2>1, <3>2 DEF Coherent, DiskLatest
    <3> QED
      BY <3>1, <3>2
  <2> QED
    BY <2>2 DEF DiskLatest
<1>6. ASSUME NEW q \in Procs PROVE ServedOK(q)'
  <2>1. CASE q = p
    BY <1>1, <2>1 DEF ServedOK, Served
  <2>2. CASE q # p
    <3>1. Served(q)' => Served(q)
      BY <1>1 DEF Served
    <3>2. pc[q] \in {"read", "write"} =>
            buf[q] \in Bufs /\ buf[q] # buf[p] /\ want[q] \in Blocks /\ want[q] # want[p]
      BY <1>1, <2>2, HolderAlone DEF Holding
    <3> QED
      BY <1>0, <1>1, <1>3, <3>1, <3>2, OtherServed DEF Coherent
  <2> QED
    BY <2>1, <2>2
<1> QED
  BY <1>4, <1>5, <1>6 DEF Coherent

(* The write is done: the block is on disk, so the pin may go.             *)
LEMMA WriteDoneCoherent ==
  ASSUME Constants, CacheInv, NEW p \in Procs, WriteDone(p)
  PROVE  Coherent'
<1>0. /\ Coherent /\ TypeOK /\ dirty \in [Procs -> BOOLEAN] /\ pc \in [Procs -> PCs]
  BY DEF CacheInv, TypeOK
<1>1. /\ pc[p] = "write" /\ rw[p] = "out" /\ pc' = [pc EXCEPT ![p] = "have"]
      /\ dirty' = [dirty EXCEPT ![p] = FALSE] /\ pinned' = pinned \ {buf[p]}
      /\ UNCHANGED <<blockno, valid, want, buf, last, data, content, rw, chain, avail, busy>>
  BY DEF WriteDone, Step, virtioVars
<1>2. buf[p] \in Bufs /\ blockno[buf[p]] = want[p]
  BY <1>1, HolderBuffer DEF Referring, PCs
<1>3. content[want[p]] = last[want[p]]
  BY <1>0, <1>1 DEF Coherent, ServedOK, Served
<1>4. BufferLatest'
  BY <1>0, <1>1 DEF Coherent, BufferLatest
<1>5. DiskLatest'
  <2>1. ASSUME NEW b \in Bufs, b # buf[p], Unwritten(b)
        PROVE  Unwritten(b)'
    BY <1>0, <1>1, <2>1 DEF Unwritten
  <2>2. ASSUME NEW k \in Blocks, content[k] # last[k]
        PROVE  \E b \in Bufs : blockno[b] = k /\ Unwritten(b)'
    <3>1. PICK b \in Bufs : blockno[b] = k /\ Unwritten(b)
      BY <1>0, <2>2 DEF Coherent, DiskLatest
    <3>2. b # buf[p]
      BY <1>2, <1>3, <2>2, <3>1
    <3> QED
      BY <2>1, <3>1, <3>2
  <2> QED
    BY <1>1, <2>2 DEF DiskLatest
<1>6. ASSUME NEW q \in Procs PROVE ServedOK(q)'
  BY <1>0, <1>1 DEF Coherent, ServedOK, Served
<1> QED
  BY <1>4, <1>5, <1>6 DEF Coherent

(* The device does a request: it reads what is the latest, as nothing of   *)
(* the block is still to be written, or writes what is the latest.         *)
LEMMA DeviceDoneCoherent ==
  ASSUME Constants, CacheInv, DeviceDone, UNCHANGED <<cacheVars, slk, callVars>>
  PROVE  Coherent'
<1>0. /\ Coherent /\ TypeOK /\ RequestsAccounted /\ OneBuffer
      /\ data \in [Bufs -> {0, 1}] /\ content \in [Blocks -> {0, 1}]
      /\ rw \in [Procs -> RwPlaces]
  BY DEF CacheInv, TypeOK, DriverTypeOK
<1>1. PICK h \in busy :
        /\ busy' = busy \ {h}
        /\ content' = IF info[h].write THEN [content EXCEPT ![info[h].blk] = data[info[h].buf]]
                                       ELSE content
        /\ data' = IF info[h].write THEN data
                                    ELSE [data EXCEPT ![info[h].buf] = content[info[h].blk]]
        /\ UNCHANGED <<avail, rw, chain>>
  BY DEF DeviceDone
<1>2. PICK p \in Procs : Asks(p, h)
  BY <1>1, Requester DEF OnTheirWay
<1>3. /\ info[h].buf = buf[p] /\ info[h].blk = want[p] /\ info[h].write = (pc[p] = "write")
      /\ rw[p] = "wait" /\ chain[p][1] = h /\ pc[p] \in {"read", "write"}
  BY <1>2 DEF Asks
<1>4. /\ UNCHANGED <<blockno, valid, pinned, pc, want, buf, dirty, last>>
  BY DEF cacheVars, callVars
<1>5. /\ buf[p] \in Bufs /\ want[p] \in Blocks /\ blockno[buf[p]] = want[p]
      /\ \A b \in Bufs : blockno[b] = want[p] => b = buf[p]
  BY <1>3, HolderBuffer DEF Referring, PCs
<1>6. valid[buf[p]] <=> pc[p] = "write"
  BY <1>3 DEF CacheInv, CallInv, CallOK
<1>7. ASSUME NEW q \in Procs, q # p, pc[q] \in {"read", "write"}
      PROVE  /\ buf[q] \in Bufs /\ buf[q] # buf[p] /\ want[q] \in Blocks /\ want[q] # want[p]
             /\ rw[q] = "wait" => chain[q][1] # h
  BY <1>3, <1>7, HolderAlone, HeadsApart DEF Holding
<1>8. ASSUME NEW q \in Procs, q # p,
             pc[q] \in {"read", "write"} =>
               data'[buf[q]] = data[buf[q]] /\ content'[want[q]] = content[want[q]]
      PROVE  ServedOK(q)'
  <2>1. Served(q)' => Served(q)
    BY <1>1, <1>4, <1>7, <1>8 DEF Served
  <2> QED
    BY <1>0, <1>4, <1>8, <2>1, OtherServed DEF Coherent
<1>9. CASE pc[p] = "write"
  <2>1. UNCHANGED data /\ content' = [content EXCEPT ![want[p]] = data[buf[p]]]
    BY <1>1, <1>3, <1>9
  <2>2. content'[want[p]] = last[want[p]]
    BY <1>0, <1>5, <1>6, <1>9, <2>1 DEF Coherent, BufferLatest
  <2>3. \A k \in Blocks : k # want[p] => content'[k] = content[k]
    BY <1>0, <2>1
  <2>4. BufferLatest'
    BY <1>0, <1>4, <2>1 DEF Coherent, BufferLatest
  <2>5. DiskLatest'
    BY <1>0, <1>4, <2>2, <2>3 DEF Coherent, DiskLatest, Unwritten
  <2>6. ServedOK(p)'
    BY <1>4, <1>9, <2>2 DEF ServedOK
  <2>7. \A q \in Procs : q # p => ServedOK(q)'
    BY <1>7, <1>8, <2>1, <2>3
  <2> QED
    BY <2>4, <2>5, <2>6, <2>7 DEF Coherent
<1>10. CASE pc[p] = "read"
  <2>1. UNCHANGED content /\ data' = [data EXCEPT ![buf[p]] = content[want[p]]]
    BY <1>1, <1>3, <1>10
  <2>2. \A b \in Bufs : b # buf[p] => data'[b] = data[b]
    BY <1>0, <2>1
  <2>3. ~Unwritten(buf[p])
    <3>1. buf[p] \notin pinned
      BY <1>0, <1>6, <1>10 DEF OneBuffer
    <3>2. ASSUME NEW q \in Procs, dirty[q], buf[q] = buf[p]
          PROVE  FALSE
      <4>1. pc[q] \in {"have", "write"} /\ q # p
        BY <1>10, <3>2 DEF CacheInv, CallInv, CallOK
      <4> QED
        BY <1>10, <3>2, <4>1, HolderAlone DEF Holding
    <3> QED
      BY <3>1, <3>2 DEF Unwritten
  <2>4. content[want[p]] = last[want[p]]
    BY <1>0, <1>5, <2>3 DEF Coherent, DiskLatest
  <2>5. BufferLatest'
    BY <1>0, <1>4, <1>6, <1>10, <2>2 DEF Coherent, BufferLatest
  <2>6. DiskLatest'
    BY <1>0, <1>4, <2>1 DEF Coherent, DiskLatest, Unwritten
  <2>7. ServedOK(p)'
    BY <1>0, <1>4, <1>5, <1>10, <2>1, <2>4 DEF ServedOK
  <2>8. \A q \in Procs : q # p => ServedOK(q)'
    BY <1>7, <1>8, <2>1, <2>2
  <2> QED
    BY <2>5, <2>6, <2>7, <2>8 DEF Coherent
<1> QED
  BY <1>3, <1>9, <1>10

LEMMA CoherentNext ==
  ASSUME Constants, CacheInv, Next
  PROVE  Coherent'
<1>0. Coherent /\ TypeOK /\ RequestsAccounted
  BY DEF CacheInv
<1>1. CASE Hardware
  <2>1. CASE DeviceDone
    BY <1>1, <2>1, DeviceDoneCoherent DEF Hardware
  <2>2. CASE ~DeviceDone
    <3>1. UNCHANGED <<data, content, rw, chain>>
      BY <1>1, <2>2 DEF Hardware, Device, DeviceTake, Interrupt, IntrEnter, IntrOne, IntrLeave,
                        deviceVars
    <3>2. ToSet(avail') \cup busy' = ToSet(avail) \cup busy
      <4>1. CASE DeviceTake
        <5>1. /\ Head(avail) \in ToSet(avail) /\ ToSet(Tail(avail)) = ToSet(avail) \ {Head(avail)}
          BY <1>0, <4>1, TailOnce DEF DeviceTake, RequestsAccounted, TypeOK, DriverTypeOK
        <5> QED
          BY <4>1, <5>1 DEF DeviceTake
      <4>2. CASE Interrupt
        BY <4>2 DEF Interrupt, IntrEnter, IntrOne, IntrLeave, deviceVars
      <4> QED
        BY <1>1, <2>2, <4>1, <4>2 DEF Hardware, Device
    <3>3. UNCHANGED <<blockno, valid, pinned, pc, want, buf, dirty, last>>
      BY <1>1 DEF Hardware, cacheVars, callVars
    <3> QED
      BY <1>0, <3>1, <3>2, <3>3, CalmStep DEF Unwritten, Served
  <2> QED
    BY <2>1, <2>2
<1>2. ASSUME NEW p \in Procs, Serve(p) \/ Use(p) \/ Kill(p)
      PROVE  Coherent'
  BY <1>2, CallersCalm, DriverCalm, MissCoherent, ReadDoneCoherent, ChangeCoherent,
     WriteDoneCoherent DEF Serve, Use
<1> QED
  BY <1>1, <1>2 DEF Next

-----------------------------------------------------------------------------
(* The theorems.                                                           *)

LEMMA CacheInit ==
  ASSUME Constants, Init
  PROVE  CacheInv
<1> USE DEF Init, VirtioInit, Constants, VirtioAssumption, BufCacheAssumption
<1>1. TypeOK
  <2>1. \A b \in Bufs : NBUF + 1 - b \in Bufs /\ NBUF + 1 - (NBUF + 1 - b) = b
    BY DEF Bufs
  <2>2. lru \in [Bufs -> Bufs] /\ \A b \in Bufs : \E n \in Bufs : lru[n] = b
    BY <2>1
  <2>3. NoOp \in Request /\ <<>> \in Seq(Descs)
    BY DEF NoOp, Request
  <2>4. DriverTypeOK
    BY <2>3 DEF DriverTypeOK, RwPlaces
  <2> QED
    BY <2>2, <2>4 DEF TypeOK, PCs
<1>2. OnTheirWay = {}
  BY ToSetEmpty DEF OnTheirWay
<1>3. CallInv
  BY DEF CallInv, CallOK, LockInv, Referring, Holding, Bufs
<1>4. OneBuffer
  <2>1. ASSUME NEW b \in Bufs
        PROVE  Cardinality({p \in Procs : buf[p] = b}) = 0
    <3>1. {p \in Procs : buf[p] = b} = {}
      BY DEF Bufs
    <3> QED
      BY <3>1, FS_EmptySet
  <2> QED
    BY <2>1 DEF OneBuffer
<1>5. EnoughBuffers
  <2>1. Needed = {}
    BY DEF Needed
  <2>2. Cardinality(Needed) = 0
    BY <2>1, FS_EmptySet
  <2> QED
    BY <2>2, NeededFinite DEF EnoughBuffers
<1>6. BufferForAll
  BY <1>1, <1>5, EnoughForAll
<1>7. DescsConserved /\ ChainInv
  BY ToSetEmpty DEF DescsConserved, ChainInv
<1>8. RequestsAccounted /\ AsksForHeld /\ InterruptComes
  BY <1>2, ToSetEmpty DEF RequestsAccounted, AsksForHeld, InterruptComes, IsInjective
<1>9. SleepersHaveReason /\ Coherent
  BY DEF SleepersHaveReason, Coherent, BufferLatest, DiskLatest, ServedOK, Served
<1> QED
  BY <1>1, <1>3, <1>4, <1>5, <1>6, <1>7, <1>8, <1>9 DEF CacheInv

LEMMA StutterKeeps ==
  ASSUME CacheInv, UNCHANGED vars
  PROVE  CacheInv'
<1>1. /\ UNCHANGED <<free, info, avail, busy, used, pending, inIntr, bdisk, content, data, rw>>
      /\ UNCHANGED <<chain, asleep, blockno, valid, refcnt, pinned, lru, slk, pc, want, buf>>
      /\ UNCHANGED <<dirty, last>>
  BY DEF vars, virtioVars, cacheVars, callVars
<1> USE <1>1 DEF CacheInv
<1>2. TypeOK'
  BY DEF TypeOK, DriverTypeOK
<1>3. CallInv'
  BY DEF CallInv, CallOK, LockInv
<1>4. OneBuffer' /\ BufferForAll' /\ EnoughBuffers'
  BY DEF OneBuffer, BufferForAll, EnoughBuffers, Needed, Unused, Cached
<1>5. (DescsConserved /\ ChainInv /\ RequestsAccounted /\ AsksForHeld /\ InterruptComes)'
  <2>1. DescsConserved' /\ ChainInv' /\ InterruptComes'
    BY DEF DescsConserved, ChainInv, InterruptComes
  <2>2. RequestsAccounted'
    BY DEF RequestsAccounted, OnTheirWay
  <2>3. AsksForHeld'
    BY DEF AsksForHeld
  <2> QED
    BY <2>1, <2>2, <2>3
<1>6. SleepersHaveReason'
  BY DEF SleepersHaveReason, HasReason
<1>7. Coherent'
  BY DEF Coherent, BufferLatest, DiskLatest, Unwritten, ServedOK, Served
<1> QED
  BY <1>2, <1>3, <1>4, <1>5, <1>6, <1>7

LEMMA CacheStep ==
  ASSUME Constants, CacheInv, [Next]_vars
  PROVE  CacheInv'
<1>1. CASE Next
  BY <1>1, TypeNext, CallNext, LockNext, OneBufferNext, EnoughNext, BufferNext, DriverNext,
     InterruptNext, SleepersNext, CoherentNext DEF CacheInv, CallInv
<1>2. CASE UNCHANGED vars
  BY <1>2, StutterKeeps
<1> QED
  BY <1>1, <1>2

(* Buffers, references, descriptors and requests are accounted for, no     *)
(* wakeup is lost, and buffers and disk agree on what was last put in.     *)
THEOREM CacheSafe ==
  ASSUME Constants
  PROVE  Spec => []CacheInv
<1>1. Init => CacheInv
  BY CacheInit
<1>2. CacheInv /\ [Next]_vars => CacheInv'
  BY CacheStep
<1> QED
  BY <1>1, <1>2, PTL DEF Spec

(* Who holds a block sees what was last put into it.                       *)
THEOREM LatestSeen ==
  ASSUME Constants
  PROVE  Spec => []SeesLatest
<1>1. CacheInv => SeesLatest
  <2>1. SUFFICES ASSUME CacheInv, NEW p \in Procs, pc[p] = "have"
                 PROVE  blockno[buf[p]] = want[p] /\ data[buf[p]] = last[want[p]]
    BY DEF SeesLatest
  <2>2. buf[p] \in Bufs /\ blockno[buf[p]] = want[p]
    BY <2>1, HolderBuffer DEF Referring, PCs
  <2>3. valid[buf[p]]
    BY <2>1 DEF CacheInv, CallInv, CallOK
  <2> QED
    BY <2>1, <2>2, <2>3 DEF CacheInv, Coherent, BufferLatest
<1> QED
  BY <1>1, CacheSafe, PTL

=============================================================================
