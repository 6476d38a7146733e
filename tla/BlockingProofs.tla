--------------------------- MODULE BlockingProofs ---------------------------
(* Pipes, for any number of readers and writers, any size of the ring and  *)
(* any width of its counters: nobody sleeps through a wakeup, and the ring *)
(* is a bounded first-in first-out queue, whatever kill() does.  At the    *)
(* end, what CacheProofs shows of the buffer cache for the two side by     *)
(* side.                                                                   *)
EXTENDS MCBlocking, Integers, SequenceTheorems, TLAPS

-----------------------------------------------------------------------------
(* Remainders, for the indices of the ring                                 *)

LEMMA DivMod ==
  ASSUME NEW a \in Nat, NEW b \in Nat \ {0}
  PROVE  a % b \in 0..(b - 1) /\ a \div b \in Nat /\ a = b * (a \div b) + (a % b)
  BY SMT

(* Quotient and remainder are unique.                                      *)
LEMMA Unique ==
  ASSUME NEW b \in Nat \ {0}, NEW q \in Nat, NEW r \in 0..(b - 1),
         NEW k \in Nat, NEW s \in 0..(b - 1), b * q + r = b * k + s
  PROVE  r = s
<1>1. CASE q < k
  <2>1. b * k >= b * (q + 1)
    BY <1>1
  <2>2. b * (q + 1) = b * q + b
    OBVIOUS
  <2> QED
    BY <2>1, <2>2
<1>2. CASE q > k
  <2>1. b * q >= b * (k + 1)
    BY <1>2
  <2>2. b * (k + 1) = b * k + b
    OBVIOUS
  <2> QED
    BY <2>1, <2>2
<1> QED
  BY <1>1, <1>2

(* A multiple of the divisor may be added.                                 *)
LEMMA ModShift ==
  ASSUME NEW a \in Nat, NEW b \in Nat \ {0}, NEW k \in Nat
  PROVE  (a + b * k) % b = a % b
<1> DEFINE q == a \div b
           r == a % b
           c == a + b * k
<1>1. q \in Nat /\ r \in 0..(b - 1) /\ a = b * q + r
  BY DivMod
<1>2. c \in Nat
  OBVIOUS
<1>3. /\ c \div b \in Nat /\ c % b \in 0..(b - 1)
      /\ c = b * (c \div b) + (c % b)
  BY <1>2, DivMod
<1>4. b * (q + k) + r = c
  <2> HIDE DEF q, r
  <2>1. b * (q + k) = b * q + b * k
    BY <1>1
  <2>2. b * q \in Nat /\ b * k \in Nat
    BY <1>1
  <2> QED
    BY <2>1, <2>2, <1>1
<1>5. q + k \in Nat
  BY <1>1
<1> HIDE DEF q, r, c
<1>6. r = c % b
  BY <1>1, <1>3, <1>4, <1>5, Unique
<1> QED
  BY <1>6 DEF c, r

(* Numbers less than the divisor apart have different remainders.          *)
LEMMA ModDistinct ==
  ASSUME NEW x \in Nat, NEW b \in Nat \ {0}, NEW d \in 1..(b - 1)
  PROVE  x % b # (x + d) % b
<1> DEFINE q == x \div b
           r == x % b
           y == x + d
           k == y \div b
<1>1. q \in Nat /\ r \in 0..(b - 1) /\ x = b * q + r
  BY DivMod
<1>2. y \in Nat
  OBVIOUS
<1>3. k \in Nat /\ y = b * k + (y % b)
  BY <1>2, DivMod
<1> SUFFICES ASSUME r = y % b PROVE FALSE
  BY DEF r, y
<1>4. b * q \in Nat /\ b * k \in Nat
  BY <1>1, <1>3
<1>5. b * k = b * q + d
  <2>1. b * k + r = b * q + r + d
    BY <1>1, <1>3 DEF y
  <2> HIDE DEF q, r, k
  <2> QED
    BY <2>1, <1>4, <1>1
<1> HIDE DEF q, r, k, y
<1>6. CASE k <= q
  <2>1. b * k <= b * q
    BY <1>1, <1>3, <1>6
  <2> QED
    BY <2>1, <1>5, <1>4
<1>7. CASE k >= q + 1
  <2>1. b * k >= b * (q + 1)
    BY <1>1, <1>3, <1>7
  <2>2. b * (q + 1) = b * q + b
    BY <1>1
  <2> QED
    BY <2>1, <2>2, <1>5, <1>4
<1> QED
  BY <1>6, <1>7, <1>1, <1>3

(* What is at most one divisor too large.                                  *)
LEMMA ModOnce ==
  ASSUME NEW a \in Nat, NEW b \in Nat \ {0}, a < 2 * b
  PROVE  a % b = IF a < b THEN a ELSE a - b
<1>1. CASE a < b
  BY <1>1, SMT
<1>2. CASE a >= b
  BY <1>2, SMT
<1> QED
  BY <1>1, <1>2

-----------------------------------------------------------------------------
(* Queues as functions on 1..m                                             *)

LEMMA AppendIs ==
  ASSUME NEW m \in Nat, NEW S, NEW f \in [1..m -> S], NEW e \in S
  PROVE  Append(f, e) = [k \in 1..(m + 1) |-> IF k = m + 1 THEN e ELSE f[k]]
<1> DEFINE g == [k \in 1..(m + 1) |-> IF k = m + 1 THEN e ELSE f[k]]
<1>1. f \in Seq(S) /\ Len(f) = m
  OBVIOUS
<1>2. Append(f, e) \in Seq(S) /\ Len(Append(f, e)) = m + 1
  BY <1>1
<1>3. \A k \in 1..(m + 1) : Append(f, e)[k] = g[k]
  BY <1>1
<1>4. g \in [1..(m + 1) -> S]
  OBVIOUS
<1>5. g \in Seq(S) /\ Len(g) = m + 1
  BY <1>4
<1> HIDE DEF g
<1>6. Append(f, e) = g
  BY <1>2, <1>3, <1>5, SeqEqual
<1> QED
  BY <1>6 DEF g

LEMMA TailIs ==
  ASSUME NEW m \in Nat \ {0}, NEW S, NEW f \in [1..m -> S]
  PROVE  /\ f # <<>> /\ Head(f) = f[1]
         /\ Tail(f) = [k \in 1..(m - 1) |-> f[k + 1]]
<1> DEFINE g == [k \in 1..(m - 1) |-> f[k + 1]]
<1>1. f \in Seq(S) /\ Len(f) = m
  OBVIOUS
<1>2. Tail(f) \in Seq(S) /\ Len(Tail(f)) = m - 1
  BY <1>1
<1>3. \A k \in 1..(m - 1) : Tail(f)[k] = g[k]
  BY <1>1
<1>4. g \in [1..(m - 1) -> S]
  OBVIOUS
<1>5. g \in Seq(S) /\ Len(g) = m - 1
  BY <1>4
<1> HIDE DEF g
<1>6. Tail(f) = g
  BY <1>2, <1>3, <1>5, SeqEqual
<1>7. f # <<>> /\ Head(f) = f[1]
  BY <1>1
<1> QED
  BY <1>6, <1>7 DEF g

-----------------------------------------------------------------------------
(* The ring                                                                *)

(* The number of bytes between two counters, without remainders.           *)
LEMMA Distance ==
  ASSUME NEW x \in 0..(Wrap - 1), NEW y \in 0..(Wrap - 1)
  PROVE  /\ (y + Wrap - x) % Wrap = IF y >= x THEN y - x ELSE y + Wrap - x
         /\ (y + Wrap - x) % Wrap \in 0..(Wrap - 1)
         /\ x = y <=> (y + Wrap - x) % Wrap = 0
         /\ y = (x + PIPESIZE) % Wrap <=> (y + Wrap - x) % Wrap = PIPESIZE
<1> DEFINE z == y + Wrap - x
           t == x + PIPESIZE
           u == z % Wrap
<1>1. Wrap \in Nat \ {0} /\ PIPESIZE \in Nat \ {0} /\ PIPESIZE < Wrap
  BY PipeAssumption DEF PipeAssumption
<1>2. z \in Nat /\ z < 2 * Wrap /\ t \in Nat /\ t < 2 * Wrap
  BY <1>1
<1>3. u = IF z < Wrap THEN z ELSE z - Wrap
  <2> HIDE DEF z
  <2> QED
    BY <1>1, <1>2, ModOnce
<1>4. t % Wrap = IF t < Wrap THEN t ELSE t - Wrap
  <2> HIDE DEF t
  <2> QED
    BY <1>1, <1>2, ModOnce
<1> HIDE DEF u
<1>5. /\ u = IF y >= x THEN y - x ELSE y + Wrap - x
      /\ u \in 0..(Wrap - 1)
      /\ x = y <=> u = 0
  BY <1>1, <1>3
<1>6. y = t % Wrap <=> u = PIPESIZE
  BY <1>1, <1>3, <1>4
<1> QED
  BY <1>5, <1>6 DEF u

(* Full and Empty by the number of bytes.                                  *)
LEMMA UsedIs ==
  ASSUME TypeOK
  PROVE  /\ Used = IF nwrite >= nread THEN nwrite - nread
                   ELSE nwrite + Wrap - nread
         /\ Used \in 0..(Wrap - 1)
         /\ Empty <=> Used = 0
         /\ Full <=> Used = PIPESIZE
  BY Distance DEF TypeOK, Used, Empty, Full

(* An index moves on by one.                                               *)
LEMMA Incremented ==
  ASSUME NEW x \in 0..(Wrap - 1)
  PROVE  /\ (x + 1) % Wrap = IF x = Wrap - 1 THEN 0 ELSE x + 1
         /\ (x + 1) % Wrap \in 0..(Wrap - 1)
<1>1. Wrap \in Nat \ {0} /\ Wrap > 1
  BY PipeAssumption DEF PipeAssumption
<1> DEFINE y == x + 1
<1>2. y \in Nat /\ y < 2 * Wrap
  BY <1>1
<1> HIDE DEF y
<1>3. y % Wrap = IF y < Wrap THEN y ELSE y - Wrap
  BY <1>1, <1>2, ModOnce
<1> QED
  BY <1>1, <1>3 DEF y

(* Going round the counters goes round the ring: the size divides Wrap.    *)
LEMMA Around ==
  ASSUME NEW x \in Nat
  PROVE  (x + Wrap) % PIPESIZE = x % PIPESIZE
<1>1. Wrap \in Nat /\ PIPESIZE \in Nat \ {0} /\ Wrap % PIPESIZE = 0
  BY PipeAssumption DEF PipeAssumption
<1>2. /\ Wrap \div PIPESIZE \in Nat
      /\ Wrap = PIPESIZE * (Wrap \div PIPESIZE) + (Wrap % PIPESIZE)
  BY <1>1, DivMod
<1>3. PIPESIZE * (Wrap \div PIPESIZE) \in Nat
  BY <1>1, <1>2
<1> DEFINE c == Wrap \div PIPESIZE
<1>4. Wrap = PIPESIZE * c
  BY <1>1, <1>2, <1>3
<1>5. c \in Nat
  BY <1>2
<1> HIDE DEF c
<1>6. (x + PIPESIZE * c) % PIPESIZE = x % PIPESIZE
  BY <1>1, <1>5, ModShift
<1> QED
  BY <1>4, <1>6

(* The cell behind the last byte is where pipewrite() writes, and it holds *)
(* none of the bytes in use as long as the ring is not full.               *)
LEMMA NextCell ==
  ASSUME TypeOK
  PROVE  /\ nwrite % PIPESIZE = Cell(Used + 1)
         /\ Used < PIPESIZE => \A k \in 1..Used : Cell(k) # nwrite % PIPESIZE
         /\ \A k \in Nat \ {0} : Cell(k) \in 0..(PIPESIZE - 1)
         /\ nwrite % PIPESIZE \in 0..(PIPESIZE - 1)
<1>1. /\ PIPESIZE \in Nat \ {0} /\ nread \in Nat /\ nwrite \in Nat
      /\ Wrap \in Nat /\ nread < Wrap
  BY PipeAssumption DEF PipeAssumption, TypeOK
<1>2. Used \in Nat /\ Used = IF nwrite >= nread THEN nwrite - nread
                             ELSE nwrite + Wrap - nread
  BY UsedIs, <1>1
<1>3. nwrite % PIPESIZE = (nread + Used) % PIPESIZE
  <2>1. CASE nwrite >= nread
    BY <2>1, <1>1, <1>2
  <2>2. CASE nwrite < nread
    <3>1. nread + Used = nwrite + Wrap
      BY <2>2, <1>1, <1>2
    <3> QED
      BY <3>1, <1>1, Around
  <2> QED
    BY <2>1, <2>2, <1>1
<1>4. nread + (Used + 1) - 1 = nread + Used
  BY <1>1, <1>2
<1>5. ASSUME Used < PIPESIZE, NEW k \in 1..Used
      PROVE  Cell(k) # nwrite % PIPESIZE
  <2>1. nread + k - 1 \in Nat /\ Used + 1 - k \in 1..(PIPESIZE - 1)
    BY <1>1, <1>2, <1>5
  <2>2. (nread + k - 1) + (Used + 1 - k) = nread + Used
    BY <1>1, <1>2
  <2>3. (nread + k - 1) % PIPESIZE # ((nread + k - 1) + (Used + 1 - k)) % PIPESIZE
    BY <2>1, <1>1, ModDistinct
  <2> QED
    BY <2>2, <2>3, <1>3 DEF Cell
<1>6. ASSUME NEW k \in Nat \ {0}
      PROVE  Cell(k) \in 0..(PIPESIZE - 1)
  <2>1. nread + k - 1 \in Nat
    BY <1>1
  <2> QED
    BY <2>1, <1>1, DivMod DEF Cell
<1>7. nwrite % PIPESIZE \in 0..(PIPESIZE - 1)
  BY <1>1, DivMod
<1> QED
  BY <1>3, <1>4, <1>5, <1>6, <1>7 DEF Cell

(* A byte is put in behind the others, which stay where they are.          *)
LEMMA PutRing ==
  ASSUME TypeOK, Used <= PIPESIZE, ~Full, NEW b \in Bytes,
         data' = [data EXCEPT ![nwrite % PIPESIZE] = b],
         nwrite' = (nwrite + 1) % Wrap, nread' = nread
  PROVE  /\ Used < PIPESIZE /\ Used' = Used + 1
         /\ \A k \in 1..Used : data'[Cell(k)'] = data[Cell(k)]
         /\ data'[Cell(Used)'] = b
         /\ nwrite' \in 0..(Wrap - 1)
         /\ data' \in [0..(PIPESIZE - 1) -> Bytes \cup {NoByte}]
<1>1. /\ PIPESIZE \in Nat \ {0} /\ Wrap \in Nat /\ PIPESIZE < Wrap
      /\ nread \in 0..(Wrap - 1) /\ nwrite \in 0..(Wrap - 1)
  BY PipeAssumption DEF PipeAssumption, TypeOK
<1>2. Used \in Nat /\ Used < PIPESIZE
  BY UsedIs, <1>1
<1>3. nwrite' \in 0..(Wrap - 1)
  BY Incremented, <1>1
<1>4. Used' = Used + 1
  <2>1. Used' = IF nwrite' >= nread THEN nwrite' - nread
                ELSE nwrite' + Wrap - nread
    BY Distance, <1>1, <1>3 DEF Used
  <2>2. nwrite' = IF nwrite = Wrap - 1 THEN 0 ELSE nwrite + 1
    BY Incremented, <1>1
  <2>3. Used = IF nwrite >= nread THEN nwrite - nread
               ELSE nwrite + Wrap - nread
    BY UsedIs
  <2> QED
    BY <2>1, <2>2, <2>3, <1>1, <1>2
<1>5. \A k : Cell(k)' = Cell(k)
  BY DEF Cell
<1>6. \A k \in 1..Used : data'[Cell(k)] = data[Cell(k)]
  <2>1. \A k \in 1..Used : Cell(k) \in 0..(PIPESIZE - 1)
                           /\ Cell(k) # nwrite % PIPESIZE
    BY NextCell, <1>2
  <2> QED
    BY <2>1 DEF TypeOK
<1>7. data'[Cell(Used)'] = b
  <2>1. data'[Cell(Used + 1)] = b
    BY NextCell DEF TypeOK
  <2>2. Cell(Used)' = Cell(Used + 1)
    BY <1>4 DEF Cell
  <2> QED
    BY <2>1, <2>2
<1>8. data' \in [0..(PIPESIZE - 1) -> Bytes \cup {NoByte}]
  BY NextCell DEF TypeOK
<1> QED
  BY <1>2, <1>3, <1>4, <1>5, <1>6, <1>7, <1>8

(* The oldest byte is taken out, and the others move up.                   *)
LEMMA TakeRing ==
  ASSUME TypeOK, ~Empty, TakeByte, data' = data, nwrite' = nwrite
  PROVE  /\ Used \in Nat \ {0} /\ Used' = Used - 1
         /\ \A k \in 1..(Used - 1) : data'[Cell(k)'] = data[Cell(k + 1)]
         /\ out' = data[Cell(1)]
         /\ nread' \in 0..(Wrap - 1)
         /\ out' \in Bytes \cup {NoByte}
<1>1. /\ PIPESIZE \in Nat \ {0} /\ Wrap \in Nat /\ PIPESIZE < Wrap
      /\ nread \in 0..(Wrap - 1) /\ nwrite \in 0..(Wrap - 1)
  BY PipeAssumption DEF PipeAssumption, TypeOK
<1>2. Used \in Nat \ {0}
  BY UsedIs, <1>1
<1>3. /\ nread' = IF nread = Wrap - 1 THEN 0 ELSE nread + 1
      /\ nread' \in 0..(Wrap - 1)
  BY Incremented, <1>1 DEF TakeByte
<1>4. Used' = Used - 1
  <2>1. Used' = IF nwrite >= nread' THEN nwrite - nread'
                ELSE nwrite + Wrap - nread'
    BY Distance, <1>1, <1>3 DEF Used
  <2>2. Used = IF nwrite >= nread THEN nwrite - nread
               ELSE nwrite + Wrap - nread
    BY UsedIs
  <2> QED
    BY <2>1, <2>2, <1>1, <1>2, <1>3
<1>5. ASSUME NEW k \in 1..(Used - 1)
      PROVE  Cell(k)' = Cell(k + 1)
  <2>1. Cell(k)' = (nread' + k - 1) % PIPESIZE
    BY DEF Cell
  <2>2. Cell(k + 1) = (nread + k) % PIPESIZE
    <3>1. nread + (k + 1) - 1 = nread + k
      BY <1>1, <1>2
    <3> QED
      BY <3>1 DEF Cell
  <2>3. CASE nread # Wrap - 1
    <3>1. nread' + k - 1 = nread + k
      BY <1>1, <1>2, <1>3, <2>3
    <3> QED
      BY <3>1, <2>1, <2>2
  <2>4. CASE nread = Wrap - 1
    <3>1. nread' + k - 1 = k - 1 /\ k - 1 \in Nat
      BY <1>1, <1>2, <1>3, <2>4
    <3>2. nread + k = (k - 1) + Wrap
      BY <1>1, <1>2, <2>4
    <3> QED
      BY <3>1, <3>2, <2>1, <2>2, Around
  <2> QED
    BY <2>3, <2>4
<1>6. out' = data[Cell(1)]
  <2>1. nread + 1 - 1 = nread
    BY <1>1
  <2> QED
    BY <2>1 DEF Cell, TakeByte
<1>7. out' \in Bytes \cup {NoByte}
  <2>1. Cell(1) \in 0..(PIPESIZE - 1)
    BY NextCell
  <2> QED
    BY <2>1, <1>6 DEF TypeOK
<1> QED
  BY <1>2, <1>3, <1>4, <1>5, <1>6, <1>7

-----------------------------------------------------------------------------
(* The invariant                                                           *)

(* A new pipe.                                                             *)
LEMMA PipeInvInit == Init => PipeInv
<1> SUFFICES ASSUME Init PROVE PipeInv
  OBVIOUS
<1> USE PipeAssumption DEF PipeAssumption, Init, Procs
<1>1. TypeOK
  BY DEF TypeOK, PCs
<1>2. PlaceInv
  <2>1. Procs \cap Readers # {} /\ Procs \cap Writers # {}
    OBVIOUS
  <2> QED
    BY <2>1 DEF PlaceInv, Inside
<1>3. SleepReason /\ SleepersHaveReason
  BY DEF SleepReason, SleepersHaveReason
<1>4. RingInv
  <2>1. Used = 0
    BY <1>1, UsedIs DEF Empty
  <2> QED
    BY <2>1 DEF RingInv
<1> QED
  BY <1>1, <1>2, <1>3, <1>4 DEF PipeInv

(* What changes the ring: a byte put in or taken out.                      *)
LEMMA RingUnchanged ==
  ASSUME RingInv, UNCHANGED <<data, nread, nwrite>>
  PROVE  RingInv' /\ Used' = Used /\ \A k : Cell(k)' = Cell(k)
  BY DEF RingInv, Used, Cell

LEMMA TypeNext ==
  ASSUME TypeOK, RingInv, Next
  PROVE  TypeOK'
<1> PICK p \in Procs : (\E k \in Counts : Call(p, k)) \/ Step(p) \/ Close(p) \/ Kill(p)
  BY DEF Next
<1> USE DEF TypeOK, PCs
<1>1. ASSUME NEW k \in Counts, Call(p, k) PROVE TypeOK'
  BY <1>1, PipeAssumption DEF PipeAssumption, Call, Goto, bufVars, endVars
<1>2. CASE Lock(p)
  BY <1>2 DEF Lock, Goto, bufVars, endVars
<1>3. CASE Sleep(p)
  BY <1>3 DEF Sleep, Goto, bufVars, endVars
<1>4. CASE Write(p)
  <2>1. ASSUME NEW S, Return(p, S), UNCHANGED <<bufVars, endVars, killed>>
        PROVE  TypeOK'
    BY <2>1 DEF Return, Goto, bufVars, endVars
  <2>2. CASE WriteFull(p)
    BY <2>2 DEF WriteFull, Goto, bufVars, endVars
  <2>3. ASSUME NEW b \in Bytes, WriteByte(p, b) PROVE TypeOK'
    <3>1. /\ nwrite' \in 0..(Wrap - 1)
          /\ data' \in [0..(PIPESIZE - 1) -> Bytes \cup {NoByte}]
      BY <2>3, PutRing DEF WriteByte, WriteGoesOn, RingInv
    <3>2. i' \in [Procs -> Nat]
      BY <2>3 DEF WriteByte
    <3> QED
      BY <2>3, <3>1, <3>2 DEF WriteByte, endVars
  <2> QED
    BY <1>4, <2>1, <2>2, <2>3 DEF Write, WriteAll, WriteGivesUp, WriteFault
<1>5. CASE Read(p)
  <2>1. CASE ReadReady(p) \/ ReadEnd(p)
    BY <2>1 DEF ReadReady, ReadEnd, Return, Goto, bufVars, endVars
  <2>4. CASE ReadEmpty(p)
    <3>1. CASE p \in killed
      <4>1. /\ Return(p, {})
            /\ UNCHANGED <<data, nread, nwrite, out, readopen, writeopen, holds, killed>>
        BY <2>4, <3>1 DEF ReadEmpty, bufVars, endVars
      <4> QED
        BY <4>1 DEF Return, Goto
    <3>2. CASE p \notin killed
      BY <2>4, <3>2 DEF ReadEmpty, Goto, bufVars, endVars
    <3> QED
      BY <3>1, <3>2
  <2>2. CASE ReadByte(p)
    <3>1. nread' \in 0..(Wrap - 1) /\ out' \in Bytes \cup {NoByte}
      BY <2>2, TakeRing DEF ReadByte
    <3>2. i' \in [Procs -> Nat]
      BY <2>2 DEF ReadByte
    <3> QED
      BY <2>2, <3>1, <3>2 DEF ReadByte, endVars
  <2>3. CASE ReadFault(p)
    <3>1. nread' \in 0..(Wrap - 1) /\ out' \in Bytes \cup {NoByte}
      BY <2>3, TakeRing DEF ReadFault
    <3> QED
      BY <2>3, <3>1 DEF ReadFault, Return, Goto, endVars
  <2> QED
    BY <1>5, <2>1, <2>2, <2>3, <2>4 DEF Read
<1>6. CASE Close(p)
  <2>1. holds' \subseteq Procs /\ asleep' \subseteq Procs
    BY <1>6 DEF Close
  <2>2. writeopen' \in BOOLEAN /\ readopen' \in BOOLEAN
    BY <1>6, Zenon DEF Close
  <2> QED
    BY <1>6, <2>1, <2>2 DEF Close, bufVars
<1>7. CASE Kill(p)
  BY <1>7, PipeAssumption DEF PipeAssumption, Kill, Procs, bufVars, endVars
<1> QED
  BY <1>1, <1>2, <1>3, <1>4, <1>5, <1>6, <1>7 DEF Step

(* A byte that is put in has been written; the ring is not overfull.       *)
LEMMA RingNext ==
  ASSUME TypeOK, RingInv, Next
  PROVE  RingInv'
<1> PICK p \in Procs : (\E k \in Counts : Call(p, k)) \/ Step(p) \/ Close(p) \/ Kill(p)
  BY DEF Next
<1>0. CASE UNCHANGED <<data, nread, nwrite>>
  BY <1>0, RingUnchanged
<1>1. ASSUME NEW b \in Bytes, WriteByte(p, b) PROVE RingInv'
  <2>1. /\ Used < PIPESIZE /\ Used' = Used + 1 /\ Used \in Nat
        /\ \A k \in 1..Used : data'[Cell(k)'] = data[Cell(k)]
        /\ data'[Cell(Used)'] = b
    <3>1. Used \in Nat
      BY UsedIs, PipeAssumption DEF PipeAssumption
    <3> QED
      BY <1>1, <3>1, PutRing DEF WriteByte, WriteGoesOn, RingInv
  <2>2. ASSUME NEW k \in 1..(Used + 1) PROVE data'[Cell(k)'] \in Bytes
    <3>1. CASE k \in 1..Used
      BY <3>1, <2>1 DEF RingInv
    <3>2. CASE k = Used'
      BY <3>2, <2>1 DEF Cell
    <3> QED
      BY <2>1, <3>1, <3>2
  <2> QED
    BY <2>1, <2>2, PipeAssumption DEF RingInv, PipeAssumption
<1>2. CASE ReadByte(p) \/ ReadFault(p)
  <2>1. /\ Used \in Nat \ {0} /\ Used' = Used - 1
        /\ \A k \in 1..(Used - 1) : data'[Cell(k)'] = data[Cell(k + 1)]
    BY <1>2, TakeRing DEF ReadByte, ReadFault
  <2>2. \A k \in 1..(Used - 1) : k + 1 \in 1..Used
    BY <2>1
  <2> QED
    BY <2>1, <2>2, PipeAssumption DEF RingInv, PipeAssumption
<1> QED
  BY <1>0, <1>1, <1>2
     DEF Step, Call, Lock, Sleep, Write, WriteAll, WriteGivesUp, WriteFault, WriteFull,
         Read, ReadEmpty, ReadReady, ReadEnd, Close, Kill, bufVars

(* One process at a time is inside, and processes in calls hold their end. *)
LEMMA PlaceNext ==
  ASSUME TypeOK, PlaceInv, Next
  PROVE  PlaceInv'
<1> PICK p \in Procs : (\E k \in Counts : Call(p, k)) \/ Step(p) \/ Close(p) \/ Kill(p)
  BY DEF Next
<1> USE PipeAssumption DEF PipeAssumption, TypeOK, PlaceInv, Inside, PCs, Procs
<1>1. ASSUME NEW k \in Counts, Call(p, k) PROVE PlaceInv'
  <2>1. /\ pc' = [pc EXCEPT ![p] = "lock"] /\ n' = [n EXCEPT ![p] = k]
        /\ k \in Nat /\ i[p] = 0 /\ p \in holds /\ p \notin asleep /\ lock # p
        /\ UNCHANGED <<readopen, writeopen, holds, lock, i, asleep>>
    BY <1>1 DEF Call, Goto, endVars
  <2> HIDE <1>1
  <2> QED
    BY <2>1
<1>2. CASE Lock(p)
  BY <1>2 DEF Lock, Goto, bufVars, endVars
<1>3. CASE Sleep(p)
  BY <1>3 DEF Sleep, At, Goto, bufVars, endVars
<1>4. ASSUME NEW S, Return(p, S), lock = p, UNCHANGED <<bufVars, endVars, killed>>
      PROVE  PlaceInv'
  <2>1. readopen' = readopen /\ writeopen' = writeopen /\ holds' = holds
    BY <1>4 DEF endVars
  <2>2. /\ pc' = [pc EXCEPT ![p] = "idle"] /\ asleep' \subseteq asleep
        /\ lock' = NoProc /\ n' = [n EXCEPT ![p] = 0] /\ i' = [i EXCEPT ![p] = 0]
    BY <1>4 DEF Return, Goto
  <2>3. \A q \in Procs : q # p => pc[q] \notin Inside
    BY <1>4
  <2>4. p # NoProc /\ pc[p] \in Inside
    BY <1>4
  <2> HIDE <1>4
  <2> QED
    BY <2>1, <2>2, <2>3, <2>4
<1>5. CASE Write(p)
  <2>1. CASE WriteFull(p)
    BY <2>1 DEF WriteFull, WriteGoesOn, At, Goto, bufVars, endVars
  <2>2. ASSUME NEW b \in Bytes, WriteByte(p, b) PROVE PlaceInv'
    BY <2>2 DEF WriteByte, WriteGoesOn, At, endVars
  <2> QED
    BY <1>4, <1>5, <2>1, <2>2
       DEF Write, WriteAll, WriteGivesUp, WriteFault, WriteGoesOn, At
<1>6. CASE Read(p)
  <2>1. CASE ReadEmpty(p)
    BY <2>1 DEF ReadEmpty, Return, At, Goto, bufVars, endVars
  <2>2. CASE ReadReady(p)
    BY <2>2 DEF ReadReady, At, Goto, bufVars, endVars
  <2>3. CASE ReadByte(p)
    BY <2>3 DEF ReadByte, At, endVars
  <2>4. CASE ReadFault(p)
    BY <2>4 DEF ReadFault, Return, Goto, At, endVars
  <2>5. CASE ReadEnd(p)
    BY <2>5 DEF ReadEnd, Return, Goto, At, bufVars, endVars
  <2> QED
    BY <1>6, <2>1, <2>2, <2>3, <2>4, <2>5 DEF Read
<1>7. CASE Close(p)
  BY <1>7 DEF Close, bufVars
<1>8. CASE Kill(p)
  BY <1>8 DEF Kill, bufVars, endVars
<1> QED
  BY <1>1, <1>2, <1>3, <1>5, <1>6, <1>7, <1>8 DEF Step

(* Between the check and sleep() pi->lock keeps the others out.            *)
LEMMA SleepReasonNext ==
  ASSUME TypeOK, PlaceInv, SleepReason, Next
  PROVE  SleepReason'
<1> PICK p \in Procs : (\E k \in Counts : Call(p, k)) \/ Step(p) \/ Close(p) \/ Kill(p)
  BY DEF Next
<1> USE PipeAssumption DEF PipeAssumption, TypeOK, PlaceInv, Inside, PCs, Procs,
        SleepReason, Empty, Full
<1>1. ASSUME NEW k \in Counts, Call(p, k) PROVE SleepReason'
  BY <1>1 DEF Call, Goto, bufVars, endVars
<1>2. CASE Lock(p)
  BY <1>2 DEF Lock, Goto, bufVars, endVars
<1>3. CASE Sleep(p)
  BY <1>3 DEF Sleep, At, Goto, bufVars, endVars
<1>4. ASSUME NEW S, Return(p, S), lock = p
      PROVE  SleepReason'
  BY <1>4 DEF Return, Goto
<1>5. CASE Write(p)
  <2>1. CASE WriteFull(p)
    BY <2>1 DEF WriteFull, WriteGoesOn, At, Goto, bufVars, endVars
  <2>2. ASSUME NEW b \in Bytes, WriteByte(p, b) PROVE SleepReason'
    BY <2>2 DEF WriteByte, WriteGoesOn, At, endVars
  <2> QED
    BY <1>4, <1>5, <2>1, <2>2
       DEF Write, WriteAll, WriteGivesUp, WriteFault, WriteGoesOn, At
<1>6. CASE Read(p)
  <2>1. CASE ReadEmpty(p)
    BY <2>1 DEF ReadEmpty, Return, At, Goto, bufVars, endVars
  <2>2. CASE ReadReady(p)
    BY <2>2 DEF ReadReady, At, Goto, bufVars, endVars
  <2>3. CASE ReadByte(p)
    BY <2>3 DEF ReadByte, At, endVars
  <2> QED
    BY <1>4, <1>6, <2>1, <2>2, <2>3 DEF Read, ReadFault, ReadEnd, At
<1>7. CASE Close(p)
  BY <1>7 DEF Close, bufVars
<1>8. CASE Kill(p)
  BY <1>8 DEF Kill, bufVars, endVars
<1> QED
  BY <1>1, <1>2, <1>3, <1>5, <1>6, <1>7, <1>8 DEF Step

(* Whoever sleeps has a reason, or is woken before the process inside      *)
(* leaves.  Only a writer that is killed leaves without a wakeup.          *)
LEMMA SleepersNext ==
  ASSUME TypeOK, PlaceInv, SleepReason, SleepersHaveReason,
         killed \cap Writers = {}, Next
  PROVE  SleepersHaveReason'
<1> PICK p \in Procs : (\E k \in Counts : Call(p, k)) \/ Step(p) \/ Close(p) \/ Kill(p)
  BY DEF Next
<1> USE PipeAssumption DEF PipeAssumption, TypeOK, PlaceInv, Inside, PCs, Procs, At,
        SleepReason, SleepersHaveReason, Empty, Full
<1>1. ASSUME NEW k \in Counts, Call(p, k) PROVE SleepersHaveReason'
  BY <1>1 DEF Call, Goto, bufVars, endVars
<1>2. CASE Lock(p)
  BY <1>2 DEF Lock, Goto, bufVars, endVars
<1>3. CASE Sleep(p)
  BY <1>3 DEF Sleep, Goto, bufVars, endVars
<1>4. CASE Write(p)
  <2>1. CASE WriteAll(p)
    BY <2>1 DEF WriteAll, Return, Goto, bufVars, endVars
  <2>2. CASE WriteGivesUp(p)
    BY <1>4, <2>2 DEF WriteGivesUp, Return, Goto, bufVars, endVars
  <2>3. CASE WriteFull(p)
    BY <2>3 DEF WriteFull, WriteGoesOn, Goto, bufVars, endVars
  <2>4. ASSUME NEW b \in Bytes, WriteByte(p, b) PROVE SleepersHaveReason'
    BY <2>4 DEF WriteByte, WriteGoesOn, endVars
  <2>5. CASE WriteFault(p)
    BY <2>5 DEF WriteFault, WriteGoesOn, Return, Goto, bufVars, endVars
  <2> QED
    BY <1>4, <2>1, <2>2, <2>3, <2>4, <2>5 DEF Write
<1>5. CASE Read(p)
  <2>1. CASE ReadEmpty(p)
    BY <2>1 DEF ReadEmpty, Return, Goto, bufVars, endVars
  <2>2. CASE ReadReady(p)
    BY <2>2 DEF ReadReady, Goto, bufVars, endVars
  <2>3. CASE ReadByte(p)
    BY <2>3 DEF ReadByte, TakeByte, endVars
  <2>4. CASE ReadFault(p)
    BY <2>4 DEF ReadFault, Return, Goto, endVars
  <2>5. CASE ReadEnd(p)
    BY <2>5 DEF ReadEnd, Return, Goto, bufVars, endVars
  <2> QED
    BY <1>5, <2>1, <2>2, <2>3, <2>4, <2>5 DEF Read
<1>6. CASE Close(p)
  BY <1>6 DEF Close, bufVars
<1>7. CASE Kill(p)
  BY <1>7 DEF Kill, bufVars, endVars
<1> QED
  BY <1>1, <1>2, <1>3, <1>4, <1>5, <1>6, <1>7 DEF Step

(* PipeInv but for what a killed writer may break: WriteGivesUp wakes      *)
(* nobody, and bytes may be in the pipe by then.                           *)
KillInv ==
    /\ TypeOK /\ PlaceInv /\ SleepReason /\ RingInv
    /\ killed \cap Writers = {} => SleepersHaveReason

LEMMA KillInvNext == KillInv /\ [Next]_vars => KillInv'
<1>1. ASSUME KillInv, Next PROVE KillInv'
  <2>1. TypeOK' /\ PlaceInv' /\ SleepReason' /\ RingInv'
    BY <1>1, TypeNext, PlaceNext, SleepReasonNext, RingNext DEF KillInv
  <2>2. killed \subseteq killed'
    BY <1>1 DEF Next, Call, Step, Lock, Sleep, Write, WriteAll, WriteGivesUp, WriteFull,
       WriteByte, WriteFault, Read, ReadEmpty, ReadReady, ReadByte, ReadFault, ReadEnd,
       Close, Kill
  <2>3. ASSUME killed' \cap Writers = {} PROVE SleepersHaveReason'
    BY <1>1, <2>2, <2>3, SleepersNext DEF KillInv
  <2> QED
    BY <2>1, <2>3 DEF KillInv
<1>2. ASSUME KillInv, UNCHANGED vars PROVE KillInv'
  BY <1>2 DEF vars, KillInv, TypeOK, PlaceInv, SleepReason, RingInv, SleepersHaveReason,
     Used, Cell, Full, Empty, At
<1> QED
  BY <1>1, <1>2

LEMMA KillInvariant == Spec => []KillInv
<1>1. Init => KillInv
  BY PipeInvInit DEF PipeInv, KillInv
<1> QED
  BY <1>1, KillInvNext, PTL DEF Spec

(* Nobody sleeps through a wakeup in pipewrite() or piperead(), until a    *)
(* writer is killed: a reader sleeps only on an empty pipe, a writer only  *)
(* on a full one, unless who changes that is still inside and will wake    *)
(* them.                                                                   *)
THEOREM PipeSafe == Spec => [](killed \cap Writers = {} => PipeInv)
<1>1. KillInv => (killed \cap Writers = {} => PipeInv)
  BY DEF KillInv, PipeInv
<1> QED
  BY <1>1, KillInvariant, PTL

-----------------------------------------------------------------------------
(* The refinement                                                          *)

Queue == [k \in 1..Used |-> data[Cell(k)]]

(* What the queue is: the bytes in use, Len of them.                       *)
LEMMA QueueIs ==
  ASSUME TypeOK, RingInv
  PROVE  /\ Used \in Nat
         /\ Queue \in [1..Used -> Bytes]
         /\ Len(Queue) = Used
<1>1. Used \in Nat
  BY UsedIs, PipeAssumption DEF PipeAssumption
<1>2. Queue \in [1..Used -> Bytes]
  BY DEF Queue, RingInv
<1> QED
  BY <1>1, <1>2

(* pipewrite()'s byte is put in at the end.                                *)
LEMMA WritePuts ==
  ASSUME KillInv, NEW w \in Writers, NEW b \in Bytes, WriteByte(w, b)
  PROVE  Fifo!Put(b)
<1>1. /\ Used < PIPESIZE /\ Used' = Used + 1 /\ Used \in Nat
      /\ \A k \in 1..Used : data'[Cell(k)'] = data[Cell(k)]
      /\ data'[Cell(Used)'] = b
  BY PutRing, QueueIs DEF WriteByte, WriteGoesOn, RingInv, KillInv
<1>2. Queue' = Append(Queue, b)
  <2>1. Append(Queue, b)
        = [k \in 1..(Used + 1) |-> IF k = Used + 1 THEN b ELSE Queue[k]]
    BY <1>1, QueueIs, AppendIs DEF KillInv
  <2>2. Queue' = [k \in 1..Used' |-> data'[Cell(k)']]
    BY DEF Queue, Cell
  <2>3. ASSUME NEW k \in 1..(Used + 1)
        PROVE  data'[Cell(k)'] = IF k = Used + 1 THEN b ELSE Queue[k]
    <3>1. CASE k = Used + 1
      <4>1. Cell(k)' = Cell(Used)'
        BY <3>1, <1>1 DEF Cell
      <4> QED
        BY <4>1, <3>1, <1>1
    <3>2. CASE k \in 1..Used
      BY <3>2, <1>1 DEF Queue
    <3> QED
      BY <3>1, <3>2, <1>1
  <2> HIDE DEF Queue
  <2> QED
    BY <2>1, <2>2, <2>3, <1>1
<1>3. readopen /\ writeopen
  BY DEF KillInv, PlaceInv, WriteByte, WriteGoesOn, At, Procs
<1>4. Len(Queue) < PIPESIZE
  BY <1>1, QueueIs DEF KillInv
<1>5. UNCHANGED <<out, readopen, writeopen>>
  BY DEF WriteByte, endVars
<1> QED
  BY <1>2, <1>3, <1>4, <1>5 DEF Fifo!Put, Queue

(* A byte that leaves the pipe is the oldest.                              *)
LEMMA ReadTakes ==
  ASSUME KillInv, NEW r \in Readers, ReadByte(r) \/ ReadFault(r)
  PROVE  Fifo!Take
<1>1. /\ Used \in Nat \ {0} /\ Used' = Used - 1
      /\ \A k \in 1..(Used - 1) : data'[Cell(k)'] = data[Cell(k + 1)]
      /\ out' = data[Cell(1)]
  BY TakeRing DEF ReadByte, ReadFault, KillInv
<1>2. /\ Queue # <<>> /\ Head(Queue) = Queue[1]
      /\ Tail(Queue) = [k \in 1..(Used - 1) |-> Queue[k + 1]]
  <2>1. Queue \in [1..Used -> Bytes]
    BY QueueIs DEF KillInv
  <2> HIDE DEF Queue
  <2> QED
    BY <1>1, <2>1, TailIs
<1>3. Queue' = Tail(Queue)
  <2>1. Queue' = [k \in 1..(Used - 1) |-> data'[Cell(k)']]
    BY <1>1 DEF Queue, Cell
  <2>2. \A k \in 1..(Used - 1) : Queue[k + 1] = data[Cell(k + 1)]
    BY <1>1 DEF Queue
  <2> HIDE DEF Queue
  <2> QED
    BY <2>1, <2>2, <1>1, <1>2
<1>4. out' = Head(Queue)
  BY <1>1, <1>2 DEF Queue
<1>5. readopen
  BY DEF KillInv, PlaceInv, ReadByte, ReadFault, At, Procs
<1>6. UNCHANGED <<readopen, writeopen>>
  BY DEF ReadByte, ReadFault, endVars
<1> QED
  BY <1>2, <1>3, <1>4, <1>5, <1>6 DEF Fifo!Take, Queue

(* Nothing else touches the bytes.                                         *)
LEMMA QueueUnchanged ==
  ASSUME UNCHANGED <<data, nread, nwrite>>
  PROVE  Queue' = Queue
  BY DEF Queue, Used, Cell

(* One end is closed by the last that holds it.                            *)
LEMMA CloseCloses ==
  ASSUME KillInv, NEW p \in Procs, Close(p)
  PROVE  Fifo!CloseRead \/ Fifo!CloseWrite \/ UNCHANGED Fifo!vars
<1>0. /\ readopen \in BOOLEAN /\ writeopen \in BOOLEAN
      /\ writeopen' = (writeopen /\ holds' \cap Writers # {})
      /\ readopen' = (readopen /\ holds' \cap Readers # {})
  BY DEF Close, KillInv, TypeOK
<1>1. Queue' = Queue /\ out' = out
  BY QueueUnchanged DEF Close, bufVars
<1>2. \/ readopen' = readopen /\ writeopen' = writeopen
      \/ readopen /\ ~readopen' /\ writeopen' = writeopen
      \/ writeopen /\ ~writeopen' /\ readopen' = readopen
  <2>1. CASE p \in Readers
    <3>1. holds' \cap Writers = holds \cap Writers
      BY <2>1, PipeAssumption DEF PipeAssumption, Close
    <3>2. writeopen <=> holds' \cap Writers # {}
      BY <3>1 DEF KillInv, PlaceInv
    <3>3. writeopen' = writeopen
      BY <1>0, <3>2, Zenon
    <3> QED
      BY <1>0, <3>3, Zenon
  <2>2. CASE p \in Writers
    <3>1. holds' \cap Readers = holds \cap Readers
      BY <2>2, PipeAssumption DEF PipeAssumption, Close
    <3>2. readopen <=> holds' \cap Readers # {}
      BY <3>1 DEF KillInv, PlaceInv
    <3>3. readopen' = readopen
      BY <1>0, <3>2, Zenon
    <3> QED
      BY <1>0, <3>3, Zenon
  <2> QED
    BY <2>1, <2>2 DEF Procs
<1>3. readopen' \in BOOLEAN /\ writeopen' \in BOOLEAN
  BY Zenon DEF Close
<1> QED
  BY <1>1, <1>2, <1>3 DEF Fifo!CloseRead, Fifo!CloseWrite, Fifo!vars, Queue

LEMMA FifoInit == Init => Fifo!Init
<1> SUFFICES ASSUME Init PROVE Fifo!Init
  OBVIOUS
<1>1. Used = 0
  BY PipeInvInit, UsedIs DEF PipeInv, Init, Empty
<1>2. Queue = <<>>
  BY <1>1 DEF Queue
<1> QED
  BY <1>2 DEF Init, Fifo!Init, Queue

LEMMA FifoStep == KillInv /\ [Next]_vars => [Fifo!Next]_(Fifo!vars)
<1> SUFFICES ASSUME KillInv, [Next]_vars
             PROVE  Fifo!Next \/ UNCHANGED Fifo!vars
  OBVIOUS
<1>1. CASE UNCHANGED <<data, nread, nwrite, out, readopen, writeopen>>
  BY <1>1, QueueUnchanged DEF Queue, Fifo!vars
<1>2. ASSUME NEW w \in Writers, NEW b \in Bytes, WriteByte(w, b)
      PROVE  Fifo!Next
  BY <1>2, WritePuts DEF Fifo!Next
<1>3. ASSUME NEW r \in Readers, ReadByte(r) \/ ReadFault(r)
      PROVE  Fifo!Next
  BY <1>3, ReadTakes DEF Fifo!Next
<1>4. ASSUME NEW p \in Procs, Close(p)
      PROVE  Fifo!Next \/ UNCHANGED Fifo!vars
  BY <1>4, CloseCloses DEF Fifo!Next
<1>5. ASSUME NEW p \in Procs, NEW k \in Counts, Call(p, k)
      PROVE  UNCHANGED <<data, nread, nwrite, out, readopen, writeopen>>
  BY <1>5 DEF Call, bufVars, endVars
<1>6. ASSUME NEW p \in Procs, Lock(p) \/ Sleep(p) \/ Kill(p)
      PROVE  UNCHANGED <<data, nread, nwrite, out, readopen, writeopen>>
  BY <1>6 DEF Lock, Sleep, Kill, bufVars, endVars
<1>7. ASSUME NEW w \in Writers, WriteAll(w) \/ WriteGivesUp(w) \/ WriteFull(w)
                                \/ WriteFault(w)
      PROVE  UNCHANGED <<data, nread, nwrite, out, readopen, writeopen>>
  BY <1>7 DEF WriteAll, WriteGivesUp, WriteFull, WriteFault, bufVars, endVars
<1>8. ASSUME NEW r \in Readers, ReadEmpty(r) \/ ReadReady(r) \/ ReadEnd(r)
      PROVE  UNCHANGED <<data, nread, nwrite, out, readopen, writeopen>>
  BY <1>8 DEF ReadEmpty, ReadReady, ReadEnd, bufVars, endVars
<1>9. CASE UNCHANGED vars
  BY <1>1, <1>9 DEF vars
<1> QED
  BY <1>1, <1>2, <1>3, <1>4, <1>5, <1>6, <1>7, <1>8, <1>9, Zenon
     DEF Next, Step, Write, Read

(* The ring with its wrapping counters, its locks and its sleepers is a    *)
(* bounded queue of bytes with two ends that are closed once each: what is *)
(* read is what was written, in that order, and nothing is written that    *)
(* nobody can read.  kill() and faults in copyin() and copyout() included. *)
THEOREM PipeImplementsFifo == Spec => FifoSpec
<1> QED
  BY FifoInit, FifoStep, KillInvariant, PTL DEF Spec, FifoSpec, Fifo!Spec

-----------------------------------------------------------------------------
(* The buffer cache, side by side with the pipe                            *)

LEMMA DiskPart == SumSpec => B!Spec
<1>1. SumInit => B!Init
  BY DEF SumInit
<1>2. [SumNext]_<<part, pipeVars, diskVars>> => [B!Next]_B!vars
  BY DEF SumNext, diskVars, B!vars, B!virtioVars, B!driverVars, B!deviceVars, B!cacheVars,
         B!callVars
<1> QED
  BY <1>1, <1>2, PTL DEF SumSpec, B!Spec

(* bget() never hands out a buffer that somebody uses, and no request,     *)
(* descriptor, reference or wakeup is lost: CacheSafe of CacheProofs.      *)
THEOREM CacheIsSafe == SumSpec => []CacheInv
<1>1. B!Spec => []B!CacheInv
  BY B!CacheSafe, DiskAssumption
<1>2. B!CacheInv => CacheInv
  BY DEF CacheInv
<1> QED
  BY <1>1, <1>2, DiskPart, PTL

(* Who holds a block sees what was last put into it: LatestSeen of         *)
(* CacheProofs.                                                            *)
THEOREM LatestIsSeen == SumSpec => []SeesLatest
<1>1. B!Spec => []B!SeesLatest
  BY B!LatestSeen, DiskAssumption
<1>2. B!SeesLatest => SeesLatest
  BY DEF SeesLatest
<1> QED
  BY <1>1, <1>2, DiskPart, PTL

=============================================================================
