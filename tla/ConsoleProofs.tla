---------------------------- MODULE ConsoleProofs ----------------------------
(* The console, for any number of readers and writers, any size of its two *)
(* rings and any width of their indices: neither direction gets stuck, and *)
(* characters keep their order through editing, reading and sending.       *)
EXTENDS Console, Integers, SequenceTheorems, FiniteSetTheorems, TLAPS

-----------------------------------------------------------------------------
(* Remainders, for the indices of the ring                                 *)

LEMMA DivMod ==
  ASSUME NEW a \in Nat, NEW b \in Nat \ {0}
  PROVE  a % b \in 0..(b - 1) /\ a \div b \in Nat /\ a = b * (a \div b) + (a % b)
  BY SMT

(* Quotient and remainder are unique.                                      *)
LEMMA Unique ==
  ASSUME NEW b \in Nat \ {0}, NEW q \in Nat, NEW t \in 0..(b - 1),
         NEW k \in Nat, NEW s \in 0..(b - 1), b * q + t = b * k + s
  PROVE  t = s
<1>1. CASE q < k
  <2>1. b * k >= b * (q + 1)
    BY <1>1
  <2>2. b * (q + 1) = b * q + b
    OBVIOUS
  <2> QED
    BY <2>1, <2>2
<1>2. CASE q > k
  <2>1. b * q >= b * (k + 1)
    BY <1>2
  <2>2. b * (k + 1) = b * k + b
    OBVIOUS
  <2> QED
    BY <2>1, <2>2
<1>3. CASE q = k
  <2> DEFINE a == b * q
  <2>1. a \in Int /\ a + t = a + s
    BY <1>3
  <2> HIDE DEF a
  <2> QED
    BY <2>1
<1>4. q < k \/ q > k \/ q = k
  OBVIOUS
<1> QED
  BY <1>1, <1>2, <1>3, <1>4, Zenon

(* A multiple of the divisor may be added.                                 *)
LEMMA ModShift ==
  ASSUME NEW a \in Nat, NEW b \in Nat \ {0}, NEW k \in Nat
  PROVE  (a + b * k) % b = a % b
<1> DEFINE q == a \div b
           t == a % b
           c == a + b * k
<1>1. q \in Nat /\ t \in 0..(b - 1) /\ a = b * q + t
  BY DivMod
<1>2. c \in Nat
  OBVIOUS
<1>3. /\ c \div b \in Nat /\ c % b \in 0..(b - 1)
      /\ c = b * (c \div b) + (c % b)
  BY <1>2, DivMod
<1>4. b * (q + k) + t = c
  <2> HIDE DEF q, t
  <2>1. b * (q + k) = b * q + b * k
    BY <1>1
  <2>2. b * q \in Nat /\ b * k \in Nat
    BY <1>1
  <2> QED
    BY <2>1, <2>2, <1>1
<1>5. q + k \in Nat
  BY <1>1
<1> HIDE DEF q, t, c
<1>6. t = c % b
  BY <1>1, <1>3, <1>4, <1>5, Unique
<1> QED
  BY <1>6 DEF c, t

(* Numbers less than the divisor apart have different remainders.          *)
LEMMA ModDistinct ==
  ASSUME NEW x \in Nat, NEW b \in Nat \ {0}, NEW d \in 1..(b - 1)
  PROVE  x % b # (x + d) % b
<1> DEFINE q == x \div b
           t == x % b
           y == x + d
           k == y \div b
<1>1. q \in Nat /\ t \in 0..(b - 1) /\ x = b * q + t
  BY DivMod
<1>2. y \in Nat
  OBVIOUS
<1>3. k \in Nat /\ y = b * k + (y % b)
  BY <1>2, DivMod
<1> SUFFICES ASSUME t = y % b PROVE FALSE
  BY DEF t, y
<1>4. b * q \in Nat /\ b * k \in Nat
  BY <1>1, <1>3
<1>5. b * k = b * q + d
  <2>1. b * k + t = b * q + t + d
    BY <1>1, <1>3 DEF y
  <2> HIDE DEF q, t, k
  <2> QED
    BY <2>1, <1>4, <1>1
<1> HIDE DEF q, t, k, y
<1>6. CASE k <= q
  <2>1. b * k <= b * q
    BY <1>1, <1>3, <1>6
  <2> QED
    BY <2>1, <1>5, <1>4
<1>7. CASE k >= q + 1
  <2>1. b * k >= b * (q + 1)
    BY <1>1, <1>3, <1>7
  <2>2. b * (q + 1) = b * q + b
    BY <1>1
  <2> QED
    BY <2>1, <2>2, <1>5, <1>4
<1> QED
  BY <1>6, <1>7, <1>1, <1>3

(* What is at most one divisor too large.                                  *)
LEMMA ModOnce ==
  ASSUME NEW a \in Nat, NEW b \in Nat \ {0}, a < 2 * b
  PROVE  a % b = IF a < b THEN a ELSE a - b
<1>1. CASE a < b
  BY <1>1, SMT
<1>2. CASE a >= b
  BY <1>2, SMT
<1> QED
  BY <1>1, <1>2

-----------------------------------------------------------------------------
(* Queues as functions on 1..m                                             *)

LEMMA AppendIs ==
  ASSUME NEW m \in Nat, NEW S, NEW f \in [1..m -> S], NEW v \in S
  PROVE  Append(f, v) = [k \in 1..(m + 1) |-> IF k = m + 1 THEN v ELSE f[k]]
<1> DEFINE g == [k \in 1..(m + 1) |-> IF k = m + 1 THEN v ELSE f[k]]
<1>1. f \in Seq(S) /\ Len(f) = m
  OBVIOUS
<1>2. Append(f, v) \in Seq(S) /\ Len(Append(f, v)) = m + 1
  BY <1>1
<1>3. \A k \in 1..(m + 1) : Append(f, v)[k] = g[k]
  BY <1>1
<1>4. g \in [1..(m + 1) -> S]
  OBVIOUS
<1>5. g \in Seq(S) /\ Len(g) = m + 1
  BY <1>4
<1> HIDE DEF g
<1>6. Append(f, v) = g
  BY <1>2, <1>3, <1>5, SeqEqual
<1> QED
  BY <1>6 DEF g

LEMMA TailIs ==
  ASSUME NEW m \in Nat \ {0}, NEW S, NEW f \in [1..m -> S]
  PROVE  /\ f # <<>> /\ Head(f) = f[1]
         /\ Tail(f) = [k \in 1..(m - 1) |-> f[k + 1]]
<1> DEFINE g == [k \in 1..(m - 1) |-> f[k + 1]]
<1>1. f \in Seq(S) /\ Len(f) = m
  OBVIOUS
<1>2. Tail(f) \in Seq(S) /\ Len(Tail(f)) = m - 1
  BY <1>1
<1>3. \A k \in 1..(m - 1) : Tail(f)[k] = g[k]
  BY <1>1
<1>4. g \in [1..(m - 1) -> S]
  OBVIOUS
<1>5. g \in Seq(S) /\ Len(g) = m - 1
  BY <1>4
<1> HIDE DEF g
<1>6. Tail(f) = g
  BY <1>2, <1>3, <1>5, SeqEqual
<1>7. f # <<>> /\ Head(f) = f[1]
  BY <1>1
<1> QED
  BY <1>6, <1>7 DEF g

-----------------------------------------------------------------------------
(* Indices that wrap                                                       *)

(* The distance from x to y, without remainders.                           *)
LEMMA DistanceIs ==
  ASSUME NEW W \in Nat \ {0}, NEW x \in 0..(W - 1), NEW y \in 0..(W - 1)
  PROVE  /\ (y + W - x) % W = IF y >= x THEN y - x ELSE y + W - x
         /\ (y + W - x) % W \in 0..(W - 1)
<1> DEFINE z == y + W - x
<1>1. z \in Nat /\ z < 2 * W
  OBVIOUS
<1> HIDE DEF z
<1>2. z % W = IF z < W THEN z ELSE z - W
  BY <1>1, ModOnce
<1> QED
  BY <1>2 DEF z

(* An index moves on.                                                      *)
LEMMA SumIs ==
  ASSUME NEW W \in Nat \ {0}, NEW x \in 0..(W - 1), NEW k \in 0..W
  PROVE  /\ (x + k) % W = IF x + k < W THEN x + k ELSE x + k - W
         /\ (x + k) % W \in 0..(W - 1)
<1> DEFINE z == x + k
<1>1. z \in Nat /\ z < 2 * W
  OBVIOUS
<1> HIDE DEF z
<1>2. z % W = IF z < W THEN z ELSE z - W
  BY <1>1, ModOnce
<1> QED
  BY <1>1, <1>2 DEF z

(* Going round the indices goes round the ring: its size divides them.     *)
Divides(n, W) == W % n = 0

LEMMA WrapKeepsCell ==
  ASSUME NEW W \in Nat \ {0}, NEW n \in Nat \ {0}, Divides(n, W), NEW a \in Nat, NEW i \in Nat
  PROVE  ((a % W) + i) % n = (a + i) % n
<1> DEFINE q == a \div W
           c == W \div n
           b == a % W
<1>1. q \in Nat /\ b \in Nat /\ a = W * q + b
  <2>1. b \in 0..(W - 1) /\ q \in Nat /\ a = W * q + b
    BY DivMod, Zenon
  <2> HIDE DEF q, b
  <2> QED
    BY <2>1
<1>2. c \in Nat /\ W = n * c + (W % n)
  <2>1. W \in Nat
    OBVIOUS
  <2> QED
    BY <2>1, DivMod, Zenon
<1> HIDE DEF q, c, b
<1>3. n * c \in Nat /\ W = n * c
  BY <1>2 DEF Divides
<1>4. a + i = (b + i) + n * (c * q)
  <2>1. (n * c) * q = n * (c * q)
    BY <1>1, <1>2
  <2>2. W * q \in Nat
    BY <1>1
  <2> QED
    BY <2>1, <2>2, <1>1, <1>3
<1>5. c * q \in Nat /\ b + i \in Nat
  BY <1>1, <1>2
<1>6. ((b + i) + n * (c * q)) % n = (b + i) % n
  BY <1>5, ModShift
<1> QED
  BY <1>4, <1>6 DEF b

(* Cells at different places of the ring differ.                           *)
LEMMA CellsDiffer ==
  ASSUME NEW n \in Nat \ {0}, NEW x \in Nat, NEW i \in 0..(n - 1), NEW j \in 0..(n - 1),
         i # j
  PROVE  (x + i) % n # (x + j) % n
<1>1. ASSUME NEW a \in 0..(n - 1), NEW b \in 0..(n - 1), a < b
      PROVE  (x + a) % n # (x + b) % n
  <2>1. x + a \in Nat /\ b - a \in 1..(n - 1) /\ (x + a) + (b - a) = x + b
    BY <1>1
  <2>2. (x + a) % n # ((x + a) + (b - a)) % n
    BY <2>1, ModDistinct
  <2> QED
    BY <2>1, <2>2
<1>2. i < j \/ j < i
  OBVIOUS
<1>3. CASE i < j
  BY <1>1, <1>3, Zenon
<1>4. CASE j < i
  BY <1>1, <1>4, Zenon
<1> QED
  BY <1>2, <1>3, <1>4, Zenon

(* One step on: the same holds for the distances to the index.             *)
LEMMA Closer ==
  ASSUME NEW W \in Nat \ {0}, NEW x \in 0..(W - 1), NEW y \in 0..(W - 1), x # y,
         NEW z, z = IF x + 1 < W THEN x + 1 ELSE x + 1 - W
  PROVE  /\ (IF y >= z THEN y - z ELSE y + W - z) = (IF y >= x THEN y - x ELSE y + W - x) - 1
         /\ (IF y >= x THEN y - x ELSE y + W - x) \in Nat \ {0}
<1>1. CASE x + 1 < W
  BY <1>1
<1>2. CASE x = W - 1
  BY <1>2
<1> QED
  BY <1>1, <1>2

LEMMA CellType ==
  ASSUME NEW n \in Nat \ {0}, NEW x \in Nat, NEW i \in Nat
  PROVE  (x + i) % n \in 0..(n - 1)
  BY DivMod

-----------------------------------------------------------------------------
(* A ring of n cells f, in use from index x on for d cells                 *)

InUse(f, n, x, d) == {c \in DOMAIN f : f[c] # None} = {(x + i) % n : i \in 0..(d - 1)}

Ring(f, n, S) == f \in [0..(n - 1) -> S \cup {None}]

(* From f to g: a character is put behind the others, the last k are taken *)
(* away, the first one is; index y follows x, and may have wrapped.        *)
Adds(f, n, x, d, v, g) == g = [f EXCEPT ![(x + d) % n] = v]
Drops(f, n, x, d, k, g) ==
    g = [c \in DOMAIN f |->
         IF \E j \in 0..(k - 1) : c = (x + (d - k) + j) % n THEN None ELSE f[c]]
Takes(f, n, x, g) == g = [f EXCEPT ![x % n] = None]
Same(f, n, x, I, g) == \A i \in I : g[(x + i) % n] = f[(x + i) % n]
Has(f, n, x, i, v) == f[(x + i) % n] = v
Follows(n, x, y) == \A i \in Nat : (y + i) % n = (x + (i + 1)) % n

LEMMA RingPut ==
  ASSUME NEW n \in Nat \ {0}, NEW x \in Nat, NEW d \in 0..(n - 1), NEW S, None \notin S,
         NEW f, Ring(f, n, S), InUse(f, n, x, d), NEW v \in S,
         NEW g, Adds(f, n, x, d, v, g)
  PROVE  /\ Ring(g, n, S) /\ InUse(g, n, x, d + 1)
         /\ Same(f, n, x, 0..(d - 1), g)
         /\ Has(g, n, x, d, v)
<1> DEFINE s(i) == (x + i) % n
<1>1. \A i \in Nat : s(i) \in 0..(n - 1)
  BY CellType
<1>2. \A i \in 0..(d - 1) : s(i) # s(d)
  <2>1. d \in 0..(n - 1) /\ \A i \in 0..(d - 1) : i \in 0..(n - 1) /\ i # d
    OBVIOUS
  <2> QED
    BY <2>1, CellsDiffer, Zenon
<1>3. InUse(f, n, x, d) <=> {c \in DOMAIN f : f[c] # None} = {s(i) : i \in 0..(d - 1)}
  BY DEF InUse
<1>4. InUse(g, n, x, d + 1) <=> {c \in DOMAIN g : g[c] # None} = {s(i) : i \in 0..d}
  <2>1. (d + 1) - 1 = d
    OBVIOUS
  <2> QED
    BY <2>1 DEF InUse
<1>5. g = [f EXCEPT ![s(d)] = v]
  BY DEF Adds
<1> HIDE DEF s
<1>6. Ring(g, n, S) /\ DOMAIN g = 0..(n - 1) /\ DOMAIN f = 0..(n - 1)
  BY <1>1, <1>5 DEF Ring
<1>7. g[s(d)] = v /\ \A c \in 0..(n - 1) : c # s(d) => g[c] = f[c]
  <2>1. s(d) \in 0..(n - 1)
    BY <1>1
  <2> QED
    BY <2>1, <1>5, <1>6
<1>8. {c \in DOMAIN g : g[c] # None} = {c \in DOMAIN f : f[c] # None} \cup {s(d)}
  <2>1. s(d) \in 0..(n - 1) /\ v # None
    BY <1>1
  <2> QED
    BY <2>1, <1>6, <1>7
<1>9. {s(i) : i \in 0..d} = {s(i) : i \in 0..(d - 1)} \cup {s(d)}
  <2>1. \A i \in 0..d : i \in 0..(d - 1) \/ i = d
    OBVIOUS
  <2>2. d \in 0..d /\ \A i \in 0..(d - 1) : i \in 0..d
    OBVIOUS
  <2> QED
    BY <2>1, <2>2
<1>10. InUse(g, n, x, d + 1)
  BY <1>3, <1>4, <1>8, <1>9
<1>11. \A i \in 0..(d - 1) : g[s(i)] = f[s(i)]
  BY <1>1, <1>2, <1>7
<1> QED
  BY <1>6, <1>7, <1>10, <1>11, Zenon DEF s, Same, Has

LEMMA RingDrop ==
  ASSUME NEW n \in Nat \ {0}, NEW x \in Nat, NEW d \in 0..n, NEW S, None \notin S,
         NEW f, Ring(f, n, S), InUse(f, n, x, d), NEW k \in 0..d,
         NEW g, Drops(f, n, x, d, k, g)
  PROVE  /\ Ring(g, n, S) /\ InUse(g, n, x, d - k)
         /\ Same(f, n, x, 0..(d - k - 1), g)
<1> DEFINE s(i) == (x + i) % n
           G == {s(i) : i \in (d - k)..(d - 1)}
<1>1. \A i \in Nat : s(i) \in 0..(n - 1)
  BY CellType
<1>2. \A i \in 0..(d - 1), j \in 0..(d - 1) : i # j => s(i) # s(j)
  <2>1. \A i \in 0..(d - 1) : i \in 0..(n - 1)
    OBVIOUS
  <2> QED
    BY <2>1, CellsDiffer, Zenon
<1>3. InUse(f, n, x, d) <=> {c \in DOMAIN f : f[c] # None} = {s(i) : i \in 0..(d - 1)}
  BY DEF InUse
<1>4. InUse(g, n, x, d - k) <=> {c \in DOMAIN g : g[c] # None} = {s(i) : i \in 0..(d - k - 1)}
  BY DEF InUse
<1>5. \A c : (\E j \in 0..(k - 1) : c = (x + (d - k) + j) % n) <=> c \in G
  <2>1. \A j \in 0..(k - 1) : /\ (d - k) + j \in (d - k)..(d - 1)
                              /\ x + (d - k) + j = x + ((d - k) + j)
    OBVIOUS
  <2>2. \A i \in (d - k)..(d - 1) : /\ i - (d - k) \in 0..(k - 1)
                                    /\ x + (d - k) + (i - (d - k)) = x + i
    OBVIOUS
  <2> QED
    BY <2>1, <2>2
<1>6. g = [c \in DOMAIN f |-> IF c \in G THEN None ELSE f[c]]
  BY <1>5 DEF Drops
<1> HIDE DEF s
<1>7. DOMAIN f = 0..(n - 1)
  BY DEF Ring
<1>8. Ring(g, n, S) /\ DOMAIN g = 0..(n - 1)
  BY <1>6, <1>7 DEF Ring
<1>9. \A i \in 0..(d - k - 1) : s(i) \in 0..(n - 1) /\ s(i) \notin G
  <2>1. \A i \in 0..(d - k - 1) : i \in 0..(d - 1) /\ i \in Nat
    OBVIOUS
  <2>2. \A i \in 0..(d - k - 1), j \in (d - k)..(d - 1) : j \in 0..(d - 1) /\ i # j
    OBVIOUS
  <2> QED
    BY <2>1, <2>2, <1>1, <1>2
<1>10. {c \in DOMAIN g : g[c] # None} = {c \in DOMAIN f : f[c] # None} \ G
  BY <1>6, <1>7, <1>8
<1>11. {s(i) : i \in 0..(d - 1)} \ G = {s(i) : i \in 0..(d - k - 1)}
  <2>1. \A i \in 0..(d - 1) : i \in 0..(d - k - 1) \/ i \in (d - k)..(d - 1)
    OBVIOUS
  <2>2. \A i \in 0..(d - k - 1) : i \in 0..(d - 1)
    OBVIOUS
  <2> QED
    BY <2>1, <2>2, <1>9
<1>12. InUse(g, n, x, d - k)
  BY <1>3, <1>4, <1>10, <1>11
<1>13. \A i \in 0..(d - k - 1) : g[s(i)] = f[s(i)]
  BY <1>6, <1>7, <1>9
<1> QED
  BY <1>8, <1>12, <1>13, Zenon DEF s, Same

LEMMA RingTake ==
  ASSUME NEW n \in Nat \ {0}, NEW x \in Nat, NEW d \in 1..n, NEW S, None \notin S,
         NEW f, Ring(f, n, S), InUse(f, n, x, d),
         NEW g, Takes(f, n, x, g), NEW y \in Nat, Follows(n, x, y)
  PROVE  /\ Ring(g, n, S) /\ InUse(g, n, y, d - 1)
         /\ Same(f, n, x, 1..(d - 1), g)
         /\ f[x % n] \in S
<1> DEFINE s(i) == (x + i) % n
<1>1. \A i \in Nat : s(i) \in 0..(n - 1)
  BY CellType
<1>2. \A i \in 1..(d - 1) : s(i) # s(0)
  <2>1. 0 \in 0..(n - 1) /\ \A i \in 1..(d - 1) : i \in 0..(n - 1) /\ i # 0
    OBVIOUS
  <2> QED
    BY <2>1, CellsDiffer, Zenon
<1>3. InUse(f, n, x, d) <=> {c \in DOMAIN f : f[c] # None} = {s(i) : i \in 0..(d - 1)}
  BY DEF InUse
<1>4. {(y + i) % n : i \in 0..(d - 1 - 1)} = {s(i) : i \in 1..(d - 1)}
  <2>1. \A i \in 0..(d - 1 - 1) : i \in Nat /\ i + 1 \in 1..(d - 1) /\ (y + i) % n = s(i + 1)
    BY DEF Follows
  <2>2. \A i \in 1..(d - 1) : i - 1 \in 0..(d - 1 - 1) /\ (i - 1) + 1 = i
    OBVIOUS
  <2> DEFINE h(i) == (y + i) % n
  <2> HIDE DEF s
  <2>3. \A i \in 1..(d - 1) : h(i - 1) = s(i)
    BY <2>1, <2>2, Zenon DEF h
  <2>4. \A i \in 0..(d - 1 - 1) : h(i) = s(i + 1)
    BY <2>1, Zenon DEF h
  <2> HIDE DEF h
  <2>5. {h(i) : i \in 0..(d - 1 - 1)} = {s(i) : i \in 1..(d - 1)}
    BY <2>3, <2>4
  <2> QED
    BY <2>5, Zenon DEF h
<1>5. x % n = s(0)
  OBVIOUS
<1> HIDE DEF s
<1>6. DOMAIN f = 0..(n - 1) /\ DOMAIN g = 0..(n - 1) /\ Ring(g, n, S)
  BY <1>1, <1>5 DEF Ring, Takes
<1>7. g[s(0)] = None /\ \A c \in 0..(n - 1) : c # s(0) => g[c] = f[c]
  BY <1>1, <1>5, <1>6 DEF Takes
<1>8. {c \in DOMAIN g : g[c] # None} = {c \in DOMAIN f : f[c] # None} \ {s(0)}
  BY <1>6, <1>7
<1>9. {s(i) : i \in 0..(d - 1)} \ {s(0)} = {s(i) : i \in 1..(d - 1)}
  <2>1. \A i \in 0..(d - 1) : i = 0 \/ i \in 1..(d - 1)
    OBVIOUS
  <2>2. \A i \in 1..(d - 1) : i \in 0..(d - 1)
    OBVIOUS
  <2> QED
    BY <2>1, <2>2, <1>2
<1>10. InUse(g, n, y, d - 1)
  BY <1>3, <1>4, <1>8, <1>9 DEF InUse
<1>11. \A i \in 1..(d - 1) : g[s(i)] = f[s(i)]
  <2>1. \A i \in 1..(d - 1) : i \in Nat
    OBVIOUS
  <2> QED
    BY <2>1, <1>1, <1>2, <1>7
<1>12. f[s(0)] \in S
  <2>1. s(0) \in {c \in DOMAIN f : f[c] # None}
    BY <1>3
  <2> QED
    BY <2>1, <1>6 DEF Ring
<1> QED
  BY <1>5, <1>6, <1>10, <1>11, <1>12, Zenon DEF s, Same

(* What is in use holds a character.                                       *)
LEMMA RingHolds ==
  ASSUME NEW n \in Nat \ {0}, NEW x \in Nat, NEW d \in Nat, NEW S,
         NEW f, Ring(f, n, S), InUse(f, n, x, d), NEW i \in 0..(d - 1)
  PROVE  f[(x + i) % n] \in S
<1>1. (x + i) % n \in {c \in DOMAIN f : f[c] # None}
  BY DEF InUse
<1> QED
  BY <1>1 DEF Ring

-----------------------------------------------------------------------------
(* The input ring                                                          *)

(* How many characters are ready, and how many there are with those that   *)
(* can still be edited; the character at a place.                          *)
NReady == Minus(w, r)
NTyped == Minus(e, r)
InChar(i) == buf[(r + i) % INPUT_BUF_SIZE]

InputInv ==
    /\ r \in 0..(Wrap - 1) /\ w \in 0..(Wrap - 1) /\ e \in 0..(Wrap - 1)
    /\ NReady <= NTyped /\ NTyped <= INPUT_BUF_SIZE
    /\ Ring(buf, INPUT_BUF_SIZE, Chars) /\ InUse(buf, INPUT_BUF_SIZE, r, NTyped)
    /\ FullIsReady
    /\ \A i \in NReady..(NTyped - 1) : InChar(i) \notin LineEnds

LEMMA SizesAre ==
  /\ INPUT_BUF_SIZE \in Nat \ {0} /\ Wrap \in Nat \ {0} /\ INPUT_BUF_SIZE < Wrap
  /\ Divides(INPUT_BUF_SIZE, Wrap)
  /\ UART_TX_BUF_SIZE \in Nat \ {0} /\ TxWrap \in Nat \ {0} /\ UART_TX_BUF_SIZE < TxWrap
  /\ Divides(UART_TX_BUF_SIZE, TxWrap)
  BY ConsoleAssumption DEF ConsoleAssumption, Divides

LEMMA InWraps ==
  ASSUME NEW a \in Nat, NEW i \in Nat
  PROVE  ((a % Wrap) + i) % INPUT_BUF_SIZE = (a + i) % INPUT_BUF_SIZE
<1>1. Wrap \in Nat \ {0} /\ INPUT_BUF_SIZE \in Nat \ {0}
  BY SizesAre, Zenon
<1>2. Divides(INPUT_BUF_SIZE, Wrap)
  BY SizesAre, Zenon
<1> QED
  BY <1>1, <1>2, WrapKeepsCell, Zenon

LEMMA MinusIs ==
  ASSUME NEW x \in 0..(Wrap - 1), NEW y \in 0..(Wrap - 1)
  PROVE  /\ Minus(y, x) = IF y >= x THEN y - x ELSE y + Wrap - x
         /\ Minus(y, x) \in 0..(Wrap - 1)
  BY DistanceIs, SizesAre, Zenon DEF Minus

LEMMA PlusIs ==
  ASSUME NEW x \in 0..(Wrap - 1), NEW k \in 0..Wrap
  PROVE  /\ Plus(x, k) = IF x + k < Wrap THEN x + k ELSE x + k - Wrap
         /\ Plus(x, k) \in 0..(Wrap - 1)
  BY SumIs, SizesAre, Zenon DEF Plus

(* The distances without remainders.                                       *)
LEMMA InputIs ==
  ASSUME InputInv
  PROVE  /\ INPUT_BUF_SIZE \in Nat \ {0} /\ Wrap \in Nat \ {0} /\ INPUT_BUF_SIZE < Wrap
         /\ r \in 0..(Wrap - 1) /\ w \in 0..(Wrap - 1) /\ e \in 0..(Wrap - 1)
         /\ NReady = IF w >= r THEN w - r ELSE w + Wrap - r
         /\ NTyped = IF e >= r THEN e - r ELSE e + Wrap - r
         /\ NTyped \in 0..INPUT_BUF_SIZE /\ NReady \in 0..NTyped
         /\ Minus(e, w) = NTyped - NReady
         /\ None \notin Chars
<1>1. /\ INPUT_BUF_SIZE \in Nat \ {0} /\ Wrap \in Nat \ {0} /\ INPUT_BUF_SIZE < Wrap
  BY SizesAre, Zenon
<1>2. r \in 0..(Wrap - 1) /\ w \in 0..(Wrap - 1) /\ e \in 0..(Wrap - 1)
  BY Zenon DEF InputInv
<1>3. /\ NReady = IF w >= r THEN w - r ELSE w + Wrap - r
      /\ NTyped = IF e >= r THEN e - r ELSE e + Wrap - r
      /\ Minus(e, w) = IF e >= w THEN e - w ELSE e + Wrap - w
  BY <1>2, MinusIs, Zenon DEF NReady, NTyped
<1>4. NReady <= NTyped /\ NTyped <= INPUT_BUF_SIZE
  BY DEF InputInv
<1>5. None \notin Chars
  BY DEF None, Chars
<1> HIDE DEF NReady, NTyped
<1>6. NTyped \in 0..INPUT_BUF_SIZE /\ NReady \in 0..NTyped /\ Minus(e, w) = NTyped - NReady
  BY <1>1, <1>2, <1>3, <1>4
<1> QED
  BY <1>1, <1>2, <1>3, <1>5, <1>6

(* The index k behind r, and its cell.                                     *)
LEMMA InCellIs ==
  ASSUME InputInv, NEW k \in 0..INPUT_BUF_SIZE, NEW i \in Nat
  PROVE  /\ Plus(r, k) = IF r + k < Wrap THEN r + k ELSE r + k - Wrap
         /\ Plus(r, k) \in 0..(Wrap - 1)
         /\ (Plus(r, k) + i) % INPUT_BUF_SIZE = (r + (k + i)) % INPUT_BUF_SIZE
         /\ Plus(Plus(r, k), i) % INPUT_BUF_SIZE = (r + (k + i)) % INPUT_BUF_SIZE
<1>1. /\ INPUT_BUF_SIZE \in Nat \ {0} /\ Wrap \in Nat \ {0} /\ INPUT_BUF_SIZE < Wrap
      /\ r \in 0..(Wrap - 1)
  BY InputIs, Zenon
<1>2. k \in 0..Wrap /\ r + k \in Nat /\ (r + k) + i = r + (k + i)
  <2> HIDE <1>1
  <2>1. INPUT_BUF_SIZE \in Nat /\ Wrap \in Nat /\ INPUT_BUF_SIZE < Wrap /\ r \in 0..(Wrap - 1)
    BY <1>1
  <2> QED
    BY <2>1
<1>3. /\ Plus(r, k) = IF r + k < Wrap THEN r + k ELSE r + k - Wrap
      /\ Plus(r, k) \in 0..(Wrap - 1)
  BY <1>1, <1>2, PlusIs, Zenon
<1>4. (Plus(r, k) + i) % INPUT_BUF_SIZE = ((r + k) + i) % INPUT_BUF_SIZE
  BY <1>2, InWraps, Zenon DEF Plus
<1>5. Plus(Plus(r, k), i) % INPUT_BUF_SIZE = (Plus(r, k) + i) % INPUT_BUF_SIZE
  <2> DEFINE x == Plus(r, k) + i
             y == x % Wrap
  <2>1. x \in Nat
    BY <1>3
  <2>2. Plus(Plus(r, k), i) = y
    BY Zenon DEF Plus
  <2>3. y \in 0..(Wrap - 1)
    BY <2>1, <1>1, DivMod, Zenon
  <2>4. 0 \in Nat
    OBVIOUS
  <2>5. (y + 0) % INPUT_BUF_SIZE = (x + 0) % INPUT_BUF_SIZE
    BY <2>1, <2>4, InWraps, Zenon
  <2> HIDE DEF x, y
  <2>6. y + 0 = y /\ x + 0 = x
    BY <2>1, <2>3
  <2>7. y % INPUT_BUF_SIZE = x % INPUT_BUF_SIZE
    BY <2>5, <2>6, Zenon
  <2> QED
    BY <2>2, <2>7, Zenon DEF x
<1> QED
  BY <1>2, <1>3, <1>4, <1>5, Zenon

(* consoleread() takes a character.                                        *)
LEMMA InputTake ==
  ASSUME InputInv, r # w, r' = Plus(r, 1), buf' = Forget(r, 1), UNCHANGED <<w, e>>
  PROVE  /\ InputInv'
         /\ NReady \in Nat \ {0} /\ NReady' = NReady - 1 /\ NTyped' = NTyped - 1
         /\ \A i \in 0..(NTyped - 2) : InChar(i)' = InChar(i + 1)
<1>1. /\ INPUT_BUF_SIZE \in Nat \ {0} /\ Wrap \in Nat \ {0} /\ INPUT_BUF_SIZE < Wrap
      /\ r \in 0..(Wrap - 1) /\ w \in 0..(Wrap - 1) /\ e \in 0..(Wrap - 1)
      /\ NReady = IF w >= r THEN w - r ELSE w + Wrap - r
      /\ NTyped = IF e >= r THEN e - r ELSE e + Wrap - r
      /\ NTyped \in 0..INPUT_BUF_SIZE /\ NReady \in 0..NTyped /\ None \notin Chars
  BY InputIs, Zenon
<1>0. 1 \in 0..INPUT_BUF_SIZE
  BY <1>1
<1>2. /\ r' = IF r + 1 < Wrap THEN r + 1 ELSE r + 1 - Wrap
      /\ r' \in 0..(Wrap - 1)
  <2>1. 0 \in Nat
    OBVIOUS
  <2> QED
    BY <2>1, <1>0, InCellIs, Zenon
<1>3. NReady \in Nat \ {0} /\ NReady' = NReady - 1 /\ NTyped' = NTyped - 1
  <2>1. NReady' = Minus(w, r') /\ NTyped' = Minus(e, r')
    BY DEF NReady, NTyped, Minus
  <2>2. /\ NReady' = IF w >= r' THEN w - r' ELSE w + Wrap - r'
        /\ NTyped' = IF e >= r' THEN e - r' ELSE e + Wrap - r'
    BY <1>1, <1>2, <2>1, MinusIs, Zenon
  <2> HIDE DEF NReady, NTyped
  <2>3. NReady \in Nat \ {0} /\ NReady' = NReady - 1
    BY <1>1, <1>2, <2>2, Closer
  <2>4. r # e
    BY <1>1, <2>3
  <2>5. NTyped' = NTyped - 1
    BY <1>1, <1>2, <2>2, <2>4, Closer
  <2> QED
    BY <2>3, <2>5
<1>4. Takes(buf, INPUT_BUF_SIZE, r, buf')
  <2>1. Plus(r, 0) = r
    <3>1. 0 \in 0..Wrap /\ r + 0 = r /\ r + 0 < Wrap
      BY <1>1
    <3> QED
      BY <1>1, <3>1, PlusIs, Zenon
  <2>2. 0..(1 - 1) = {0}
    OBVIOUS
  <2>3. Forget(r, 1) = [c \in DOMAIN buf |-> IF c = r % INPUT_BUF_SIZE THEN None ELSE buf[c]]
    BY <2>1, <2>2, Zenon DEF Forget
  <2> QED
    BY <2>3 DEF Takes
<1>5. Follows(INPUT_BUF_SIZE, r, r')
  <2>1. ASSUME NEW i \in Nat
        PROVE  (r' + i) % INPUT_BUF_SIZE = (r + (i + 1)) % INPUT_BUF_SIZE
    <3>1. 1 + i = i + 1
      OBVIOUS
    <3>2. (r' + i) % INPUT_BUF_SIZE = (r + (1 + i)) % INPUT_BUF_SIZE
      BY <1>0, InCellIs, Zenon
    <3> QED
      BY <3>1, <3>2, Zenon
  <2> QED
    BY <2>1, Zenon DEF Follows
<1>6. r' \in Nat /\ r \in Nat /\ NTyped \in 1..INPUT_BUF_SIZE
  <2> HIDE DEF NReady, NTyped
  <2>1. r' \in Nat
    BY <1>2
  <2>2. r \in Nat
    BY <1>1
  <2>3. NTyped \in 1..INPUT_BUF_SIZE
    <3>1. NTyped \in 0..INPUT_BUF_SIZE /\ NReady \in 0..NTyped /\ NReady \in Nat \ {0}
      BY <1>1, <1>3, Zenon
    <3> QED
      BY <3>1, <1>1
  <2> QED
    BY <2>1, <2>2, <2>3
<1>7. /\ Ring(buf', INPUT_BUF_SIZE, Chars) /\ InUse(buf', INPUT_BUF_SIZE, r', NTyped - 1)
      /\ Same(buf, INPUT_BUF_SIZE, r, 1..(NTyped - 1), buf')
  <2>1. Ring(buf, INPUT_BUF_SIZE, Chars) /\ InUse(buf, INPUT_BUF_SIZE, r, NTyped)
    BY Zenon DEF InputInv
  <2>2. INPUT_BUF_SIZE \in Nat \ {0} /\ None \notin Chars
    BY <1>1, Zenon
  <2> QED
    BY <1>4, <1>5, <1>6, <2>1, <2>2, RingTake
<1>8. ASSUME NEW i \in 0..(NTyped - 2) PROVE InChar(i)' = InChar(i + 1)
  <2>1. i + 1 \in 1..(NTyped - 1) /\ i \in Nat
    BY <1>6
  <2>2. InChar(i)' = buf'[(r + (i + 1)) % INPUT_BUF_SIZE]
    BY <2>1, <1>5, Zenon DEF InChar, Follows
  <2> QED
    BY <2>1, <2>2, <1>7, Zenon DEF InChar, Same
<1>9. ASSUME NEW i \in NReady'..(NTyped' - 1) PROVE InChar(i)' \notin LineEnds
  <2>1. i \in 0..(NTyped - 2) /\ i + 1 \in NReady..(NTyped - 1)
    BY <1>1, <1>3
  <2> QED
    BY <2>1, <1>8, Zenon DEF InputInv
<1>10. NReady' <= NTyped' /\ NTyped' <= INPUT_BUF_SIZE /\ NTyped' # INPUT_BUF_SIZE
  BY <1>1, <1>3
<1>11. InputInv'
  BY <1>1, <1>2, <1>3, <1>7, <1>9, <1>10 DEF InputInv, FullIsReady, NTyped
<1> QED
  BY <1>3, <1>8, <1>11

(* consoleintr() erases k characters that are not ready.                   *)
LEMMA InputErase ==
  ASSUME InputInv, NEW k \in 0..Minus(e, w),
         e' = Minus(e, k), buf' = Forget(e', k), UNCHANGED <<r, w>>
  PROVE  /\ InputInv'
         /\ NReady' = NReady /\ NTyped' = NTyped - k
         /\ \A i \in 0..(NTyped - k - 1) : InChar(i)' = InChar(i)
<1>1. /\ INPUT_BUF_SIZE \in Nat \ {0} /\ Wrap \in Nat \ {0} /\ INPUT_BUF_SIZE < Wrap
      /\ r \in 0..(Wrap - 1) /\ w \in 0..(Wrap - 1) /\ e \in 0..(Wrap - 1)
      /\ NReady = IF w >= r THEN w - r ELSE w + Wrap - r
      /\ NTyped = IF e >= r THEN e - r ELSE e + Wrap - r
      /\ NTyped \in 0..INPUT_BUF_SIZE /\ NReady \in 0..NTyped /\ None \notin Chars
      /\ Minus(e, w) = NTyped - NReady
  BY InputIs, Zenon
<1> HIDE DEF NReady, NTyped
<1>2. k \in 0..(Wrap - 1) /\ k \in 0..NTyped /\ NTyped - k \in 0..INPUT_BUF_SIZE
  BY <1>1
<1>3. /\ e' = IF e >= k THEN e - k ELSE e + Wrap - k
      /\ e' \in 0..(Wrap - 1)
  BY <1>1, <1>2, MinusIs, Zenon
<1>4. /\ Plus(r, NTyped - k) = e'
      /\ \A j \in Nat : Plus(e', j) % INPUT_BUF_SIZE
                        = (r + ((NTyped - k) + j)) % INPUT_BUF_SIZE
  <2>1. Plus(r, NTyped - k) = IF r + (NTyped - k) < Wrap THEN r + (NTyped - k)
                              ELSE r + (NTyped - k) - Wrap
    BY <1>1, <1>2, InCellIs, Zenon
  <2>2. Plus(r, NTyped - k) = e'
    BY <2>1, <1>1, <1>2, <1>3
  <2> QED
    BY <2>2, <1>2, InCellIs, Zenon
<1>5. NReady' = NReady /\ NTyped' = NTyped - k
  <2>1. NTyped' = IF e' >= r THEN e' - r ELSE e' + Wrap - r
    <3>1. NTyped' = Minus(e', r)
      BY DEF NTyped, Minus
    <3> QED
      BY <1>1, <1>3, <3>1, MinusIs, Zenon
  <2>2. NReady' = NReady
    BY DEF NReady, Minus
  <2> QED
    BY <1>1, <1>2, <1>3, <2>1, <2>2
<1>6. Drops(buf, INPUT_BUF_SIZE, r, NTyped, k, buf')
  <2>1. \A j \in 0..(k - 1) : j \in Nat /\ r + ((NTyped - k) + j) = r + (NTyped - k) + j
    BY <1>1, <1>2
  <2>2. \A j \in 0..(k - 1) : Plus(e', j) % INPUT_BUF_SIZE
                              = (r + (NTyped - k) + j) % INPUT_BUF_SIZE
    BY <2>1, <1>4, Zenon
  <2> QED
    BY <2>2, Zenon DEF Forget, Drops
<1>7. /\ Ring(buf', INPUT_BUF_SIZE, Chars) /\ InUse(buf', INPUT_BUF_SIZE, r, NTyped - k)
      /\ Same(buf, INPUT_BUF_SIZE, r, 0..(NTyped - k - 1), buf')
  <2>1. r \in Nat /\ INPUT_BUF_SIZE \in Nat \ {0} /\ None \notin Chars
    BY <1>1
  <2>2. Ring(buf, INPUT_BUF_SIZE, Chars) /\ InUse(buf, INPUT_BUF_SIZE, r, NTyped)
    BY Zenon DEF InputInv
  <2>3. NTyped \in 0..INPUT_BUF_SIZE /\ k \in 0..NTyped
    BY <1>1, <1>2, Zenon
  <2> QED
    BY <2>1, <2>2, <2>3, <1>6, RingDrop
<1>8. \A i \in 0..(NTyped - k - 1) : InChar(i)' = InChar(i)
  BY <1>7, Zenon DEF InChar, Same
<1>9. ASSUME NEW i \in NReady'..(NTyped' - 1) PROVE InChar(i)' \notin LineEnds
  <2>1. i \in 0..(NTyped - k - 1) /\ i \in NReady..(NTyped - 1)
    BY <1>1, <1>2, <1>5
  <2> QED
    BY <2>1, <1>8, Zenon DEF InputInv
<1>10. NReady' <= NTyped' /\ NTyped' <= INPUT_BUF_SIZE
  BY <1>1, <1>2, <1>5
<1>11. FullIsReady'
  <2> SUFFICES ASSUME NTyped' = INPUT_BUF_SIZE PROVE e' = w
    BY DEF FullIsReady, NTyped
  <2>1. k = 0 /\ NTyped = INPUT_BUF_SIZE
    BY <1>1, <1>2, <1>5
  <2>2. e = w
    BY <2>1 DEF InputInv, FullIsReady, NTyped
  <2> QED
    BY <2>1, <2>2, <1>1, <1>3
<1>12. InputInv'
  BY <1>1, <1>3, <1>5, <1>7, <1>9, <1>10, <1>11 DEF InputInv
<1> QED
  BY <1>5, <1>8, <1>12

(* consoleintr() stores a character, which may make the line ready.        *)
LEMMA InputStore ==
  ASSUME InputInv, NTyped < INPUT_BUF_SIZE, NEW v \in Chars,
         buf' = [buf EXCEPT ![e % INPUT_BUF_SIZE] = v],
         e' = Plus(e, 1), r' = r,
         w' = IF v \in LineEnds \/ Minus(e', r) = INPUT_BUF_SIZE THEN e' ELSE w
  PROVE  /\ InputInv'
         /\ NTyped' = NTyped + 1
         /\ NReady' = IF v \in LineEnds \/ NTyped + 1 = INPUT_BUF_SIZE THEN NTyped + 1
                      ELSE NReady
         /\ \A i \in 0..(NTyped - 1) : InChar(i)' = InChar(i)
         /\ \A i \in Nat : i = NTyped => InChar(i)' = v
<1>1. /\ INPUT_BUF_SIZE \in Nat \ {0} /\ Wrap \in Nat \ {0} /\ INPUT_BUF_SIZE < Wrap
      /\ r \in 0..(Wrap - 1) /\ w \in 0..(Wrap - 1) /\ e \in 0..(Wrap - 1)
      /\ NReady = IF w >= r THEN w - r ELSE w + Wrap - r
      /\ NTyped = IF e >= r THEN e - r ELSE e + Wrap - r
      /\ NTyped \in 0..INPUT_BUF_SIZE /\ NReady \in 0..NTyped /\ None \notin Chars
  BY InputIs, Zenon
<1>2. /\ e' = IF e + 1 < Wrap THEN e + 1 ELSE e + 1 - Wrap
      /\ e' \in 0..(Wrap - 1)
  <2>1. 1 \in 0..Wrap
    BY <1>1
  <2> QED
    BY <2>1, <1>1, PlusIs, Zenon
<1>3. NTyped' = IF e' >= r THEN e' - r ELSE e' + Wrap - r
  <2>1. NTyped' = Minus(e', r)
    BY DEF NTyped, Minus
  <2> QED
    BY <1>1, <1>2, <2>1, MinusIs, Zenon
<1>4. Minus(e', r) = NTyped'
  BY DEF NTyped, Minus
<1>5. NReady' = IF v \in LineEnds \/ NTyped' = INPUT_BUF_SIZE THEN NTyped' ELSE NReady
  <2>1. CASE v \in LineEnds \/ NTyped' = INPUT_BUF_SIZE
    <3>1. w' = e'
      BY <2>1, <1>4
    <3> QED
      BY <2>1, <3>1 DEF NReady, NTyped, Minus
  <2>2. CASE ~(v \in LineEnds \/ NTyped' = INPUT_BUF_SIZE)
    <3>1. w' = w
      BY <2>2, <1>4
    <3> QED
      BY <2>2, <3>1 DEF NReady, Minus
  <2> QED
    BY <2>1, <2>2
<1>6. e % INPUT_BUF_SIZE = (r + NTyped) % INPUT_BUF_SIZE
  <2>1. Plus(r, NTyped) = e
    <3>1. Plus(r, NTyped) = IF r + NTyped < Wrap THEN r + NTyped ELSE r + NTyped - Wrap
      <4>1. 0 \in Nat
        OBVIOUS
      <4> QED
        BY <4>1, <1>1, InCellIs, Zenon
    <3> HIDE DEF NTyped
    <3> QED
      BY <3>1, <1>1
  <2>2. (Plus(r, NTyped) + 0) % INPUT_BUF_SIZE = (r + (NTyped + 0)) % INPUT_BUF_SIZE
    <3>1. 0 \in Nat
      OBVIOUS
    <3> QED
      BY <3>1, <1>1, InCellIs, Zenon
  <2>3. e + 0 = e /\ NTyped + 0 = NTyped
    BY <1>1
  <2> QED
    BY <2>1, <2>2, <2>3, Zenon
<1> HIDE DEF NReady, NTyped
<1>7. NTyped' = NTyped + 1
  BY <1>1, <1>2, <1>3
<1>8. /\ Ring(buf', INPUT_BUF_SIZE, Chars) /\ InUse(buf', INPUT_BUF_SIZE, r, NTyped + 1)
      /\ Same(buf, INPUT_BUF_SIZE, r, 0..(NTyped - 1), buf')
      /\ Has(buf', INPUT_BUF_SIZE, r, NTyped, v)
  <2>1. /\ r \in Nat /\ NTyped \in 0..(INPUT_BUF_SIZE - 1)
        /\ INPUT_BUF_SIZE \in Nat \ {0} /\ None \notin Chars
    BY <1>1
  <2>3. Ring(buf, INPUT_BUF_SIZE, Chars) /\ InUse(buf, INPUT_BUF_SIZE, r, NTyped)
    BY Zenon DEF InputInv
  <2>2. Adds(buf, INPUT_BUF_SIZE, r, NTyped, v, buf')
    BY <1>6, Zenon DEF Adds
  <2> QED
    BY <2>1, <2>2, <2>3, RingPut
<1>9. /\ \A i \in 0..(NTyped - 1) : InChar(i)' = InChar(i)
      /\ \A i \in Nat : i = NTyped => InChar(i)' = v
  BY <1>8, Zenon DEF InChar, Same, Has
<1>10. ASSUME NEW i \in NReady'..(NTyped' - 1) PROVE InChar(i)' \notin LineEnds
  <2>1. CASE v \in LineEnds \/ NTyped + 1 = INPUT_BUF_SIZE
    BY <2>1, <1>1, <1>5, <1>7
  <2>2. CASE v \notin LineEnds /\ NReady' = NReady
    <3>1. CASE i = NTyped
      BY <2>2, <3>1, <1>1, <1>9
    <3>2. CASE i # NTyped
      <4>1. i \in 0..(NTyped - 1) /\ i \in NReady..(NTyped - 1)
        BY <2>2, <3>2, <1>1, <1>7
      <4> QED
        BY <4>1, <1>9, Zenon DEF InputInv
    <3> QED
      BY <3>1, <3>2
  <2> QED
    BY <2>1, <2>2, <1>5, <1>7
<1>11. NReady' <= NTyped' /\ NTyped' <= INPUT_BUF_SIZE
  BY <1>1, <1>5, <1>7
<1>12. FullIsReady'
  <2> SUFFICES ASSUME NTyped' = INPUT_BUF_SIZE PROVE e' = w'
    BY DEF FullIsReady, NTyped
  <2> QED
    BY <1>4
<1>13. w' \in 0..(Wrap - 1)
  BY <1>1, <1>2
<1>14. InputInv'
  BY <1>1, <1>2, <1>7, <1>8, <1>10, <1>11, <1>12, <1>13 DEF InputInv
<1> QED
  BY <1>5, <1>7, <1>9, <1>14

-----------------------------------------------------------------------------
(* The output ring                                                         *)

TxMinus(i, j) == (i + TxWrap - j) % TxWrap
NOut == TxMinus(txw, txr)
OutChar(i) == txbuf[(txr + i) % UART_TX_BUF_SIZE]

OutputInv ==
    /\ txr \in 0..(TxWrap - 1) /\ txw \in 0..(TxWrap - 1) /\ NOut <= UART_TX_BUF_SIZE
    /\ Ring(txbuf, UART_TX_BUF_SIZE, OutChars)
    /\ InUse(txbuf, UART_TX_BUF_SIZE, txr, NOut)

LEMMA OutWraps ==
  ASSUME NEW a \in Nat, NEW i \in Nat
  PROVE  ((a % TxWrap) + i) % UART_TX_BUF_SIZE = (a + i) % UART_TX_BUF_SIZE
<1>1. TxWrap \in Nat \ {0} /\ UART_TX_BUF_SIZE \in Nat \ {0}
  BY SizesAre, Zenon
<1>2. Divides(UART_TX_BUF_SIZE, TxWrap)
  BY SizesAre, Zenon
<1> QED
  BY <1>1, <1>2, WrapKeepsCell, Zenon

LEMMA TxMinusIs ==
  ASSUME NEW x \in 0..(TxWrap - 1), NEW y \in 0..(TxWrap - 1)
  PROVE  /\ TxMinus(y, x) = IF y >= x THEN y - x ELSE y + TxWrap - x
         /\ TxMinus(y, x) \in 0..(TxWrap - 1)
  BY DistanceIs, SizesAre, Zenon DEF TxMinus

LEMMA TxPlusIs ==
  ASSUME NEW x \in 0..(TxWrap - 1), NEW k \in 0..TxWrap
  PROVE  /\ TxPlus(x, k) = IF x + k < TxWrap THEN x + k ELSE x + k - TxWrap
         /\ TxPlus(x, k) \in 0..(TxWrap - 1)
  BY SumIs, SizesAre, Zenon DEF TxPlus

LEMMA OutputIs ==
  ASSUME OutputInv
  PROVE  /\ UART_TX_BUF_SIZE \in Nat \ {0} /\ TxWrap \in Nat \ {0} /\ UART_TX_BUF_SIZE < TxWrap
         /\ txr \in 0..(TxWrap - 1) /\ txw \in 0..(TxWrap - 1)
         /\ NOut = IF txw >= txr THEN txw - txr ELSE txw + TxWrap - txr
         /\ NOut \in 0..UART_TX_BUF_SIZE
         /\ TxFull <=> NOut = UART_TX_BUF_SIZE
         /\ txw = TxPlus(txr, NOut)
         /\ None \notin OutChars
<1>1. UART_TX_BUF_SIZE \in Nat \ {0} /\ TxWrap \in Nat \ {0} /\ UART_TX_BUF_SIZE < TxWrap
  BY SizesAre, Zenon
<1>2. txr \in 0..(TxWrap - 1) /\ txw \in 0..(TxWrap - 1)
  BY Zenon DEF OutputInv
<1>3. NOut = IF txw >= txr THEN txw - txr ELSE txw + TxWrap - txr
  BY <1>2, TxMinusIs, Zenon DEF NOut
<1>4. NOut <= UART_TX_BUF_SIZE
  BY Zenon DEF OutputInv
<1>5. None \notin OutChars
  BY ConsoleAssumption DEF ConsoleAssumption
<1> HIDE DEF NOut
<1>6. NOut \in 0..UART_TX_BUF_SIZE /\ NOut \in 0..TxWrap /\ UART_TX_BUF_SIZE \in 0..TxWrap
  BY <1>1, <1>2, <1>3, <1>4
<1>7. /\ TxPlus(txr, NOut) = IF txr + NOut < TxWrap THEN txr + NOut ELSE txr + NOut - TxWrap
      /\ TxPlus(txr, UART_TX_BUF_SIZE) = IF txr + UART_TX_BUF_SIZE < TxWrap
                                         THEN txr + UART_TX_BUF_SIZE
                                         ELSE txr + UART_TX_BUF_SIZE - TxWrap
  BY <1>2, <1>6, TxPlusIs, Zenon
<1>8. txw = TxPlus(txr, NOut)
  BY <1>1, <1>2, <1>3, <1>6, <1>7
<1>9. TxFull <=> NOut = UART_TX_BUF_SIZE
  BY <1>1, <1>2, <1>3, <1>6, <1>7 DEF TxFull
<1> QED
  BY <1>1, <1>2, <1>3, <1>5, <1>6, <1>8, <1>9, Zenon

(* uartputc() stores a character.                                          *)
LEMMA OutputPut ==
  ASSUME OutputInv, ~TxFull, NEW v \in OutChars,
         txbuf' = [txbuf EXCEPT ![txw % UART_TX_BUF_SIZE] = v],
         txw' = TxPlus(txw, 1), txr' = txr
  PROVE  /\ OutputInv'
         /\ NOut < UART_TX_BUF_SIZE /\ NOut' = NOut + 1
         /\ \A i \in 0..(NOut - 1) : OutChar(i)' = OutChar(i)
         /\ \A i \in Nat : i = NOut => OutChar(i)' = v
<1>1. /\ UART_TX_BUF_SIZE \in Nat \ {0} /\ TxWrap \in Nat \ {0} /\ UART_TX_BUF_SIZE < TxWrap
      /\ txr \in 0..(TxWrap - 1) /\ txw \in 0..(TxWrap - 1)
      /\ NOut = IF txw >= txr THEN txw - txr ELSE txw + TxWrap - txr
      /\ NOut \in 0..UART_TX_BUF_SIZE /\ NOut # UART_TX_BUF_SIZE
      /\ None \notin OutChars
  BY OutputIs, Zenon
<1>2. /\ txw' = IF txw + 1 < TxWrap THEN txw + 1 ELSE txw + 1 - TxWrap
      /\ txw' \in 0..(TxWrap - 1)
  <2>1. 1 \in 0..TxWrap
    BY <1>1
  <2> QED
    BY <2>1, <1>1, TxPlusIs, Zenon
<1>3. NOut' = IF txw' >= txr THEN txw' - txr ELSE txw' + TxWrap - txr
  <2>1. NOut' = TxMinus(txw', txr)
    BY DEF NOut, TxMinus
  <2> QED
    BY <1>1, <1>2, <2>1, TxMinusIs, Zenon
<1> HIDE DEF NOut
<1>4. NOut \in 0..(UART_TX_BUF_SIZE - 1) /\ NOut' = NOut + 1
  BY <1>1, <1>2, <1>3
<1>5. txw % UART_TX_BUF_SIZE = (txr + NOut) % UART_TX_BUF_SIZE
  <2> DEFINE a == txr + NOut
             y == a % TxWrap
  <2>1. a \in Nat /\ 0 \in Nat
    BY <1>1
  <2>2. txw = y
    BY OutputIs, Zenon DEF TxPlus
  <2>3. (y + 0) % UART_TX_BUF_SIZE = (a + 0) % UART_TX_BUF_SIZE
    BY <2>1, OutWraps, Zenon
  <2> HIDE DEF a, y
  <2>4. y + 0 = y /\ a + 0 = a
    BY <2>1, <2>2, <1>1
  <2> QED
    BY <2>2, <2>3, <2>4, Zenon DEF a
<1>6. /\ Ring(txbuf', UART_TX_BUF_SIZE, OutChars)
      /\ InUse(txbuf', UART_TX_BUF_SIZE, txr, NOut + 1)
      /\ Same(txbuf, UART_TX_BUF_SIZE, txr, 0..(NOut - 1), txbuf')
      /\ Has(txbuf', UART_TX_BUF_SIZE, txr, NOut, v)
  <2>1. txr \in Nat /\ UART_TX_BUF_SIZE \in Nat \ {0} /\ None \notin OutChars
    BY <1>1
  <2>2. /\ Ring(txbuf, UART_TX_BUF_SIZE, OutChars)
        /\ InUse(txbuf, UART_TX_BUF_SIZE, txr, NOut)
    BY Zenon DEF OutputInv
  <2>3. Adds(txbuf, UART_TX_BUF_SIZE, txr, NOut, v, txbuf')
    BY <1>5, Zenon DEF Adds
  <2> QED
    BY <2>1, <2>2, <2>3, <1>4, RingPut
<1>7. /\ \A i \in 0..(NOut - 1) : OutChar(i)' = OutChar(i)
      /\ \A i \in Nat : i = NOut => OutChar(i)' = v
  BY <1>6, Zenon DEF OutChar, Same, Has
<1>8. NOut' <= UART_TX_BUF_SIZE /\ NOut < UART_TX_BUF_SIZE
  BY <1>1, <1>4
<1>9. OutputInv'
  BY <1>1, <1>2, <1>4, <1>6, <1>8 DEF OutputInv
<1> QED
  BY <1>4, <1>7, <1>8, <1>9

(* uartstart() sends the oldest.                                           *)
LEMMA OutputTake ==
  ASSUME OutputInv, txr # txw, txr' = TxPlus(txr, 1), txw' = txw,
         txbuf' = [txbuf EXCEPT ![txr % UART_TX_BUF_SIZE] = None]
  PROVE  /\ OutputInv'
         /\ NOut \in Nat \ {0} /\ NOut' = NOut - 1
         /\ \A i \in 0..(NOut - 2) : OutChar(i)' = OutChar(i + 1)
<1>1. /\ UART_TX_BUF_SIZE \in Nat \ {0} /\ TxWrap \in Nat \ {0} /\ UART_TX_BUF_SIZE < TxWrap
      /\ txr \in 0..(TxWrap - 1) /\ txw \in 0..(TxWrap - 1)
      /\ NOut = IF txw >= txr THEN txw - txr ELSE txw + TxWrap - txr
      /\ NOut \in 0..UART_TX_BUF_SIZE /\ None \notin OutChars
  BY OutputIs, Zenon
<1>0. 1 \in 0..TxWrap /\ txr + 1 \in Nat
  BY <1>1
<1>2. /\ txr' = IF txr + 1 < TxWrap THEN txr + 1 ELSE txr + 1 - TxWrap
      /\ txr' \in 0..(TxWrap - 1)
  BY <1>0, <1>1, TxPlusIs, Zenon
<1>3. NOut \in Nat \ {0} /\ NOut' = NOut - 1
  <2>1. NOut' = TxMinus(txw, txr')
    BY DEF NOut, TxMinus
  <2>2. NOut' = IF txw >= txr' THEN txw - txr' ELSE txw + TxWrap - txr'
    BY <1>1, <1>2, <2>1, TxMinusIs, Zenon
  <2> HIDE DEF NOut
  <2> QED
    BY <1>1, <1>2, <2>2, Closer
<1> HIDE DEF NOut
<1>4. Takes(txbuf, UART_TX_BUF_SIZE, txr, txbuf')
  BY Zenon DEF Takes
<1>5. Follows(UART_TX_BUF_SIZE, txr, txr')
  <2>1. ASSUME NEW i \in Nat
        PROVE  (txr' + i) % UART_TX_BUF_SIZE = (txr + (i + 1)) % UART_TX_BUF_SIZE
    <3>1. (txr + 1) + i = txr + (i + 1)
      BY <1>1
    <3>2. (txr' + i) % UART_TX_BUF_SIZE = ((txr + 1) + i) % UART_TX_BUF_SIZE
      BY <1>0, OutWraps, Zenon DEF TxPlus
    <3> QED
      BY <3>1, <3>2, Zenon
  <2> QED
    BY <2>1, Zenon DEF Follows
<1>6. /\ txr' \in Nat /\ txr \in Nat /\ UART_TX_BUF_SIZE \in Nat \ {0}
      /\ NOut \in 1..UART_TX_BUF_SIZE
  BY <1>1, <1>2, <1>3
<1>7. /\ Ring(txbuf', UART_TX_BUF_SIZE, OutChars)
      /\ InUse(txbuf', UART_TX_BUF_SIZE, txr', NOut - 1)
      /\ Same(txbuf, UART_TX_BUF_SIZE, txr, 1..(NOut - 1), txbuf')
  <2>1. /\ Ring(txbuf, UART_TX_BUF_SIZE, OutChars)
        /\ InUse(txbuf, UART_TX_BUF_SIZE, txr, NOut)
    BY Zenon DEF OutputInv
  <2>2. None \notin OutChars
    BY <1>1, Zenon
  <2> QED
    BY <1>4, <1>5, <1>6, <2>1, <2>2, RingTake
<1>8. ASSUME NEW i \in 0..(NOut - 2) PROVE OutChar(i)' = OutChar(i + 1)
  <2>1. i + 1 \in 1..(NOut - 1) /\ i \in Nat
    BY <1>6
  <2>2. OutChar(i)' = txbuf'[(txr + (i + 1)) % UART_TX_BUF_SIZE]
    BY <2>1, <1>5, Zenon DEF OutChar, Follows
  <2> QED
    BY <2>1, <2>2, <1>7, Zenon DEF OutChar, Same
<1>9. NOut' <= UART_TX_BUF_SIZE
  BY <1>1, <1>3
<1>10. OutputInv'
  BY <1>1, <1>2, <1>3, <1>7, <1>9 DEF OutputInv
<1> QED
  BY <1>3, <1>8, <1>10

-----------------------------------------------------------------------------
(* Where the calls and the interrupt are                                   *)

LEMMA Names == Intr \notin Procs /\ Nobody \notin Procs /\ Intr # Nobody
  BY ConsoleAssumption DEF ConsoleAssumption, Intr, Nobody

(* A sleeper is in consoleread() or in uartputc(); who holds uart_tx_lock  *)
(* is in uartstart(), and the interrupt is there when the receiver is      *)
(* empty and cons.lock is released; who is about to sleep on a line has    *)
(* cons.lock.                                                              *)
PlaceInv ==
    /\ clock \in Procs \cup {Intr, Nobody} /\ txlock \in Procs \cup {Intr, Nobody}
    /\ fifo \in Nat /\ rx \in Nat /\ irq \in BOOLEAN /\ echo \in Nat
    /\ intr \in {"out", "getc", "start"}
    /\ pc \in [Procs -> PCs] /\ asleep \subseteq Procs /\ killed \subseteq Procs
    /\ \A p \in asleep : pc[p] \in {"read", "write"}
    /\ \A p \in Procs : pc[p] = "start" <=> txlock = p
    /\ \A p \in Procs : pc[p] = "sleep" => clock = p /\ p \notin asleep
    /\ intr = "start" <=> txlock = Intr
    /\ clock = Intr => intr = "getc"

(* Who has found the transmitter idle: the holder of uart_tx_lock, with a  *)
(* character to send, and the interrupt with an echo.                      *)
SendInv ==
    /\ saw \subseteq {txlock, Intr} \ {Nobody}
    /\ Intr \in saw /\ intr # "start" => clock = Intr /\ echo > 0
    /\ txlock \in saw => txr # txw

LEMMA PlaceNext ==
  ASSUME PlaceInv, SendInv, Next
  PROVE  PlaceInv'
<1> USE Names DEF PlaceInv, PCs,
        consVars, txVars, intrVars, procVars
<1>1. ASSUME NEW p \in Procs, Call(p) PROVE PlaceInv'
  BY <1>1 DEF Call
<1>2. ASSUME NEW p \in Procs, ReadEmpty(p) \/ ReadSleeps(p) PROVE PlaceInv'
  BY <1>2 DEF ReadEmpty, ReadSleeps, Reading, Returned
<1>3. ASSUME NEW p \in Procs, ReadEof(p) PROVE PlaceInv'
  BY <1>3 DEF ReadEof, Reading, Returned
<1>4. ASSUME NEW p \in Procs, ReadChar(p) PROVE PlaceInv'
  BY <1>4 DEF ReadChar, Reading, Returned
<1>5. ASSUME NEW p \in Procs, WriteFault(p) PROVE PlaceInv'
  BY <1>5 DEF WriteFault, Returned
<1>6. ASSUME NEW p \in Procs, PutSleeps(p) PROVE PlaceInv'
  BY <1>6 DEF PutSleeps
<1>7. ASSUME NEW p \in Procs, Put(p) PROVE PlaceInv'
  BY <1>7 DEF Put
<1>8. ASSUME NEW p \in Procs, PutReturns(p) PROVE PlaceInv'
  BY <1>8 DEF PutReturns, Returned, StartDone
<1>9. ASSUME NEW p \in Procs, Kill(p) PROVE PlaceInv'
  BY <1>9 DEF Kill
<1>10. ASSUME NEW x \in Procs \cup {Intr}, StartSees(x), x = Intr => intr = "start"
      PROVE  PlaceInv'
  BY <1>10 DEF StartSees
<1>11. ASSUME NEW x \in Procs \cup {Intr}, StartSends(x), x = Intr => intr = "start"
      PROVE  PlaceInv'
  BY <1>11 DEF StartSends
<1>12. CASE IntrEnter
  BY <1>12 DEF IntrEnter
<1>13. CASE Backspace
  BY <1>13 DEF Backspace, Getc, Echoes
<1>14. CASE KillLine
  BY <1>14 DEF KillLine, Getc, Echoes
<1>15. CASE PrintList
  BY <1>15 DEF PrintList, Getc, Echoes
<1>16. CASE Store
  BY <1>16 DEF Store, Getc, Echoes
<1>17. CASE EchoSees
  BY <1>17 DEF EchoSees
<1>18. CASE EchoSends
  BY <1>18 DEF EchoSends, SendInv
<1>19. CASE ConsoleIntrDone
  BY <1>19 DEF ConsoleIntrDone
<1>20. CASE IntrStart
  BY <1>20 DEF IntrStart
<1>21. CASE IntrLeave
  BY <1>21 DEF IntrLeave, StartDone
<1>22. CASE Key
  BY <1>22 DEF Key
<1>23. CASE Transmit
  BY <1>23 DEF Transmit
<1>24. Intr \in Procs \cup {Intr} /\ \A p \in Procs : p \in Procs \cup {Intr} /\ p # Intr
  BY Names
<1> HIDE DEF PlaceInv, PCs,
        consVars, txVars, intrVars, procVars
<1> QED
  BY <1>1, <1>2, <1>3, <1>4, <1>5, <1>6, <1>7, <1>8, <1>9, <1>10, <1>11,
     <1>12, <1>13, <1>14, <1>15, <1>16, <1>17, <1>18, <1>19, <1>20, <1>21,
     <1>22, <1>23, <1>24, Zenon
     DEF Next, Goes, Interrupt

LEMMA SendNext ==
  ASSUME PlaceInv, SendInv, Next
  PROVE  SendInv'
<1> USE Names DEF PlaceInv, SendInv,
        consVars, txVars, intrVars, procVars
<1>1. ASSUME NEW p \in Procs, Call(p) PROVE SendInv'
  BY <1>1 DEF Call
<1>2. ASSUME NEW p \in Procs, ReadEmpty(p) \/ ReadSleeps(p) PROVE SendInv'
  BY <1>2 DEF ReadEmpty, ReadSleeps, Reading, Returned
<1>3. ASSUME NEW p \in Procs, ReadEof(p) PROVE SendInv'
  BY <1>3 DEF ReadEof, Reading, Returned
<1>4. ASSUME NEW p \in Procs, ReadChar(p) PROVE SendInv'
  BY <1>4 DEF ReadChar, Reading, Returned
<1>5. ASSUME NEW p \in Procs, WriteFault(p) PROVE SendInv'
  BY <1>5 DEF WriteFault, Returned
<1>6. ASSUME NEW p \in Procs, PutSleeps(p) PROVE SendInv'
  BY <1>6 DEF PutSleeps
<1>7. ASSUME NEW p \in Procs, Put(p) PROVE SendInv'
  BY <1>7 DEF Put
<1>8. ASSUME NEW p \in Procs, PutReturns(p) PROVE SendInv'
  BY <1>8 DEF PutReturns, Returned, StartDone
<1>9. ASSUME NEW p \in Procs, Kill(p) PROVE SendInv'
  BY <1>9 DEF Kill
<1>10. ASSUME NEW x \in Procs \cup {Intr}, StartSees(x), x = Intr => intr = "start"
      PROVE  SendInv'
  BY <1>10 DEF StartSees
<1>11. ASSUME NEW x \in Procs \cup {Intr}, StartSends(x), x = Intr => intr = "start"
      PROVE  SendInv'
  BY <1>11 DEF StartSends
<1>12. CASE IntrEnter
  BY <1>12 DEF IntrEnter
<1>13. CASE Backspace
  BY <1>13 DEF Backspace, Getc, Echoes
<1>14. CASE KillLine
  BY <1>14 DEF KillLine, Getc, Echoes
<1>15. CASE PrintList
  BY <1>15 DEF PrintList, Getc, Echoes
<1>16. CASE Store
  BY <1>16 DEF Store, Getc, Echoes
<1>17. CASE EchoSees
  BY <1>17 DEF EchoSees
<1>18. CASE EchoSends
  BY <1>18 DEF EchoSends
<1>19. CASE ConsoleIntrDone
  BY <1>19 DEF ConsoleIntrDone
<1>20. CASE IntrStart
  BY <1>20 DEF IntrStart
<1>21. CASE IntrLeave
  BY <1>21 DEF IntrLeave, StartDone
<1>22. CASE Key
  BY <1>22 DEF Key
<1>23. CASE Transmit
  BY <1>23 DEF Transmit
<1>24. Intr \in Procs \cup {Intr} /\ \A p \in Procs : p \in Procs \cup {Intr} /\ p # Intr
  BY Names
<1> HIDE DEF PlaceInv, SendInv,
        consVars, txVars, intrVars, procVars
<1> QED
  BY <1>1, <1>2, <1>3, <1>4, <1>5, <1>6, <1>7, <1>8, <1>9, <1>10, <1>11,
     <1>12, <1>13, <1>14, <1>15, <1>16, <1>17, <1>18, <1>19, <1>20, <1>21,
     <1>22, <1>23, <1>24, Zenon
     DEF Next, Goes, Interrupt

LEMMA SawFinite ==
  ASSUME NEW a, NEW X \in SUBSET {a, Intr}
  PROVE  IsFiniteSet(X) /\ Cardinality(X) \in 0..2
<1> DEFINE T == {a} \cup {Intr}
<1>1. IsFiniteSet({a}) /\ Cardinality({a}) = 1
  BY FS_Singleton
<1>2. IsFiniteSet(T) /\ Cardinality(T) \in 1..2
  BY <1>1, FS_AddElement
<1>3. X \in SUBSET T
  OBVIOUS
<1> HIDE DEF T
<1>4. IsFiniteSet(X) /\ Cardinality(X) <= Cardinality(T)
  BY <1>2, <1>3, FS_Subset
<1> QED
  BY <1>2, <1>4, FS_CardinalityType

(* Between seeing and sending nobody else sees, but for the other of two.  *)
LEMMA FifoNext ==
  ASSUME PlaceInv, SendInv, FifoBound, Next
  PROVE  FifoBound'
<1> USE Names DEF FifoBound,
        consVars, txVars, intrVars, procVars
<1>1. ASSUME NEW p \in Procs, Call(p) PROVE FifoBound'
  BY <1>1 DEF Call
<1>2. ASSUME NEW p \in Procs, ReadEmpty(p) \/ ReadSleeps(p) PROVE FifoBound'
  BY <1>2 DEF ReadEmpty, ReadSleeps, Reading, Returned
<1>3. ASSUME NEW p \in Procs, ReadEof(p) PROVE FifoBound'
  BY <1>3 DEF ReadEof, Reading, Returned
<1>4. ASSUME NEW p \in Procs, ReadChar(p) PROVE FifoBound'
  BY <1>4 DEF ReadChar, Reading, Returned
<1>5. ASSUME NEW p \in Procs, WriteFault(p) PROVE FifoBound'
  BY <1>5 DEF WriteFault, Returned
<1>6. ASSUME NEW p \in Procs, PutSleeps(p) PROVE FifoBound'
  BY <1>6 DEF PutSleeps
<1>7. ASSUME NEW p \in Procs, Put(p) PROVE FifoBound'
  BY <1>7 DEF Put
<1>8. ASSUME NEW p \in Procs, PutReturns(p) PROVE FifoBound'
  BY <1>8 DEF PutReturns, Returned, StartDone
<1>9. ASSUME NEW p \in Procs, Kill(p) PROVE FifoBound'
  BY <1>9 DEF Kill
<1>10. ASSUME NEW x \in Procs \cup {Intr}, StartSees(x), x = Intr => intr = "start"
      PROVE  FifoBound'
  <2>1. fifo' = 0 /\ saw' \subseteq {txlock, Intr}
    BY <1>10, Names DEF StartSees, Idle, SendInv, PlaceInv, consVars, txVars, intrVars, procVars
  <2>2. Cardinality(saw') \in 0..2
    BY <2>1, SawFinite
  <2> QED
    BY <2>1, <2>2 DEF FifoBound
<1>11. ASSUME NEW x \in Procs \cup {Intr}, StartSends(x), x = Intr => intr = "start"
      PROVE  FifoBound'
  <2>1. /\ fifo' = fifo + 1 /\ fifo \in Nat
        /\ saw' = saw \ {x} /\ x \in saw /\ saw \subseteq {txlock, Intr}
    BY <1>11, Names DEF StartSends, SendInv, PlaceInv, consVars, txVars, intrVars, procVars
  <2>2. IsFiniteSet(saw) /\ Cardinality(saw) \in 0..2
    BY <2>1, SawFinite
  <2>3. Cardinality(saw') = Cardinality(saw) - 1
    BY <2>1, <2>2, FS_RemoveElement
  <2> QED
    BY <2>1, <2>2, <2>3 DEF FifoBound
<1>12. CASE IntrEnter
  BY <1>12 DEF IntrEnter
<1>13. CASE Backspace
  BY <1>13 DEF Backspace, Getc, Echoes
<1>14. CASE KillLine
  BY <1>14 DEF KillLine, Getc, Echoes
<1>15. CASE PrintList
  BY <1>15 DEF PrintList, Getc, Echoes
<1>16. CASE Store
  BY <1>16 DEF Store, Getc, Echoes
<1>17. CASE EchoSees
  <2>1. fifo' = 0 /\ saw' \subseteq {txlock, Intr}
    BY <1>17, Names DEF EchoSees, Idle, SendInv, PlaceInv, consVars, txVars, intrVars, procVars
  <2>2. Cardinality(saw') \in 0..2
    BY <2>1, SawFinite
  <2> QED
    BY <2>1, <2>2 DEF FifoBound
<1>18. CASE EchoSends
  <2>1. /\ fifo' = fifo + 1 /\ fifo \in Nat
        /\ saw' = saw \ {Intr} /\ Intr \in saw /\ saw \subseteq {txlock, Intr}
    BY <1>18, Names DEF EchoSends, SendInv, PlaceInv, consVars, txVars, intrVars, procVars
  <2>2. IsFiniteSet(saw) /\ Cardinality(saw) \in 0..2
    BY <2>1, SawFinite
  <2>3. Cardinality(saw') = Cardinality(saw) - 1
    BY <2>1, <2>2, FS_RemoveElement
  <2> QED
    BY <2>1, <2>2, <2>3 DEF FifoBound
<1>19. CASE ConsoleIntrDone
  BY <1>19 DEF ConsoleIntrDone
<1>20. CASE IntrStart
  BY <1>20 DEF IntrStart
<1>21. CASE IntrLeave
  BY <1>21 DEF IntrLeave, StartDone
<1>22. CASE Key
  BY <1>22 DEF Key
<1>23. CASE Transmit
  <2>1. Cardinality(saw) \in 0..2
    BY SawFinite DEF SendInv
  <2> QED
    BY <1>23, <2>1 DEF Transmit, PlaceInv
<1>24. Intr \in Procs \cup {Intr} /\ \A p \in Procs : p \in Procs \cup {Intr} /\ p # Intr
  BY Names
<1> HIDE DEF FifoBound,
        consVars, txVars, intrVars, procVars
<1> QED
  BY <1>1, <1>2, <1>3, <1>4, <1>5, <1>6, <1>7, <1>8, <1>9, <1>10, <1>11,
     <1>12, <1>13, <1>14, <1>15, <1>16, <1>17, <1>18, <1>19, <1>20, <1>21,
     <1>22, <1>23, <1>24, Zenon
     DEF Next, Goes, Interrupt

LEMMA OutputGoesOnNext ==
  ASSUME PlaceInv, OutputGoesOn, Next
  PROVE  OutputGoesOn'
<1> USE Names DEF PlaceInv, OutputGoesOn,
        consVars, txVars, intrVars, procVars
<1>1. ASSUME NEW p \in Procs, Call(p) PROVE OutputGoesOn'
  BY <1>1 DEF Call
<1>2. ASSUME NEW p \in Procs, ReadEmpty(p) \/ ReadSleeps(p) PROVE OutputGoesOn'
  BY <1>2 DEF ReadEmpty, ReadSleeps, Reading, Returned
<1>3. ASSUME NEW p \in Procs, ReadEof(p) PROVE OutputGoesOn'
  BY <1>3 DEF ReadEof, Reading, Returned
<1>4. ASSUME NEW p \in Procs, ReadChar(p) PROVE OutputGoesOn'
  BY <1>4 DEF ReadChar, Reading, Returned
<1>5. ASSUME NEW p \in Procs, WriteFault(p) PROVE OutputGoesOn'
  BY <1>5 DEF WriteFault, Returned
<1>6. ASSUME NEW p \in Procs, PutSleeps(p) PROVE OutputGoesOn'
  BY <1>6 DEF PutSleeps
<1>7. ASSUME NEW p \in Procs, Put(p) PROVE OutputGoesOn'
  BY <1>7 DEF Put
<1>8. ASSUME NEW p \in Procs, PutReturns(p) PROVE OutputGoesOn'
  BY <1>8 DEF PutReturns, Returned, StartDone, Idle
<1>9. ASSUME NEW p \in Procs, Kill(p) PROVE OutputGoesOn'
  BY <1>9 DEF Kill
<1>10. ASSUME NEW x \in Procs \cup {Intr}, StartSees(x), x = Intr => intr = "start"
      PROVE  OutputGoesOn'
  BY <1>10 DEF StartSees, Idle
<1>11. ASSUME NEW x \in Procs \cup {Intr}, StartSends(x), x = Intr => intr = "start"
      PROVE  OutputGoesOn'
  BY <1>11 DEF StartSends
<1>12. CASE IntrEnter
  BY <1>12 DEF IntrEnter
<1>13. CASE Backspace
  BY <1>13 DEF Backspace, Getc, Echoes
<1>14. CASE KillLine
  BY <1>14 DEF KillLine, Getc, Echoes
<1>15. CASE PrintList
  BY <1>15 DEF PrintList, Getc, Echoes
<1>16. CASE Store
  BY <1>16 DEF Store, Getc, Echoes
<1>17. CASE EchoSees
  BY <1>17 DEF EchoSees
<1>18. CASE EchoSends
  BY <1>18 DEF EchoSends
<1>19. CASE ConsoleIntrDone
  BY <1>19 DEF ConsoleIntrDone
<1>20. CASE IntrStart
  BY <1>20 DEF IntrStart
<1>21. CASE IntrLeave
  BY <1>21 DEF IntrLeave, StartDone, Idle
<1>22. CASE Key
  BY <1>22 DEF Key
<1>23. CASE Transmit
  <2>1. fifo > 0 /\ fifo' = fifo - 1 /\ UNCHANGED <<txr, txw, txlock, intr>>
    BY <1>23 DEF Transmit
  <2>2. fifo' = 0 => irq'
    BY <1>23, Zenon DEF Transmit
  <2>3. fifo' = 0 \/ fifo' > 0
    BY <2>1
  <2> QED
    BY <2>1, <2>2, <2>3, Zenon
<1>24. Intr \in Procs \cup {Intr} /\ \A p \in Procs : p \in Procs \cup {Intr} /\ p # Intr
  BY Names
<1> HIDE DEF PlaceInv, OutputGoesOn,
        consVars, txVars, intrVars, procVars
<1> QED
  BY <1>1, <1>2, <1>3, <1>4, <1>5, <1>6, <1>7, <1>8, <1>9, <1>10, <1>11,
     <1>12, <1>13, <1>14, <1>15, <1>16, <1>17, <1>18, <1>19, <1>20, <1>21,
     <1>22, <1>23, <1>24, Zenon
     DEF Next, Goes, Interrupt

LEMMA SleepersNext ==
  ASSUME PlaceInv, SleepersHaveReason, Next
  PROVE  SleepersHaveReason'
<1> USE Names DEF PlaceInv, PCs, SleepersHaveReason, TxFull, TxPlus,
        consVars, txVars, intrVars, procVars
<1>1. ASSUME NEW p \in Procs, Call(p) PROVE SleepersHaveReason'
  BY <1>1 DEF Call
<1>2. ASSUME NEW p \in Procs, ReadEmpty(p) \/ ReadSleeps(p) PROVE SleepersHaveReason'
  BY <1>2 DEF ReadEmpty, ReadSleeps, Reading, Returned
<1>3. ASSUME NEW p \in Procs, ReadEof(p) PROVE SleepersHaveReason'
  BY <1>3 DEF ReadEof, Reading, Returned
<1>4. ASSUME NEW p \in Procs, ReadChar(p) PROVE SleepersHaveReason'
  BY <1>4 DEF ReadChar, Reading, Returned
<1>5. ASSUME NEW p \in Procs, WriteFault(p) PROVE SleepersHaveReason'
  BY <1>5 DEF WriteFault, Returned
<1>6. ASSUME NEW p \in Procs, PutSleeps(p) PROVE SleepersHaveReason'
  BY <1>6 DEF PutSleeps
<1>7. ASSUME NEW p \in Procs, Put(p) PROVE SleepersHaveReason'
  BY <1>7 DEF Put
<1>8. ASSUME NEW p \in Procs, PutReturns(p) PROVE SleepersHaveReason'
  BY <1>8 DEF PutReturns, Returned, StartDone
<1>9. ASSUME NEW p \in Procs, Kill(p) PROVE SleepersHaveReason'
  BY <1>9 DEF Kill
<1>10. ASSUME NEW x \in Procs \cup {Intr}, StartSees(x), x = Intr => intr = "start"
      PROVE  SleepersHaveReason'
  BY <1>10 DEF StartSees
<1>11. ASSUME NEW x \in Procs \cup {Intr}, StartSends(x), x = Intr => intr = "start"
      PROVE  SleepersHaveReason'
  BY <1>11 DEF StartSends
<1>12. CASE IntrEnter
  BY <1>12 DEF IntrEnter
<1>13. CASE Backspace
  BY <1>13 DEF Backspace, Getc, Echoes
<1>14. CASE KillLine
  BY <1>14 DEF KillLine, Getc, Echoes
<1>15. CASE PrintList
  BY <1>15 DEF PrintList, Getc, Echoes
<1>16. CASE Store
  BY <1>16 DEF Store, Getc, Echoes
<1>17. CASE EchoSees
  BY <1>17 DEF EchoSees
<1>18. CASE EchoSends
  BY <1>18 DEF EchoSends
<1>19. CASE ConsoleIntrDone
  BY <1>19 DEF ConsoleIntrDone
<1>20. CASE IntrStart
  BY <1>20 DEF IntrStart
<1>21. CASE IntrLeave
  BY <1>21 DEF IntrLeave, StartDone
<1>22. CASE Key
  BY <1>22 DEF Key
<1>23. CASE Transmit
  BY <1>23 DEF Transmit
<1>24. Intr \in Procs \cup {Intr} /\ \A p \in Procs : p \in Procs \cup {Intr} /\ p # Intr
  BY Names
<1> HIDE DEF PlaceInv, PCs, SleepersHaveReason, TxFull, TxPlus,
        consVars, txVars, intrVars, procVars
<1> QED
  BY <1>1, <1>2, <1>3, <1>4, <1>5, <1>6, <1>7, <1>8, <1>9, <1>10, <1>11,
     <1>12, <1>13, <1>14, <1>15, <1>16, <1>17, <1>18, <1>19, <1>20, <1>21,
     <1>22, <1>23, <1>24, Zenon
     DEF Next, Goes, Interrupt

-----------------------------------------------------------------------------
(* What a step does to the two rings                                       *)

TakesIn == r # w /\ r' = Plus(r, 1) /\ buf' = Forget(r, 1) /\ UNCHANGED <<w, e>>

ErasesIn == \E k \in 0..Minus(e, w) :
    /\ k <= 1 \/ LineStart(k)
    /\ e' = Minus(e, k) /\ buf' = Forget(e', k) /\ UNCHANGED <<r, w>>

StoresIn == \E v \in Chars :
    /\ NTyped < INPUT_BUF_SIZE
    /\ buf' = [buf EXCEPT ![e % INPUT_BUF_SIZE] = v] /\ e' = Plus(e, 1) /\ r' = r
    /\ w' = IF v \in LineEnds \/ Minus(e', r) = INPUT_BUF_SIZE THEN e' ELSE w

PutsOut == \E v \in OutChars :
    /\ ~TxFull
    /\ txbuf' = [txbuf EXCEPT ![txw % UART_TX_BUF_SIZE] = v]
    /\ txw' = TxPlus(txw, 1) /\ txr' = txr

TakesOut ==
    /\ txr # txw /\ txr' = TxPlus(txr, 1) /\ txw' = txw
    /\ txbuf' = [txbuf EXCEPT ![txr % UART_TX_BUF_SIZE] = None]

RingMoves ==
    \/ UNCHANGED consVars /\ UNCHANGED txVars
    \/ (TakesIn \/ ErasesIn \/ StoresIn) /\ UNCHANGED txVars
    \/ (PutsOut \/ TakesOut) /\ UNCHANGED consVars

LEMMA StepMovesRings ==
  ASSUME InputInv, SendInv, Next
  PROVE  RingMoves
<1>1. ASSUME NEW p \in Procs, Call(p) PROVE RingMoves
  BY <1>1, Zenon DEF Call, RingMoves, consVars, txVars
<1>2. ASSUME NEW p \in Procs, ReadEmpty(p) \/ ReadSleeps(p) PROVE RingMoves
  BY <1>2, Zenon DEF ReadEmpty, ReadSleeps, Reading, Returned, RingMoves, consVars, txVars
<1>3. ASSUME NEW p \in Procs, ReadEof(p) PROVE RingMoves
  <2>1. r # w /\ UNCHANGED <<w, e, txVars>>
    BY <1>3, Zenon DEF ReadEof
  <2>2. UNCHANGED <<r, buf>> \/ (r' = Plus(r, 1) /\ buf' = Forget(r, 1))
    BY <1>3, Zenon DEF ReadEof
  <2> QED
    BY <2>1, <2>2, Zenon DEF RingMoves, TakesIn, consVars
<1>4. ASSUME NEW p \in Procs, ReadChar(p) PROVE RingMoves
  <2>1. r # w /\ UNCHANGED <<w, e, txVars>> /\ r' = Plus(r, 1) /\ buf' = Forget(r, 1)
    BY <1>4, Zenon DEF ReadChar
  <2> QED
    BY <2>1, Zenon DEF RingMoves, TakesIn
<1>5. ASSUME NEW p \in Procs, WriteFault(p) PROVE RingMoves
  BY <1>5, Zenon DEF WriteFault, Returned, RingMoves, consVars, txVars
<1>6. ASSUME NEW p \in Procs, PutSleeps(p) PROVE RingMoves
  BY <1>6, Zenon DEF PutSleeps, RingMoves, consVars, txVars
<1>7. ASSUME NEW p \in Procs, Put(p) PROVE RingMoves
  <2>1. ~TxFull /\ UNCHANGED consVars /\ txr' = txr /\ txw' = TxPlus(txw, 1)
    BY <1>7, Zenon DEF Put
  <2>2. PICK o \in OutChars : txbuf' = [txbuf EXCEPT ![txw % UART_TX_BUF_SIZE] = o]
    BY <1>7, Zenon DEF Put
  <2> QED
    BY <2>1, <2>2, Zenon DEF RingMoves, PutsOut
<1>8. ASSUME NEW p \in Procs, PutReturns(p) PROVE RingMoves
  BY <1>8, Zenon DEF PutReturns, Returned, StartDone, RingMoves, consVars, txVars
<1>9. ASSUME NEW p \in Procs, Kill(p) PROVE RingMoves
  BY <1>9, Zenon DEF Kill, RingMoves, consVars, txVars
<1>10. ASSUME NEW x \in Procs \cup {Intr}, StartSees(x) PROVE RingMoves
  BY <1>10, Zenon DEF StartSees, RingMoves, consVars, txVars
<1>11. ASSUME NEW x \in Procs \cup {Intr}, StartSends(x) PROVE RingMoves
  <2>1. txlock \in saw
    BY <1>11, Zenon DEF StartSends
  <2>2. txr # txw
    BY <2>1, Zenon DEF SendInv
  <2>3. /\ UNCHANGED consVars /\ txr' = TxPlus(txr, 1) /\ txw' = txw
        /\ txbuf' = [txbuf EXCEPT ![txr % UART_TX_BUF_SIZE] = None]
    BY <1>11, Zenon DEF StartSends
  <2> QED
    BY <2>2, <2>3, Zenon DEF RingMoves, TakesOut
<1>12. CASE IntrEnter
  BY <1>12, Zenon DEF IntrEnter, RingMoves, consVars, txVars
<1>13. CASE Backspace
  <2> DEFINE n == IF e # w THEN 1 ELSE 0
  <2>1. /\ e' = Minus(e, n) /\ buf' = Forget(e', n)
        /\ UNCHANGED <<r, w>> /\ UNCHANGED txVars
    BY <1>13, Zenon DEF Backspace, Echoes
  <2>2. n \in 0..Minus(e, w) /\ n <= 1
    <3>1. /\ w \in 0..(Wrap - 1) /\ e \in 0..(Wrap - 1) /\ Wrap \in Nat
      BY InputIs
    <3>2. Minus(e, w) = IF e >= w THEN e - w ELSE e + Wrap - w
      BY <3>1, MinusIs, Zenon
    <3> QED
      BY <3>1, <3>2
  <2> HIDE DEF n
  <2> QED
    BY <2>1, <2>2, Zenon DEF RingMoves, ErasesIn
<1>14. CASE KillLine
  <2>1. PICK k \in 0..Minus(e, w) :
             /\ LineStart(k) /\ e' = Minus(e, k) /\ buf' = Forget(e', k) /\ Echoes(k) /\ UNCHANGED w
    BY <1>14, Zenon DEF KillLine
  <2>2. UNCHANGED <<r, w>> /\ UNCHANGED txVars
    BY <2>1, Zenon DEF Echoes
  <2> QED
    BY <2>1, <2>2, Zenon DEF RingMoves, ErasesIn
<1>15. CASE PrintList
  BY <1>15, Zenon DEF PrintList, Echoes, RingMoves, consVars
<1>16. CASE Store
  <2>1. UNCHANGED r /\ UNCHANGED txVars
    BY <1>16, Zenon DEF Store, Echoes
  <2>2. PICK v \in Chars :
          IF NTyped < INPUT_BUF_SIZE
          THEN /\ buf' = [buf EXCEPT ![e % INPUT_BUF_SIZE] = v]
               /\ e' = Plus(e, 1)
               /\ IF v \in LineEnds \/ Minus(e', r) = INPUT_BUF_SIZE THEN w' = e' ELSE UNCHANGED w
          ELSE UNCHANGED <<buf, w, e>>
    BY <1>16, Zenon DEF Store, NTyped
  <2>3. CASE NTyped < INPUT_BUF_SIZE
    <3>1. w' = IF v \in LineEnds \/ Minus(e', r) = INPUT_BUF_SIZE THEN e' ELSE w
      BY <2>2, <2>3, Zenon
    <3>2. StoresIn
      BY <2>1, <2>2, <2>3, <3>1, Zenon DEF StoresIn
    <3> QED
      BY <2>1, <3>2, Zenon DEF RingMoves
  <2>4. CASE ~(NTyped < INPUT_BUF_SIZE)
    BY <2>1, <2>2, <2>4, Zenon DEF RingMoves, consVars
  <2> QED
    BY <2>3, <2>4, Zenon
<1>17. CASE EchoSees
  BY <1>17, Zenon DEF EchoSees, RingMoves, consVars, txVars
<1>18. CASE EchoSends
  BY <1>18, Zenon DEF EchoSends, RingMoves, consVars, txVars
<1>19. CASE ConsoleIntrDone
  BY <1>19, Zenon DEF ConsoleIntrDone, RingMoves, consVars, txVars
<1>20. CASE IntrStart
  BY <1>20, Zenon DEF IntrStart, RingMoves, consVars, txVars
<1>21. CASE IntrLeave
  BY <1>21, Zenon DEF IntrLeave, StartDone, RingMoves, consVars, txVars
<1>22. CASE Key
  BY <1>22, Zenon DEF Key, RingMoves, consVars, txVars
<1>23. CASE Transmit
  BY <1>23, Zenon DEF Transmit, RingMoves, consVars, txVars
<1>24. Intr \in Procs \cup {Intr} /\ \A p \in Procs : p \in Procs \cup {Intr}
  OBVIOUS
<1> QED
  BY <1>1, <1>2, <1>3, <1>4, <1>5, <1>6, <1>7, <1>8, <1>9, <1>10, <1>11,
     <1>12, <1>13, <1>14, <1>15, <1>16, <1>17, <1>18, <1>19, <1>20, <1>21,
     <1>22, <1>23, <1>24, Zenon
     DEF Next, Goes, Interrupt

LEMMA InputNext ==
  ASSUME InputInv, RingMoves
  PROVE  InputInv'
<1>1. CASE TakesIn
  BY <1>1, InputTake, Zenon DEF TakesIn
<1>2. CASE ErasesIn
  BY <1>2, InputErase, Zenon DEF ErasesIn
<1>3. CASE StoresIn
  BY <1>3, InputStore, Zenon DEF StoresIn
<1>4. CASE UNCHANGED consVars
  BY <1>4 DEF consVars, InputInv, NReady, NTyped, InChar, FullIsReady, InUse, Ring, Minus
<1> QED
  BY <1>1, <1>2, <1>3, <1>4, Zenon DEF RingMoves

LEMMA OutputNext ==
  ASSUME OutputInv, RingMoves
  PROVE  OutputInv'
<1>1. CASE PutsOut
  BY <1>1, OutputPut, Zenon DEF PutsOut
<1>2. CASE TakesOut
  BY <1>2, OutputTake, Zenon DEF TakesOut
<1>3. CASE UNCHANGED txVars
  BY <1>3 DEF txVars, OutputInv, NOut, OutChar, TxMinus, InUse, Ring
<1> QED
  BY <1>1, <1>2, <1>3, Zenon DEF RingMoves

-----------------------------------------------------------------------------
(* Neither direction gets stuck                                            *)

(* What makes ConsoleInv inductive: where the calls and the interrupt are  *)
(* when they hold a lock or sleep, and what a line that is not ready may   *)
(* hold.                                                                   *)
IInv ==
    /\ InputInv /\ OutputInv
    /\ PlaceInv /\ SendInv
    /\ FifoBound /\ OutputGoesOn /\ SleepersHaveReason

LEMMA InitIInv == Init => IInv
<1> SUFFICES ASSUME Init PROVE IInv
  OBVIOUS
<1>1. /\ INPUT_BUF_SIZE \in Nat \ {0} /\ Wrap \in Nat \ {0}
      /\ UART_TX_BUF_SIZE \in Nat \ {0} /\ TxWrap \in Nat \ {0}
      /\ INPUT_BUF_SIZE < Wrap
  BY SizesAre, Zenon
<1>2. 0 \in 0..(Wrap - 1) /\ 0 \in 0..(TxWrap - 1)
  BY <1>1
<1>3. NReady = 0 /\ NTyped = 0 /\ NOut = 0
  <2>1. Minus(0, 0) = 0 /\ TxMinus(0, 0) = 0
    <3>1. /\ Minus(0, 0) = IF 0 >= 0 THEN 0 - 0 ELSE 0 + Wrap - 0
          /\ TxMinus(0, 0) = IF 0 >= 0 THEN 0 - 0 ELSE 0 + TxWrap - 0
      BY <1>2, MinusIs, TxMinusIs, Zenon
    <3> QED
      BY <3>1
  <2> QED
    BY <2>1 DEF Init, NReady, NTyped, NOut
<1>4. InputInv
  <2>1. Ring(buf, INPUT_BUF_SIZE, Chars) /\ InUse(buf, INPUT_BUF_SIZE, 0, 0)
    BY DEF Init, Ring, InUse
  <2>2. FullIsReady
    BY DEF Init, FullIsReady
  <2> QED
    BY <1>1, <1>2, <1>3, <2>1, <2>2 DEF Init, InputInv
<1>5. OutputInv
  <2>1. Ring(txbuf, UART_TX_BUF_SIZE, OutChars) /\ InUse(txbuf, UART_TX_BUF_SIZE, 0, 0)
    BY DEF Init, Ring, InUse
  <2> QED
    BY <1>1, <1>2, <1>3, <2>1 DEF Init, OutputInv
<1>6. PlaceInv /\ SendInv
  BY Names DEF Init, PlaceInv, SendInv, PCs, Intr, Nobody
<1>7. FifoBound
  <2>1. Cardinality(saw) = 0
    BY FS_EmptySet DEF Init
  <2> QED
    BY <2>1 DEF Init, FifoBound
<1>8. OutputGoesOn /\ SleepersHaveReason
  BY DEF Init, OutputGoesOn, SleepersHaveReason
<1> QED
  BY <1>4, <1>5, <1>6, <1>7, <1>8, Zenon DEF IInv

LEMMA StepIInv == IInv /\ [Next]_vars => IInv'
<1> SUFFICES ASSUME IInv, [Next]_vars PROVE IInv'
  OBVIOUS
<1>1. CASE Next
  <2>1. RingMoves
    BY <1>1, StepMovesRings, Zenon DEF IInv
  <2>2. InputInv' /\ OutputInv'
    BY <2>1, InputNext, OutputNext, Zenon DEF IInv
  <2>3. PlaceInv' /\ SendInv'
    BY <1>1, PlaceNext, SendNext, Zenon DEF IInv
  <2>4. FifoBound' /\ OutputGoesOn' /\ SleepersHaveReason'
    BY <1>1, FifoNext, OutputGoesOnNext, SleepersNext, Zenon DEF IInv
  <2> QED
    BY <2>2, <2>3, <2>4, Zenon DEF IInv
<1>2. CASE UNCHANGED vars
  <2>1. InputInv' /\ OutputInv'
    BY <1>2, InputNext, OutputNext, Zenon DEF IInv, RingMoves, vars
  <2>2. PlaceInv' /\ SendInv'
    BY <1>2 DEF IInv, vars, txVars, intrVars, procVars, PlaceInv, SendInv
  <2>3. FifoBound' /\ OutputGoesOn' /\ SleepersHaveReason'
    BY <1>2 DEF IInv, vars, consVars, txVars, intrVars, procVars,
                FifoBound, OutputGoesOn, SleepersHaveReason, TxFull, TxPlus
  <2> QED
    BY <2>1, <2>2, <2>3, Zenon DEF IInv
<1> QED
  BY <1>1, <1>2

(* The cells in use, as TypeOK names them.                                 *)
LEMMA UsedCells ==
  ASSUME InputInv, OutputInv
  PROVE  /\ {c \in DOMAIN buf : buf[c] # None}
              = {Plus(r, i) % INPUT_BUF_SIZE : i \in 0..Minus(e, r) - 1}
         /\ {c \in DOMAIN txbuf : txbuf[c] # None}
              = {TxPlus(txr, i) % UART_TX_BUF_SIZE :
                   i \in 0..((txw + TxWrap - txr) % TxWrap) - 1}
<1>1. r \in 0..(Wrap - 1) /\ txr \in 0..(TxWrap - 1)
  BY Zenon DEF InputInv, OutputInv
<1>2. r \in Nat /\ txr \in Nat /\ INPUT_BUF_SIZE \in Nat \ {0} /\ UART_TX_BUF_SIZE \in Nat \ {0}
      /\ Wrap \in Nat \ {0} /\ TxWrap \in Nat \ {0}
  BY <1>1, SizesAre
<1>3. \A i \in Nat : /\ Plus(r, i) % INPUT_BUF_SIZE = (r + i) % INPUT_BUF_SIZE
                     /\ TxPlus(txr, i) % UART_TX_BUF_SIZE = (txr + i) % UART_TX_BUF_SIZE
  <2> TAKE i \in Nat
  <2> DEFINE a == r + i
             b == txr + i
             x == a % Wrap
             y == b % TxWrap
  <2>1. a \in Nat /\ b \in Nat /\ 0 \in Nat
    BY <1>2
  <2>2. x \in 0..(Wrap - 1) /\ y \in 0..(TxWrap - 1)
    BY <2>1, <1>2, DivMod, Zenon
  <2>3. (x + 0) % INPUT_BUF_SIZE = (a + 0) % INPUT_BUF_SIZE
    BY <2>1, InWraps, Zenon
  <2>4. (y + 0) % UART_TX_BUF_SIZE = (b + 0) % UART_TX_BUF_SIZE
    BY <2>1, OutWraps, Zenon
  <2>5. Plus(r, i) = x /\ TxPlus(txr, i) = y
    BY Zenon DEF Plus, TxPlus
  <2> HIDE DEF a, b, x, y
  <2>6. x + 0 = x /\ y + 0 = y /\ a + 0 = a /\ b + 0 = b
    BY <2>1, <2>2
  <2>7. x % INPUT_BUF_SIZE = a % INPUT_BUF_SIZE /\ y % UART_TX_BUF_SIZE = b % UART_TX_BUF_SIZE
    BY <2>3, <2>4, <2>6, Zenon
  <2> QED
    BY <2>5, <2>7, Zenon DEF a, b
<1>4. \A d : \A i \in 0..(d - 1) : i \in Nat
  OBVIOUS
<1> DEFINE f(i) == Plus(r, i) % INPUT_BUF_SIZE
           g(i) == (r + i) % INPUT_BUF_SIZE
           h(i) == TxPlus(txr, i) % UART_TX_BUF_SIZE
           k(i) == (txr + i) % UART_TX_BUF_SIZE
<1>5. \A i \in Nat : f(i) = g(i) /\ h(i) = k(i)
  BY <1>3, Zenon
<1>6. /\ {c \in DOMAIN buf : buf[c] # None} = {g(i) : i \in 0..(NTyped - 1)}
      /\ {c \in DOMAIN txbuf : txbuf[c] # None} = {k(i) : i \in 0..(NOut - 1)}
  BY Zenon DEF InputInv, OutputInv, InUse
<1> HIDE DEF f, g, h, k
<1>7. /\ {g(i) : i \in 0..(NTyped - 1)} = {f(i) : i \in 0..(NTyped - 1)}
      /\ {k(i) : i \in 0..(NOut - 1)} = {h(i) : i \in 0..(NOut - 1)}
  BY <1>4, <1>5
<1>8. /\ {c \in DOMAIN buf : buf[c] # None} = {f(i) : i \in 0..(NTyped - 1)}
      /\ {c \in DOMAIN txbuf : txbuf[c] # None} = {h(i) : i \in 0..(NOut - 1)}
  BY <1>6, <1>7, Zenon
<1> QED
  BY <1>8, Zenon DEF f, h, NTyped, NOut, TxMinus

LEMMA ConsoleInvHolds == IInv => ConsoleInv
<1> SUFFICES ASSUME IInv PROVE ConsoleInv
  OBVIOUS
<1>1. InputInv /\ OutputInv /\ PlaceInv
  BY Zenon DEF IInv
<1>2. TypeOK
  <2>1. /\ buf \in [0..INPUT_BUF_SIZE - 1 -> Chars \cup {None}]
        /\ txbuf \in [0..UART_TX_BUF_SIZE - 1 -> OutChars \cup {None}]
    BY <1>1, Zenon DEF InputInv, OutputInv, Ring
  <2>2. {r, w, e} \subseteq 0..Wrap - 1 /\ {txr, txw} \subseteq 0..TxWrap - 1
    BY <1>1, Zenon DEF InputInv, OutputInv
  <2>3. /\ clock \in Procs \cup {Intr, Nobody} /\ txlock \in Procs \cup {Intr, Nobody}
        /\ {fifo, rx} \subseteq Nat /\ irq \in BOOLEAN
        /\ pc \in [Procs -> PCs] /\ asleep \cup killed \subseteq Procs
    BY <1>1, Zenon DEF PlaceInv
  <2> QED
    BY <1>1, <2>1, <2>2, <2>3, UsedCells, Zenon DEF TypeOK
<1> QED
  BY <1>1, <1>2, Zenon DEF IInv, InputInv, ConsoleInv

LEMMA IInvHolds == Spec => []IInv
  BY InitIInv, StepIInv, PTL DEF Spec

(* The rings hold what their indices say, a full ring is ready, nobody     *)
(* sleeps without a reason, what is in the ring will be sent, and the      *)
(* hardware is never given more than a character of the ring and an echo.  *)
THEOREM ConsoleSafe == Spec => []ConsoleInv
  BY IInvHolds, ConsoleInvHolds, PTL

-----------------------------------------------------------------------------
(* Characters keep their order                                             *)

Joined(f, g, m, k) == [i \in 1..(m + k) |-> IF i <= m THEN f[i] ELSE g[i - m]]

LEMMA ConcatIs ==
  ASSUME NEW m \in Nat, NEW k \in Nat, NEW S, NEW f \in [1..m -> S], NEW g \in [1..k -> S]
  PROVE  f \o g = Joined(f, g, m, k)
<1> DEFINE h == [i \in 1..(m + k) |-> IF i <= m THEN f[i] ELSE g[i - m]]
<1>1. f \in Seq(S) /\ Len(f) = m /\ g \in Seq(S) /\ Len(g) = k
  OBVIOUS
<1>2. /\ f \o g \in Seq(S) /\ Len(f \o g) = m + k
      /\ \A i \in 1..(m + k) : (f \o g)[i] = h[i]
  BY <1>1
<1>3. h \in [1..(m + k) -> S]
  OBVIOUS
<1>4. h \in Seq(S) /\ Len(h) = m + k
  BY <1>3
<1> HIDE DEF h
<1>5. f \o g = h
  BY <1>2, <1>4, SeqEqual
<1> QED
  BY <1>5 DEF h, Joined

LEMMA ConcatLen ==
  ASSUME NEW m \in Nat, NEW k \in Nat, NEW S, NEW f \in [1..m -> S], NEW g \in [1..k -> S]
  PROVE  Len(f \o g) = m + k
<1>1. f \in Seq(S) /\ Len(f) = m /\ g \in Seq(S) /\ Len(g) = k
  OBVIOUS
<1> QED
  BY <1>1

LEMMA FrontIs ==
  ASSUME NEW m \in Nat \ {0}, NEW S, NEW f \in [1..m -> S]
  PROVE  f # <<>> /\ Front(f) = [i \in 1..(m - 1) |-> f[i]]
<1> DEFINE g == [i \in 1..(m - 1) |-> f[i]]
<1>1. f \in Seq(S) /\ Len(f) = m /\ f # <<>>
  OBVIOUS
<1>2. /\ Front(f) \in Seq(S) /\ Len(Front(f)) = m - 1
      /\ \A i \in 1..(m - 1) : Front(f)[i] = g[i]
  BY <1>1 DEF Front
<1>3. g \in [1..(m - 1) -> S]
  OBVIOUS
<1>4. g \in Seq(S) /\ Len(g) = m - 1
  BY <1>3
<1> HIDE DEF g
<1>5. Front(f) = g
  BY <1>2, <1>4, SeqEqual
<1> QED
  BY <1>1, <1>5 DEF g

(* Every place in use holds a character.                                   *)
LEMMA PlacesHold ==
  ASSUME InputInv, OutputInv
  PROVE  /\ \A i \in 0..(NTyped - 1) : InChar(i) \in Chars
         /\ \A i \in 0..(NOut - 1) : OutChar(i) \in OutChars
<1>1. /\ \A i \in 0..(NTyped - 1) : (r + i) % INPUT_BUF_SIZE \in {c \in DOMAIN buf : buf[c] # None}
      /\ \A i \in 0..(NOut - 1) :
           (txr + i) % UART_TX_BUF_SIZE \in {c \in DOMAIN txbuf : txbuf[c] # None}
  BY Zenon DEF InputInv, OutputInv, InUse
<1>2. /\ \A c \in DOMAIN buf : buf[c] # None => buf[c] \in Chars
      /\ \A c \in DOMAIN txbuf : txbuf[c] # None => txbuf[c] \in OutChars
  BY Zenon DEF InputInv, OutputInv, Ring
<1> QED
  BY <1>1, <1>2, Zenon DEF InChar, OutChar

(* The sequences of LineDevice, place by place.                            *)
ReadyIs == Ready = [i \in 1..NReady |-> InChar(i - 1)]
EditIs == /\ Edit = [i \in 1..(NTyped - NReady) |-> Edit[i]]
          /\ \A i \in 1..(NTyped - NReady), j \in Nat :
               j = NReady + (i - 1) => Edit[i] = InChar(j)
OutIs == Out = [i \in 1..NOut |-> OutChar(i - 1)]

LEMMA SequencesAre == InputInv /\ OutputInv => ReadyIs /\ EditIs /\ OutIs
<1> SUFFICES ASSUME InputInv, OutputInv PROVE ReadyIs /\ EditIs /\ OutIs
  OBVIOUS
<1>1. /\ INPUT_BUF_SIZE \in Nat \ {0} /\ Wrap \in Nat \ {0} /\ INPUT_BUF_SIZE < Wrap
      /\ r \in 0..(Wrap - 1) /\ w \in 0..(Wrap - 1) /\ e \in 0..(Wrap - 1)
      /\ NReady = IF w >= r THEN w - r ELSE w + Wrap - r
      /\ NTyped \in 0..INPUT_BUF_SIZE /\ NReady \in 0..NTyped
      /\ Minus(e, w) = NTyped - NReady
  BY InputIs, Zenon
<1>2. txr \in Nat /\ TxWrap \in Nat \ {0} /\ 0 \in Nat /\ NOut \in Nat
  BY OutputIs
<1> HIDE DEF NReady, NTyped, NOut
<1>3. NReady \in 0..INPUT_BUF_SIZE /\ 0 \in 0..INPUT_BUF_SIZE
  BY <1>1
<1>4. Plus(r, 0) = r /\ Plus(r, NReady) = w
  <2>1. /\ Plus(r, 0) = IF r + 0 < Wrap THEN r + 0 ELSE r + 0 - Wrap
        /\ Plus(r, NReady) = IF r + NReady < Wrap THEN r + NReady ELSE r + NReady - Wrap
    BY <1>2, <1>3, InCellIs, Zenon
  <2> QED
    BY <2>1, <1>1
<1>5. \A i \in Nat : /\ Plus(r, i) % INPUT_BUF_SIZE = (r + i) % INPUT_BUF_SIZE
                     /\ Plus(w, i) % INPUT_BUF_SIZE = (r + (NReady + i)) % INPUT_BUF_SIZE
  <2> TAKE i \in Nat
  <2>1. 0 + i = i
    OBVIOUS
  <2> QED
    BY <1>3, <1>4, <2>1, InCellIs, Zenon
<1>6. \A i \in Nat : TxPlus(txr, i) % UART_TX_BUF_SIZE = (txr + i) % UART_TX_BUF_SIZE
  <2> TAKE i \in Nat
  <2> DEFINE a == txr + i
             x == a % TxWrap
  <2>1. a \in Nat
    BY <1>2
  <2>2. x \in 0..(TxWrap - 1)
    BY <2>1, <1>2, DivMod, Zenon
  <2>3. (x + 0) % UART_TX_BUF_SIZE = (a + 0) % UART_TX_BUF_SIZE
    BY <2>1, <1>2, OutWraps, Zenon
  <2>4. TxPlus(txr, i) = x
    BY Zenon DEF TxPlus
  <2> HIDE DEF a, x
  <2>5. x + 0 = x /\ a + 0 = a
    BY <2>1, <2>2
  <2>6. x % UART_TX_BUF_SIZE = a % UART_TX_BUF_SIZE
    BY <2>3, <2>5, Zenon
  <2> QED
    BY <2>4, <2>6, Zenon DEF a
<1>7. \A m : \A i \in 1..m : i - 1 \in Nat
  OBVIOUS
<1>8. ReadyIs
  BY <1>5, <1>7, Zenon DEF ReadyIs, Ready, InChar, NReady
<1>9. EditIs
  <2>1. Edit = [i \in 1..(NTyped - NReady) |-> buf[Plus(w, i - 1) % INPUT_BUF_SIZE]]
    BY <1>1, Zenon DEF Edit
  <2>2. Edit = [i \in 1..(NTyped - NReady) |-> Edit[i]]
    BY <2>1, Zenon
  <2>3. ASSUME NEW i \in 1..(NTyped - NReady), NEW j \in Nat, j = NReady + (i - 1)
        PROVE  Edit[i] = InChar(j)
    BY <2>1, <2>3, <1>5, <1>7, Zenon DEF InChar
  <2> QED
    BY <2>2, <2>3, Zenon DEF EditIs
<1>10. OutIs
  BY <1>6, <1>7, Zenon DEF OutIs, Out, OutChar, NOut, TxMinus
<1> QED
  BY <1>8, <1>9, <1>10

(* control-U stops at what is ready: no line ends before that.             *)
LEMMA KillsLine ==
  ASSUME InputInv, NEW k \in 0..Minus(e, w), LineStart(k)
  PROVE  k = Minus(e, w)
<1> SUFFICES ASSUME k # Minus(e, w) PROVE FALSE
  OBVIOUS
<1>1. buf[Minus(e, k + 1) % INPUT_BUF_SIZE] = "nl"
  BY Zenon DEF LineStart
<1>2. /\ INPUT_BUF_SIZE \in Nat \ {0} /\ Wrap \in Nat \ {0} /\ INPUT_BUF_SIZE < Wrap
      /\ r \in 0..(Wrap - 1) /\ e \in 0..(Wrap - 1)
      /\ NTyped = IF e >= r THEN e - r ELSE e + Wrap - r
      /\ NTyped \in 0..INPUT_BUF_SIZE /\ NReady \in 0..NTyped
      /\ Minus(e, w) = NTyped - NReady
  BY InputIs, Zenon
<1> HIDE DEF NReady, NTyped
<1> DEFINE i == NTyped - (k + 1)
<1>3. i \in NReady..(NTyped - 1) /\ i \in 0..INPUT_BUF_SIZE /\ k + 1 \in 0..(Wrap - 1)
  BY <1>2
<1>4. Minus(e, k + 1) = Plus(r, i)
  <2>1. Minus(e, k + 1) = IF e >= k + 1 THEN e - (k + 1) ELSE e + Wrap - (k + 1)
    BY <1>2, <1>3, MinusIs, Zenon
  <2>2. Plus(r, i) = IF r + i < Wrap THEN r + i ELSE r + i - Wrap
    <3>1. 0 \in Nat
      OBVIOUS
    <3> QED
      BY <1>3, <3>1, InCellIs, Zenon
  <2> QED
    BY <2>1, <2>2, <1>2
<1>5. Plus(r, i) % INPUT_BUF_SIZE = (r + i) % INPUT_BUF_SIZE
  <2>1. 0 \in Nat /\ i + 0 = i /\ Plus(r, i) + 0 = Plus(r, i)
    <3>1. Plus(r, i) \in Nat
      <4>1. Plus(r, i) \in 0..(Wrap - 1)
        <5>1. 0 \in Nat
          OBVIOUS
        <5> QED
          BY <1>3, <5>1, InCellIs, Zenon
      <4> QED
        BY <4>1
    <3> QED
      BY <3>1, <1>3
  <2> HIDE DEF i
  <2> QED
    BY <2>1, <1>3, InCellIs, Zenon
<1>6. InChar(i) = "nl"
  BY <1>1, <1>4, <1>5, Zenon DEF InChar
<1>7. InChar(i) \notin LineEnds
  BY <1>3, Zenon DEF InputInv
<1> QED
  BY <1>6, <1>7 DEF LineEnds

(* Step by step: a read takes the first of what is ready, an erasure the   *)
(* last of the line or all of it, a stored character goes to its end and   *)
(* may make it ready; uartputc() puts and uartstart() sends.               *)
LEMMA TakeSimulates ==
  ASSUME InputInv, OutputInv, TakesIn, UNCHANGED Out,
         ReadyIs, EditIs, ReadyIs', EditIs'
  PROVE  Abstract!Take
<1>1. /\ NReady \in Nat \ {0} /\ NReady' = NReady - 1 /\ NTyped' = NTyped - 1
      /\ \A i \in 0..(NTyped - 2) : InChar(i)' = InChar(i + 1)
  BY InputTake, Zenon DEF TakesIn
<1>2. NTyped \in 0..INPUT_BUF_SIZE /\ NReady \in 0..NTyped /\ INPUT_BUF_SIZE \in Nat
  BY InputIs, Zenon
<1>3. \A i \in 0..(NTyped - 1) : InChar(i) \in Chars
  BY PlacesHold, Zenon
<1> HIDE DEF NReady, NTyped, InChar
<1>4. Ready \in [1..NReady -> Chars]
  <2>1. \A i \in 1..NReady : i - 1 \in 0..(NTyped - 1)
    BY <1>1, <1>2
  <2> QED
    BY <2>1, <1>3, Zenon DEF ReadyIs
<1>5. Ready # <<>> /\ Tail(Ready) = [i \in 1..(NReady - 1) |-> Ready[i + 1]]
  BY <1>1, <1>4, TailIs, Zenon
<1>6. Ready' = [i \in 1..(NReady - 1) |-> Ready[i + 1]]
  <2>1. Ready' = [i \in 1..(NReady - 1) |-> InChar(i - 1)']
    BY <1>1, Zenon DEF ReadyIs
  <2>2. ASSUME NEW i \in 1..(NReady - 1) PROVE InChar(i - 1)' = Ready[i + 1]
    <3>1. i - 1 \in 0..(NTyped - 2) /\ i + 1 \in 1..NReady /\ (i + 1) - 1 = i /\ (i - 1) + 1 = i
      BY <1>1, <1>2
    <3>2. Ready[i + 1] = InChar(i)
      BY <3>1, Zenon DEF ReadyIs
    <3>3. InChar(i - 1)' = InChar(i)
      BY <3>1, <1>1, Zenon
    <3> QED
      BY <3>2, <3>3, Zenon
  <2> QED
    BY <2>1, <2>2, Zenon
<1>7. Edit' = Edit
  <2>1. NTyped' - NReady' = NTyped - NReady
    BY <1>1, <1>2
  <2>2. Edit' = [i \in 1..(NTyped - NReady) |-> Edit'[i]]
    BY <2>1, Zenon DEF EditIs
  <2>3. ASSUME NEW i \in 1..(NTyped - NReady) PROVE Edit'[i] = Edit[i]
    <3>1. PICK j \in Nat : j = (NReady - 1) + (i - 1)
      BY <1>1, <1>2
    <3>2. j = NReady' + (i - 1) /\ j \in 0..(NTyped - 2) /\ j + 1 = NReady + (i - 1) /\ j + 1 \in Nat
      BY <3>1, <1>1, <1>2
    <3>3. Edit'[i] = InChar(j)'
      BY <2>1, <3>2, Zenon DEF EditIs
    <3>4. Edit[i] = InChar(j + 1)
      BY <3>2, Zenon DEF EditIs
    <3> QED
      BY <3>2, <3>3, <3>4, <1>1, Zenon
  <2> QED
    BY <2>2, <2>3, Zenon DEF EditIs
<1> QED
  BY <1>5, <1>6, <1>7, Zenon DEF Abstract!Take

LEMMA EraseSimulates ==
  ASSUME InputInv, OutputInv, ErasesIn, UNCHANGED Out,
         ReadyIs, EditIs, ReadyIs', EditIs'
  PROVE  Abstract!Erase \/ UNCHANGED <<Edit, Ready, Out>>
<1>1. PICK k \in 0..Minus(e, w) :
        /\ k <= 1 \/ LineStart(k)
        /\ e' = Minus(e, k) /\ buf' = Forget(e', k) /\ UNCHANGED <<r, w>>
  BY Zenon DEF ErasesIn
<1>2. /\ NReady' = NReady /\ NTyped' = NTyped - k
      /\ \A i \in 0..(NTyped - k - 1) : InChar(i)' = InChar(i)
  BY <1>1, InputErase, Zenon
<1>3. k <= 1 \/ k = Minus(e, w)
  BY <1>1, KillsLine, Zenon
<1>4. /\ NTyped \in 0..INPUT_BUF_SIZE /\ NReady \in 0..NTyped /\ INPUT_BUF_SIZE \in Nat
      /\ Minus(e, w) = NTyped - NReady
  BY InputIs, Zenon
<1>5. \A i \in 0..(NTyped - 1) : InChar(i) \in Chars
  BY PlacesHold, Zenon
<1> HIDE DEF NReady, NTyped, InChar
<1> DEFINE n == NTyped - NReady
<1>6. n \in Nat /\ k \in 0..n /\ (k <= 1 \/ k = n)
  BY <1>1, <1>3, <1>4
<1>7. Edit \in [1..n -> Chars]
  <2>1. \A i \in 1..n : NReady + (i - 1) \in 0..(NTyped - 1) /\ NReady + (i - 1) \in Nat
    BY <1>4
  <2>2. \A i \in 1..n : Edit[i] \in Chars
    BY <2>1, <1>5, Zenon DEF EditIs
  <2> QED
    BY <2>2, Zenon DEF EditIs
<1>8. Ready' = Ready
  <2>1. Ready' = [i \in 1..NReady |-> InChar(i - 1)']
    BY <1>2, Zenon DEF ReadyIs
  <2>2. \A i \in 1..NReady : i - 1 \in 0..(NTyped - k - 1)
    BY <1>4, <1>6
  <2> QED
    BY <2>1, <2>2, <1>2, Zenon DEF ReadyIs
<1>9. Edit' = [i \in 1..(n - k) |-> Edit[i]]
  <2>1. NTyped' - NReady' = n - k
    BY <1>2, <1>4, <1>6
  <2>2. Edit' = [i \in 1..(n - k) |-> Edit'[i]]
    BY <2>1, Zenon DEF EditIs
  <2>3. ASSUME NEW i \in 1..(n - k) PROVE Edit'[i] = Edit[i]
    <3>1. PICK j \in Nat : j = NReady + (i - 1)
      BY <1>4
    <3>2. i \in 1..n /\ j \in 0..(NTyped - k - 1) /\ j = NReady' + (i - 1)
      BY <3>1, <1>2, <1>4, <1>6
    <3>3. Edit'[i] = InChar(j)'
      BY <2>1, <3>2, Zenon DEF EditIs
    <3>4. Edit[i] = InChar(j)
      BY <3>1, <3>2, Zenon DEF EditIs
    <3> QED
      BY <3>2, <3>3, <3>4, <1>2, Zenon
  <2> QED
    BY <2>2, <2>3, Zenon
<1> HIDE DEF n
<1>10. CASE k = 0
  <2>1. n - k = n
    BY <1>6, <1>10
  <2>2. Edit' = Edit
    BY <2>1, <1>7, <1>9
  <2> QED
    BY <2>2, <1>8, Zenon
<1>11. CASE k # 0 /\ k = n
  <2>1. n \in Nat \ {0} /\ n - k = 0
    BY <1>6, <1>11
  <2>2. Edit # <<>>
    BY <2>1, <1>7, FrontIs, Zenon
  <2>3. Edit' = <<>>
    BY <2>1, <1>9
  <2> QED
    BY <2>2, <2>3, <1>8, Zenon DEF Abstract!Erase
<1>12. CASE k # 0 /\ k # n
  <2>1. n \in Nat \ {0} /\ k = 1
    BY <1>6, <1>12
  <2>2. Edit # <<>> /\ Front(Edit) = [i \in 1..(n - 1) |-> Edit[i]]
    BY <2>1, <1>7, FrontIs, Zenon
  <2>3. Edit' = Front(Edit)
    BY <2>1, <2>2, <1>9, Zenon
  <2> QED
    BY <2>2, <2>3, <1>8, Zenon DEF Abstract!Erase, Abstract!Front, Front
<1> QED
  BY <1>10, <1>11, <1>12, Zenon

LEMMA StoreSimulates ==
  ASSUME InputInv, OutputInv, StoresIn, UNCHANGED Out,
         ReadyIs, EditIs, ReadyIs', EditIs'
  PROVE  Abstract!Type
<1>1. PICK v \in Chars :
        /\ NTyped < INPUT_BUF_SIZE
        /\ buf' = [buf EXCEPT ![e % INPUT_BUF_SIZE] = v] /\ e' = Plus(e, 1) /\ r' = r
        /\ w' = IF v \in LineEnds \/ Minus(e', r) = INPUT_BUF_SIZE THEN e' ELSE w
  BY Zenon DEF StoresIn
<1>2. /\ NTyped' = NTyped + 1
      /\ NReady' = IF v \in LineEnds \/ NTyped + 1 = INPUT_BUF_SIZE THEN NTyped + 1
                   ELSE NReady
      /\ \A i \in 0..(NTyped - 1) : InChar(i)' = InChar(i)
      /\ \A i \in Nat : i = NTyped => InChar(i)' = v
  BY <1>1, InputStore, Zenon
<1>3. NTyped \in 0..INPUT_BUF_SIZE /\ NReady \in 0..NTyped /\ INPUT_BUF_SIZE \in Nat
  BY InputIs, Zenon
<1>4. \A i \in 0..(NTyped - 1) : InChar(i) \in Chars
  BY PlacesHold, Zenon
<1> HIDE DEF NReady, NTyped, InChar
<1> DEFINE n == NTyped - NReady
<1>5. n \in Nat /\ NReady \in Nat /\ NTyped \in Nat /\ NReady + n = NTyped /\ n + NReady = NTyped
  BY <1>3
<1>6. Ready \in [1..NReady -> Chars] /\ Edit \in [1..n -> Chars]
  <2>1. \A i \in 1..NReady : i - 1 \in 0..(NTyped - 1)
    BY <1>3
  <2>2. \A i \in 1..n : NReady + (i - 1) \in 0..(NTyped - 1) /\ NReady + (i - 1) \in Nat
    BY <1>3
  <2>3. \A i \in 1..n : Edit[i] \in Chars
    BY <2>2, <1>4, Zenon DEF EditIs
  <2>4. Edit \in [1..n -> Chars]
    BY <2>3, Zenon DEF EditIs
  <2> QED
    BY <2>1, <2>4, <1>4, Zenon DEF ReadyIs
<1>7. Len(Edit \o Ready) = NTyped
  <2> HIDE DEF n
  <2>1. Len(Edit \o Ready) = n + NReady
    BY <1>5, <1>6, ConcatLen
  <2> QED
    BY <2>1, <1>5, Zenon
<1> DEFINE all == [i \in 1..NTyped |-> InChar(i - 1)]
<1>8. Ready \o Edit = all /\ all \in [1..NTyped -> Chars]
  <2>1. Ready \o Edit = [i \in 1..NTyped |-> IF i <= NReady THEN Ready[i] ELSE Edit[i - NReady]]
    <3> HIDE DEF n
    <3>1. Ready \o Edit = Joined(Ready, Edit, NReady, n)
      BY <1>5, <1>6, ConcatIs
    <3> QED
      BY <3>1, <1>5, Zenon DEF Joined
  <2>2. ASSUME NEW i \in 1..NTyped
        PROVE  (IF i <= NReady THEN Ready[i] ELSE Edit[i - NReady]) = InChar(i - 1)
    <3>1. CASE i <= NReady
      <4>1. i \in 1..NReady
        BY <3>1, <1>3
      <4> QED
        BY <3>1, <4>1, Zenon DEF ReadyIs
    <3>2. CASE ~(i <= NReady)
      <4>1. i - NReady \in 1..n /\ i - 1 = NReady + ((i - NReady) - 1) /\ i - 1 \in Nat
        BY <3>2, <1>3
      <4>2. Edit[i - NReady] = InChar(i - 1)
        BY <4>1, Zenon DEF EditIs
      <4> QED
        BY <3>2, <4>1, <4>2, Zenon
    <3> QED
      BY <3>1, <3>2
  <2>3. \A i \in 1..NTyped : i - 1 \in 0..(NTyped - 1)
    BY <1>3
  <2> QED
    BY <2>1, <2>2, <2>3, <1>4, Zenon
<1> HIDE DEF n, all
<1>9. CASE v \in LineEnds \/ NTyped + 1 = INPUT_BUF_SIZE
  <2>1. NReady' = NTyped + 1 /\ NTyped' - NReady' = 0
    BY <1>2, <1>5, <1>9
  <2>2. Edit' = <<>>
    <3>1. Edit' = [i \in 1..0 |-> Edit'[i]]
      BY <2>1, Zenon DEF EditIs
    <3> QED
      BY <3>1
  <2>3. Append(all, v) = [i \in 1..(NTyped + 1) |-> IF i = NTyped + 1 THEN v ELSE all[i]]
    BY <1>5, <1>8, AppendIs
  <2>4. Ready' = [i \in 1..(NTyped + 1) |-> InChar(i - 1)']
    BY <2>1, Zenon DEF ReadyIs
  <2>5. ASSUME NEW i \in 1..(NTyped + 1)
        PROVE  InChar(i - 1)' = IF i = NTyped + 1 THEN v ELSE all[i]
    <3>1. CASE i = NTyped + 1
      <4>1. i - 1 \in Nat /\ i - 1 = NTyped
        BY <3>1, <1>5
      <4> QED
        BY <3>1, <4>1, <1>2, Zenon
    <3>2. CASE i # NTyped + 1
      <4>1. i - 1 \in 0..(NTyped - 1) /\ i \in 1..NTyped
        BY <3>2, <1>5
      <4> QED
        BY <3>2, <4>1, <1>2, Zenon DEF all
    <3> QED
      BY <3>1, <3>2
  <2>6. Ready' = Append(Ready \o Edit, v)
    BY <2>3, <2>4, <2>5, <1>8, Zenon
  <2> QED
    BY <1>1, <1>7, <1>9, <2>2, <2>6, Zenon DEF Abstract!Type
<1>10. CASE ~(v \in LineEnds \/ NTyped + 1 = INPUT_BUF_SIZE)
  <2>1. NReady' = NReady /\ NTyped' - NReady' = n + 1
    BY <1>2, <1>5, <1>10 DEF n
  <2>2. Ready' = Ready
    <3>1. Ready' = [i \in 1..NReady |-> InChar(i - 1)']
      BY <2>1, Zenon DEF ReadyIs
    <3>2. \A i \in 1..NReady : i - 1 \in 0..(NTyped - 1)
      BY <1>3
    <3> QED
      BY <3>1, <3>2, <1>2, Zenon DEF ReadyIs
  <2>3. Append(Edit, v) = [i \in 1..(n + 1) |-> IF i = n + 1 THEN v ELSE Edit[i]]
    BY <1>5, <1>6, AppendIs
  <2>4. Edit' = [i \in 1..(n + 1) |-> Edit'[i]]
    BY <2>1, Zenon DEF EditIs
  <2>5. ASSUME NEW i \in 1..(n + 1)
        PROVE  Edit'[i] = IF i = n + 1 THEN v ELSE Edit[i]
    <3>1. PICK j \in Nat : j = NReady + (i - 1)
      BY <1>5
    <3>2. Edit'[i] = InChar(j)'
      BY <2>1, <3>1, Zenon DEF EditIs
    <3>3. CASE i = n + 1
      <4>1. j = NTyped
        BY <3>1, <3>3, <1>5
      <4> QED
        BY <3>2, <3>3, <4>1, <1>2, Zenon
    <3>4. CASE i # n + 1
      <4>1. j \in 0..(NTyped - 1) /\ i \in 1..n
        BY <3>1, <3>4, <1>5
      <4>2. Edit[i] = InChar(j)
        BY <3>1, <4>1, Zenon DEF EditIs, n
      <4> QED
        BY <3>2, <3>4, <4>1, <4>2, <1>2, Zenon
    <3> QED
      BY <3>3, <3>4
  <2>6. Edit' = Append(Edit, v)
    BY <2>3, <2>4, <2>5, Zenon
  <2> QED
    BY <1>1, <1>7, <1>10, <2>2, <2>6, Zenon DEF Abstract!Type
<1> QED
  BY <1>9, <1>10

LEMMA PutSimulates ==
  ASSUME InputInv, OutputInv, PutsOut, UNCHANGED <<Edit, Ready>>, OutIs, OutIs'
  PROVE  Abstract!Put
<1>1. PICK v \in OutChars :
        /\ ~TxFull
        /\ txbuf' = [txbuf EXCEPT ![txw % UART_TX_BUF_SIZE] = v]
        /\ txw' = TxPlus(txw, 1) /\ txr' = txr
  BY Zenon DEF PutsOut
<1>2. /\ NOut < UART_TX_BUF_SIZE /\ NOut' = NOut + 1
      /\ \A i \in 0..(NOut - 1) : OutChar(i)' = OutChar(i)
      /\ \A i \in Nat : i = NOut => OutChar(i)' = v
  BY <1>1, OutputPut, Zenon
<1>3. NOut \in Nat
  BY OutputIs
<1>4. \A i \in 0..(NOut - 1) : OutChar(i) \in OutChars
  BY PlacesHold, Zenon
<1> HIDE DEF NOut, OutChar
<1>5. Out \in [1..NOut -> OutChars]
  <2>1. \A i \in 1..NOut : i - 1 \in 0..(NOut - 1)
    BY <1>3
  <2> QED
    BY <2>1, <1>4, Zenon DEF OutIs
<1>6. Append(Out, v) = [i \in 1..(NOut + 1) |-> IF i = NOut + 1 THEN v ELSE Out[i]]
  BY <1>3, <1>5, AppendIs
<1>7. Len(Out) < UART_TX_BUF_SIZE
  <2>1. Len(Out) = NOut
    BY <1>3, <1>5
  <2> QED
    BY <2>1, <1>2, Zenon
<1>8. Out' = [i \in 1..(NOut + 1) |-> OutChar(i - 1)']
  BY <1>2, Zenon DEF OutIs
<1>9. ASSUME NEW i \in 1..(NOut + 1)
      PROVE  OutChar(i - 1)' = IF i = NOut + 1 THEN v ELSE Out[i]
  <2>1. CASE i = NOut + 1
    <3>1. i - 1 \in Nat /\ i - 1 = NOut
      BY <2>1, <1>3
    <3> QED
      BY <2>1, <3>1, <1>2, Zenon
  <2>2. CASE i # NOut + 1
    <3>1. i - 1 \in 0..(NOut - 1) /\ i \in 1..NOut
      BY <2>2, <1>3
    <3> QED
      BY <2>2, <3>1, <1>2, Zenon DEF OutIs
  <2> QED
    BY <2>1, <2>2
<1>10. Out' = Append(Out, v)
  BY <1>6, <1>8, <1>9, Zenon
<1> QED
  BY <1>7, <1>10, Zenon DEF Abstract!Put

LEMMA SendSimulates ==
  ASSUME InputInv, OutputInv, TakesOut, UNCHANGED <<Edit, Ready>>, OutIs, OutIs'
  PROVE  Abstract!Send
<1>1. /\ NOut \in Nat \ {0} /\ NOut' = NOut - 1
      /\ \A i \in 0..(NOut - 2) : OutChar(i)' = OutChar(i + 1)
  BY OutputTake, Zenon DEF TakesOut
<1>2. \A i \in 0..(NOut - 1) : OutChar(i) \in OutChars
  BY PlacesHold, Zenon
<1> HIDE DEF NOut, OutChar
<1>3. Out \in [1..NOut -> OutChars]
  <2>1. \A i \in 1..NOut : i - 1 \in 0..(NOut - 1)
    BY <1>1
  <2> QED
    BY <2>1, <1>2, Zenon DEF OutIs
<1>4. Out # <<>> /\ Tail(Out) = [i \in 1..(NOut - 1) |-> Out[i + 1]]
  BY <1>1, <1>3, TailIs, Zenon
<1>5. Out' = [i \in 1..(NOut - 1) |-> Out[i + 1]]
  <2>1. Out' = [i \in 1..(NOut - 1) |-> OutChar(i - 1)']
    BY <1>1, Zenon DEF OutIs
  <2>2. ASSUME NEW i \in 1..(NOut - 1) PROVE OutChar(i - 1)' = Out[i + 1]
    <3>1. i - 1 \in 0..(NOut - 2) /\ i + 1 \in 1..NOut /\ (i + 1) - 1 = i /\ (i - 1) + 1 = i
      BY <1>1
    <3>2. Out[i + 1] = OutChar(i)
      BY <3>1, Zenon DEF OutIs
    <3>3. OutChar(i - 1)' = OutChar(i)
      BY <3>1, <1>1, Zenon
    <3> QED
      BY <3>2, <3>3, Zenon
  <2> QED
    BY <2>1, <2>2, Zenon
<1> QED
  BY <1>4, <1>5, Zenon DEF Abstract!Send

LEMMA InitSimulates == Init => Abstract!Init
<1> SUFFICES ASSUME Init PROVE Abstract!Init
  OBVIOUS
<1>1. InputInv /\ OutputInv
  BY InitIInv, Zenon DEF IInv
<1>2. ReadyIs /\ EditIs /\ OutIs
  BY <1>1, SequencesAre, Zenon
<1>3. Minus(0, 0) = 0 /\ TxMinus(0, 0) = 0
  <2>1. 0 \in 0..(Wrap - 1) /\ 0 \in 0..(TxWrap - 1)
    BY SizesAre
  <2>2. /\ Minus(0, 0) = IF 0 >= 0 THEN 0 - 0 ELSE 0 + Wrap - 0
        /\ TxMinus(0, 0) = IF 0 >= 0 THEN 0 - 0 ELSE 0 + TxWrap - 0
    BY <2>1, MinusIs, TxMinusIs, Zenon
  <2> QED
    BY <2>2
<1>4. NReady = 0 /\ NTyped = 0 /\ NOut = 0
  BY <1>3 DEF Init, NReady, NTyped, NOut
<1> HIDE DEF NReady, NTyped, NOut, InChar, OutChar
<1>5. NTyped - NReady = 0
  BY <1>4
<1>6. Ready = <<>> /\ Out = <<>>
  BY <1>2, <1>4 DEF ReadyIs, OutIs
<1>7. Edit = <<>>
  BY <1>2, <1>5 DEF EditIs
<1> QED
  BY <1>6, <1>7 DEF Abstract!Init

LEMMA StepSimulates ==
  IInv /\ IInv' /\ [Next]_vars => [Abstract!Next]_<<Edit, Ready, Out>>
<1> SUFFICES ASSUME IInv, IInv', [Next]_vars
             PROVE  Abstract!Next \/ UNCHANGED <<Edit, Ready, Out>>
  BY Zenon
<1>1. InputInv /\ OutputInv /\ SendInv
  BY Zenon DEF IInv
<1>2. ReadyIs /\ EditIs /\ OutIs
  BY <1>1, SequencesAre, Zenon
<1>3. (ReadyIs /\ EditIs /\ OutIs)'
  <2>1. InputInv' /\ OutputInv' => (ReadyIs /\ EditIs /\ OutIs)'
    BY SequencesAre, PTL
  <2>2. InputInv' /\ OutputInv'
    BY Zenon DEF IInv
  <2> QED
    BY <2>1, <2>2, Zenon
<1>4. RingMoves
  <2>1. CASE Next
    BY <1>1, <2>1, StepMovesRings, Zenon
  <2>2. CASE UNCHANGED vars
    BY <2>2, Zenon DEF vars, RingMoves
  <2> QED
    BY <2>1, <2>2, Zenon
<1>5. UNCHANGED txVars => UNCHANGED Out
  BY Zenon DEF txVars, Out, TxPlus
<1>6. UNCHANGED consVars => UNCHANGED <<Edit, Ready>>
  BY Zenon DEF consVars, Edit, Ready, Plus, Minus
<1>7. CASE UNCHANGED consVars /\ UNCHANGED txVars
  BY <1>5, <1>6, <1>7, Zenon
<1>8. CASE TakesIn /\ UNCHANGED txVars
  BY <1>1, <1>2, <1>3, <1>5, <1>8, TakeSimulates, Zenon DEF Abstract!Next
<1>9. CASE ErasesIn /\ UNCHANGED txVars
  BY <1>1, <1>2, <1>3, <1>5, <1>9, EraseSimulates, Zenon DEF Abstract!Next
<1>10. CASE StoresIn /\ UNCHANGED txVars
  BY <1>1, <1>2, <1>3, <1>5, <1>10, StoreSimulates, Zenon DEF Abstract!Next
<1>11. CASE PutsOut /\ UNCHANGED consVars
  BY <1>1, <1>2, <1>3, <1>6, <1>11, PutSimulates, Zenon DEF Abstract!Next
<1>12. CASE TakesOut /\ UNCHANGED consVars
  BY <1>1, <1>2, <1>3, <1>6, <1>12, SendSimulates, Zenon DEF Abstract!Next
<1> QED
  BY <1>4, <1>7, <1>8, <1>9, <1>10, <1>11, <1>12, Zenon DEF RingMoves

(* The console is a line device: what is typed is read in that order once  *)
(* its line is ready and never after it was erased, what is written is     *)
(* sent in that order, nothing is lost and nothing comes twice.            *)
THEOREM ConsoleImplementsLineDevice == Spec => KeepsOrder
  BY InitIInv, InitSimulates, StepIInv, StepSimulates, PTL
     DEF Spec, KeepsOrder, Abstract!Spec

=============================================================================
