------------------------------- MODULE Malloc -------------------------------
(* The allocator of a user process (user/umalloc.c): a circular list of    *)
(* free blocks in the order of their addresses.  Addresses are counted in  *)
(* units of one header, and the static header base is address 0.           *)
EXTENDS Integers, FiniteSets, SequencesExt, FiniteSetsExt

CONSTANTS
    MinUnits,   \* morecore() asks sbrk() for no fewer (4096)
    MaxUnits,   \* bound: where sbrk() fails at the latest
    MaxAsk      \* bound: the most units that a call of malloc() needs

MallocAssumption == /\ MinUnits \in Nat \ {0} /\ MaxUnits \in Nat /\ MaxAsk \in Nat \ {0}

VARIABLES
    ptr,        \* s.ptr of each header
    size,       \* s.size of each header
    freep,      \* where the next search begins; NULL before the first call
    brk,        \* how many units sbrk() has given
    live        \* history: the blocks the program holds, [at, units]

vars == <<ptr, size, freep, brk, live>>

base == 0
NULL == -1
Header == 0..MaxUnits

Init == /\ ptr = [h \in Header |-> NULL] /\ size = [h \in Header |-> 0]
        /\ freep = NULL /\ brk = 0 /\ live = {}

-----------------------------------------------------------------------------
(* The list as a value: [ptr, size, freep].                                *)
Now == [ptr |-> ptr, size |-> size, freep |-> freep]

(* The header that i steps lead to.                                        *)
Ring(l) == LET r[i \in 0..MaxUnits + 1] == IF i = 0 THEN l.freep ELSE l.ptr[r[i - 1]] IN r

(* free(): the header after which bp belongs, by its address.              *)
Follows(l, p, bp) == \/ bp > p /\ bp < l.ptr[p]
                     \/ p >= l.ptr[p] /\ (bp > p \/ bp < l.ptr[p])
Place(l, bp) == LET r == Ring(l)
                IN r[Min({i \in DOMAIN r : Follows(l, r[i], bp)})]

(* Joined to the block above and to the one below where they touch.        *)
JoinAbove(l, p, bp) ==
    LET q == l.ptr[p]
    IN IF bp + l.size[bp] = q
       THEN [l EXCEPT !.size[bp] = @ + l.size[q], !.ptr[bp] = l.ptr[q],
                      !.size[q] = 0, !.ptr[q] = NULL]
       ELSE [l EXCEPT !.ptr[bp] = q]
JoinBelow(l, p, bp) ==
    IF p + l.size[p] = bp
    THEN [l EXCEPT !.size[p] = @ + l.size[bp], !.ptr[p] = l.ptr[bp],
                   !.size[bp] = 0, !.ptr[bp] = NULL]
    ELSE [l EXCEPT !.ptr[p] = bp]
Insert(l, bp) == LET p == Place(l, bp)
                 IN [JoinBelow(JoinAbove(l, p, bp), p, bp) EXCEPT !.freep = p]

(* malloc(): how many steps lead to the first block that is large enough;  *)
(* the list is gone through once, and freep's block is tried last.         *)
Lap(l) == LET r == Ring(l) IN Min({i \in DOMAIN r \ {0} : r[i] = l.freep})
Fits(l, n) == {i \in 1..Lap(l) : l.size[Ring(l)[i]] >= n}

(* The whole block, or its tail.                                           *)
Cut(l, prevp, p, n) ==
    IF l.size[p] = n THEN [l EXCEPT !.ptr[prevp] = l.ptr[p], !.ptr[p] = NULL, !.freep = prevp]
    ELSE [l EXCEPT !.size[p] = @ - n, !.size[p + l.size[p] - n] = n, !.freep = prevp]
Taken(l, p, n) == p + l.size[p] - n

(* The first call sets up base.                                            *)
Ready == IF freep = NULL THEN [Now EXCEPT !.ptr[base] = base, !.size[base] = 0, !.freep = base]
         ELSE Now

(* morecore(): at least MinUnits, freed at the end of the list.            *)
Asked(n) == IF n < MinUnits THEN MinUnits ELSE n
Grown(l, n) == Insert([l EXCEPT !.size[brk + 1] = Asked(n)], brk + 1)

Becomes(l) == ptr' = l.ptr /\ size' = l.size /\ freep' = l.freep

(* The block found in list l.                                              *)
Gives(l, n) == LET i == Min(Fits(l, n))
                   p == Ring(l)[i]
               IN /\ Becomes(Cut(l, Ring(l)[i - 1], p, n))
                  /\ live' = live \union {[at |-> Taken(l, p, n), units |-> n]}

-----------------------------------------------------------------------------
MallocFromList(n) == Fits(Ready, n) # {} /\ Gives(Ready, n) /\ UNCHANGED brk

MallocMore(n) == /\ Fits(Ready, n) = {} /\ brk + Asked(n) <= MaxUnits
                 /\ Gives(Grown(Ready, n), n) /\ brk' = brk + Asked(n)

(* sbrk() may fail long before the bound.                                  *)
MallocFails(n) == Fits(Ready, n) = {} /\ Becomes(Ready) /\ UNCHANGED <<brk, live>>

Free(b) == Becomes(Insert(Now, b.at)) /\ live' = live \ {b} /\ UNCHANGED brk

Next == \/ \E n \in 1..MaxAsk : MallocFromList(n) \/ MallocMore(n) \/ MallocFails(n)
        \/ \E b \in live : Free(b)

Spec == Init /\ [][Next]_vars

-----------------------------------------------------------------------------
(* What a block covers, and the blocks of the list.                        *)
Covers(at, units) == at..at + units - 1
Listed == {Ring(Now)[i] : i \in 1..Lap(Now)}
InOrder(seq) == \A i \in DOMAIN seq, j \in DOMAIN seq : i < j => seq[i] < seq[j]
FromBase == [i \in 0..Lap(Now) - 1 |-> Ring([Now EXCEPT !.freep = base])[i]]

(* Blocks held keep their sizes and do not overlap, and with the free ones *)
(* they are all that sbrk() has given: neither malloc() nor free() loses   *)
(* or hands out a unit twice, whatever the order of the calls.  The list   *)
(* is in order from base on, and no two free blocks touch (umalloc.c).     *)
HeapInv == freep # NULL =>
    LET blocks == {<<b.at, b.units>> : b \in live} \union {<<p, size[p]>> : p \in Listed \ {base}}
    IN /\ base \in Listed /\ InOrder(FromBase)
       /\ \A b \in live : size[b.at] = b.units
       /\ UNION {Covers(b[1], b[2]) : b \in blocks} = 1..brk
       /\ MapThenSumSet(LAMBDA b : b[2], blocks) = brk
       /\ \A p \in Listed \ {base} : p + size[p] \notin Listed

=============================================================================
