----------------------------- MODULE PageTable ------------------------------
(* Page tables and the page allocator (kernel/vm.c, kernel/kalloc.c), as   *)
(* operators on a record: how many pages are free, and one address space   *)
(* being built, changed or freed.                                          *)
(*                                                                         *)
(* An address space has table pages, named by the indices that lead to     *)
(* them (the root is <<>>), and leaf entries, named by the virtual page.   *)
(* Which page kalloc() returns does not matter: pages are counted, and a   *)
(* page that is freed twice or not at all makes the counts differ.         *)
EXTENDS Naturals, FiniteSets, Sequences, SequencesExt

CONSTANTS
    PGSIZE,     \* bytes of a page
    PTES        \* entries of a page-table page

MAXVA == PTES * PTES * PTES     \* in pages
TRAMPOLINE == MAXVA - 1
TRAPFRAME == MAXVA - 2

Px(level, va) == IF level = 2 THEN va \div (PTES * PTES) ELSE (va \div PTES) % PTES
PgUp(sz) == (sz + PGSIZE - 1) \div PGSIZE   \* PGROUNDUP, in pages

(* left: the pages that this call gets before kalloc() returns 0 (others   *)
(* allocate and free at the same time); user: the entries with PTE_U;      *)
(* ok: no failure yet; panic: the kernel has stopped.                      *)
Blank(free, left) == [free |-> free, left |-> left, nodes |-> {}, leaf |-> {}, user |-> {},
                      sz |-> 0, ok |-> TRUE, panic |-> FALSE]
Panics(m) == [m EXCEPT !.panic = TRUE]
Fails(m) == [m EXCEPT !.ok = FALSE]

Kfree(m, n) == [m EXCEPT !.free = @ + n, !.left = @ + n]
Kalloc(m) == IF ~m.ok THEN m ELSE IF m.left = 0 THEN Fails(m)
             ELSE [m EXCEPT !.free = @ - 1, !.left = @ - 1]

-----------------------------------------------------------------------------
(* walk() with alloc set: the tables on the way to an entry.               *)
SetTable(m, path) == IF m.ok THEN [m EXCEPT !.nodes = @ \cup {path}] ELSE m
AddTable(m, path) == IF path \in m.nodes THEN m ELSE SetTable(Kalloc(m), path)
Walk(m, va) == AddTable(AddTable(m, <<Px(2, va)>>), <<Px(2, va), Px(1, va)>>)

(* One page; of the callers at run time none maps more.                    *)
SetEntry(m, va) == IF ~m.ok THEN m ELSE IF va \in m.leaf THEN Panics(m)
                   ELSE [m EXCEPT !.leaf = @ \cup {va}]
Mappages(m, va) == SetEntry(Walk(m, va), va)

(* uvmunmap(), which panics at a page that is not mapped.                  *)
Uvmunmap(m, vas, do_free) ==
    IF ~(vas \subseteq m.leaf) THEN Panics(m)
    ELSE Kfree([m EXCEPT !.leaf = @ \ vas, !.user = @ \ vas],
               IF do_free THEN Cardinality(vas) ELSE 0)

Freewalk(m) == IF m.leaf # {} THEN Panics(m)
               ELSE Kfree([m EXCEPT !.nodes = {}], Cardinality(m.nodes))

Uvmfree(m, sz) == Freewalk(Uvmunmap(m, 0..PgUp(sz) - 1, TRUE))

(* uvmcreate() and the two entries of proc_pagetable(); the second cannot  *)
(* fail once the first has its tables, which are the same.                 *)
ProcPagetable(m) == Mappages(Mappages(AddTable(m, <<>>), TRAMPOLINE), TRAPFRAME)

(* What is freed of a page table that could not be finished.               *)
Unfinished(m) == Freewalk(Uvmunmap(m, m.leaf, FALSE))

ProcFreepagetable(m, sz) == Uvmfree(Uvmunmap(m, {TRAMPOLINE, TRAPFRAME}, FALSE), sz)

(* One page of user memory, in uvmalloc() and in uvmcopy(): a page that    *)
(* cannot be mapped is given back.                                         *)
OrGiveBack(w) == IF w.ok THEN w ELSE Kfree(w, 1)
OnPage(k, va) == IF k.ok THEN OrGiveBack(Mappages(k, va)) ELSE k

(* Mutant: it is not.                                                      *)
UserPageLeaks(m, va) == Mappages(Kalloc(m), va)

UserPage(m, va) == IF m.ok THEN OnPage(Kalloc(m), va) ELSE m

(* What a failed loop has mapped is unmapped again.                        *)

(* Mutant: it stays mapped.                                                *)
DoneNotUndone(m, vas, user) == m

Done(m, vas, user) == IF m.ok THEN [m EXCEPT !.user = @ \cup user]
                      ELSE Uvmunmap(m, vas \cap m.leaf, TRUE)

UserPages(m, vas, user) == Done(FoldLeft(UserPage, m, SetToSortSeq(vas, <)), vas, user)

(* The new size is in sz; on failure sz stays.                             *)
Sized(m, sz) == IF m.ok THEN [m EXCEPT !.sz = sz] ELSE m
Uvmalloc(m, oldsz, newsz) ==
    IF newsz < oldsz THEN Sized(m, oldsz)
    ELSE LET vas == PgUp(oldsz)..PgUp(newsz) - 1 IN Sized(UserPages(m, vas, vas), newsz)

(* uvmdealloc(): whole pages above the new end.                            *)
Uvmdealloc(m, oldsz, newsz) ==
    IF newsz >= oldsz THEN [m EXCEPT !.sz = oldsz]
    ELSE [Uvmunmap(m, PgUp(newsz)..PgUp(oldsz) - 1, TRUE) EXCEPT !.sz = newsz]

(* uvmcopy(): the pages of `old`, with their flags.                        *)
Uvmcopy(m, old) ==
    LET vas == 0..PgUp(old.sz) - 1
    IN IF vas \subseteq old.leaf THEN UserPages(m, vas, old.user) ELSE Panics(m)

Uvmclear(m, va) == IF va \in m.leaf THEN [m EXCEPT !.user = @ \ {va}] ELSE Panics(m)

(* walkaddr(), and what copyin(), copyout() and copyinstr() may touch.     *)
Walkaddr(s, va) == va < MAXVA /\ va \in s.leaf /\ va \in s.user
CopyOk(s, addr, len) == \A a \in addr..addr + len - 1 : Walkaddr(s, a \div PGSIZE)

=============================================================================
