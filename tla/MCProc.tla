------------------------------- MODULE MCProc -------------------------------
(* Instances of Proc for TLC: slots are model values, the first is init.   *)
EXTENDS ProcRefines, TLC

CONSTANTS p1, p2, p3, c1, c2

MCSlots3 == {p1, p2, p3}
MCCpus1 == {c1}
MCCpus2 == {c1, c2}
Symmetry == Permutations({p2, p3})

=============================================================================
