------------------------------- MODULE MCLog -------------------------------
(* Instances of Log for TLC.                                               *)
EXTENDS Log, TLC

CONSTANTS b1, b2, b3, b4, b5, o1, o2, o3

MCBlocks3 == {b1, b2, b3}
MCBlocks5 == {b1, b2, b3, b4, b5}
MCOps2 == {o1, o2}
MCOps3 == {o1, o2, o3}
Symmetry == Permutations(MCBlocks5) \cup Permutations(MCOps2)
SymmetryFull == Permutations(MCBlocks3) \cup Permutations(MCOps3)

=============================================================================
