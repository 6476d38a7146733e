---------------------------- MODULE MCSchedIntr ----------------------------
(* Instances of SchedIntr for TLC.                                         *)
EXTENDS SchedIntr

CONSTANTS p1, p2, p3, c1, c2

MCProcs2 == {p1, p2}
MCCpus1 == {c1}
MCCpus2 == {c1, c2}

=============================================================================
