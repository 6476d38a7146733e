----------------------------- MODULE AtomicPipe -----------------------------
(* What a pipe promises its users: a bounded first-in first-out queue of   *)
(* bytes with two ends that are closed once each, without locks, indices   *)
(* or sleeping.  Bytes enter only while both ends are open.                *)
EXTENDS Naturals, Sequences

CONSTANTS Bytes, Size, NoByte

VARIABLES
    q,                    \* the bytes in the pipe, oldest first
    out,                  \* the byte that left it last
    readopen, writeopen   \* the ends that are open

vars == <<q, out, readopen, writeopen>>

Init == q = <<>> /\ out = NoByte /\ readopen = TRUE /\ writeopen = TRUE

Put(b) ==
    /\ readopen /\ writeopen /\ Len(q) < Size
    /\ q' = Append(q, b)
    /\ UNCHANGED <<out, readopen, writeopen>>

Take ==
    /\ readopen /\ q # <<>>
    /\ out' = Head(q)
    /\ q' = Tail(q)
    /\ UNCHANGED <<readopen, writeopen>>

CloseRead == readopen /\ readopen' = FALSE /\ UNCHANGED <<q, out, writeopen>>
CloseWrite == writeopen /\ writeopen' = FALSE /\ UNCHANGED <<q, out, readopen>>

Next == (\E b \in Bytes : Put(b)) \/ Take \/ CloseRead \/ CloseWrite

Spec == Init /\ [][Next]_vars

=============================================================================
