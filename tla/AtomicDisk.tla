----------------------------- MODULE AtomicDisk -----------------------------
(* What begin_op, log_write and end_op promise to the file system: the     *)
(* writes of the operations in progress reach the disk all together, at a  *)
(* moment when no operation is in progress, and a crash takes back exactly *)
(* those that have not.                                                    *)
CONSTANTS Blocks, Values, Ops, InitialValue

VARIABLES
    durable,    \* what a reboot would find
    view,       \* what the operations read
    active      \* the operations in progress

diskVars == <<durable, view, active>>

Init ==
    /\ durable = [b \in Blocks |-> InitialValue]
    /\ view = durable
    /\ active = {}

Begin(o) ==
    /\ o \notin active
    /\ active' = active \cup {o}
    /\ UNCHANGED <<durable, view>>

Write(o, b, v) ==
    /\ o \in active
    /\ view' = [view EXCEPT ![b] = v]
    /\ UNCHANGED <<durable, active>>

End(o) ==
    /\ o \in active
    /\ active' = active \ {o}
    /\ UNCHANGED <<durable, view>>

Sync ==
    /\ active = {}
    /\ durable' = view
    /\ UNCHANGED <<view, active>>

Crash ==
    /\ view' = durable
    /\ active' = {}
    /\ UNCHANGED durable

Next ==
    \/ \E o \in Ops : Begin(o) \/ End(o)
    \/ \E o \in Ops, b \in Blocks, v \in Values : Write(o, b, v)
    \/ Sync \/ Crash

Spec == Init /\ [][Next]_diskVars

=============================================================================
