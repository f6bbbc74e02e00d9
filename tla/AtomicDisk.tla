----------------------------- MODULE AtomicDisk -----------------------------
(***************************************************************************)
(* What the log promises the file system: operations change the current    *)
(* contents of blocks, the contents become durable all at once and only    *)
(* when no operation is half done, and a crash goes back to what is        *)
(* durable.                                                                *)
(***************************************************************************)
CONSTANTS Op, Block, Val

VARIABLES
    durable,    \* what a crash leaves
    current,    \* what operations see
    active      \* the operations in progress

advars == <<durable, current, active>>

Init == durable \in [Block -> Val] /\ current = durable /\ active = {}

Begin(o) == o \notin active /\ active' = active \cup {o} /\ UNCHANGED <<durable, current>>

Write(o, b, v) ==
    /\ o \in active
    /\ current' = [current EXCEPT ![b] = v]
    /\ UNCHANGED <<durable, active>>

End(o) == o \in active /\ active' = active \ {o} /\ UNCHANGED <<durable, current>>

Commit == active = {} /\ durable' = current /\ UNCHANGED <<current, active>>

Crash == current' = durable /\ active' = {} /\ UNCHANGED durable

Next ==
    \/ \E o \in Op : Begin(o) \/ End(o)
    \/ \E o \in Op, b \in Block, v \in Val : Write(o, b, v)
    \/ Commit \/ Crash

Spec == Init /\ [][Next]_advars

=============================================================================
