----------------------------- MODULE BlockStore -----------------------------
(***************************************************************************)
(* What the buffer cache promises: every block has one content, and one    *)
(* process at a time that may read and change it.                          *)
(***************************************************************************)
CONSTANTS Proc, NoProc, Block, Val

VARIABLES content, holder

bsvars == <<content, holder>>

Init == content \in [Block -> Val] /\ holder = [k \in Block |-> NoProc]

Get(p, k) ==
    /\ holder[k] = NoProc
    /\ holder' = [holder EXCEPT ![k] = p]
    /\ UNCHANGED content

Change(p, k, v) ==
    /\ holder[k] = p
    /\ content' = [content EXCEPT ![k] = v]
    /\ UNCHANGED holder

Release(p, k) ==
    /\ holder[k] = p
    /\ holder' = [holder EXCEPT ![k] = NoProc]
    /\ UNCHANGED content

Next == \E p \in Proc, k \in Block :
    Get(p, k) \/ Release(p, k) \/ \E v \in Val : Change(p, k, v)

Spec == Init /\ [][Next]_bsvars

=============================================================================
