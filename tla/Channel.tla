------------------------------ MODULE Channel ------------------------------
(***************************************************************************)
(* What a pipe promises: a bounded queue of bytes with two ends.           *)
(***************************************************************************)
EXTENDS Naturals, Sequences

CONSTANTS Byte, Capacity

VARIABLES buf, readopen, writeopen

chvars == <<buf, readopen, writeopen>>

Init == buf = <<>> /\ readopen = TRUE /\ writeopen = TRUE

Put(v) ==
    /\ writeopen /\ Len(buf) < Capacity
    /\ buf' = Append(buf, v)
    /\ UNCHANGED <<readopen, writeopen>>

Get ==
    /\ readopen /\ buf # <<>>
    /\ buf' = Tail(buf)
    /\ UNCHANGED <<readopen, writeopen>>

CloseRead == readopen /\ readopen' = FALSE /\ UNCHANGED <<buf, writeopen>>

CloseWrite == writeopen /\ writeopen' = FALSE /\ UNCHANGED <<buf, readopen>>

Next == (\E v \in Byte : Put(v)) \/ Get \/ CloseRead \/ CloseWrite

Spec == Init /\ [][Next]_chvars

=============================================================================
