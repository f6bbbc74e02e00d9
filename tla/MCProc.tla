------------------------------- MODULE MCProc -------------------------------
(* Small instances of Proc. *)
EXTENDS Proc, TLC

CpuSymmetry == Permutations(CPU)

=============================================================================
