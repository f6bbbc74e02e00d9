-------------------------------- MODULE Sums --------------------------------
(***************************************************************************)
(* PrefixSums(wt, n)[q] is the sum of the numbers wt[1], ..., wt[q], for q *)
(* up to n.                                                                *)
(***************************************************************************)
EXTENDS Integers

PrefixSums(wt, n) ==
    LET s[q \in 0..n] == IF q = 0 THEN 0 ELSE s[q - 1] + wt[q]
    IN  s

=============================================================================
