-------------------------------- MODULE Sums --------------------------------
(***************************************************************************)
(* Evidence is counted in bytes: the sum of a sequence of numbers.         *)
(***************************************************************************)
EXTENDS Naturals, Sequences

SumOf(sizes) ==
    LET sum[k \in 0 .. Len(sizes)] == IF k = 0 THEN 0 ELSE sum[k - 1] + sizes[k]
    IN  sum[Len(sizes)]
=============================================================================
