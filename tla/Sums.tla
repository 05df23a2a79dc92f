-------------------------------- MODULE Sums ---------------------------------
(***************************************************************************)
(* Sums of sequences of integers, as a recursive function: the folds of    *)
(* the community modules take an operator, and no prover can expand them.  *)
(***************************************************************************)
EXTENDS Integers, Sequences

(* The sums of the first k elements.                                       *)
PartialSums(f) == LET s[k \in 0..Len(f)] == IF k = 0 THEN 0 ELSE s[k - 1] + f[k] IN s

SumOf(f) == PartialSums(f)[Len(f)]
=============================================================================
