-------------------------------- MODULE Sums --------------------------------
(* Sums over sequences, for the counts and totals that properties compare. *)
EXTENDS Integers, SequencesExt

SumOf(numbers) == FoldLeft(LAMBDA a, b : a + b, 0, numbers)

(* How many elements of a sequence pass a test.                            *)
HowMany(s, Test(_)) == SumOf([i \in DOMAIN s |-> IF Test(s[i]) THEN 1 ELSE 0])
=============================================================================
