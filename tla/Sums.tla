-------------------------------- MODULE Sums --------------------------------
(* The sum of a table over a set of its keys, and the place of a number in *)
(* a set of numbers: how many of them it is not below.                     *)
EXTENDS Naturals, FiniteSets, FiniteSetsExt

SumOver(f, S) == MapThenSumSet(LAMBDA k : f[k], S)

Place(H, a) == Cardinality({x \in H : x <= a})
=============================================================================
