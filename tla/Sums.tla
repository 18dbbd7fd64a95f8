--------------------------------- MODULE Sums --------------------------------
(* The sum of a finite family of integers: what the code sums over rows.   *)
EXTENDS Integers, Functions

SumOver(f) == FoldFunction(LAMBDA x, y : x + y, 0, f)
=============================================================================
