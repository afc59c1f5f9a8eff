------------------------------ MODULE MCTrash ------------------------------
(* Two paths inside the scan root and one outside it.                       *)
EXTENDS Trash, TLC

CONSTANTS w1, w2, a, b, outside

TwoWorkers == {w1, w2}
ThreePaths == {a, b, outside}
TwoInside == {a, b}
TrashSymmetry == Permutations(Workers) \cup Permutations(Inside)
=============================================================================
