------------------------------ MODULE MCReview ------------------------------
(* Two request threads against one review state.                            *)
EXTENDS Review, TLC

CONSTANTS w1, w2

TwoWorkers == {w1, w2}
WorkerSymmetry == Permutations(Workers)
=============================================================================
