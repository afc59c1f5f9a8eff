----------------------------- MODULE MCJournal -----------------------------
(* Appends that fail in every way, and appends that are cut short.          *)
EXTENDS Undo, TLC

AllFaults == {"refused", "torn", "split", "unterminated", "unsynced"}
TornFaults == {"torn"}

(* Bound: operations, undos and restarts together.                          *)
MaxWork == 5
Bounded == items + undos + restarts <= MaxWork

Symmetry == Permutations(Terminal) \cup Permutations(Requests)
=============================================================================
