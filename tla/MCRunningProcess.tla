-------------------------- MODULE MCRunningProcess --------------------------
(* Pipes of one unit, and two units for each, so that every pipe fills.     *)
EXTENDS RunningProcess

OneUnit == 1
TwoUnits == 2
=============================================================================
