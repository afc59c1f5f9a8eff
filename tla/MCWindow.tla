------------------------------ MODULE MCWindow ------------------------------
(* Two scans and two rows, one of them a folder.  Browsing watches the scan *)
(* with the poll and opens no dialog; Removing opens dialogs, two at a time *)
(* under way, and leaves the poll out.                                      *)
EXTENDS Window

CONSTANTS n1, n2

TwoNodes == {n1, n2}
OneFolder == {n1}

Waiting(polls, rows, dialogs) ==
  [what \in {"startScan", "scanStatus", "rows", "prepareTrash"} |->
     CASE what = "startScan" -> 1 [] what = "scanStatus" -> polls
       [] what = "rows" -> rows [] what = "prepareTrash" -> dialogs]
Browsing == Waiting(1, 1, 0)
Removing == Waiting(0, 0, 2)
TwoLoads == {Browsing, Removing}
=============================================================================
