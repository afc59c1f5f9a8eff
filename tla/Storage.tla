------------------------------ MODULE Storage ------------------------------
(***************************************************************************)
(* What the window asks of a finished scan: rows, categoryBreakdown,       *)
(* applicationInventory, developerInventory (commands.rs) and the          *)
(* footprint of an application, over one tree and the disk it came from.   *)
(***************************************************************************)
EXTENDS Categories, Footprint

StorageSpec == FootprintInit /\ [][FootprintNext]_allVars

Fresh == Done /\ footprint.phase = "none"

(* A tree is the disk the scan reached, and says where it is not; and what *)
(* is read off it, a path or page after page, is the tree.                 *)
ScanIsWhole == Fresh => TreeIsTheDisk /\ SummaryAddsUp /\ PathsNameTheirEntry /\ PagesTile

(* Every byte is in one category and under one consumer of it, and a       *)
(* consumer is complete exactly if all it accounts for was read in full.   *)
BytesArePartitioned == Fresh => Partitions(Tree)

(* The ranking and the list agree on what an application is, but for the   *)
(* two cases ApplicationsAreRanked names, and the two copies of the        *)
(* developer rules on what a developer directory is.                       *)
ListsAgree == Fresh => ApplicationsAreRanked(Tree) /\ DeveloperListAgrees(Tree)
=============================================================================
