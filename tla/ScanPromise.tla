---------------------------- MODULE ScanPromise ----------------------------
(***************************************************************************)
(* What the scan part of the service promises to the window, with no       *)
(* threads and no progress: one scan at a time holds the slot, a scan that *)
(* ends gives it back and owes one report, and only a scan that completed  *)
(* replaces the snapshot.  Reports are sent some time later, in any order. *)
(* Scan.tla implements it; Window.tla is written against it.               *)
(***************************************************************************)
EXTENDS Naturals, Sequences

CONSTANT MaxScans   \* bound: scans claimed

Scans == 1..MaxScans
None == 0

VARIABLES
  active, result, nextId,  \* the slot, the snapshot, the counter of ids
  owed,                    \* end reports of scans that gave the slot back
  told                     \* end reports sent, in order

scanVars == <<active, result, nextId, owed, told>>

ScanInit == active = None /\ result = None /\ nextId = 0 /\ owed = {} /\ told = <<>>

ClaimSlot ==
  /\ active = None /\ nextId < MaxScans
  /\ nextId' = nextId + 1
  /\ active' = nextId'
  /\ UNCHANGED <<result, owed, told>>

ReleaseSlot ==
  /\ active # None
  /\ active' = None
  /\ UNCHANGED <<result, nextId, owed, told>>

EndScan(how) ==
  /\ active # None
  /\ active' = None
  /\ result' = IF how = "finished" THEN active ELSE result
  /\ owed' = owed \cup {<<how, active>>}
  /\ UNCHANGED <<nextId, told>>

TellEnd(e) ==
  /\ e \in owed
  /\ owed' = owed \ {e}
  /\ told' = Append(told, e)
  /\ UNCHANGED <<active, result, nextId>>

ScanNext ==
  \/ ClaimSlot \/ ReleaseSlot
  \/ \E how \in {"finished", "failed"} : EndScan(how)
  \/ \E e \in owed : TellEnd(e)

ScanSpec == ScanInit /\ [][ScanNext]_scanVars
=============================================================================
