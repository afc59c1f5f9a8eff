------------------------------- MODULE Window -------------------------------
(***************************************************************************)
(* The window's model (apps/macos, AppModel.swift) over the service: the   *)
(* scan button, the status poll, the scan events, the browser's page and   *)
(* the Trash dialog.                                                       *)
(*                                                                         *)
(* The main actor runs one piece of a Task at a time, from one await to    *)
(* the next.  Between them are requests: the service serves those under    *)
(* way in any order, a thread each, and the Tasks waiting for them resume  *)
(* in any order.  Events alone keep the order they were written in.        *)
(* The footprint, the review screens, sorting, paging and history are left *)
(* out; a row is its node id.                                              *)
(***************************************************************************)
EXTENDS ScanPromise, Bags, FiniteSets

CONSTANTS
  Nodes,        \* node ids on screen
  Folders,      \* those that can be opened
  Loads,        \* bounds: in each, what is asked |-> Tasks that may wait for it
  MaxConfirms   \* bound: dialogs confirmed

ASSUME WindowBounds ==
  /\ MaxScans \in Nat /\ MaxConfirms \in Nat /\ Folders \subseteq Nodes
  /\ Loads \subseteq [{"startScan", "scanStatus", "rows", "prepareTrash"} -> Nat]

Root == "root"
NoNode == "none"
Places == Folders \cup {Root}
NoPage == [scan |-> None, parent |-> Root]
NoPreparation == [token |-> 0, scan |-> None, node |-> NoNode]

VARIABLES
  pending,      \* the service's one Trash confirmation
  moved,        \* <<scan, node>> it moved to the Trash
  tasks,        \* bag of Tasks waiting for a request
  seen,         \* events handled, of those told
  scanSummary, isScanning, polling, generation,
  rowPage, currentParentID, isLoadingRows, rowRequestVersion,
  trashPreparation, trashPendingRowID, isPreparingTrash, isMovingToTrash,
  trashedRowIDs, trashRequestVersion,
  confirmed,    \* history: <<scan, node>> of the dialogs that were confirmed
  load          \* bound: one of Loads, for the whole behaviour

trashService == <<pending, moved>>
service == <<scanVars, trashService>>
scanView == <<scanSummary, isScanning, polling, generation>>
rowView  == <<rowPage, currentParentID, isLoadingRows, rowRequestVersion>>
dialog   == <<trashPreparation, trashPendingRowID, isPreparingTrash, trashRequestVersion>>
moving   == <<isMovingToTrash, trashedRowIDs, confirmed>>
window == <<scanView, rowView, dialog, moving, seen>>
vars == <<service, tasks, window>>

(* A Task: what it asks, the scan, node and version it captured, and where *)
(* it is: due (not begun), asked, or answered (ok, and then busy and n).   *)
Task(what, scan, node, version) ==
  [what |-> what, scan |-> scan, node |-> node, version |-> version,
   at |-> "asked", ok |-> FALSE, busy |-> FALSE, n |-> 0]
Ops == {"startScan", "scanStatus", "rows", "categoryBreakdown", "prepareTrash", "confirmTrash"}
InFlight(what, at) == {t \in BagToSet(tasks) : t.what = what /\ t.at = at}

(* A version, a polling task and a token are only ever compared for        *)
(* equality with those that something still holds, so a new one is any     *)
(* number that nothing holds.                                              *)
Fresh(held) == CHOOSE v \in 0..Cardinality(held) : v \notin held
Held(what) == {t.version : t \in {u \in BagToSet(tasks) : u.what = what}}
TokensHeld ==
  {0, pending.token, trashPreparation.token} \cup Held("confirmTrash")
    \cup {t.n : t \in InFlight("prepareTrash", "answered")}
Room(what) == Cardinality({t \in BagToSet(tasks) : t.what = what}) < load[what]

Begin(t) == tasks' = tasks (+) SetToBag({t})
End(t) == tasks' = tasks (-) SetToBag({t})
EndAndBegin(t, u) == tasks' = (tasks (-) SetToBag({t})) (+) SetToBag({u})
Answer(t, ok, busy, n) ==
  EndAndBegin(t, [t EXCEPT !.at = "answered", !.ok = ok, !.busy = busy, !.n = n])

Init ==
  /\ ScanInit /\ pending = NoPreparation /\ moved = {}
  /\ tasks = EmptyBag /\ seen = 0
  /\ scanSummary = None /\ isScanning = FALSE /\ polling = FALSE /\ generation = 0
  /\ rowPage = NoPage /\ currentParentID = Root /\ isLoadingRows = FALSE
  /\ rowRequestVersion = 0
  /\ trashPreparation = NoPreparation /\ trashPendingRowID = NoNode
  /\ isPreparingTrash = FALSE /\ trashRequestVersion = 0
  /\ isMovingToTrash = FALSE /\ trashedRowIDs = {} /\ confirmed = {}
  /\ load \in Loads

-----------------------------------------------------------------------------
(* The service.                                                            *)

(* startScan: the slot is claimed, or the request refused: by an occupied  *)
(* slot, a missing scanner, a path that is not a directory, or a claim     *)
(* released because no thread could be started.                            *)
ServeStart(t) ==
  /\ \/ ClaimSlot /\ Answer(t, TRUE, FALSE, 0)
     \/ Answer(t, FALSE, FALSE, 0) /\ UNCHANGED scanVars
  /\ UNCHANGED <<trashService, window>>

(* scanStatus, rows and categoryBreakdown: one look at the scan; the last  *)
(* two answer only for the snapshot they name.                             *)
ServeRead(t) ==
  /\ IF t.what = "scanStatus" THEN Answer(t, TRUE, active # None, result)
     ELSE Answer(t, result = t.scan, FALSE, 0)
  /\ UNCHANGED <<service, window>>

(* prepareTrash: the row is one of the snapshot's and its path still       *)
(* qualifies; the new confirmation is the only one (Trash.tla).            *)
ServePrepare(t) ==
  /\ \/ /\ result = t.scan
        /\ pending' = [token |-> Fresh(TokensHeld), scan |-> t.scan, node |-> t.node]
        /\ Answer(t, TRUE, FALSE, pending'.token)
     \/ Answer(t, FALSE, FALSE, 0) /\ UNCHANGED pending
  /\ UNCHANGED <<scanVars, moved, window>>

(* Mutant: the confirmation on the table is taken, whichever was sent.     *)
ServeConfirmAny(t) ==
  /\ pending' = NoPreparation
  /\ IF pending # NoPreparation /\ pending.scan = result
     THEN Answer(t, TRUE, FALSE, 0) /\ moved' = moved \cup {<<pending.scan, pending.node>>}
     ELSE Answer(t, FALSE, FALSE, 0) /\ UNCHANGED moved
  /\ UNCHANGED <<scanVars, window>>

(* confirmTrash: the token is used up; the item moves if its scan is still *)
(* the snapshot and the path still qualifies.                              *)
ServeConfirm(t) ==
  /\ pending' = IF pending.token = t.version THEN NoPreparation ELSE pending
  /\ \/ /\ pending.token = t.version /\ pending.scan = result
        /\ moved' = moved \cup {<<pending.scan, pending.node>>}
        /\ Answer(t, TRUE, FALSE, 0)
     \/ Answer(t, FALSE, FALSE, 0) /\ UNCHANGED moved
  /\ UNCHANGED <<scanVars, window>>

Serve(t) ==
  CASE t.what = "startScan" -> ServeStart(t)
    [] t.what = "prepareTrash" -> ServePrepare(t)
    [] t.what = "confirmTrash" -> ServeConfirm(t)
    [] OTHER -> ServeRead(t)

ScanEnds ==
  /\ \E how \in {"finished", "failed"} : EndScan(how)
  /\ UNCHANGED <<trashService, tasks, window>>

Tell ==
  /\ \E e \in owed : TellEnd(e)
  /\ UNCHANGED <<trashService, tasks, window>>

-----------------------------------------------------------------------------
(* Scanning.                                                               *)

(* Mutant: a preparation under way is forgotten but still shown as going.  *)
InvalidateStillPreparing ==
  /\ trashRequestVersion' = Fresh(Held("prepareTrash"))
  /\ trashPreparation' = NoPreparation /\ trashPendingRowID' = NoNode
  /\ UNCHANGED isPreparingTrash

(* invalidateTrashPreparation(): the dialog closes, and an answer still on *)
(* its way is of an older version.                                         *)
Invalidate ==
  /\ trashRequestVersion' = Fresh(Held("prepareTrash"))
  /\ isPreparingTrash' = FALSE
  /\ trashPreparation' = NoPreparation /\ trashPendingRowID' = NoNode

Scan ==
  /\ Room("startScan")
  /\ ~isScanning /\ ~isMovingToTrash
  /\ Invalidate
  /\ isScanning' = TRUE
  /\ Begin(Task("startScan", None, Root, 0))
  /\ UNCHANGED <<service, scanSummary, polling, generation, rowView, moving, seen>>

(* Mutant: a refused start leaves the screen scanning.                     *)
StartResumesHopeful(t) ==
  /\ polling' = (polling \/ (t.ok /\ isScanning))
  /\ generation' = IF t.ok /\ isScanning THEN Fresh(Held("scanStatus")) ELSE generation
  /\ End(t)
  /\ UNCHANGED <<service, scanSummary, isScanning, rowView, dialog, moving, seen>>

(* The scan may be over, and said so, before its start is answered.        *)
StartResumes(t) ==
  /\ isScanning' = (t.ok /\ isScanning)
  /\ polling' = (polling \/ isScanning')
  /\ generation' = IF isScanning' THEN Fresh(Held("scanStatus")) ELSE generation
  /\ End(t)
  /\ UNCHANGED <<service, scanSummary, rowView, dialog, moving, seen>>

(* One request of the current polling task at a time.  A cancelled task    *)
(* still handles the answer it was waiting for.                            *)
Poll ==
  /\ polling /\ Room("scanStatus")
  /\ \A t \in BagToSet(tasks) : t.what = "scanStatus" => t.version # generation
  /\ Begin(Task("scanStatus", None, Root, generation))
  /\ UNCHANGED <<service, window>>

(* acceptScan(): a summary that is already shown changes nothing.          *)
AcceptScan(n) ==
  IF n = scanSummary THEN UNCHANGED <<scanSummary, rowRequestVersion, rowPage, currentParentID, trashedRowIDs>>
  ELSE /\ scanSummary' = n
       /\ rowRequestVersion' = Fresh(Held("rows"))
       /\ rowPage' = NoPage /\ currentParentID' = Root
       /\ trashedRowIDs' = {}

StopScanning == isScanning' = FALSE /\ polling' = FALSE

(* refreshScanStatus(), once answered: a summary not shown yet is a scan   *)
(* that finished; otherwise an empty slot is one that did not.             *)
StatusResumes(t) ==
  /\ IF t.ok /\ t.n \notin {None, scanSummary}
     THEN /\ AcceptScan(t.n) /\ StopScanning
          /\ EndAndBegin(t, Task("categoryBreakdown", t.n, Root, 0))
     ELSE /\ polling' = (polling /\ t.ok /\ t.busy)
          /\ isScanning' = (isScanning /\ (t.busy \/ ~t.ok))
          /\ End(t)
          /\ UNCHANGED <<scanSummary, rowRequestVersion, rowPage, currentParentID, trashedRowIDs>>
  /\ UNCHANGED <<service, generation, isLoadingRows, dialog, isMovingToTrash, confirmed, seen>>

(* handle(event:).  The dashboard is loaded by a Task of its own, for what *)
(* the summary is by then, even if the summary was shown before.           *)
EventArrives ==
  /\ seen < Len(told) /\ seen' = seen + 1
  /\ StopScanning
  /\ LET e == told[seen'] IN
       IF e[1] = "finished"
       THEN /\ AcceptScan(e[2])
            /\ Begin([Task("categoryBreakdown", None, Root, 0) EXCEPT !.at = "due"])
       ELSE UNCHANGED <<scanSummary, rowRequestVersion, rowPage, currentParentID, trashedRowIDs, tasks>>
  /\ UNCHANGED <<service, generation, isLoadingRows, dialog, isMovingToTrash, confirmed>>

-----------------------------------------------------------------------------
(* Browsing.                                                               *)

(* loadRows(), within a step that ends or begins tasks as `next` says.     *)
LoadRows(p) ==
  /\ Invalidate
  /\ rowRequestVersion' = Fresh(Held("rows"))
  /\ currentParentID' = p
  /\ isLoadingRows' = TRUE
  /\ UNCHANGED rowPage
RowsTask(p) == Task("rows", scanSummary, p, Fresh(Held("rows")))

LoadDashboard(t) ==
  /\ t.at = "due"
  /\ EndAndBegin(t, Task("categoryBreakdown", scanSummary, Root, 0))
  /\ UNCHANGED <<service, window>>

(* Mutant: no rows are asked for while some are still loading.             *)
DashboardResumesOnce(t) ==
  IF t.ok /\ scanSummary = t.scan /\ ~isLoadingRows
  THEN /\ LoadRows(Root) /\ EndAndBegin(t, RowsTask(Root))
       /\ UNCHANGED <<service, scanView, moving, seen>>
  ELSE End(t) /\ UNCHANGED <<service, window>>

(* The browser goes back to the root, and the dialog closes, whatever the  *)
(* user has done meanwhile.                                                *)
DashboardResumes(t) ==
  IF t.ok /\ scanSummary = t.scan
  THEN /\ LoadRows(Root) /\ EndAndBegin(t, RowsTask(Root))
       /\ UNCHANGED <<service, scanView, moving, seen>>
  ELSE End(t) /\ UNCHANGED <<service, window>>

(* Opening a folder or a crumb, sorting, paging, going back: all load rows.*)
(* The user is taken to browse from a page that is on screen.              *)
Browse(p) ==
  /\ Room("rows")
  /\ scanSummary # None /\ rowPage # NoPage
  /\ LoadRows(p) /\ Begin(RowsTask(p))
  /\ UNCHANGED <<service, scanView, moving, seen>>

(* Mutant: an answer is shown whichever place was asked for since.         *)
RowsResumeLate(t) ==
  /\ rowPage' = IF t.ok /\ scanSummary = t.scan THEN [scan |-> t.scan, parent |-> t.node] ELSE rowPage
  /\ isLoadingRows' = (isLoadingRows /\ t.version # rowRequestVersion)
  /\ End(t)
  /\ UNCHANGED <<service, scanView, currentParentID, rowRequestVersion, dialog, moving, seen>>

RowsResume(t) ==
  /\ rowPage' = IF t.ok /\ t.version = rowRequestVersion /\ scanSummary = t.scan
                THEN [scan |-> t.scan, parent |-> t.node] ELSE rowPage
  /\ isLoadingRows' = (isLoadingRows /\ t.version # rowRequestVersion)
  /\ End(t)
  /\ UNCHANGED <<service, scanView, currentParentID, rowRequestVersion, dialog, moving, seen>>

-----------------------------------------------------------------------------
(* The Trash dialog.                                                       *)
CanMoveToTrash(n) ==
  /\ ~isScanning /\ ~isLoadingRows /\ ~isPreparingTrash /\ ~isMovingToTrash
  /\ trashPreparation = NoPreparation
  /\ n \notin trashedRowIDs

(* The menu of a row on screen.                                            *)
PrepareTrash(n) ==
  /\ Room("prepareTrash")
  /\ rowPage # NoPage /\ CanMoveToTrash(n)
  /\ trashPendingRowID' = n
  /\ trashRequestVersion' = Fresh(Held("prepareTrash"))
  /\ isPreparingTrash' = TRUE
  /\ Begin(Task("prepareTrash", scanSummary, n, trashRequestVersion'))
  /\ UNCHANGED <<service, scanView, rowView, trashPreparation, moving, seen>>

(* Mutant: an answer opens the dialog whatever was selected since.         *)
PrepareResumesLate(t) ==
  /\ IF t.ok /\ scanSummary = t.scan
     THEN trashPreparation' = [token |-> t.n, scan |-> t.scan, node |-> t.node] /\ UNCHANGED trashPendingRowID
     ELSE trashPendingRowID' = NoNode /\ UNCHANGED trashPreparation
  /\ isPreparingTrash' = FALSE
  /\ End(t)
  /\ UNCHANGED <<service, scanView, rowView, trashRequestVersion, moving, seen>>

PrepareResumes(t) ==
  /\ IF t.version # trashRequestVersion THEN UNCHANGED dialog
     ELSE /\ IF t.ok /\ scanSummary = t.scan
             THEN /\ trashPreparation' = [token |-> t.n, scan |-> t.scan, node |-> t.node]
                  /\ UNCHANGED trashPendingRowID
             ELSE trashPendingRowID' = NoNode /\ UNCHANGED trashPreparation
          /\ isPreparingTrash' = FALSE
          /\ UNCHANGED trashRequestVersion
  /\ End(t)
  /\ UNCHANGED <<service, scanView, rowView, moving, seen>>

CancelTrashConfirmation ==
  /\ trashPreparation # NoPreparation
  /\ Invalidate
  /\ UNCHANGED <<service, tasks, scanView, rowView, moving, seen>>

ConfirmTrash ==
  /\ Cardinality(confirmed) < MaxConfirms
  /\ trashPreparation # NoPreparation /\ trashPendingRowID # NoNode
  /\ Begin(Task("confirmTrash", scanSummary, trashPendingRowID, trashPreparation.token))
  /\ confirmed' = confirmed \cup {<<trashPreparation.scan, trashPreparation.node>>}
  /\ trashPreparation' = NoPreparation /\ trashPendingRowID' = NoNode
  /\ isMovingToTrash' = TRUE
  /\ UNCHANGED <<service, scanView, rowView, isPreparingTrash, trashRequestVersion, trashedRowIDs, seen>>

ConfirmResumes(t) ==
  /\ isMovingToTrash' = FALSE
  /\ trashedRowIDs' = IF t.ok /\ scanSummary = t.scan THEN trashedRowIDs \cup {t.node} ELSE trashedRowIDs
  /\ End(t)
  /\ UNCHANGED <<service, scanView, rowView, dialog, confirmed, seen>>

-----------------------------------------------------------------------------
Resume(t) ==
  CASE t.what = "startScan" -> StartResumes(t)
    [] t.what = "scanStatus" -> StatusResumes(t)
    [] t.what = "rows" -> RowsResume(t)
    [] t.what = "categoryBreakdown" -> DashboardResumes(t)
    [] t.what = "prepareTrash" -> PrepareResumes(t)
    [] t.what = "confirmTrash" -> ConfirmResumes(t)

TaskStep(what) ==
  \/ \E t \in InFlight(what, "asked") : Serve(t)
  \/ \E t \in InFlight(what, "answered") : Resume(t)
  \/ \E t \in InFlight(what, "due") : LoadDashboard(t)

UserStep ==
  \/ Scan \/ CancelTrashConfirmation \/ ConfirmTrash
  \/ \E p \in Places : Browse(p)
  \/ \E n \in Nodes : PrepareTrash(n)

Next ==
  \/ \E what \in Ops : TaskStep(what)
  \/ Poll \/ EventArrives \/ UserStep
  \/ ScanEnds \/ Tell

Spec == Init /\ [][Next /\ UNCHANGED load]_<<vars, load>>

(* The service's threads, the main actor and the polling timer run, and    *)
(* none of these kinds of work starves another.  The user and the          *)
(* backend's walk are not obliged.                                         *)
FairSpec ==
  /\ Spec
  /\ WF_vars(TaskStep("startScan"))
  /\ WF_vars(Poll \/ TaskStep("scanStatus"))
  /\ WF_vars(\E what \in Ops \ {"startScan", "scanStatus"} : TaskStep(what))
  /\ WF_vars(EventArrives \/ Tell)

-----------------------------------------------------------------------------
(* The rows on screen are of the scan whose totals are beside them: "Scan  *)
(* ids remain mandatory, and history/selection reset when the replacement  *)
(* is accepted." (docs/adr/0033:28-29).  And once nothing is loading, they *)
(* are those of the place asked for last, however the answers were         *)
(* reordered; unless the service is at a scan the window has not heard of. *)
PageIsWhereAsked ==
  rowPage # NoPage =>
    /\ rowPage.scan = scanSummary
    /\ ~isLoadingRows /\ scanSummary = result => rowPage.parent = currentParentID

(* The dialog names the row that was selected for it last.                 *)
DialogNamesItsRow == trashPreparation # NoPreparation => trashPreparation.node = trashPendingRowID

(* Nothing is moved that no dialog named: a confirmation whose token was   *)
(* replaced meanwhile moves nothing, not the item of the newer one.        *)
MovesAreConfirmed == moved \subseteq confirmed

(* The Trash menu is not blocked by a request that was given up: what is   *)
(* shown as under way still has a Task that will end it.                   *)
WorkIsUnderWay ==
  /\ isPreparingTrash => trashRequestVersion \in Held("prepareTrash")
  /\ isMovingToTrash => Held("confirmTrash") # {}

(* The window does not go on scanning when no scan is left, whichever of   *)
(* the answer to the start, the poll and the event comes last or never.    *)
ScanningEnds ==
  isScanning /\ active = None /\ InFlight("startScan", "asked") \cup InFlight("startScan", "answered") = {}
    ~> ~isScanning

(* Rows that are loading end loading, provided the window comes to show    *)
(* the service's snapshot and stays with it.                               *)
RowsSettle == <>[](scanSummary = result) => (isLoadingRows ~> ~isLoadingRows)
=============================================================================
