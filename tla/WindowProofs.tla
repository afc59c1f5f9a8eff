---------------------------- MODULE WindowProofs ----------------------------
(***************************************************************************)
(* Proofs about Window, for any rows, scans, loads and number of dialogs:  *)
(* whatever order requests are served and their Tasks resume in, the page  *)
(* is of the place asked for last, the dialog names its row, nothing is    *)
(* moved that no dialog named, and nothing that is shown as under way has  *)
(* lost the Task that ends it.                                             *)
(***************************************************************************)
EXTENDS Window, FiniteSetTheorems, TLAPS

Reads == {"scanStatus", "rows", "categoryBreakdown"}
Rows == Nodes \cup {Root, NoNode}
TaskType ==
  [what : Ops, scan : Nat, node : Rows, version : Nat, at : {"due", "asked", "answered"},
   ok : BOOLEAN, busy : BOOLEAN, n : Nat]
Preparation == [token : Nat, scan : Nat, node : Rows]

TasksOK ==
  /\ IsABag(tasks) /\ BagToSet(tasks) \subseteq TaskType /\ IsFiniteSet(BagToSet(tasks))
  /\ \A t \in BagToSet(tasks) : t.at = "due" => t.what = "categoryBreakdown"

ScansOK ==
  /\ active \in Nat /\ result \in Nat /\ nextId \in Nat
  /\ owed \subseteq {"finished", "failed"} \X Nat /\ told \in Seq({"finished", "failed"} \X Nat)

ScreenOK ==
  /\ scanSummary \in Nat /\ isScanning \in BOOLEAN /\ polling \in BOOLEAN /\ generation \in Nat
  /\ rowPage \in [scan : Nat, parent : Rows] /\ currentParentID \in Rows
  /\ isLoadingRows \in BOOLEAN /\ rowRequestVersion \in Nat /\ seen \in Nat

DialogOK ==
  /\ pending \in Preparation /\ trashPreparation \in Preparation /\ trashPendingRowID \in Rows
  /\ isPreparingTrash \in BOOLEAN /\ isMovingToTrash \in BOOLEAN /\ trashRequestVersion \in Nat
  /\ moved \subseteq Nat \X Rows /\ confirmed \subseteq Nat \X Rows /\ trashedRowIDs \subseteq Rows

TypeOK == TasksOK /\ ScansOK /\ ScreenOK /\ DialogOK

(* The snapshot is replaced by newer scans only, and a scan is reported as *)
(* finished no earlier than it is the snapshot.                            *)
SnapshotIsNewest ==
  /\ active <= nextId /\ result <= nextId /\ (active # None => result < active)
  /\ \A e \in owed : e[1] = "finished" => e[2] <= result
  /\ \A i \in DOMAIN told : told[i][1] = "finished" => told[i][2] <= result

(* No part of the window knows of a scan that was not the snapshot before. *)
SummariesArePast ==
  /\ scanSummary <= result
  /\ \A t \in BagToSet(tasks) : t.scan <= result /\ (t.what = "scanStatus" => t.n <= result)

Of(what) == {t \in BagToSet(tasks) : t.what = what}

(* The rows asked for last are those of the place and scan on screen, and  *)
(* a refused request was for a scan that is replaced for good.             *)
RowsAreCurrent ==
  \A t \in Of("rows") :
    /\ t.version = rowRequestVersion => t.scan = scanSummary /\ t.node = currentParentID
    /\ t.at = "answered" /\ ~t.ok => t.scan < result

(* A preparation has a version of its own, and the one of the current      *)
(* version, if any, is what the screen shows as under way.                 *)
VersionsAreApart ==
  \A t \in Of("prepareTrash") :
    tasks[t] = 1 /\ \A u \in Of("prepareTrash") : t.version = u.version => t = u

PreparationIsShown ==
  \A t \in Of("prepareTrash") :
    t.version = trashRequestVersion =>
      isPreparingTrash /\ t.node = trashPendingRowID /\ trashPreparation = NoPreparation

(* Whoever holds the service's current token holds it for what the service *)
(* has under it.                                                           *)
TokensAreShown ==
  /\ trashPreparation # NoPreparation =>
       trashPreparation.token # 0 /\ (pending.token = trashPreparation.token => pending = trashPreparation)
  /\ \A t \in Of("prepareTrash") :
       t.at = "answered" /\ t.ok =>
         t.n # 0 /\ (pending.token = t.n => pending = [token |-> t.n, scan |-> t.scan, node |-> t.node])
  /\ \A t \in Of("confirmTrash") :
       t.version # 0 /\ (pending.token = t.version => <<pending.scan, pending.node>> \in confirmed)

WindowInv ==
  /\ TypeOK /\ SnapshotIsNewest /\ SummariesArePast /\ RowsAreCurrent /\ PageIsWhereAsked
  /\ VersionsAreApart /\ PreparationIsShown /\ DialogNamesItsRow /\ WorkIsUnderWay
  /\ TokensAreShown /\ MovesAreConfirmed

-----------------------------------------------------------------------------
(* The steps of Window, one by one.                                        *)
StepKinds ==
  \/ \E t \in InFlight("startScan", "asked") : ServeStart(t)
  \/ \E t \in InFlight("prepareTrash", "asked") : ServePrepare(t)
  \/ \E t \in InFlight("confirmTrash", "asked") : ServeConfirm(t)
  \/ \E what \in Reads : \E t \in InFlight(what, "asked") : ServeRead(t)
  \/ \E t \in InFlight("startScan", "answered") : StartResumes(t)
  \/ \E t \in InFlight("scanStatus", "answered") : StatusResumes(t)
  \/ \E t \in InFlight("rows", "answered") : RowsResume(t)
  \/ \E t \in InFlight("categoryBreakdown", "answered") : DashboardResumes(t)
  \/ \E t \in InFlight("prepareTrash", "answered") : PrepareResumes(t)
  \/ \E t \in InFlight("confirmTrash", "answered") : ConfirmResumes(t)
  \/ \E what \in Ops : \E t \in InFlight(what, "due") : LoadDashboard(t)
  \/ Poll
  \/ EventArrives
  \/ Scan
  \/ CancelTrashConfirmation
  \/ ConfirmTrash
  \/ \E p \in Places : Browse(p)
  \/ \E n \in Nodes : PrepareTrash(n)
  \/ ScanEnds
  \/ Tell
  \/ UNCHANGED vars

(* The kinds of steps the window and the service take.                     *)
LEMMA StepsAre ==
  ASSUME [Next /\ UNCHANGED load]_<<vars, load>>
  PROVE  StepKinds
<1>1. ASSUME NEW what \in Ops, NEW t \in InFlight(what, "asked"), Serve(t) PROVE StepKinds
  <2>1. t.what = what
    BY DEF InFlight
  <2> QED BY <1>1, <2>1 DEF Serve, StepKinds, Ops, Reads
<1>2. ASSUME NEW what \in Ops, NEW t \in InFlight(what, "answered"), Resume(t) PROVE StepKinds
  <2>1. t.what = what
    BY DEF InFlight
  <2> QED BY <1>2, <2>1 DEF Resume, StepKinds, Ops
<1>3. ASSUME NEW what \in Ops, NEW t \in InFlight(what, "due"), LoadDashboard(t) PROVE StepKinds
  BY <1>3 DEF StepKinds
<1>4. ASSUME UserStep PROVE StepKinds
  BY <1>4 DEF UserStep, StepKinds
<1>5. CASE Next
  BY <1>1, <1>2, <1>3, <1>4, <1>5 DEF Next, TaskStep, StepKinds
<1>6. CASE UNCHANGED <<vars, load>>
  BY <1>6 DEF StepKinds
<1> QED BY <1>5, <1>6

(* A number that a finite set does not hold.                               *)
LEMMA FreshIsFresh ==
  ASSUME NEW held, IsFiniteSet(held)
  PROVE  Fresh(held) \in Nat /\ Fresh(held) \notin held
<1> DEFINE n == Cardinality(held)
<1>1. n \in Nat
  BY FS_CardinalityType
<1>2. IsFiniteSet(0..n) /\ Cardinality(0..n) = n + 1
  BY <1>1, FS_Interval
<1>3. \E v \in 0..n : v \notin held
  <2> SUFFICES ASSUME 0..n \subseteq held PROVE FALSE
    OBVIOUS
  <2>1. Cardinality(0..n) <= n
    BY FS_Subset
  <2> QED BY <1>1, <1>2, <2>1
<1>4. Fresh(held) \in 0..n /\ Fresh(held) \notin held
  BY <1>3 DEF Fresh
<1> QED BY <1>1, <1>4

(* A bag with one more, or one fewer, of an element.                       *)
LEMMA Added ==
  ASSUME NEW B, IsABag(B), NEW x
  PROVE  LET A == B (+) SetToBag({x})
         IN  /\ IsABag(A) /\ DOMAIN A = DOMAIN B \cup {x}
             /\ \A y \in DOMAIN B : y # x => A[y] = B[y]
             /\ x \notin DOMAIN B => A[x] = 1
BY DEF IsABag, SetToBag, (+)

(* The same with one fewer.                                                *)
LEMMA Removed ==
  ASSUME NEW B, IsABag(B), NEW x
  PROVE  LET A == B (-) SetToBag({x})
         IN  /\ IsABag(A) /\ DOMAIN A \subseteq DOMAIN B /\ DOMAIN B \ {x} \subseteq DOMAIN A
             /\ \A y \in DOMAIN A : y # x => A[y] = B[y]
             /\ x \in DOMAIN B /\ B[x] = 1 => x \notin DOMAIN A
BY DEF IsABag, SetToBag, (-)

(* What becomes of the Tasks, when one begins, ends, or makes way for      *)
(* another: those of other kinds are the same.                             *)
Kept(what) == Of(what)' = Of(what) /\ \A y \in Of(what) : tasks'[y] = tasks[y]

Begun(u) ==
  /\ IsABag(tasks)' /\ BagToSet(tasks)' = BagToSet(tasks) \cup {u}
  /\ \A y \in BagToSet(tasks) : y # u => tasks'[y] = tasks[y]
  /\ u \notin BagToSet(tasks) => tasks'[u] = 1
  /\ \A what : what # u.what => Kept(what)

Ended(t) ==
  /\ IsABag(tasks)' /\ BagToSet(tasks)' \subseteq BagToSet(tasks) /\ BagToSet(tasks) \ {t} \subseteq BagToSet(tasks)'
  /\ \A y \in BagToSet(tasks)' : y # t => tasks'[y] = tasks[y]
  /\ tasks[t] = 1 => t \notin BagToSet(tasks)'
  /\ \A what : what # t.what => Kept(what)

Replaced(t, u) ==
  /\ IsABag(tasks)' /\ BagToSet(tasks)' \subseteq BagToSet(tasks) \cup {u}
  /\ BagToSet(tasks) \ {t} \subseteq BagToSet(tasks)' /\ u \in BagToSet(tasks)'
  /\ \A y \in BagToSet(tasks)' : y # t /\ y # u => tasks'[y] = tasks[y]
  /\ tasks[t] = 1 /\ u # t => t \notin BagToSet(tasks)'
  /\ u # t /\ u \notin BagToSet(tasks) => tasks'[u] = 1
  /\ \A what : what # t.what /\ what # u.what => Kept(what)

(* A Task that begins is one more in the bag.                              *)
LEMMA BeginFacts ==
  ASSUME TasksOK, NEW u, Begin(u)
  PROVE  Begun(u)
<1>1. /\ IsABag(tasks') /\ DOMAIN tasks' = DOMAIN tasks \cup {u}
      /\ \A y \in DOMAIN tasks : y # u => tasks'[y] = tasks[y]
      /\ u \notin DOMAIN tasks => tasks'[u] = 1
  BY Added DEF Begin, TasksOK
<1>2. \A what : what # u.what => Kept(what)
  BY <1>1 DEF Kept, Of, BagToSet
<1> QED BY <1>1, <1>2 DEF Begun, BagToSet, IsABag

(* A Task that ends is one fewer.                                          *)
LEMMA EndFacts ==
  ASSUME TasksOK, NEW t \in BagToSet(tasks), End(t)
  PROVE  Ended(t)
<1>1. /\ IsABag(tasks') /\ DOMAIN tasks' \subseteq DOMAIN tasks /\ DOMAIN tasks \ {t} \subseteq DOMAIN tasks'
      /\ \A y \in DOMAIN tasks' : y # t => tasks'[y] = tasks[y]
      /\ tasks[t] = 1 => t \notin DOMAIN tasks'
  BY Removed DEF End, TasksOK, BagToSet
<1>2. \A what : what # t.what => Kept(what)
  BY <1>1 DEF Kept, Of, BagToSet
<1> QED BY <1>1, <1>2 DEF Ended, BagToSet, IsABag

(* One that ends and begins another replaces it.                           *)
LEMMA EndAndBeginFacts ==
  ASSUME TasksOK, NEW t \in BagToSet(tasks), NEW u, EndAndBegin(t, u)
  PROVE  Replaced(t, u)
<1> DEFINE B == tasks (-) SetToBag({t})
<1>1. /\ IsABag(B) /\ DOMAIN B \subseteq DOMAIN tasks /\ DOMAIN tasks \ {t} \subseteq DOMAIN B
      /\ \A y \in DOMAIN B : y # t => B[y] = tasks[y]
      /\ tasks[t] = 1 => t \notin DOMAIN B
  BY Removed DEF BagToSet, TasksOK
<1>2. tasks' = B (+) SetToBag({u})
  BY DEF EndAndBegin
<1> HIDE DEF B
<1>3. /\ IsABag(tasks') /\ DOMAIN tasks' = DOMAIN B \cup {u}
      /\ \A y \in DOMAIN B : y # u => tasks'[y] = B[y]
      /\ u \notin DOMAIN B => tasks'[u] = 1
  <2> DEFINE A == B (+) SetToBag({u})
  <2>1. /\ IsABag(A) /\ DOMAIN A = DOMAIN B \cup {u}
        /\ \A y \in DOMAIN B : y # u => A[y] = B[y]
        /\ u \notin DOMAIN B => A[u] = 1
    BY <1>1, Added
  <2>2. tasks' = A
    BY <1>2
  <2> HIDE DEF A
  <2> QED BY <2>1, <2>2
<1>4. \A what : what # t.what /\ what # u.what => Kept(what)
  BY <1>1, <1>3 DEF Kept, Of, BagToSet
<1> QED BY <1>1, <1>3, <1>4 DEF Replaced, BagToSet, IsABag

(* An answer makes way for nothing but the Task itself, answered.          *)
Answered(t, ok, busy, n) == [t EXCEPT !.at = "answered", !.ok = ok, !.busy = busy, !.n = n]

(* An answer replaces the request by its answered form.                    *)
LEMMA AnswerFacts ==
  ASSUME TasksOK, NEW what, NEW t \in InFlight(what, "asked"), NEW ok \in BOOLEAN, NEW busy \in BOOLEAN,
         NEW n \in Nat, Answer(t, ok, busy, n)
  PROVE  /\ t \in Of(what) /\ Replaced(t, Answered(t, ok, busy, n))
         /\ Answered(t, ok, busy, n) \in TaskType /\ Answered(t, ok, busy, n) # t
         /\ Answered(t, ok, busy, n).what = what /\ Answered(t, ok, busy, n).scan = t.scan
         /\ Answered(t, ok, busy, n).node = t.node /\ Answered(t, ok, busy, n).version = t.version
         /\ Answered(t, ok, busy, n).at = "answered" /\ Answered(t, ok, busy, n).ok = ok
         /\ Answered(t, ok, busy, n).n = n
<1>1. t \in BagToSet(tasks) /\ t \in TaskType /\ t.what = what /\ t.at = "asked" /\ t \in Of(what)
  BY DEF InFlight, TasksOK, Of
<1>2. EndAndBegin(t, Answered(t, ok, busy, n))
  BY DEF Answer, Answered
<1>3. Replaced(t, Answered(t, ok, busy, n))
  BY <1>1, <1>2, EndAndBeginFacts
<1> QED BY <1>1, <1>3 DEF Answered, TaskType

(* Versions and tokens that something holds are finitely many.             *)
LEMMA HeldIsFinite ==
  ASSUME TasksOK
  PROVE  \A what : IsFiniteSet(Held(what))
<1> SUFFICES ASSUME NEW what PROVE IsFiniteSet(Held(what))
  OBVIOUS
<1> DEFINE f == [t \in Of(what) |-> t.version]
<1>1. IsFiniteSet(Of(what))
  <2>1. Of(what) \in SUBSET BagToSet(tasks)
    BY DEF Of
  <2> QED BY <2>1, FS_Subset DEF TasksOK
<1>2. f \in Surjection(Of(what), Held(what))
  BY DEF Surjection, Held, Of
<1> QED BY <1>1, <1>2, FS_Surjection

(* The same of tokens.                                                     *)
LEMMA TokensAreFinite ==
  ASSUME TasksOK
  PROVE  IsFiniteSet(TokensHeld)
<1> DEFINE S == InFlight("prepareTrash", "answered")
           T == {t.n : t \in S}
           f == [t \in S |-> t.n]
<1>1. IsFiniteSet(S)
  <2>1. S \in SUBSET BagToSet(tasks)
    BY DEF InFlight
  <2> HIDE DEF S
  <2> QED BY <2>1, FS_Subset DEF TasksOK
<1>2. f \in Surjection(S, T)
  BY DEF Surjection
<1>3. IsFiniteSet(T)
  BY <1>1, <1>2, FS_Surjection
<1>4. IsFiniteSet({0, pending.token, trashPreparation.token})
  <2>1. IsFiniteSet({} \cup {0})
    BY FS_EmptySet, FS_AddElement
  <2>2. IsFiniteSet(({} \cup {0}) \cup {pending.token})
    BY <2>1, FS_AddElement
  <2>3. IsFiniteSet((({} \cup {0}) \cup {pending.token}) \cup {trashPreparation.token})
    BY <2>2, FS_AddElement
  <2>4. (({} \cup {0}) \cup {pending.token}) \cup {trashPreparation.token} = {0, pending.token, trashPreparation.token}
    OBVIOUS
  <2> QED BY <2>3, <2>4
<1> QED BY <1>3, <1>4, HeldIsFinite, FS_Union DEF TokensHeld

(* A version asked for now is held by no Task.                             *)
LEMMA FreshVersion ==
  ASSUME TasksOK, NEW what
  PROVE  Fresh(Held(what)) \in Nat /\ \A t \in Of(what) : t.version # Fresh(Held(what))
<1>1. Fresh(Held(what)) \in Nat /\ Fresh(Held(what)) \notin Held(what)
  BY HeldIsFinite, FreshIsFresh
<1> QED BY <1>1 DEF Held, Of

(* A token made now is held by nothing.                                    *)
LEMMA FreshToken ==
  ASSUME TasksOK
  PROVE  /\ Fresh(TokensHeld) \in Nat /\ Fresh(TokensHeld) # 0
         /\ Fresh(TokensHeld) # trashPreparation.token
         /\ \A t \in Of("confirmTrash") : t.version # Fresh(TokensHeld)
         /\ \A t \in Of("prepareTrash") : t.at = "answered" => t.n # Fresh(TokensHeld)
<1>1. Fresh(TokensHeld) \in Nat /\ Fresh(TokensHeld) \notin TokensHeld
  BY TokensAreFinite, FreshIsFresh
<1> QED BY <1>1 DEF TokensHeld, Held, Of, InFlight

-----------------------------------------------------------------------------
(* Types.                                                                  *)
LEMMA TaskTypes ==
  ASSUME NEW what \in Ops, NEW scan \in Nat, NEW node \in Rows, NEW version \in Nat
  PROVE  /\ Task(what, scan, node, version) \in TaskType
         /\ Task(what, scan, node, version).what = what /\ Task(what, scan, node, version).scan = scan
         /\ Task(what, scan, node, version).node = node /\ Task(what, scan, node, version).version = version
         /\ Task(what, scan, node, version).at = "asked" /\ Task(what, scan, node, version).n = 0
BY DEF Task, TaskType

(* A request in flight is a Task of its kind.                              *)
LEMMA AskedIsATask ==
  ASSUME TasksOK, NEW what, NEW at, NEW t \in InFlight(what, at)
  PROVE  /\ t \in BagToSet(tasks) /\ t \in TaskType /\ t \in Of(what) /\ t.what = what /\ t.at = at
         /\ t.scan \in Nat /\ t.node \in Rows /\ t.version \in Nat /\ t.n \in Nat
         /\ t.ok \in BOOLEAN /\ t.busy \in BOOLEAN
BY DEF InFlight, TasksOK, Of, TaskType

(* The constants that stand for nothing have the types of what they stand  *)
(* in for.                                                                 *)
LEMMA PlaceTypes ==
  /\ Root \in Rows /\ NoNode \in Rows /\ Places \subseteq Rows /\ Nodes \subseteq Rows
  /\ NoPage \in [scan : Nat, parent : Rows] /\ NoPreparation \in Preparation
  /\ None \in Nat
BY WindowBounds DEF Rows, Places, NoPage, NoPreparation, Preparation, None

(* The operations that are named.                                          *)
LEMMA OpsAre ==
  /\ "startScan" \in Ops /\ "scanStatus" \in Ops /\ "rows" \in Ops
  /\ "categoryBreakdown" \in Ops /\ "prepareTrash" \in Ops /\ "confirmTrash" \in Ops
BY DEF Ops

(* The Tasks that follow one another.                                      *)
LEMMA NextTasks ==
  ASSUME ScreenOK, TasksOK, NEW k \in Nat, NEW p \in Rows
  PROVE  /\ Task("categoryBreakdown", k, Root, 0) \in TaskType
         /\ Task("categoryBreakdown", k, Root, 0).at = "asked"
         /\ Task("categoryBreakdown", k, Root, 0).what = "categoryBreakdown"
         /\ Task("categoryBreakdown", k, Root, 0).scan = k
         /\ RowsTask(p) \in TaskType /\ RowsTask(p).at = "asked" /\ RowsTask(p).what = "rows"
         /\ RowsTask(p).scan = scanSummary /\ RowsTask(p).node = p
         /\ RowsTask(p).version = Fresh(Held("rows"))
<1>1. scanSummary \in Nat /\ Fresh(Held("rows")) \in Nat
  BY FreshVersion DEF ScreenOK
<1>2. Task("categoryBreakdown", k, Root, 0) \in TaskType
  BY PlaceTypes, OpsAre DEF Task, TaskType
<1>3. RowsTask(p) \in TaskType
  BY <1>1, PlaceTypes, OpsAre DEF RowsTask, Task, TaskType
<1>4. /\ RowsTask(p).at = "asked" /\ RowsTask(p).what = "rows"
      /\ RowsTask(p).scan = scanSummary /\ RowsTask(p).node = p
      /\ RowsTask(p).version = Fresh(Held("rows"))
  BY DEF RowsTask, Task
<1> QED BY <1>2, <1>3, <1>4 DEF Task

(* The bag of Tasks stays one when a Task begins,                          *)
LEMMA BeginOK ==
  ASSUME TasksOK, NEW u \in TaskType, u.at = "due" => u.what = "categoryBreakdown", Begin(u)
  PROVE  TasksOK'
<1>1. BagToSet(tasks)' = BagToSet(tasks) \cup {u}
  BY BeginFacts DEF Begun
<1>2. IsFiniteSet(BagToSet(tasks)')
  BY <1>1, FS_AddElement DEF TasksOK
<1>3. IsABag(tasks)'
  BY BeginFacts DEF Begun
<1> QED BY <1>1, <1>2, <1>3 DEF TasksOK

(* ... when a Task ends,                                                   *)
LEMMA EndOK ==
  ASSUME TasksOK, NEW t \in BagToSet(tasks), End(t)
  PROVE  TasksOK'
<1>1. BagToSet(tasks)' \subseteq BagToSet(tasks)
  BY EndFacts DEF Ended
<1>2. IsFiniteSet(BagToSet(tasks)')
  BY <1>1, FS_Subset DEF TasksOK
<1>3. IsABag(tasks)'
  BY EndFacts DEF Ended
<1> QED BY <1>1, <1>2, <1>3 DEF TasksOK

(* ... when one replaces another,                                          *)
LEMMA ReplaceOK ==
  ASSUME TasksOK, NEW t, NEW u \in TaskType, u.at = "due" => u.what = "categoryBreakdown", Replaced(t, u)
  PROVE  TasksOK'
<1>1. BagToSet(tasks)' \subseteq BagToSet(tasks) \cup {u}
  BY DEF Replaced
<1>2. IsFiniteSet(BagToSet(tasks) \cup {u})
  BY FS_AddElement DEF TasksOK
<1>3. IsFiniteSet(BagToSet(tasks)')
  BY <1>1, <1>2, FS_Subset
<1> QED BY <1>1, <1>3 DEF TasksOK, Replaced

(* ... and when one is answered.                                           *)
LEMMA AnswerOK ==
  ASSUME TasksOK, NEW what, NEW t \in InFlight(what, "asked"), NEW ok \in BOOLEAN, NEW busy \in BOOLEAN,
         NEW n \in Nat, Answer(t, ok, busy, n)
  PROVE  TasksOK'
BY AnswerFacts, ReplaceOK

(* What a prepareTrash request comes to.                                   *)
LEMMA PrepareServed ==
  ASSUME NEW t, ServePrepare(t)
  PROVE  \/ /\ Answer(t, TRUE, FALSE, Fresh(TokensHeld))
            /\ pending' = [token |-> Fresh(TokensHeld), scan |-> t.scan, node |-> t.node]
         \/ Answer(t, FALSE, FALSE, 0) /\ UNCHANGED pending
<1>1. CASE /\ pending' = [token |-> Fresh(TokensHeld), scan |-> t.scan, node |-> t.node]
           /\ Answer(t, TRUE, FALSE, pending'.token)
  <2>1. pending'.token = Fresh(TokensHeld)
    BY <1>1
  <2>2. Answer(t, TRUE, FALSE, Fresh(TokensHeld))
    BY <1>1, <2>1 DEF Answer, EndAndBegin
  <2> QED BY <1>1, <2>2
<1>2. CASE Answer(t, FALSE, FALSE, 0) /\ UNCHANGED pending
  BY <1>2
<1> QED BY <1>1, <1>2 DEF ServePrepare

(* The bag stays a bag of Tasks.                                           *)
LEMMA TasksStep ==
  ASSUME TypeOK, StepKinds
  PROVE  TasksOK'
<1> USE DEF TypeOK
<1>1. ASSUME NEW t \in InFlight("startScan", "asked"), ServeStart(t) PROVE TasksOK'
  BY <1>1, AnswerOK DEF ServeStart
<1>2. ASSUME NEW t \in InFlight("prepareTrash", "asked"), ServePrepare(t) PROVE TasksOK'
  <2>1. Fresh(TokensHeld) \in Nat
    BY FreshToken
  <2>2. Answer(t, TRUE, FALSE, Fresh(TokensHeld)) \/ Answer(t, FALSE, FALSE, 0)
    BY <1>2, PrepareServed
  <2> QED BY <2>1, <2>2, AnswerOK
<1>3. ASSUME NEW t \in InFlight("confirmTrash", "asked"), ServeConfirm(t) PROVE TasksOK'
  BY <1>3, AnswerOK DEF ServeConfirm
<1>4. ASSUME NEW what \in Reads, NEW t \in InFlight(what, "asked"), ServeRead(t) PROVE TasksOK'
  <2>1. result \in Nat /\ (active # None) \in BOOLEAN /\ (result = t.scan) \in BOOLEAN
    BY DEF ScansOK
  <2>2. CASE t.what = "scanStatus"
    BY <1>4, <2>1, <2>2, AnswerOK DEF ServeRead
  <2>3. CASE t.what # "scanStatus"
    BY <1>4, <2>1, <2>3, AnswerOK DEF ServeRead
  <2> QED BY <2>2, <2>3
<1>5. ASSUME NEW t \in InFlight("startScan", "answered"), StartResumes(t) PROVE TasksOK'
  <2>1. t \in BagToSet(tasks) /\ End(t)
    BY <1>5, AskedIsATask DEF StartResumes
  <2> QED BY <2>1, EndOK
<1>6. ASSUME NEW t \in InFlight("scanStatus", "answered"), StatusResumes(t) PROVE TasksOK'
  <2> DEFINE u == Task("categoryBreakdown", t.n, Root, 0)
  <2>1. t \in BagToSet(tasks) /\ t.n \in Nat
    BY <1>6, AskedIsATask
  <2>2. u \in TaskType /\ u.at = "asked"
    BY <2>1, PlaceTypes, NextTasks, OpsAre DEF ScreenOK, DialogOK, ScansOK
  <2>3. EndAndBegin(t, u) \/ End(t)
    BY <1>6 DEF StatusResumes
  <2> HIDE DEF u
  <2>4. CASE EndAndBegin(t, u)
    BY <2>1, <2>2, <2>4, EndAndBeginFacts, ReplaceOK
  <2>5. CASE End(t)
    BY <2>1, <2>5, EndOK
  <2> QED BY <2>3, <2>4, <2>5
<1>7. ASSUME NEW t \in InFlight("rows", "answered"), RowsResume(t) PROVE TasksOK'
  <2>1. t \in BagToSet(tasks) /\ End(t)
    BY <1>7, AskedIsATask DEF RowsResume
  <2> QED BY <2>1, EndOK
<1>8. ASSUME NEW t \in InFlight("categoryBreakdown", "answered"), DashboardResumes(t) PROVE TasksOK'
  <2> DEFINE u == RowsTask(Root)
  <2>1. t \in BagToSet(tasks) /\ t.n \in Nat
    BY <1>8, AskedIsATask
  <2>2. u \in TaskType /\ u.at = "asked"
    BY <2>1, PlaceTypes, NextTasks, OpsAre DEF RowsTask, ScreenOK, DialogOK, ScansOK
  <2>3. EndAndBegin(t, u) \/ End(t)
    BY <1>8 DEF DashboardResumes
  <2> HIDE DEF u
  <2>4. CASE EndAndBegin(t, u)
    BY <2>1, <2>2, <2>4, EndAndBeginFacts, ReplaceOK
  <2>5. CASE End(t)
    BY <2>1, <2>5, EndOK
  <2> QED BY <2>3, <2>4, <2>5
<1>9. ASSUME NEW t \in InFlight("prepareTrash", "answered"), PrepareResumes(t) PROVE TasksOK'
  <2>1. t \in BagToSet(tasks) /\ End(t)
    BY <1>9, AskedIsATask DEF PrepareResumes
  <2> QED BY <2>1, EndOK
<1>10. ASSUME NEW t \in InFlight("confirmTrash", "answered"), ConfirmResumes(t) PROVE TasksOK'
  <2>1. t \in BagToSet(tasks) /\ End(t)
    BY <1>10, AskedIsATask DEF ConfirmResumes
  <2> QED BY <2>1, EndOK
<1>11. ASSUME NEW what \in Ops, NEW t \in InFlight(what, "due"), LoadDashboard(t) PROVE TasksOK'
  <2> DEFINE u == Task("categoryBreakdown", scanSummary, Root, 0)
  <2>1. t \in BagToSet(tasks) /\ t.n \in Nat
    BY <1>11, AskedIsATask
  <2>2. u \in TaskType /\ u.at = "asked"
    BY <2>1, PlaceTypes, NextTasks, OpsAre DEF ScreenOK, DialogOK, ScansOK
  <2>3. EndAndBegin(t, u) \/ End(t)
    BY <1>11 DEF LoadDashboard
  <2> HIDE DEF u
  <2>4. CASE EndAndBegin(t, u)
    BY <2>1, <2>2, <2>4, EndAndBeginFacts, ReplaceOK
  <2>5. CASE End(t)
    BY <2>1, <2>5, EndOK
  <2> QED BY <2>3, <2>4, <2>5
<1>12. ASSUME Poll PROVE TasksOK'
  <2> DEFINE u == Task("scanStatus", None, Root, generation)
  <2>1. generation \in Nat
    BY TypeOK DEF ScreenOK
  <2>2. u \in TaskType /\ u.at = "asked"
    BY <2>1, OpsAre, PlaceTypes DEF Task, TaskType
  <2>3. Begin(u)
    BY <1>12 DEF Poll
  <2> HIDE DEF u
  <2> QED BY <2>2, <2>3, BeginOK
<1>13. ASSUME EventArrives PROVE TasksOK'
  <2> DEFINE u == [Task("categoryBreakdown", None, Root, 0) EXCEPT !.at = "due"]
  <2>1. Task("categoryBreakdown", None, Root, 0) \in TaskType
    BY PlaceTypes, TaskTypes DEF Ops
  <2>2. u \in TaskType /\ u.what = "categoryBreakdown"
    BY <2>1 DEF TaskType, Task
  <2>3. Begin(u) \/ UNCHANGED tasks
    BY <1>13 DEF EventArrives
  <2> HIDE DEF u
  <2> QED BY <2>2, <2>3, BeginOK DEF TasksOK
<1>14. ASSUME Scan PROVE TasksOK'
  <2> DEFINE u == Task("startScan", None, Root, 0)
  <2>1. 0 \in Nat
    BY TypeOK DEF ScreenOK
  <2>2. u \in TaskType /\ u.at = "asked"
    BY <2>1, OpsAre, PlaceTypes DEF Task, TaskType
  <2>3. Begin(u)
    BY <1>14 DEF Scan
  <2> HIDE DEF u
  <2> QED BY <2>2, <2>3, BeginOK
<1>15. ASSUME CancelTrashConfirmation PROVE TasksOK'
  BY <1>15 DEF CancelTrashConfirmation, TasksOK
<1>16. ASSUME ConfirmTrash PROVE TasksOK'
  <2> DEFINE u == Task("confirmTrash", scanSummary, trashPendingRowID, trashPreparation.token)
  <2>1. scanSummary \in Nat /\ trashPendingRowID \in Rows /\ trashPreparation.token \in Nat
    BY TypeOK DEF ScreenOK, DialogOK, Preparation
  <2>2. u \in TaskType /\ u.at = "asked"
    BY <2>1, OpsAre, PlaceTypes DEF Task, TaskType
  <2>3. Begin(u)
    BY <1>16 DEF ConfirmTrash
  <2> HIDE DEF u
  <2> QED BY <2>2, <2>3, BeginOK
<1>17. ASSUME NEW p \in Places, Browse(p) PROVE TasksOK'
  <2> DEFINE u == Task("rows", scanSummary, p, Fresh(Held("rows")))
  <2>1. scanSummary \in Nat /\ p \in Rows /\ Fresh(Held("rows")) \in Nat
    BY PlaceTypes, FreshVersion DEF ScreenOK
  <2>2. u \in TaskType /\ u.at = "asked"
    BY <2>1, OpsAre, PlaceTypes DEF Task, TaskType
  <2>3. Begin(u)
    BY <1>17 DEF Browse, RowsTask
  <2> HIDE DEF u
  <2> QED BY <2>2, <2>3, BeginOK
<1>18. ASSUME NEW n \in Nodes, PrepareTrash(n) PROVE TasksOK'
  <2> DEFINE u == Task("prepareTrash", scanSummary, n, Fresh(Held("prepareTrash")))
  <2>1. scanSummary \in Nat /\ n \in Rows /\ Fresh(Held("prepareTrash")) \in Nat
    BY PlaceTypes, FreshVersion DEF ScreenOK
  <2>2. u \in TaskType /\ u.at = "asked"
    BY <2>1, OpsAre, PlaceTypes DEF Task, TaskType
  <2>3. Begin(u)
    BY <1>18 DEF PrepareTrash
  <2> HIDE DEF u
  <2> QED BY <2>2, <2>3, BeginOK
<1>19. ASSUME ScanEnds PROVE TasksOK'
  BY <1>19 DEF ScanEnds, TasksOK
<1>20. ASSUME Tell PROVE TasksOK'
  BY <1>20 DEF Tell, TasksOK
<1>21. ASSUME UNCHANGED vars PROVE TasksOK'
  BY <1>21 DEF vars, TasksOK
<1> QED BY StepsAre, <1>1, <1>2, <1>3, <1>4, <1>5, <1>6, <1>7, <1>8, <1>9, <1>10, <1>11, <1>12,
    <1>13, <1>14, <1>15, <1>16, <1>17, <1>18, <1>19, <1>20, <1>21 DEF StepKinds

(* Ids of scans increase, and so does the snapshot's.                      *)
LEMMA ScansStep ==
  ASSUME TypeOK, SnapshotIsNewest, StepKinds
  PROVE  ScansOK' /\ SnapshotIsNewest' /\ result <= result'
<1> DEFINE Goal == ScansOK' /\ SnapshotIsNewest' /\ result <= result'
<1> USE DEF TypeOK
<1>0. ASSUME UNCHANGED scanVars PROVE Goal
  BY <1>0 DEF scanVars, ScansOK, SnapshotIsNewest
<1> HIDE DEF Goal
<1>1. ASSUME NEW t \in InFlight("startScan", "asked"), ServeStart(t) PROVE Goal
  <2>1. CASE ClaimSlot
    BY <2>1 DEF ClaimSlot, ScansOK, SnapshotIsNewest, None, Goal
  <2>2. CASE UNCHANGED scanVars
    BY <1>0, <2>2
  <2> QED BY <1>1, <2>1, <2>2 DEF ServeStart
<1>2. ASSUME NEW t \in InFlight("prepareTrash", "asked"), ServePrepare(t) PROVE Goal
  BY <1>0, <1>2 DEF ServePrepare, service, window
<1>3. ASSUME NEW t \in InFlight("confirmTrash", "asked"), ServeConfirm(t) PROVE Goal
  BY <1>0, <1>3 DEF ServeConfirm, service, window
<1>4. ASSUME NEW what \in Reads, NEW t \in InFlight(what, "asked"), ServeRead(t) PROVE Goal
  BY <1>0, <1>4 DEF ServeRead, service, window
<1>5. ASSUME NEW t \in InFlight("startScan", "answered"), StartResumes(t) PROVE Goal
  BY <1>0, <1>5 DEF StartResumes, service, window
<1>6. ASSUME NEW t \in InFlight("scanStatus", "answered"), StatusResumes(t) PROVE Goal
  BY <1>0, <1>6 DEF StatusResumes, service, window
<1>7. ASSUME NEW t \in InFlight("rows", "answered"), RowsResume(t) PROVE Goal
  BY <1>0, <1>7 DEF RowsResume, service, window
<1>8. ASSUME NEW t \in InFlight("categoryBreakdown", "answered"), DashboardResumes(t) PROVE Goal
  BY <1>0, <1>8 DEF DashboardResumes, service, window
<1>9. ASSUME NEW t \in InFlight("prepareTrash", "answered"), PrepareResumes(t) PROVE Goal
  BY <1>0, <1>9 DEF PrepareResumes, service, window
<1>10. ASSUME NEW t \in InFlight("confirmTrash", "answered"), ConfirmResumes(t) PROVE Goal
  BY <1>0, <1>10 DEF ConfirmResumes, service, window
<1>11. ASSUME NEW what \in Ops, NEW t \in InFlight(what, "due"), LoadDashboard(t) PROVE Goal
  BY <1>0, <1>11 DEF LoadDashboard, service, window
<1>12. ASSUME Poll PROVE Goal
  BY <1>0, <1>12 DEF Poll, service, window
<1>13. ASSUME EventArrives PROVE Goal
  BY <1>0, <1>13 DEF EventArrives, service, window
<1>14. ASSUME Scan PROVE Goal
  BY <1>0, <1>14 DEF Scan, service, window
<1>15. ASSUME CancelTrashConfirmation PROVE Goal
  BY <1>0, <1>15 DEF CancelTrashConfirmation, service, window
<1>16. ASSUME ConfirmTrash PROVE Goal
  BY <1>0, <1>16 DEF ConfirmTrash, service, window
<1>17. ASSUME NEW p \in Places, Browse(p) PROVE Goal
  BY <1>0, <1>17 DEF Browse, service, window
<1>18. ASSUME NEW n \in Nodes, PrepareTrash(n) PROVE Goal
  BY <1>0, <1>18 DEF PrepareTrash, service, window
<1>19. ASSUME ScanEnds PROVE Goal
  <2>1. PICK how \in {"finished", "failed"} : EndScan(how)
    BY <1>19 DEF ScanEnds
  <2>2. <<how, active>> \in {"finished", "failed"} \X Nat
    BY DEF ScansOK
  <2>3. ScansOK'
    BY <2>1, <2>2 DEF EndScan, ScansOK, None
  <2>4. SnapshotIsNewest' /\ result <= result'
    BY <2>1 DEF EndScan, ScansOK, SnapshotIsNewest, None
  <2> QED BY <2>3, <2>4 DEF Goal
<1>20. ASSUME Tell PROVE Goal
  <2>1. PICK e \in owed : TellEnd(e)
    BY <1>20 DEF Tell
  <2>2. /\ e \in {"finished", "failed"} \X Nat /\ told \in Seq({"finished", "failed"} \X Nat)
        /\ told' = Append(told, e) /\ owed' = owed \ {e} /\ UNCHANGED <<active, result, nextId>>
    BY <2>1 DEF TellEnd, ScansOK
  <2>3. ScansOK'
    BY <2>2 DEF ScansOK
  <2>4. SnapshotIsNewest'
    <3>1. \A i \in DOMAIN told' : told'[i] = e \/ (i \in DOMAIN told /\ told'[i] = told[i])
      BY <2>2
    <3> QED BY <2>2, <3>1 DEF SnapshotIsNewest
  <2> QED BY <2>2, <2>3, <2>4 DEF Goal, ScansOK
<1>21. ASSUME UNCHANGED vars PROVE Goal
  BY <1>0, <1>21 DEF vars, service
<1>22. Goal
  BY StepsAre, <1>1, <1>2, <1>3, <1>4, <1>5, <1>6, <1>7, <1>8, <1>9, <1>10, <1>11, <1>12,
    <1>13, <1>14, <1>15, <1>16, <1>17, <1>18, <1>19, <1>20, <1>21 DEF StepKinds
<1> QED BY <1>22 DEF Goal

(* What is on screen keeps its type.                                       *)
LEMMA ScreenStep ==
  ASSUME TypeOK, StepKinds
  PROVE  ScreenOK'
<1> USE DEF TypeOK, ScreenOK
<1>0. ASSUME UNCHANGED <<scanSummary, isScanning, polling, generation, rowPage, currentParentID,
                         isLoadingRows, rowRequestVersion, seen>>
      PROVE  ScreenOK'
  BY <1>0
<1>1. ASSUME NEW t \in InFlight("startScan", "asked"), ServeStart(t) PROVE ScreenOK'
  BY <1>0, <1>1 DEF ServeStart, window, scanView, rowView
<1>2. ASSUME NEW t \in InFlight("prepareTrash", "asked"), ServePrepare(t) PROVE ScreenOK'
  BY <1>0, <1>2 DEF ServePrepare, window, scanView, rowView
<1>3. ASSUME NEW t \in InFlight("confirmTrash", "asked"), ServeConfirm(t) PROVE ScreenOK'
  BY <1>0, <1>3 DEF ServeConfirm, window, scanView, rowView
<1>4. ASSUME NEW what \in Reads, NEW t \in InFlight(what, "asked"), ServeRead(t) PROVE ScreenOK'
  BY <1>0, <1>4 DEF ServeRead, window, scanView, rowView
<1>5. ASSUME NEW t \in InFlight("startScan", "answered"), StartResumes(t) PROVE ScreenOK'
  <2>1. t.ok \in BOOLEAN /\ (t.ok /\ isScanning) \in BOOLEAN
    BY <1>5, AskedIsATask
  <2>2. isScanning' \in BOOLEAN /\ polling' \in BOOLEAN
    BY <1>5, <2>1 DEF StartResumes
  <2>3. generation' \in Nat
    BY <1>5, FreshVersion DEF StartResumes
  <2> QED BY <1>5, <2>2, <2>3 DEF StartResumes, rowView
<1>6. ASSUME NEW t \in InFlight("scanStatus", "answered"), StatusResumes(t) PROVE ScreenOK'
  <2>1. t.n \in Nat /\ t.ok \in BOOLEAN /\ t.busy \in BOOLEAN
    BY <1>6, AskedIsATask
  <2>2. isScanning' \in BOOLEAN /\ polling' \in BOOLEAN
    BY <1>6, <2>1 DEF StatusResumes, StopScanning
  <2>3. scanSummary' \in Nat /\ rowRequestVersion' \in Nat
        /\ rowPage' \in [scan : Nat, parent : Rows] /\ currentParentID' \in Rows
    BY <1>6, <2>1, FreshVersion, PlaceTypes DEF StatusResumes, AcceptScan
  <2> QED BY <1>6, <2>2, <2>3 DEF StatusResumes
<1>7. ASSUME NEW t \in InFlight("rows", "answered"), RowsResume(t) PROVE ScreenOK'
  <2>1. [scan |-> t.scan, parent |-> t.node] \in [scan : Nat, parent : Rows]
    BY <1>7, AskedIsATask
  <2>2. rowPage' \in [scan : Nat, parent : Rows]
    BY <1>7, <2>1 DEF RowsResume
  <2>3. isLoadingRows' \in BOOLEAN
    BY <1>7 DEF RowsResume
  <2> QED BY <1>7, <2>2, <2>3 DEF RowsResume, scanView
<1>8. ASSUME NEW t \in InFlight("categoryBreakdown", "answered"), DashboardResumes(t) PROVE ScreenOK'
  BY <1>0, <1>8, FreshVersion, PlaceTypes DEF DashboardResumes, LoadRows, window, scanView,
      rowView
<1>9. ASSUME NEW t \in InFlight("prepareTrash", "answered"), PrepareResumes(t) PROVE ScreenOK'
  BY <1>0, <1>9 DEF PrepareResumes, window, scanView, rowView
<1>10. ASSUME NEW t \in InFlight("confirmTrash", "answered"), ConfirmResumes(t) PROVE ScreenOK'
  BY <1>0, <1>10 DEF ConfirmResumes, window, scanView, rowView
<1>11. ASSUME NEW what \in Ops, NEW t \in InFlight(what, "due"), LoadDashboard(t) PROVE ScreenOK'
  BY <1>0, <1>11 DEF LoadDashboard, window, scanView, rowView
<1>12. ASSUME Poll PROVE ScreenOK'
  BY <1>0, <1>12 DEF Poll, window, scanView, rowView
<1>13. ASSUME EventArrives PROVE ScreenOK'
  <2>1. seen + 1 \in DOMAIN told /\ told[seen + 1] \in {"finished", "failed"} \X Nat /\ seen' = seen + 1
    BY <1>13 DEF EventArrives, ScansOK
  <2>2. scanSummary' \in Nat /\ rowRequestVersion' \in Nat
        /\ rowPage' \in [scan : Nat, parent : Rows] /\ currentParentID' \in Rows
    BY <1>13, <2>1, FreshVersion, PlaceTypes DEF EventArrives, AcceptScan
  <2>3. isScanning' = FALSE /\ polling' = FALSE /\ UNCHANGED <<generation, isLoadingRows>>
    BY <1>13 DEF EventArrives, StopScanning
  <2>4. seen' \in Nat
    BY <2>1
  <2> QED BY <2>2, <2>3, <2>4
<1>14. ASSUME Scan PROVE ScreenOK'
  BY <1>14 DEF Scan, rowView
<1>15. ASSUME CancelTrashConfirmation PROVE ScreenOK'
  BY <1>0, <1>15 DEF CancelTrashConfirmation, window, scanView, rowView
<1>16. ASSUME ConfirmTrash PROVE ScreenOK'
  BY <1>0, <1>16 DEF ConfirmTrash, window, scanView, rowView
<1>17. ASSUME NEW p \in Places, Browse(p) PROVE ScreenOK'
  BY <1>17, FreshVersion, PlaceTypes DEF Browse, LoadRows, scanView
<1>18. ASSUME NEW n \in Nodes, PrepareTrash(n) PROVE ScreenOK'
  BY <1>0, <1>18 DEF PrepareTrash, window, scanView, rowView
<1>19. ASSUME ScanEnds PROVE ScreenOK'
  BY <1>0, <1>19 DEF ScanEnds, window, scanView, rowView
<1>20. ASSUME Tell PROVE ScreenOK'
  BY <1>0, <1>20 DEF Tell, window, scanView, rowView
<1>21. ASSUME UNCHANGED vars PROVE ScreenOK'
  BY <1>0, <1>21 DEF vars, window, scanView, rowView
<1> QED BY StepsAre, <1>1, <1>2, <1>3, <1>4, <1>5, <1>6, <1>7, <1>8, <1>9, <1>10, <1>11, <1>12,
    <1>13, <1>14, <1>15, <1>16, <1>17, <1>18, <1>19, <1>20, <1>21 DEF StepKinds

(* The dialog and the service's confirmation keep their types.             *)
LEMMA DialogTypes ==
  ASSUME TypeOK, StepKinds
  PROVE  DialogOK'
<1> USE DEF TypeOK, DialogOK
<1>0. ASSUME UNCHANGED <<pending, moved, dialog, moving>> PROVE DialogOK'
  BY <1>0 DEF dialog, moving
<1>00. ASSUME Invalidate, UNCHANGED <<pending, moved, moving>> PROVE DialogOK'
  BY <1>00, FreshVersion, PlaceTypes DEF Invalidate, moving
<1>1. ASSUME NEW t \in InFlight("startScan", "asked"), ServeStart(t) PROVE DialogOK'
  BY <1>0, <1>1 DEF ServeStart, service, window, trashService
<1>2. ASSUME NEW t \in InFlight("prepareTrash", "asked"), ServePrepare(t) PROVE DialogOK'
  <2>1. t.scan \in Nat /\ t.node \in Rows /\ Fresh(TokensHeld) \in Nat
    BY <1>2, AskedIsATask, FreshToken
  <2>2. [token |-> Fresh(TokensHeld), scan |-> t.scan, node |-> t.node] \in Preparation
    BY <2>1 DEF Preparation
  <2>3. pending' \in Preparation
    BY <1>2, <2>2 DEF ServePrepare
  <2> QED BY <1>2, <2>3 DEF ServePrepare, window, dialog, moving
<1>3. ASSUME NEW t \in InFlight("confirmTrash", "asked"), ServeConfirm(t) PROVE DialogOK'
  <2>1. pending' \in Preparation
    BY <1>3, PlaceTypes DEF ServeConfirm
  <2>2. <<pending.scan, pending.node>> \in Nat \X Rows
    BY DEF Preparation
  <2>3. moved' \subseteq Nat \X Rows
    BY <1>3, <2>2 DEF ServeConfirm
  <2> QED BY <1>3, <2>1, <2>3 DEF ServeConfirm, window, dialog, moving
<1>4. ASSUME NEW what \in Reads, NEW t \in InFlight(what, "asked"), ServeRead(t) PROVE DialogOK'
  BY <1>0, <1>4 DEF ServeRead, service, window, trashService
<1>5. ASSUME NEW t \in InFlight("startScan", "answered"), StartResumes(t) PROVE DialogOK'
  BY <1>0, <1>5 DEF StartResumes, service, window, trashService
<1>6. ASSUME NEW t \in InFlight("scanStatus", "answered"), StatusResumes(t) PROVE DialogOK'
  <2>1. trashedRowIDs' = trashedRowIDs \/ trashedRowIDs' = {}
    BY <1>6 DEF StatusResumes, AcceptScan
  <2> QED BY <1>6, <2>1 DEF StatusResumes, service, trashService, dialog
<1>7. ASSUME NEW t \in InFlight("rows", "answered"), RowsResume(t) PROVE DialogOK'
  BY <1>0, <1>7 DEF RowsResume, service, window, trashService
<1>8. ASSUME NEW t \in InFlight("categoryBreakdown", "answered"), DashboardResumes(t) PROVE DialogOK'
  <2>1. CASE Invalidate /\ UNCHANGED <<service, moving>>
    BY <1>00, <2>1 DEF service, trashService
  <2>2. CASE UNCHANGED <<service, window>>
    BY <1>0, <2>2 DEF service, trashService, window
  <2> QED BY <1>8, <2>1, <2>2 DEF DashboardResumes, LoadRows
<1>9. ASSUME NEW t \in InFlight("prepareTrash", "answered"), PrepareResumes(t) PROVE DialogOK'
  <2>1. t.scan \in Nat /\ t.node \in Rows /\ t.n \in Nat
    BY <1>9, AskedIsATask
  <2>2. [token |-> t.n, scan |-> t.scan, node |-> t.node] \in Preparation
    BY <2>1 DEF Preparation
  <2>3. trashPreparation' \in Preparation /\ trashPendingRowID' \in Rows
        /\ isPreparingTrash' \in BOOLEAN /\ trashRequestVersion' \in Nat
    BY <1>9, <2>2, PlaceTypes DEF PrepareResumes, dialog
  <2> QED BY <1>9, <2>3 DEF PrepareResumes, service, trashService, moving
<1>10. ASSUME NEW t \in InFlight("confirmTrash", "answered"), ConfirmResumes(t) PROVE DialogOK'
  <2>1. t.node \in Rows
    BY <1>10, AskedIsATask
  <2>2. trashedRowIDs' \subseteq Rows
    BY <1>10, <2>1 DEF ConfirmResumes
  <2> QED BY <1>10, <2>2 DEF ConfirmResumes, service, trashService, dialog
<1>11. ASSUME NEW what \in Ops, NEW t \in InFlight(what, "due"), LoadDashboard(t) PROVE DialogOK'
  BY <1>0, <1>11 DEF LoadDashboard, service, window, trashService
<1>12. ASSUME Poll PROVE DialogOK'
  BY <1>0, <1>12 DEF Poll, service, window, trashService
<1>13. ASSUME EventArrives PROVE DialogOK'
  <2>1. trashedRowIDs' = trashedRowIDs \/ trashedRowIDs' = {}
    BY <1>13 DEF EventArrives, AcceptScan
  <2> QED BY <1>13, <2>1 DEF EventArrives, service, trashService, dialog
<1>14. ASSUME Scan PROVE DialogOK'
  BY <1>00, <1>14 DEF Scan, service, trashService
<1>15. ASSUME CancelTrashConfirmation PROVE DialogOK'
  BY <1>00, <1>15 DEF CancelTrashConfirmation, service, trashService
<1>16. ASSUME ConfirmTrash PROVE DialogOK'
  <2>1. <<trashPreparation.scan, trashPreparation.node>> \in Nat \X Rows
    BY DEF Preparation
  <2> QED BY <1>16, <2>1, PlaceTypes DEF ConfirmTrash, service, trashService
<1>17. ASSUME NEW p \in Places, Browse(p) PROVE DialogOK'
  BY <1>00, <1>17 DEF Browse, LoadRows, service, trashService
<1>18. ASSUME NEW n \in Nodes, PrepareTrash(n) PROVE DialogOK'
  BY <1>18, FreshVersion, PlaceTypes DEF PrepareTrash, service, trashService, moving
<1>19. ASSUME ScanEnds PROVE DialogOK'
  BY <1>0, <1>19 DEF ScanEnds, service, window, trashService
<1>20. ASSUME Tell PROVE DialogOK'
  BY <1>0, <1>20 DEF Tell, service, window, trashService
<1>21. ASSUME UNCHANGED vars PROVE DialogOK'
  BY <1>0, <1>21 DEF vars, window, service, trashService
<1> QED BY StepsAre, <1>1, <1>2, <1>3, <1>4, <1>5, <1>6, <1>7, <1>8, <1>9, <1>10, <1>11, <1>12,
    <1>13, <1>14, <1>15, <1>16, <1>17, <1>18, <1>19, <1>20, <1>21 DEF StepKinds

-----------------------------------------------------------------------------
(* What steps do, seen from the page and from the dialog.                  *)
RowsQuiet == Kept("rows") /\ UNCHANGED <<rowView, scanSummary, result>>

RowsAsked(p) ==
  /\ LoadRows(p) /\ UNCHANGED <<scanSummary, result>>
  /\ Of("rows")' \subseteq Of("rows") \cup {RowsTask(p)}

RowChanges ==
  \/ RowsQuiet
  \/ Kept("rows") /\ UNCHANGED <<rowView, scanSummary>> /\ ScanEnds
  \/ \E n \in Nat : AcceptScan(n) /\ Kept("rows") /\ UNCHANGED <<isLoadingRows, result>>
  \/ \E t \in InFlight("rows", "asked") : ServeRead(t)
  \/ \E t \in InFlight("rows", "answered") : RowsResume(t)
  \/ \E p \in Places : RowsAsked(p)

DialogKept ==
  /\ Kept("prepareTrash") /\ Kept("confirmTrash")
  /\ UNCHANGED <<trashService, isMovingToTrash, confirmed>>

DialogChanges ==
  \/ DialogKept /\ UNCHANGED dialog
  \/ DialogKept /\ Invalidate
  \/ \E t \in InFlight("prepareTrash", "asked") : ServePrepare(t)
  \/ \E t \in InFlight("confirmTrash", "asked") : ServeConfirm(t)
  \/ \E t \in InFlight("prepareTrash", "answered") : PrepareResumes(t)
  \/ \E t \in InFlight("confirmTrash", "answered") : ConfirmResumes(t)
  \/ \E n \in Nodes : PrepareTrash(n)
  \/ ConfirmTrash

Others(what) == \A k : k # what => Kept(k)

(* An answer to one operation leaves the Tasks of the others alone,        *)
LEMMA AnswerKeeps ==
  ASSUME TasksOK, NEW what, NEW t \in InFlight(what, "asked"), NEW ok \in BOOLEAN, NEW busy \in BOOLEAN,
         NEW n \in Nat, Answer(t, ok, busy, n)
  PROVE  Others(what)
<1>1. Replaced(t, Answered(t, ok, busy, n)) /\ t.what = what /\ Answered(t, ok, busy, n).what = what
  BY AnswerFacts DEF InFlight
<1> QED BY <1>1 DEF Replaced, Others

(* ... so does the end of a Task,                                          *)
LEMMA EndKeeps ==
  ASSUME TasksOK, NEW what, NEW t \in InFlight(what, "answered"), End(t)
  PROVE  Others(what)
<1>1. Ended(t) /\ t.what = what
  BY EndFacts, AskedIsATask
<1> QED BY <1>1 DEF Ended, Others

(* ... and the beginning of one,                                           *)
LEMMA BeginKeeps ==
  ASSUME TasksOK, NEW u, Begin(u)
  PROVE  Others(u.what)
BY BeginFacts DEF Begun, Others

(* ... and of course a step that touches no Task.                          *)
LEMMA NoTaskChange ==
  ASSUME UNCHANGED tasks
  PROVE  \A k : Kept(k)
BY DEF Kept, Of

(* Every step changes rows and dialog in one of the ways listed above.     *)
LEMMA WhatStepsDo ==
  ASSUME TypeOK, StepKinds
  PROVE  RowChanges /\ DialogChanges
<1> DEFINE Goal == RowChanges /\ DialogChanges
<1> USE DEF TypeOK
<1>0. ASSUME RowsQuiet, DialogKept, UNCHANGED dialog PROVE Goal
  BY <1>0 DEF RowChanges, DialogChanges
<1>00. ASSUME RowsQuiet, DialogChanges PROVE Goal
  BY <1>00 DEF RowChanges
<1>000. ASSUME RowChanges, DialogKept, UNCHANGED dialog PROVE Goal
  BY <1>000 DEF DialogChanges
<1> HIDE DEF Goal
<1>1. ASSUME NEW t \in InFlight("startScan", "asked"), ServeStart(t) PROVE Goal
  <2>1. Others("startScan")
    BY <1>1, AnswerKeeps DEF ServeStart
  <2>2. UNCHANGED result
    BY <1>1 DEF ServeStart, ClaimSlot, scanVars
  <2>3. RowsQuiet
    BY <1>1, <2>1, <2>2 DEF ServeStart, RowsQuiet, Others, window, scanView
  <2>4. DialogKept /\ UNCHANGED dialog
    BY <1>1, <2>1 DEF ServeStart, DialogKept, Others, window, moving
  <2> QED BY <1>0, <2>3, <2>4
<1>2. ASSUME NEW t \in InFlight("prepareTrash", "asked"), ServePrepare(t) PROVE Goal
  <2>1. Others("prepareTrash")
    BY <1>2, AnswerKeeps, PrepareServed, FreshToken
  <2>2. RowsQuiet
    BY <1>2, <2>1 DEF ServePrepare, RowsQuiet, Others, window, scanView, scanVars
  <2> QED BY <1>00, <1>2, <2>2 DEF DialogChanges
<1>3. ASSUME NEW t \in InFlight("confirmTrash", "asked"), ServeConfirm(t) PROVE Goal
  <2>1. Others("confirmTrash")
    BY <1>3, AnswerKeeps DEF ServeConfirm
  <2>2. RowsQuiet
    BY <1>3, <2>1 DEF ServeConfirm, RowsQuiet, Others, window, scanView, scanVars
  <2> QED BY <1>00, <1>3, <2>2 DEF DialogChanges
<1>4. ASSUME NEW what \in Reads, NEW t \in InFlight(what, "asked"), ServeRead(t) PROVE Goal
  <2>1. result \in Nat /\ (active # None) \in BOOLEAN /\ (result = t.scan) \in BOOLEAN
    BY DEF ScansOK
  <2>2. Others(what)
    <3>1. CASE t.what = "scanStatus"
      BY <1>4, <2>1, <3>1, AnswerKeeps DEF ServeRead
    <3>2. CASE t.what # "scanStatus"
      BY <1>4, <2>1, <3>2, AnswerKeeps DEF ServeRead
    <3> QED BY <3>1, <3>2
  <2>3. DialogKept /\ UNCHANGED dialog
    BY <1>4, <2>2 DEF ServeRead, DialogKept, Others, Reads, service, window, moving
  <2>4. CASE what = "rows"
    BY <1>000, <1>4, <2>3, <2>4 DEF RowChanges
  <2>5. CASE what # "rows"
    <3>1. RowsQuiet
      BY <1>4, <2>2, <2>5 DEF ServeRead, RowsQuiet, Others, service, window, scanView, scanVars
    <3> QED BY <1>0, <2>3, <3>1
  <2> QED BY <2>4, <2>5
<1>5. ASSUME NEW t \in InFlight("startScan", "answered"), StartResumes(t) PROVE Goal
  <2>1. Others("startScan")
    BY <1>5, EndKeeps DEF StartResumes
  <2> QED BY <1>0, <1>5, <2>1 DEF StartResumes, service, window, trashService, scanVars,
      scanView, rowView, moving, RowsQuiet, DialogKept, Others
<1>6. ASSUME NEW t \in InFlight("scanStatus", "answered"), StatusResumes(t) PROVE Goal
  <2> DEFINE u == Task("categoryBreakdown", t.n, Root, 0)
  <2>1. t \in BagToSet(tasks) /\ t.what = "scanStatus" /\ t.n \in Nat /\ u.what = "categoryBreakdown"
    BY <1>6, AskedIsATask DEF Task
  <2>2. EndAndBegin(t, u) \/ End(t)
    BY <1>6 DEF StatusResumes
  <2> HIDE DEF u
  <2>3. Kept("rows") /\ Kept("prepareTrash") /\ Kept("confirmTrash")
    <3>1. CASE EndAndBegin(t, u)
      <4>1. Replaced(t, u)
        BY <2>1, <3>1, EndAndBeginFacts
      <4> QED BY <2>1, <4>1 DEF Replaced
    <3>2. CASE End(t)
      BY <1>6, <3>2, EndKeeps DEF Others
    <3> QED BY <2>2, <3>1, <3>2
  <2>4. DialogKept /\ UNCHANGED dialog
    BY <1>6, <2>3 DEF StatusResumes, DialogKept, service
  <2>5. CASE AcceptScan(t.n)
    BY <1>000, <1>6, <2>1, <2>3, <2>4, <2>5 DEF StatusResumes, RowChanges, service, scanVars
  <2>6. CASE UNCHANGED <<scanSummary, rowRequestVersion, rowPage, currentParentID>>
    <3>1. RowsQuiet
      BY <1>6, <2>3, <2>6 DEF StatusResumes, RowsQuiet, rowView, service, scanVars
    <3> QED BY <1>0, <2>4, <3>1
  <2> QED BY <1>6, <2>5, <2>6 DEF StatusResumes
<1>7. ASSUME NEW t \in InFlight("rows", "answered"), RowsResume(t) PROVE Goal
  <2>1. Others("rows")
    BY <1>7, EndKeeps DEF RowsResume
  <2>2. DialogKept /\ UNCHANGED dialog
    BY <1>7, <2>1 DEF RowsResume, DialogKept, Others, service, moving
  <2> QED BY <1>000, <1>7, <2>2 DEF RowChanges
<1>8. ASSUME NEW t \in InFlight("categoryBreakdown", "answered"), DashboardResumes(t) PROVE Goal
  <2> DEFINE u == RowsTask(Root)
  <2>1. t \in BagToSet(tasks) /\ t.what = "categoryBreakdown" /\ u.what = "rows"
    BY <1>8, AskedIsATask DEF RowsTask, Task
  <2>2. CASE LoadRows(Root) /\ EndAndBegin(t, u) /\ UNCHANGED <<service, scanView, moving, seen>>
    <3> HIDE DEF u
    <3>1. Replaced(t, u)
      BY <2>1, <2>2, EndAndBeginFacts
    <3>2. Kept("prepareTrash") /\ Kept("confirmTrash")
      BY <2>1, <3>1 DEF Replaced
    <3>3. Of("rows")' \subseteq Of("rows") \cup {u}
      BY <3>1 DEF Replaced, Of
    <3>4. RowsAsked(Root)
      BY <2>2, <3>3 DEF RowsAsked, scanView, service, scanVars, u
    <3>5. DialogKept /\ Invalidate
      BY <2>2, <3>2 DEF DialogKept, LoadRows, service, moving
    <3>6. Root \in Places
      BY DEF Places
    <3> QED BY <3>4, <3>5, <3>6 DEF RowChanges, DialogChanges, Goal
  <2>3. CASE End(t) /\ UNCHANGED <<service, window>>
    <3>1. Others("categoryBreakdown")
      BY <2>3, EndKeeps
    <3> QED BY <1>0, <2>3, <3>1 DEF service, window, trashService, scanVars, scanView, rowView,
        moving, RowsQuiet, DialogKept, Others
  <2> QED BY <1>8, <2>2, <2>3 DEF DashboardResumes
<1>9. ASSUME NEW t \in InFlight("prepareTrash", "answered"), PrepareResumes(t) PROVE Goal
  <2>1. Others("prepareTrash")
    BY <1>9, EndKeeps DEF PrepareResumes
  <2>2. RowsQuiet
    BY <1>9, <2>1 DEF PrepareResumes, RowsQuiet, Others, service, scanView, scanVars
  <2> QED BY <1>00, <1>9, <2>2 DEF DialogChanges
<1>10. ASSUME NEW t \in InFlight("confirmTrash", "answered"), ConfirmResumes(t) PROVE Goal
  <2>1. Others("confirmTrash")
    BY <1>10, EndKeeps DEF ConfirmResumes
  <2>2. RowsQuiet
    BY <1>10, <2>1 DEF ConfirmResumes, RowsQuiet, Others, service, scanView, scanVars
  <2> QED BY <1>00, <1>10, <2>2 DEF DialogChanges
<1>11. ASSUME NEW what \in Ops, NEW t \in InFlight(what, "due"), LoadDashboard(t) PROVE Goal
  <2> DEFINE u == Task("categoryBreakdown", scanSummary, Root, 0)
  <2>1. t \in BagToSet(tasks) /\ t.what = "categoryBreakdown" /\ u.what = "categoryBreakdown"
    BY <1>11 DEF InFlight, TasksOK, Task
  <2>2. EndAndBegin(t, u)
    BY <1>11 DEF LoadDashboard
  <2> HIDE DEF u
  <2>3. Replaced(t, u)
    BY <2>1, <2>2, EndAndBeginFacts
  <2>4. Others("categoryBreakdown")
    BY <2>1, <2>3 DEF Replaced, Others
  <2> QED BY <1>0, <1>11, <2>4 DEF LoadDashboard, service, window, trashService, scanVars,
      scanView, rowView, moving, RowsQuiet, DialogKept, Others
<1>12. ASSUME Poll PROVE Goal
  <2>1. Others("scanStatus")
    BY <1>12, BeginKeeps DEF Poll, Task
  <2> QED BY <1>0, <1>12, <2>1 DEF Poll, service, window, trashService, scanVars, scanView,
      rowView, moving, RowsQuiet, DialogKept, Others
<1>13. ASSUME EventArrives PROVE Goal
  <2> DEFINE e == told[seen']
  <2>1. seen' \in DOMAIN told /\ e \in {"finished", "failed"} \X Nat
    BY <1>13 DEF EventArrives, ScansOK, ScreenOK
  <2>2. Kept("rows") /\ Kept("prepareTrash") /\ Kept("confirmTrash")
    <3>1. CASE UNCHANGED tasks
      BY <3>1, NoTaskChange
    <3>2. CASE Begin([Task("categoryBreakdown", None, Root, 0) EXCEPT !.at = "due"])
      <4>1. [Task("categoryBreakdown", None, Root, 0) EXCEPT !.at = "due"].what = "categoryBreakdown"
        BY DEF Task
      <4>2. Others("categoryBreakdown")
        BY <3>2, <4>1, BeginKeeps
      <4> QED BY <4>2 DEF Others
    <3> QED BY <1>13, <3>1, <3>2 DEF EventArrives
  <2>3. DialogKept /\ UNCHANGED dialog
    BY <1>13, <2>2 DEF EventArrives, DialogKept, service
  <2>4. CASE e[1] = "finished"
    <3>1. AcceptScan(e[2]) /\ e[2] \in Nat
      BY <1>13, <2>1, <2>4 DEF EventArrives
    <3>2. UNCHANGED <<isLoadingRows, result>>
      BY <1>13 DEF EventArrives, service, scanVars
    <3> QED BY <1>000, <2>2, <2>3, <3>1, <3>2 DEF RowChanges
  <2>5. CASE e[1] # "finished"
    <3>1. RowsQuiet
      BY <1>13, <2>2, <2>5 DEF EventArrives, RowsQuiet, rowView, service, scanVars
    <3> QED BY <1>0, <2>3, <3>1
  <2> QED BY <2>4, <2>5
<1>14. ASSUME Scan PROVE Goal
  <2>1. Others("startScan")
    BY <1>14, BeginKeeps DEF Scan, Task
  <2>2. RowsQuiet
    BY <1>14, <2>1 DEF Scan, RowsQuiet, Others, service, scanVars
  <2>3. DialogKept /\ Invalidate
    BY <1>14, <2>1 DEF Scan, DialogKept, Others, service, moving
  <2> QED BY <1>00, <2>2, <2>3 DEF DialogChanges
<1>15. ASSUME CancelTrashConfirmation PROVE Goal
  <2>1. \A k : Kept(k)
    BY <1>15, NoTaskChange DEF CancelTrashConfirmation
  <2>2. RowsQuiet
    BY <1>15, <2>1 DEF CancelTrashConfirmation, RowsQuiet, service, scanVars, scanView
  <2>3. DialogKept /\ Invalidate
    BY <1>15, <2>1 DEF CancelTrashConfirmation, DialogKept, service, moving
  <2> QED BY <1>00, <2>2, <2>3 DEF DialogChanges
<1>16. ASSUME ConfirmTrash PROVE Goal
  <2>1. Others("confirmTrash")
    BY <1>16, BeginKeeps DEF ConfirmTrash, Task
  <2>2. RowsQuiet
    BY <1>16, <2>1 DEF ConfirmTrash, RowsQuiet, Others, service, scanVars, scanView
  <2> QED BY <1>00, <1>16, <2>2 DEF DialogChanges
<1>17. ASSUME NEW p \in Places, Browse(p) PROVE Goal
  <2> DEFINE u == RowsTask(p)
  <2>1. u.what = "rows"
    BY DEF RowsTask, Task
  <2>2. Begin(u)
    BY <1>17 DEF Browse
  <2> HIDE DEF u
  <2>3. Begun(u) /\ Others("rows")
    BY <2>1, <2>2, BeginFacts, BeginKeeps
  <2>4. Of("rows")' \subseteq Of("rows") \cup {u}
    BY <2>3 DEF Begun, Of
  <2>5. RowsAsked(p)
    BY <1>17, <2>4 DEF Browse, RowsAsked, scanView, service, scanVars, u
  <2>6. DialogKept /\ Invalidate
    BY <1>17, <2>3 DEF Browse, LoadRows, DialogKept, Others, service, moving
  <2> QED BY <2>5, <2>6 DEF RowChanges, DialogChanges, Goal
<1>18. ASSUME NEW n \in Nodes, PrepareTrash(n) PROVE Goal
  <2>1. Others("prepareTrash")
    BY <1>18, BeginKeeps DEF PrepareTrash, Task
  <2>2. RowsQuiet
    BY <1>18, <2>1 DEF PrepareTrash, RowsQuiet, Others, service, scanVars, scanView
  <2> QED BY <1>00, <1>18, <2>2 DEF DialogChanges
<1>19. ASSUME ScanEnds PROVE Goal
  <2>1. \A k : Kept(k)
    BY <1>19, NoTaskChange DEF ScanEnds
  <2>2. DialogKept /\ UNCHANGED dialog
    BY <1>19, <2>1 DEF ScanEnds, DialogKept, window, moving
  <2> QED BY <1>000, <1>19, <2>1, <2>2 DEF RowChanges, ScanEnds, window, scanView
<1>20. ASSUME Tell PROVE Goal
  <2>1. \A k : Kept(k)
    BY <1>20, NoTaskChange DEF Tell
  <2> QED BY <1>0, <1>20, <2>1 DEF Tell, TellEnd, window, trashService, scanVars, scanView,
      rowView, moving, RowsQuiet, DialogKept, Others
<1>21. ASSUME UNCHANGED vars PROVE Goal
  <2>1. \A k : Kept(k)
    BY <1>21, NoTaskChange DEF vars
  <2> QED BY <1>0, <1>21, <2>1 DEF vars, service, window, trashService, scanVars, scanView,
      rowView, moving, RowsQuiet, DialogKept, Others
<1>22. Goal
  BY StepsAre, <1>1, <1>2, <1>3, <1>4, <1>5, <1>6, <1>7, <1>8, <1>9, <1>10, <1>11, <1>12,
    <1>13, <1>14, <1>15, <1>16, <1>17, <1>18, <1>19, <1>20, <1>21 DEF StepKinds
<1> QED BY <1>22 DEF Goal

-----------------------------------------------------------------------------
(* No part of the window gets ahead of the service.                        *)
LEMMA PastStep ==
  ASSUME TypeOK, SnapshotIsNewest, SummariesArePast, StepKinds
  PROVE  SummariesArePast'
<1> DEFINE Past(y) == y.scan <= result' /\ (y.what = "scanStatus" => y.n <= result')
<1> USE DEF TypeOK
<1>1. result <= result' /\ result \in Nat /\ result' \in Nat /\ scanSummary \in Nat /\ scanSummary <= result'
  BY ScansStep DEF ScansOK, SummariesArePast, ScreenOK
<1>2. \A y \in BagToSet(tasks) : Past(y)
  BY <1>1 DEF SummariesArePast, TasksOK, TaskType
<1>3. ASSUME scanSummary' <= result', \A y \in BagToSet(tasks)' : y \in BagToSet(tasks) \/ Past(y)
      PROVE  SummariesArePast'
  BY <1>2, <1>3 DEF SummariesArePast
<1>4. ASSUME NEW what, NEW t \in InFlight(what, "asked"), NEW ok \in BOOLEAN, NEW busy \in BOOLEAN, NEW n \in Nat,
             Answer(t, ok, busy, n), what = "scanStatus" => n <= result', scanSummary' = scanSummary
      PROVE  SummariesArePast'
  <2> DEFINE u == Answered(t, ok, busy, n)
  <2>1. Replaced(t, u) /\ u.what = what /\ u.scan = t.scan /\ u.n = n /\ t \in BagToSet(tasks)
    BY <1>4, AnswerFacts DEF InFlight
  <2> HIDE DEF u
  <2>2. Past(u)
    BY <1>2, <1>4, <2>1
  <2> QED BY <1>1, <1>3, <1>4, <2>1, <2>2 DEF Replaced
<1>5. ASSUME NEW t \in BagToSet(tasks), End(t), scanSummary' = scanSummary PROVE SummariesArePast'
  BY <1>1, <1>3, <1>5, EndFacts DEF Ended
<1>6. ASSUME NEW u, Begin(u), scanSummary' <= result', Past(u) PROVE SummariesArePast'
  BY <1>3, <1>6, BeginFacts DEF Begun
<1>7. ASSUME NEW t \in BagToSet(tasks), NEW u, EndAndBegin(t, u), scanSummary' <= result', Past(u)
      PROVE  SummariesArePast'
  BY <1>3, <1>7, EndAndBeginFacts DEF Replaced
<1>8. ASSUME UNCHANGED <<tasks, scanSummary>> PROVE SummariesArePast'
  BY <1>1, <1>3, <1>8
<1>9. ASSUME NEW k \in Nat, k <= result', NEW node, NEW version, NEW what, what # "scanStatus"
      PROVE  Past(Task(what, k, node, version))
  BY <1>9 DEF Task
<1>10. ASSUME NEW version, NEW node PROVE Past(Task("scanStatus", None, node, version))
  BY <1>1 DEF Task, None
<1>11. None \in Nat /\ None <= result'
  BY <1>1 DEF None
<1> HIDE DEF Past
<1>12. ASSUME NEW t \in InFlight("startScan", "asked"), ServeStart(t) PROVE SummariesArePast'
  <2>1. PICK ok \in BOOLEAN : Answer(t, ok, FALSE, 0)
    BY <1>12 DEF ServeStart
  <2>2. scanSummary' = scanSummary
    BY <1>12 DEF ServeStart, window, scanView
  <2>3. FALSE \in BOOLEAN /\ 0 \in Nat /\ "startScan" # "scanStatus"
    OBVIOUS
  <2> QED BY <1>4, <2>1, <2>2, <2>3
<1>13. ASSUME NEW t \in InFlight("prepareTrash", "asked"), ServePrepare(t) PROVE SummariesArePast'
  <2>1. PICK ok \in BOOLEAN, n \in Nat : Answer(t, ok, FALSE, n)
    BY <1>13, PrepareServed, FreshToken
  <2>2. scanSummary' = scanSummary
    BY <1>13 DEF ServePrepare, window, scanView
  <2>3. FALSE \in BOOLEAN /\ "prepareTrash" # "scanStatus"
    OBVIOUS
  <2> QED BY <1>4, <2>1, <2>2, <2>3
<1>14. ASSUME NEW t \in InFlight("confirmTrash", "asked"), ServeConfirm(t) PROVE SummariesArePast'
  <2>1. PICK ok \in BOOLEAN : Answer(t, ok, FALSE, 0)
    BY <1>14 DEF ServeConfirm
  <2>2. scanSummary' = scanSummary
    BY <1>14 DEF ServeConfirm, window, scanView
  <2>3. FALSE \in BOOLEAN /\ 0 \in Nat /\ "confirmTrash" # "scanStatus"
    OBVIOUS
  <2> QED BY <1>4, <2>1, <2>2, <2>3
<1>15. ASSUME NEW what \in Reads, NEW t \in InFlight(what, "asked"), ServeRead(t) PROVE SummariesArePast'
  <2>1. result \in Nat /\ (active # None) \in BOOLEAN /\ (result = t.scan) \in BOOLEAN
    BY DEF ScansOK
  <2>2. scanSummary' = scanSummary /\ result' = result /\ t.what = what
    BY <1>15 DEF ServeRead, service, window, scanView, scanVars, InFlight
  <2>3. CASE what = "scanStatus"
    <3>1. Answer(t, TRUE, active # None, result)
      BY <1>15, <2>2, <2>3 DEF ServeRead
    <3> QED BY <1>1, <1>4, <2>1, <2>2, <3>1
  <2>4. CASE what # "scanStatus"
    <3>1. Answer(t, result = t.scan, FALSE, 0)
      BY <1>15, <2>2, <2>4 DEF ServeRead
    <3> QED BY <1>4, <2>1, <2>2, <2>4, <3>1
  <2> QED BY <2>3, <2>4
<1>16. ASSUME NEW t \in InFlight("startScan", "answered"), StartResumes(t) PROVE SummariesArePast'
  <2>1. t \in BagToSet(tasks) /\ End(t) /\ scanSummary' = scanSummary
    BY <1>16, AskedIsATask DEF StartResumes, scanView
  <2> QED BY <1>5, <2>1
<1>17. ASSUME NEW t \in InFlight("scanStatus", "answered"), StatusResumes(t) PROVE SummariesArePast'
  <2>1. t \in BagToSet(tasks) /\ t.what = "scanStatus" /\ t.n \in Nat
    BY <1>17, AskedIsATask
  <2>2. t.n <= result'
    BY <1>2, <2>1 DEF Past
  <2>3. CASE AcceptScan(t.n) /\ EndAndBegin(t, Task("categoryBreakdown", t.n, Root, 0))
    <3>1. scanSummary' <= result'
      BY <1>1, <2>2, <2>3 DEF AcceptScan
    <3> QED BY <1>7, <1>9, <2>1, <2>2, <2>3, <3>1
  <2>4. CASE End(t) /\ UNCHANGED scanSummary
    BY <1>5, <2>1, <2>4
  <2> QED BY <1>17, <2>3, <2>4 DEF StatusResumes
<1>18. ASSUME NEW t \in InFlight("rows", "answered"), RowsResume(t) PROVE SummariesArePast'
  <2>1. t \in BagToSet(tasks) /\ End(t) /\ scanSummary' = scanSummary
    BY <1>18, AskedIsATask DEF RowsResume, scanView
  <2> QED BY <1>5, <2>1
<1>19. ASSUME NEW t \in InFlight("categoryBreakdown", "answered"), DashboardResumes(t) PROVE SummariesArePast'
  <2>1. t \in BagToSet(tasks) /\ scanSummary' = scanSummary
    BY <1>19, AskedIsATask DEF DashboardResumes, window, scanView
  <2>2. CASE EndAndBegin(t, RowsTask(Root))
    BY <1>1, <1>7, <1>9, <2>1, <2>2 DEF RowsTask
  <2>3. CASE End(t)
    BY <1>5, <2>1, <2>3
  <2> QED BY <1>19, <2>2, <2>3 DEF DashboardResumes
<1>20. ASSUME NEW t \in InFlight("prepareTrash", "answered"), PrepareResumes(t) PROVE SummariesArePast'
  <2>1. t \in BagToSet(tasks) /\ End(t) /\ scanSummary' = scanSummary
    BY <1>20, AskedIsATask DEF PrepareResumes, scanView
  <2> QED BY <1>5, <2>1
<1>21. ASSUME NEW t \in InFlight("confirmTrash", "answered"), ConfirmResumes(t) PROVE SummariesArePast'
  <2>1. t \in BagToSet(tasks) /\ End(t) /\ scanSummary' = scanSummary
    BY <1>21, AskedIsATask DEF ConfirmResumes, scanView
  <2> QED BY <1>5, <2>1
<1>22. ASSUME NEW what \in Ops, NEW t \in InFlight(what, "due"), LoadDashboard(t) PROVE SummariesArePast'
  <2>1. t \in BagToSet(tasks) /\ scanSummary' = scanSummary
    BY <1>22, AskedIsATask DEF LoadDashboard, window, scanView
  <2>2. EndAndBegin(t, Task("categoryBreakdown", scanSummary, Root, 0))
    BY <1>22 DEF LoadDashboard
  <2> QED BY <1>1, <1>7, <1>9, <2>1, <2>2
<1>23. ASSUME Poll PROVE SummariesArePast'
  BY <1>1, <1>6, <1>10, <1>23 DEF Poll, window, scanView
<1>24. ASSUME EventArrives PROVE SummariesArePast'
  <2> DEFINE e == told[seen']
  <2>1. seen' \in DOMAIN told
    BY <1>24 DEF EventArrives, ScreenOK, ScansOK
  <2>2. CASE e[1] = "finished"
    <3>1. e[2] <= result' /\ e[2] \in Nat
      BY <1>1, <2>1, <2>2 DEF SnapshotIsNewest, ScansOK
    <3>2. scanSummary' <= result'
      BY <1>1, <1>24, <2>2, <3>1 DEF EventArrives, AcceptScan
    <3> DEFINE u == [Task("categoryBreakdown", None, Root, 0) EXCEPT !.at = "due"]
    <3>3. Past(u)
      BY <1>1 DEF Past, Task, None
    <3>4. Begin(u)
      BY <1>24, <2>2 DEF EventArrives
    <3> HIDE DEF u
    <3> QED BY <1>6, <3>2, <3>3, <3>4
  <2>3. CASE e[1] # "finished"
    BY <1>8, <1>24, <2>3 DEF EventArrives
  <2> QED BY <2>2, <2>3
<1>25. ASSUME Scan PROVE SummariesArePast'
  BY <1>1, <1>6, <1>9, <1>11, <1>25 DEF Scan
<1>26. ASSUME CancelTrashConfirmation PROVE SummariesArePast'
  BY <1>8, <1>26 DEF CancelTrashConfirmation, scanView
<1>27. ASSUME ConfirmTrash PROVE SummariesArePast'
  <2>1. /\ Begin(Task("confirmTrash", scanSummary, trashPendingRowID, trashPreparation.token))
        /\ scanSummary' = scanSummary
    BY <1>27 DEF ConfirmTrash, scanView
  <2> QED BY <1>1, <1>6, <1>9, <2>1
<1>28. ASSUME NEW p \in Places, Browse(p) PROVE SummariesArePast'
  BY <1>1, <1>6, <1>9, <1>28 DEF Browse, RowsTask, scanView
<1>29. ASSUME NEW n \in Nodes, PrepareTrash(n) PROVE SummariesArePast'
  <2>1. Begin(Task("prepareTrash", scanSummary, n, trashRequestVersion')) /\ scanSummary' = scanSummary
    BY <1>29 DEF PrepareTrash, scanView
  <2> QED BY <1>1, <1>6, <1>9, <2>1
<1>30. ASSUME ScanEnds PROVE SummariesArePast'
  BY <1>8, <1>30 DEF ScanEnds, window, scanView
<1>31. ASSUME Tell PROVE SummariesArePast'
  BY <1>8, <1>31 DEF Tell, window, scanView
<1>32. ASSUME UNCHANGED vars PROVE SummariesArePast'
  BY <1>8, <1>32 DEF vars, window, scanView
<1> QED BY StepsAre, <1>12, <1>13, <1>14, <1>15, <1>16, <1>17, <1>18, <1>19, <1>20, <1>21, <1>22, <1>23,
    <1>24, <1>25, <1>26, <1>27, <1>28, <1>29, <1>30, <1>31, <1>32 DEF StepKinds

(* The page: an answer that is shown is the one to the request made last,  *)
(* and what is refused is refused for a scan that is already replaced.     *)
LEMMA RowsStep ==
  ASSUME TypeOK, SnapshotIsNewest, SummariesArePast, RowsAreCurrent, PageIsWhereAsked, StepKinds
  PROVE  RowsAreCurrent' /\ PageIsWhereAsked'
<1> DEFINE Current(y) ==
             /\ y.version = rowRequestVersion' => y.scan = scanSummary' /\ y.node = currentParentID'
             /\ y.at = "answered" /\ ~y.ok => y.scan < result'
<1> USE DEF TypeOK
<1>1. /\ result \in Nat /\ result' \in Nat /\ result <= result' /\ scanSummary \in Nat /\ scanSummary <= result
      /\ \A y \in Of("rows") : y.scan \in Nat /\ y.version \in Nat /\ y.scan <= result
  BY ScansStep DEF ScansOK, ScreenOK, SummariesArePast, Of, TasksOK, TaskType
<1>2. ASSUME \A y \in Of("rows")' : Current(y) PROVE RowsAreCurrent'
  BY <1>2 DEF RowsAreCurrent
<1>3. \A y \in Of("rows") : y.at = "answered" /\ ~y.ok => y.scan < result'
  BY <1>1 DEF RowsAreCurrent
<1>4. ASSUME rowRequestVersion' = Fresh(Held("rows")) PROVE \A y \in Of("rows") : Current(y)
  BY <1>3, <1>4, FreshVersion
<1>5. ASSUME UNCHANGED <<rowRequestVersion, scanSummary, currentParentID>>
      PROVE  \A y \in Of("rows") : Current(y)
  BY <1>3, <1>5 DEF RowsAreCurrent
<1> HIDE DEF Current
<1>6. CASE RowsQuiet
  <2>1. Of("rows")' = Of("rows") /\ UNCHANGED <<rowPage, currentParentID, isLoadingRows, rowRequestVersion, scanSummary, result>>
    BY <1>6 DEF RowsQuiet, Kept, rowView
  <2>2. RowsAreCurrent'
    BY <1>2, <1>5, <2>1
  <2> QED BY <2>1, <2>2 DEF PageIsWhereAsked
<1>7. CASE Kept("rows") /\ UNCHANGED <<rowView, scanSummary>> /\ ScanEnds
  <2>1. Of("rows")' = Of("rows") /\ UNCHANGED <<rowPage, currentParentID, isLoadingRows, rowRequestVersion, scanSummary>>
    BY <1>7 DEF Kept, rowView
  <2>2. RowsAreCurrent'
    BY <1>2, <1>5, <2>1
  <2>3. result' = result \/ (result' = active /\ result < active)
    BY <1>7 DEF ScanEnds, EndScan, SnapshotIsNewest
  <2>4. result' = result \/ scanSummary' # result'
    BY <1>1, <2>1, <2>3 DEF ScansOK
  <2> QED BY <2>1, <2>2, <2>4 DEF PageIsWhereAsked
<1>8. ASSUME NEW n \in Nat, AcceptScan(n), Kept("rows"), UNCHANGED <<isLoadingRows, result>>
      PROVE  RowsAreCurrent' /\ PageIsWhereAsked'
  <2>1. Of("rows")' = Of("rows")
    BY <1>8 DEF Kept
  <2>2. CASE n = scanSummary
    <3>1. UNCHANGED <<scanSummary, rowRequestVersion, rowPage, currentParentID, isLoadingRows, result>>
      BY <1>8, <2>2 DEF AcceptScan
    <3>2. RowsAreCurrent'
      BY <1>2, <1>5, <2>1, <3>1
    <3> QED BY <3>1, <3>2 DEF PageIsWhereAsked
  <2>3. CASE n # scanSummary
    <3>1. rowRequestVersion' = Fresh(Held("rows")) /\ rowPage' = NoPage
      BY <1>8, <2>3 DEF AcceptScan
    <3>2. RowsAreCurrent'
      BY <1>2, <1>4, <2>1, <3>1
    <3> QED BY <3>1, <3>2 DEF PageIsWhereAsked
  <2> QED BY <2>2, <2>3
<1>9. ASSUME NEW t \in InFlight("rows", "asked"), ServeRead(t) PROVE RowsAreCurrent' /\ PageIsWhereAsked'
  <2> DEFINE ok == result = t.scan
  <2>1. t.what = "rows" /\ t \in Of("rows")
    BY AskedIsATask
  <2>2. Answer(t, ok, FALSE, 0) /\ UNCHANGED <<service, window>>
    BY <1>9, <2>1 DEF ServeRead
  <2>3. UNCHANGED <<rowPage, currentParentID, isLoadingRows, rowRequestVersion, scanSummary, result>>
    BY <2>2 DEF service, window, scanVars, rowView, scanView
  <2>4. ok \in BOOLEAN /\ FALSE \in BOOLEAN /\ 0 \in Nat
    OBVIOUS
  <2>5. PICK u : Replaced(t, u) /\ u.scan = t.scan /\ u.node = t.node /\ u.version = t.version /\ u.ok = ok
    <3> HIDE DEF ok
    <3>1. ASSUME NEW busy \in BOOLEAN, Answer(t, ok, busy, 0)
          PROVE  \E u : Replaced(t, u) /\ u.scan = t.scan /\ u.node = t.node /\ u.version = t.version /\ u.ok = ok
      BY <2>4, <3>1, AnswerFacts
    <3> QED BY <2>2, <2>4, <3>1
  <2>6. Of("rows")' \subseteq Of("rows") \cup {u}
    BY <2>5 DEF Replaced, Of
  <2>7. ~ok => u.scan < result'
    BY <1>1, <2>1, <2>3, <2>5 DEF ok
  <2>8. Current(u)
    BY <2>1, <2>3, <2>5, <2>7 DEF Current, RowsAreCurrent
  <2>9. RowsAreCurrent'
    BY <1>2, <1>5, <2>3, <2>6, <2>8
  <2> QED BY <2>3, <2>9 DEF PageIsWhereAsked
<1>10. ASSUME NEW t \in InFlight("rows", "answered"), RowsResume(t) PROVE RowsAreCurrent' /\ PageIsWhereAsked'
  <2>1. t \in Of("rows") /\ t \in BagToSet(tasks) /\ t.at = "answered" /\ t.ok \in BOOLEAN
    BY AskedIsATask
  <2>2. UNCHANGED <<scanSummary, currentParentID, rowRequestVersion, result>> /\ End(t)
    BY <1>10 DEF RowsResume, service, scanVars, scanView
  <2>3. Of("rows")' \subseteq Of("rows")
    BY <2>1, <2>2, EndFacts DEF Ended, Of
  <2>4. RowsAreCurrent'
    BY <1>2, <1>5, <2>2, <2>3
  <2>5. CASE t.version # rowRequestVersion
    <3>1. UNCHANGED <<rowPage, isLoadingRows>>
      BY <1>10, <2>5 DEF RowsResume, ScreenOK
    <3> QED BY <2>2, <2>4, <3>1 DEF PageIsWhereAsked
  <2>6. CASE t.version = rowRequestVersion
    <3>1. t.scan = scanSummary /\ t.node = currentParentID /\ (~t.ok => t.scan < result)
      BY <2>1, <2>6 DEF RowsAreCurrent
    <3>2. CASE t.ok
      <4>1. rowPage' = [scan |-> t.scan, parent |-> t.node]
        BY <1>10, <2>6, <3>1, <3>2 DEF RowsResume
      <4>2. rowPage'.scan = scanSummary' /\ rowPage'.parent = currentParentID'
        BY <2>2, <3>1, <4>1
      <4> QED BY <2>4, <4>2 DEF PageIsWhereAsked
    <3>3. CASE ~t.ok
      <4>1. rowPage' = rowPage /\ scanSummary < result
        BY <1>10, <3>1, <3>3 DEF RowsResume
      <4>2. scanSummary' # result'
        BY <1>1, <2>2, <4>1
      <4> QED BY <2>2, <2>4, <4>1, <4>2 DEF PageIsWhereAsked
    <3> QED BY <3>2, <3>3
  <2> QED BY <2>5, <2>6
<1>11. ASSUME NEW p \in Places, RowsAsked(p) PROVE RowsAreCurrent' /\ PageIsWhereAsked'
  <2> DEFINE u == RowsTask(p)
  <2>1. u.version = Fresh(Held("rows")) /\ u.scan = scanSummary /\ u.node = p /\ u.at = "asked"
    BY DEF RowsTask, Task
  <2>2. /\ rowRequestVersion' = Fresh(Held("rows")) /\ currentParentID' = p /\ isLoadingRows' = TRUE
        /\ UNCHANGED <<rowPage, scanSummary, result>> /\ Of("rows")' \subseteq Of("rows") \cup {u}
    BY <1>11 DEF RowsAsked, LoadRows
  <2> HIDE DEF u
  <2>3. Current(u)
    BY <2>1, <2>2 DEF Current
  <2>4. RowsAreCurrent'
    BY <1>2, <1>4, <2>2, <2>3
  <2> QED BY <2>2, <2>4 DEF PageIsWhereAsked
<1> QED BY WhatStepsDo, <1>6, <1>7, <1>8, <1>9, <1>10, <1>11 DEF RowChanges

(* What serving and ending do to the Tasks of the dialog.                  *)
LEMMA PrepareAnswered ==
  ASSUME TasksOK, VersionsAreApart, NEW t \in InFlight("prepareTrash", "asked"), NEW ok \in BOOLEAN,
         NEW busy \in BOOLEAN, NEW n \in Nat, Answer(t, ok, busy, n)
  PROVE  /\ t \in Of("prepareTrash") /\ \A y \in Of("prepareTrash") \ {t} : tasks'[y] = 1 /\ y.version # t.version
         /\ Kept("confirmTrash")
         /\ \E u : /\ Of("prepareTrash")' = (Of("prepareTrash") \ {t}) \cup {u} /\ tasks'[u] = 1
                   /\ u.version = t.version /\ u.node = t.node /\ u.scan = t.scan /\ u.ok = ok /\ u.n = n
<1> DEFINE u == Answered(t, ok, busy, n)
<1>1. t \in Of("prepareTrash") /\ t.what = "prepareTrash"
  BY AskedIsATask
<1>2. /\ Replaced(t, u) /\ u # t /\ u.what = "prepareTrash"
      /\ u.version = t.version /\ u.node = t.node /\ u.scan = t.scan /\ u.ok = ok /\ u.n = n
  BY AnswerFacts
<1> HIDE DEF u
<1>3. tasks[t] = 1 /\ \A y \in Of("prepareTrash") \ {t} : y.version # t.version /\ tasks[y] = 1
  BY <1>1 DEF VersionsAreApart
<1>4. u \notin BagToSet(tasks)
  BY <1>2, <1>3 DEF Of
<1>5. Of("prepareTrash")' = (Of("prepareTrash") \ {t}) \cup {u}
  BY <1>2, <1>3 DEF Replaced, Of
<1>6. tasks'[u] = 1 /\ \A y \in Of("prepareTrash") \ {t} : tasks'[y] = 1
  BY <1>2, <1>3, <1>4 DEF Replaced, Of
<1>7. Kept("confirmTrash")
  BY <1>1, <1>2 DEF Replaced
<1> QED BY <1>1, <1>2, <1>3, <1>5, <1>6, <1>7

(* The same of a confirmation that is answered.                            *)
LEMMA ConfirmAnswered ==
  ASSUME TasksOK, NEW t \in InFlight("confirmTrash", "asked"), NEW ok \in BOOLEAN, NEW busy \in BOOLEAN,
         NEW n \in Nat, Answer(t, ok, busy, n)
  PROVE  /\ t \in Of("confirmTrash") /\ Kept("prepareTrash")
         /\ \E u : /\ u \in Of("confirmTrash")' /\ u.version = t.version
                   /\ Of("confirmTrash")' \subseteq Of("confirmTrash") \cup {u}
<1> DEFINE u == Answered(t, ok, busy, n)
<1>1. t \in Of("confirmTrash") /\ t.what = "confirmTrash"
  BY AskedIsATask
<1>2. Replaced(t, u) /\ u.what = "confirmTrash" /\ u.version = t.version
  BY AnswerFacts
<1> HIDE DEF u
<1>3. u \in Of("confirmTrash")' /\ Of("confirmTrash")' \subseteq Of("confirmTrash") \cup {u}
  BY <1>2 DEF Replaced, Of
<1>4. Kept("prepareTrash")
  BY <1>1, <1>2 DEF Replaced
<1> QED BY <1>1, <1>2, <1>3, <1>4

(* A preparation that ends is gone.                                        *)
LEMMA PrepareEnded ==
  ASSUME TasksOK, VersionsAreApart, NEW t \in InFlight("prepareTrash", "answered"), End(t)
  PROVE  /\ t \in Of("prepareTrash") /\ Of("prepareTrash")' = Of("prepareTrash") \ {t}
         /\ \A y \in Of("prepareTrash") \ {t} : tasks'[y] = 1 /\ y.version # t.version
         /\ Kept("confirmTrash")
<1>1. t \in BagToSet(tasks) /\ t \in Of("prepareTrash") /\ t.what = "prepareTrash"
  BY AskedIsATask
<1>2. Ended(t)
  BY <1>1, EndFacts
<1>3. tasks[t] = 1 /\ \A y \in Of("prepareTrash") \ {t} : y.version # t.version /\ tasks[y] = 1
  BY <1>1 DEF VersionsAreApart
<1>4. Of("prepareTrash")' = Of("prepareTrash") \ {t}
  BY <1>2, <1>3 DEF Ended, Of
<1>5. \A y \in Of("prepareTrash") \ {t} : tasks'[y] = 1
  BY <1>2, <1>3 DEF Ended, Of
<1>6. Kept("confirmTrash")
  BY <1>1, <1>2 DEF Ended
<1> QED BY <1>1, <1>3, <1>4, <1>5, <1>6

(* A confirmation that ends is gone.                                       *)
LEMMA ConfirmEnded ==
  ASSUME TasksOK, NEW t \in InFlight("confirmTrash", "answered"), End(t)
  PROVE  Of("confirmTrash")' \subseteq Of("confirmTrash") /\ Kept("prepareTrash")
<1>1. t \in BagToSet(tasks) /\ t.what = "confirmTrash"
  BY AskedIsATask
<1>2. Ended(t)
  BY <1>1, EndFacts
<1> QED BY <1>1, <1>2 DEF Ended, Of

(* A preparation that begins has a version of its own.                     *)
LEMMA PrepareBegun ==
  ASSUME TypeOK, VersionsAreApart, NEW n, PrepareTrash(n)
  PROVE  \E u : /\ Of("prepareTrash")' = Of("prepareTrash") \cup {u} /\ tasks'[u] = 1
                /\ \A y \in Of("prepareTrash") : tasks'[y] = 1 /\ y.version # u.version
                /\ u.version = trashRequestVersion' /\ u.node = n /\ u.at = "asked"
                /\ Kept("confirmTrash")
<1> DEFINE u == Task("prepareTrash", scanSummary, n, trashRequestVersion')
<1>1. /\ u.what = "prepareTrash" /\ u.node = n /\ u.version = trashRequestVersion' /\ u.at = "asked"
      /\ Begin(u) /\ u.version = Fresh(Held("prepareTrash"))
  BY DEF PrepareTrash, Task
<1> HIDE DEF u
<1>2. Begun(u)
  BY <1>1, BeginFacts DEF TypeOK
<1>3. \A y \in Of("prepareTrash") : y.version # u.version
  BY <1>1, FreshVersion DEF TypeOK
<1>4. u \notin BagToSet(tasks)
  BY <1>1, <1>3 DEF Of
<1>5. Of("prepareTrash")' = Of("prepareTrash") \cup {u} /\ tasks'[u] = 1
  BY <1>1, <1>2, <1>4 DEF Begun, Of
<1>6. \A y \in Of("prepareTrash") : tasks'[y] = 1
  BY <1>2, <1>4 DEF Begun, Of, VersionsAreApart
<1>7. Kept("confirmTrash")
  BY <1>1, <1>2 DEF Begun
<1> QED BY <1>1, <1>3, <1>5, <1>6, <1>7

(* A confirmation that begins carries the token on screen.                 *)
LEMMA ConfirmBegun ==
  ASSUME TypeOK, ConfirmTrash
  PROVE  \E u : /\ Of("confirmTrash")' = Of("confirmTrash") \cup {u} /\ u.version = trashPreparation.token
                /\ Kept("prepareTrash")
<1> DEFINE u == Task("confirmTrash", scanSummary, trashPendingRowID, trashPreparation.token)
<1>1. u.what = "confirmTrash" /\ u.version = trashPreparation.token /\ Begin(u)
  BY DEF ConfirmTrash, Task
<1> HIDE DEF u
<1>2. Begun(u)
  BY <1>1, BeginFacts DEF TypeOK
<1>3. Of("confirmTrash")' = Of("confirmTrash") \cup {u}
  BY <1>1, <1>2 DEF Begun, Of
<1>4. Kept("prepareTrash")
  BY <1>1, <1>2 DEF Begun
<1> QED BY <1>1, <1>3, <1>4

(* What is held by the Tasks of the dialog are their versions.             *)
LEMMA WorkIs ==
  /\ Held("prepareTrash") = {t.version : t \in Of("prepareTrash")}
  /\ Held("confirmTrash") = {t.version : t \in Of("confirmTrash")}
BY DEF Held, Of

(* The dialog: an answer opens it for the row it was asked for, and only   *)
(* while nothing was selected or closed since.                             *)
LEMMA DialogStep ==
  ASSUME TypeOK, VersionsAreApart, PreparationIsShown, DialogNamesItsRow, WorkIsUnderWay, StepKinds
  PROVE  VersionsAreApart' /\ PreparationIsShown' /\ DialogNamesItsRow' /\ WorkIsUnderWay'
<1> DEFINE Goal == VersionsAreApart' /\ PreparationIsShown' /\ DialogNamesItsRow' /\ WorkIsUnderWay'
           P == Of("prepareTrash")
           C == Of("confirmTrash")
<1> USE DEF TypeOK
<1>1. /\ isPreparingTrash => \E y \in P : y.version = trashRequestVersion
      /\ isMovingToTrash => C # {}
  BY WorkIs DEF WorkIsUnderWay
<1>2. ASSUME isPreparingTrash' => \E y \in P' : y.version = trashRequestVersion',
             isMovingToTrash' => C' # {}
      PROVE  WorkIsUnderWay'
  <2>1. Held("prepareTrash")' = {y.version : y \in P'} /\ Held("confirmTrash")' = {y.version : y \in C'}
    BY DEF Held, Of
  <2> QED BY <1>2, <2>1 DEF WorkIsUnderWay
<1>3. ASSUME Kept("prepareTrash") PROVE P' = P /\ VersionsAreApart'
  BY <1>3 DEF Kept, VersionsAreApart
<1>4. ASSUME Kept("confirmTrash") PROVE C' = C
  BY <1>4 DEF Kept
<1> HIDE DEF P, C
<1>5. CASE DialogKept /\ UNCHANGED dialog
  <2>1. /\ P' = P /\ C' = C /\ VersionsAreApart'
        /\ UNCHANGED <<trashPreparation, trashPendingRowID, isPreparingTrash, trashRequestVersion, isMovingToTrash>>
    BY <1>3, <1>4, <1>5 DEF DialogKept, dialog
  <2> QED BY <1>1, <1>2, <2>1 DEF PreparationIsShown, DialogNamesItsRow, P
<1>6. CASE DialogKept /\ Invalidate
  <2>1. /\ P' = P /\ C' = C /\ VersionsAreApart' /\ trashPreparation' = NoPreparation /\ isPreparingTrash' = FALSE
        /\ isMovingToTrash' = isMovingToTrash /\ trashRequestVersion' = Fresh(Held("prepareTrash"))
    BY <1>3, <1>4, <1>6 DEF DialogKept, Invalidate
  <2>2. \A y \in P' : y.version # trashRequestVersion'
    BY <2>1, FreshVersion DEF P
  <2> QED BY <1>1, <1>2, <2>1, <2>2 DEF PreparationIsShown, DialogNamesItsRow, P
<1>7. ASSUME NEW t \in InFlight("prepareTrash", "asked"), ServePrepare(t) PROVE Goal
  <2>1. PICK ok \in BOOLEAN, busy \in BOOLEAN, n \in Nat : Answer(t, ok, busy, n)
    BY <1>7, PrepareServed, FreshToken
  <2>2. /\ t \in P /\ \A y \in P \ {t} : tasks'[y] = 1 /\ y.version # t.version
        /\ Kept("confirmTrash")
    BY <2>1, PrepareAnswered DEF P
  <2>3. PICK u : /\ P' = (P \ {t}) \cup {u} /\ tasks'[u] = 1
                 /\ u.version = t.version /\ u.node = t.node
    BY <2>1, PrepareAnswered DEF P
  <2>4. UNCHANGED <<trashPreparation, trashPendingRowID, isPreparingTrash, trashRequestVersion, isMovingToTrash>>
    BY <1>7 DEF ServePrepare, window, dialog, moving
  <2>5. VersionsAreApart'
    BY <2>2, <2>3 DEF VersionsAreApart, P
  <2>6. PreparationIsShown'
    BY <2>2, <2>3, <2>4 DEF PreparationIsShown, P
  <2>7. WorkIsUnderWay'
    BY <1>1, <1>2, <1>4, <2>2, <2>3, <2>4
  <2> QED BY <2>4, <2>5, <2>6, <2>7 DEF DialogNamesItsRow
<1>8. ASSUME NEW t \in InFlight("confirmTrash", "asked"), ServeConfirm(t) PROVE Goal
  <2>1. \E ok \in BOOLEAN, busy \in BOOLEAN, n \in Nat : Answer(t, ok, busy, n)
    BY <1>8 DEF ServeConfirm
  <2>2. P' = P /\ VersionsAreApart' /\ C' # {}
    BY <1>3, <2>1, ConfirmAnswered DEF C
  <2>3. UNCHANGED <<trashPreparation, trashPendingRowID, isPreparingTrash, trashRequestVersion, isMovingToTrash>>
    BY <1>8 DEF ServeConfirm, window, dialog, moving
  <2> QED BY <1>1, <1>2, <2>2, <2>3 DEF PreparationIsShown, DialogNamesItsRow, P
<1>9. ASSUME NEW t \in InFlight("prepareTrash", "answered"), PrepareResumes(t) PROVE Goal
  <2>1. /\ t \in P /\ P' = P \ {t} /\ \A y \in P \ {t} : tasks'[y] = 1 /\ y.version # t.version
        /\ Kept("confirmTrash")
    BY <1>9, PrepareEnded DEF PrepareResumes, P
  <2>2. C' = C /\ isMovingToTrash' = isMovingToTrash
    BY <1>4, <1>9, <2>1 DEF PrepareResumes, moving
  <2>3. VersionsAreApart'
    BY <2>1 DEF VersionsAreApart, P
  <2>4. CASE t.version # trashRequestVersion
    <3>1. UNCHANGED <<trashPreparation, trashPendingRowID, isPreparingTrash, trashRequestVersion>>
      BY <1>9, <2>4 DEF PrepareResumes, dialog
    <3>2. PreparationIsShown' /\ DialogNamesItsRow'
      BY <2>1, <3>1 DEF PreparationIsShown, DialogNamesItsRow, P
    <3>3. WorkIsUnderWay'
      BY <1>1, <1>2, <2>1, <2>2, <2>4, <3>1
    <3> QED BY <2>3, <3>2, <3>3
  <2>5. CASE t.version = trashRequestVersion
    <3>1. t.node = trashPendingRowID /\ trashPreparation = NoPreparation
      BY <2>1, <2>5 DEF PreparationIsShown, P
    <3>2. isPreparingTrash' = FALSE /\ trashRequestVersion' = trashRequestVersion
      BY <1>9, <2>5 DEF PrepareResumes
    <3>3. PreparationIsShown'
      BY <2>1, <2>5, <3>2 DEF PreparationIsShown, P
    <3>4. \/ trashPreparation' = [token |-> t.n, scan |-> t.scan, node |-> t.node] /\ UNCHANGED trashPendingRowID
          \/ trashPreparation' = NoPreparation
      BY <1>9, <2>5, <3>1 DEF PrepareResumes
    <3>5. DialogNamesItsRow'
      BY <3>1, <3>4 DEF DialogNamesItsRow
    <3>6. WorkIsUnderWay'
      BY <1>1, <1>2, <2>2, <3>2
    <3> QED BY <2>3, <3>3, <3>5, <3>6
  <2> QED BY <2>4, <2>5
<1>10. ASSUME NEW t \in InFlight("confirmTrash", "answered"), ConfirmResumes(t) PROVE Goal
  <2>1. P' = P /\ VersionsAreApart' /\ isMovingToTrash' = FALSE
    BY <1>3, <1>10, ConfirmEnded DEF ConfirmResumes
  <2>2. UNCHANGED <<trashPreparation, trashPendingRowID, isPreparingTrash, trashRequestVersion>>
    BY <1>10 DEF ConfirmResumes, dialog
  <2> QED BY <1>1, <1>2, <2>1, <2>2 DEF PreparationIsShown, DialogNamesItsRow, P
<1>11. ASSUME NEW n \in Nodes, PrepareTrash(n) PROVE Goal
  <2>1. PICK u : /\ P' = P \cup {u} /\ tasks'[u] = 1
                 /\ \A y \in P : tasks'[y] = 1 /\ y.version # u.version
                 /\ u.version = trashRequestVersion' /\ u.node = n /\ Kept("confirmTrash")
    BY <1>11, PrepareBegun DEF P
  <2>2. /\ isPreparingTrash' = TRUE /\ trashPendingRowID' = n /\ trashPreparation' = NoPreparation
        /\ isMovingToTrash' = isMovingToTrash
    BY <1>11 DEF PrepareTrash, CanMoveToTrash, moving
  <2>3. VersionsAreApart'
    BY <2>1 DEF VersionsAreApart, P
  <2>4. PreparationIsShown' /\ DialogNamesItsRow'
    BY <2>1, <2>2 DEF PreparationIsShown, DialogNamesItsRow, P
  <2>5. WorkIsUnderWay'
    BY <1>1, <1>2, <1>4, <2>1, <2>2
  <2> QED BY <2>3, <2>4, <2>5
<1>12. CASE ConfirmTrash
  <2>1. Kept("prepareTrash") /\ C' # {}
    BY <1>12, ConfirmBegun DEF C
  <2>2. /\ trashPreparation # NoPreparation /\ trashPreparation' = NoPreparation
        /\ UNCHANGED <<isPreparingTrash, trashRequestVersion>>
    BY <1>12 DEF ConfirmTrash
  <2>3. P' = P /\ VersionsAreApart'
    BY <1>3, <2>1
  <2>4. (\A y \in P : y.version # trashRequestVersion) /\ ~isPreparingTrash
    BY <1>1, <2>2 DEF PreparationIsShown, P
  <2>5. PreparationIsShown' /\ DialogNamesItsRow'
    BY <2>2, <2>3, <2>4 DEF PreparationIsShown, DialogNamesItsRow, P
  <2>6. WorkIsUnderWay'
    BY <1>2, <2>1, <2>2, <2>4
  <2> QED BY <2>3, <2>5, <2>6
<1> HIDE DEF Goal
<1>13. Goal
  <2>1. (DialogKept /\ UNCHANGED dialog => Goal) /\ (DialogKept /\ Invalidate => Goal) /\ (ConfirmTrash => Goal)
    BY <1>5, <1>6, <1>12 DEF Goal
  <2> QED BY WhatStepsDo, <1>7, <1>8, <1>9, <1>10, <1>11, <2>1 DEF DialogChanges
<1> QED BY <1>13 DEF Goal

(* The tokens: one that is still good is good for what its dialog named.   *)
LEMMA TokensStep ==
  ASSUME TypeOK, VersionsAreApart, TokensAreShown, MovesAreConfirmed, StepKinds
  PROVE  TokensAreShown' /\ MovesAreConfirmed'
<1> DEFINE Goal == TokensAreShown' /\ MovesAreConfirmed'
           P == Of("prepareTrash")
           C == Of("confirmTrash")
           Opens(y) ==
             y.at = "answered" /\ y.ok =>
               y.n # 0 /\ (pending'.token = y.n => pending' = [token |-> y.n, scan |-> y.scan, node |-> y.node])
           Confirms(y) ==
             y.version # 0 /\ (pending'.token = y.version => <<pending'.scan, pending'.node>> \in confirmed')
           Shows(d) ==
             d # NoPreparation => d.token # 0 /\ (pending'.token = d.token => pending' = d)
<1> USE DEF TypeOK
<1>1. ASSUME Shows(trashPreparation'), \A y \in P' : Opens(y), \A y \in C' : Confirms(y)
      PROVE  TokensAreShown'
  BY <1>1 DEF TokensAreShown
<1>2. ASSUME pending' = pending, confirmed \subseteq confirmed'
      PROVE  Shows(trashPreparation) /\ (\A y \in P : Opens(y)) /\ (\A y \in C : Confirms(y))
  BY <1>2 DEF TokensAreShown
<1>3. Shows(NoPreparation)
  OBVIOUS
<1>4. ASSUME pending' = NoPreparation
      PROVE  Shows(trashPreparation) /\ (\A y \in P : Opens(y)) /\ (\A y \in C : Confirms(y))
  <2>1. pending'.token = 0
    BY <1>4 DEF NoPreparation
  <2> QED BY <2>1 DEF TokensAreShown
<1>5. ASSUME UNCHANGED moved, confirmed \subseteq confirmed' PROVE MovesAreConfirmed'
  BY <1>5 DEF MovesAreConfirmed
<1> HIDE DEF P, C, Opens, Confirms, Shows
<1>6. ASSUME DialogKept PROVE P' = P /\ C' = C /\ UNCHANGED <<pending, moved, confirmed>>
  BY <1>6 DEF DialogKept, Kept, trashService, P, C
<1>7. CASE DialogKept /\ UNCHANGED dialog
  <2>1. P' = P /\ C' = C /\ UNCHANGED <<pending, moved, confirmed, trashPreparation>>
    BY <1>6, <1>7 DEF dialog
  <2> QED BY <1>1, <1>2, <1>5, <2>1
<1>8. CASE DialogKept /\ Invalidate
  <2>1. P' = P /\ C' = C /\ UNCHANGED <<pending, moved, confirmed>> /\ trashPreparation' = NoPreparation
    BY <1>6, <1>8 DEF Invalidate
  <2> QED BY <1>1, <1>2, <1>3, <1>5, <2>1
<1>9. ASSUME NEW t \in InFlight("prepareTrash", "asked"), ServePrepare(t) PROVE Goal
  <2> DEFINE k == Fresh(TokensHeld)
  <2>1. UNCHANGED <<moved, trashPreparation, confirmed>>
    BY <1>9 DEF ServePrepare, window, dialog, moving
  <2>2. k \in Nat
    BY FreshToken
  <2>3. CASE Answer(t, FALSE, FALSE, 0) /\ UNCHANGED pending
    <3>1. PICK ok \in BOOLEAN, busy \in BOOLEAN, n \in Nat : Answer(t, ok, busy, n) /\ ~ok
      BY <2>3
    <3>2. Kept("confirmTrash") /\ \E u : P' = (P \ {t}) \cup {u} /\ u.ok = ok
      BY <3>1, PrepareAnswered DEF P
    <3>3. \A y \in P' : Opens(y)
      <4>1. ASSUME NEW u, u.ok = ok PROVE Opens(u)
        BY <3>1, <4>1 DEF Opens
      <4> QED BY <1>2, <2>1, <2>3, <3>2, <4>1
    <3>4. C' = C
      BY <3>2 DEF Kept, C
    <3> QED BY <1>1, <1>2, <1>5, <2>1, <2>3, <3>3, <3>4
  <2>4. CASE /\ Answer(t, TRUE, FALSE, k)
             /\ pending' = [token |-> k, scan |-> t.scan, node |-> t.node]
    <3>1. PICK ok \in BOOLEAN, busy \in BOOLEAN : Answer(t, ok, busy, k)
      BY <2>4
    <3> HIDE DEF k
    <3>2. /\ t \in P /\ Kept("confirmTrash")
          /\ \E u : P' = (P \ {t}) \cup {u} /\ u.scan = t.scan /\ u.node = t.node /\ u.n = k
      BY <2>2, <3>1, PrepareAnswered DEF P
    <3>3. C' = C
      BY <3>2 DEF Kept, C
    <3>4. /\ k # 0 /\ k # trashPreparation.token /\ (\A y \in C : y.version # k)
          /\ \A y \in P : y.at = "answered" => y.n # k
      BY FreshToken DEF k, C, P
    <3>5. pending'.token = k
      BY <2>4
    <3>6. Shows(trashPreparation')
      BY <2>1, <3>4, <3>5 DEF Shows, TokensAreShown
    <3>7. \A y \in C' : Confirms(y)
      BY <3>3, <3>4, <3>5 DEF Confirms, TokensAreShown, C
    <3>8. \A y \in P : Opens(y)
      BY <3>4, <3>5 DEF Opens, TokensAreShown, P
    <3>9. ASSUME NEW u, u.scan = t.scan, u.node = t.node, u.n = k PROVE Opens(u)
      BY <2>4, <3>4, <3>9 DEF Opens
    <3>10. \A y \in P' : Opens(y)
      BY <3>2, <3>8, <3>9
    <3> QED BY <1>1, <1>5, <2>1, <3>6, <3>7, <3>10
  <2> QED BY <1>9, <2>3, <2>4, PrepareServed
<1>10. ASSUME NEW t \in InFlight("confirmTrash", "asked"), ServeConfirm(t) PROVE Goal
  <2>1. \E ok \in BOOLEAN, busy \in BOOLEAN, n \in Nat : Answer(t, ok, busy, n)
    BY <1>10 DEF ServeConfirm
  <2>2. t \in C /\ Kept("prepareTrash") /\ \E u : u.version = t.version /\ C' \subseteq C \cup {u}
    BY <2>1, ConfirmAnswered DEF C
  <2>3. P' = P
    BY <2>2 DEF Kept, P
  <2>4. UNCHANGED <<trashPreparation, confirmed>>
    BY <1>10 DEF ServeConfirm, window, dialog, moving
  <2>5. pending' = NoPreparation \/ pending' = pending
    BY <1>10 DEF ServeConfirm
  <2>6. Shows(trashPreparation') /\ (\A y \in P' : Opens(y)) /\ (\A y \in C : Confirms(y))
    BY <1>2, <1>4, <2>3, <2>4, <2>5
  <2>7. \A y \in C' : Confirms(y)
    BY <2>2, <2>6 DEF Confirms
  <2>8. MovesAreConfirmed'
    <3>1. CASE UNCHANGED moved
      BY <1>5, <2>4, <3>1
    <3>2. CASE pending.token = t.version /\ moved' = moved \cup {<<pending.scan, pending.node>>}
      <4>1. <<pending.scan, pending.node>> \in confirmed
        BY <2>2, <3>2 DEF TokensAreShown, C
      <4> QED BY <2>4, <3>2, <4>1 DEF MovesAreConfirmed
    <3> QED BY <1>10, <3>1, <3>2 DEF ServeConfirm
  <2> QED BY <1>1, <2>6, <2>7, <2>8
<1>11. ASSUME NEW t \in InFlight("prepareTrash", "answered"), PrepareResumes(t) PROVE Goal
  <2>1. t \in P /\ P' = P \ {t} /\ Kept("confirmTrash") /\ t.at = "answered"
    BY <1>11, PrepareEnded, AskedIsATask DEF PrepareResumes, P
  <2>2. C' = C
    BY <2>1 DEF Kept, C
  <2>3. UNCHANGED <<pending, moved, confirmed>>
    BY <1>11 DEF PrepareResumes, service, trashService, moving
  <2>4. \/ trashPreparation' = trashPreparation
        \/ t.ok /\ trashPreparation' = [token |-> t.n, scan |-> t.scan, node |-> t.node]
    BY <1>11 DEF PrepareResumes, dialog
  <2>5. Shows(trashPreparation')
    <3>1. CASE trashPreparation' = trashPreparation
      BY <1>2, <2>3, <3>1
    <3>2. CASE t.ok /\ trashPreparation' = [token |-> t.n, scan |-> t.scan, node |-> t.node]
      <4>1. t.n # 0 /\ (pending.token = t.n => pending = [token |-> t.n, scan |-> t.scan, node |-> t.node])
        BY <2>1, <3>2 DEF TokensAreShown, P
      <4> QED BY <2>3, <3>2, <4>1 DEF Shows
    <3> QED BY <2>4, <3>1, <3>2
  <2> QED BY <1>1, <1>2, <1>5, <2>1, <2>2, <2>3, <2>5
<1>12. ASSUME NEW t \in InFlight("confirmTrash", "answered"), ConfirmResumes(t) PROVE Goal
  <2>1. C' \subseteq C /\ Kept("prepareTrash")
    BY <1>12, ConfirmEnded DEF ConfirmResumes, C
  <2>2. P' = P
    BY <2>1 DEF Kept, P
  <2>3. UNCHANGED <<pending, moved, confirmed, trashPreparation>>
    BY <1>12 DEF ConfirmResumes, service, trashService, dialog
  <2> QED BY <1>1, <1>2, <1>5, <2>1, <2>2, <2>3
<1>13. ASSUME NEW n \in Nodes, PrepareTrash(n) PROVE Goal
  <2>1. Kept("confirmTrash") /\ \E u : P' = P \cup {u} /\ u.at = "asked"
    BY <1>13, PrepareBegun DEF P
  <2>2. C' = C
    BY <2>1 DEF Kept, C
  <2>3. UNCHANGED <<pending, moved, confirmed, trashPreparation>>
    BY <1>13 DEF PrepareTrash, service, trashService, moving
  <2>4. ASSUME NEW u, u.at = "asked" PROVE Opens(u)
    BY <2>4 DEF Opens
  <2>5. \A y \in P' : Opens(y)
    BY <1>2, <2>1, <2>3, <2>4
  <2> QED BY <1>1, <1>2, <1>5, <2>2, <2>3, <2>5
<1>14. CASE ConfirmTrash
  <2>1. Kept("prepareTrash") /\ \E u : C' = C \cup {u} /\ u.version = trashPreparation.token
    BY <1>14, ConfirmBegun DEF C
  <2>2. P' = P
    BY <2>1 DEF Kept, P
  <2>3. /\ trashPreparation # NoPreparation /\ trashPreparation' = NoPreparation /\ UNCHANGED <<pending, moved>>
        /\ confirmed' = confirmed \cup {<<trashPreparation.scan, trashPreparation.node>>}
    BY <1>14 DEF ConfirmTrash, service, trashService
  <2>4. ASSUME NEW u, u.version = trashPreparation.token PROVE Confirms(u)
    BY <2>3, <2>4 DEF Confirms, TokensAreShown
  <2>5. confirmed \subseteq confirmed'
    BY <2>3
  <2>6. \A y \in C' : Confirms(y)
    BY <1>2, <2>1, <2>3, <2>4, <2>5
  <2> QED BY <1>1, <1>2, <1>3, <1>5, <2>2, <2>3, <2>5, <2>6
<1> HIDE DEF Goal
<1>15. Goal
  <2>1. (DialogKept /\ UNCHANGED dialog => Goal) /\ (DialogKept /\ Invalidate => Goal) /\ (ConfirmTrash => Goal)
    BY <1>7, <1>8, <1>14 DEF Goal
  <2> QED BY WhatStepsDo, <1>9, <1>10, <1>11, <1>12, <1>13, <2>1 DEF DialogChanges
<1> QED BY <1>15 DEF Goal

-----------------------------------------------------------------------------

(* An empty window satisfies the invariant.                                *)
LEMMA InitEstablishesWindowInv ==
  ASSUME Init
  PROVE  WindowInv
<1>1. BagToSet(tasks) = {} /\ IsABag(tasks)
  BY DEF Init, EmptyBag, SetToBag, BagToSet, IsABag
<1>2. TasksOK /\ \A what : Of(what) = {} /\ Held(what) = {}
  BY <1>1, FS_EmptySet DEF TasksOK, Of, Held
<1>3. ScansOK /\ SnapshotIsNewest
  BY DEF Init, ScanInit, ScansOK, SnapshotIsNewest, None
<1>4. ScreenOK /\ DialogOK
  BY PlaceTypes DEF Init, ScreenOK, DialogOK
<1>5. SummariesArePast
  BY <1>1 DEF Init, ScanInit, SummariesArePast, None
<1>6. RowsAreCurrent /\ VersionsAreApart /\ PreparationIsShown /\ TokensAreShown
  BY <1>2 DEF Init, RowsAreCurrent, VersionsAreApart, PreparationIsShown, TokensAreShown
<1>7. PageIsWhereAsked /\ DialogNamesItsRow /\ WorkIsUnderWay /\ MovesAreConfirmed
  BY DEF Init, PageIsWhereAsked, DialogNamesItsRow, WorkIsUnderWay, MovesAreConfirmed
<1> QED BY <1>2, <1>3, <1>4, <1>5, <1>6, <1>7 DEF WindowInv, TypeOK

(* And every step keeps it.                                                *)
LEMMA StepKeepsWindowInv ==
  ASSUME WindowInv, [Next /\ UNCHANGED load]_<<vars, load>>
  PROVE  WindowInv'
<1>1. StepKinds
  BY StepsAre
<1>2. TypeOK'
  BY <1>1, TasksStep, ScansStep, ScreenStep, DialogTypes DEF WindowInv, TypeOK
<1>3. SnapshotIsNewest' /\ SummariesArePast'
  BY <1>1, ScansStep, PastStep DEF WindowInv
<1>4. RowsAreCurrent' /\ PageIsWhereAsked'
  BY <1>1, RowsStep DEF WindowInv
<1>5. VersionsAreApart' /\ PreparationIsShown' /\ DialogNamesItsRow' /\ WorkIsUnderWay'
  BY <1>1, DialogStep DEF WindowInv
<1>6. TokensAreShown' /\ MovesAreConfirmed'
  BY <1>1, TokensStep DEF WindowInv
<1> QED BY <1>2, <1>3, <1>4, <1>5, <1>6 DEF WindowInv

(* The inductive invariant of the window and its service: types, what each *)
(* Task under way may still do, and the four properties below.             *)
THEOREM WindowInductive == Spec => []WindowInv
BY InitEstablishesWindowInv, StepKeepsWindowInv, PTL DEF Spec

(* Every variable keeps its type, and no Task but the dashboard's waits    *)
(* unbegun.                                                                *)
THEOREM WindowTypes == Spec => []TypeOK
<1>1. WindowInv => TypeOK
  BY DEF WindowInv
<1> QED BY <1>1, WindowInductive, PTL

(* The page on screen is of the scan whose totals are beside it and, once  *)
(* loaded, of the place asked for last (AppModel.swift loadRows).          *)
THEOREM PageStaysWhereAsked == Spec => []PageIsWhereAsked
<1>1. WindowInv => PageIsWhereAsked
  BY DEF WindowInv
<1> QED BY <1>1, WindowInductive, PTL

(* The Trash dialog names the row it was opened for (prepareTrash).        *)
THEOREM DialogIsTrue == Spec => []DialogNamesItsRow
<1>1. WindowInv => DialogNamesItsRow
  BY DEF WindowInv
<1> QED BY <1>1, WindowInductive, PTL

(* Whatever the service moved, a dialog named it and was confirmed.        *)
THEOREM MovesWereConfirmed == Spec => []MovesAreConfirmed
<1>1. WindowInv => MovesAreConfirmed
  BY DEF WindowInv
<1> QED BY <1>1, WindowInductive, PTL

(* What is shown as under way still has a Task that ends it.               *)
THEOREM WorkGoesOn == Spec => []WorkIsUnderWay
<1>1. WindowInv => WorkIsUnderWay
  BY DEF WindowInv
<1> QED BY <1>1, WindowInductive, PTL

(* No part of the window gets ahead of the service: a summary on screen or *)
(* on its way, and a scan any Task captured, was the snapshot before.      *)
THEOREM WindowFollowsService == Spec => [](SnapshotIsNewest /\ SummariesArePast)
<1>1. WindowInv => SnapshotIsNewest /\ SummariesArePast
  BY DEF WindowInv
<1> QED BY <1>1, WindowInductive, PTL

(* Seen through its scan alone, the service the window is written against  *)
(* is the one that Scan implements.                                        *)
THEOREM WindowUsesScanPromise == Spec => ScanSpec
<1>1. Init => ScanInit
  BY DEF Init
<1>2. ASSUME [Next /\ UNCHANGED load]_<<vars, load>> PROVE [ScanNext]_scanVars
  <2> DEFINE Goal == [ScanNext]_scanVars
  <2>1. ASSUME UNCHANGED scanVars PROVE Goal
    BY <2>1
  <2>2. ASSUME ScanNext PROVE Goal
    BY <2>2
  <2> HIDE DEF Goal
  <2>3. ASSUME NEW t \in InFlight("startScan", "asked"), ServeStart(t) PROVE Goal
    BY <2>1, <2>2, <2>3 DEF ServeStart, ScanNext
  <2>4. ASSUME NEW t \in InFlight("prepareTrash", "asked"), ServePrepare(t) PROVE Goal
    BY <2>1, <2>4 DEF ServePrepare, service, window
  <2>5. ASSUME NEW t \in InFlight("confirmTrash", "asked"), ServeConfirm(t) PROVE Goal
    BY <2>1, <2>5 DEF ServeConfirm, service, window
  <2>6. ASSUME NEW what \in Reads, NEW t \in InFlight(what, "asked"), ServeRead(t) PROVE Goal
    BY <2>1, <2>6 DEF ServeRead, service, window
  <2>7. ASSUME NEW t \in InFlight("startScan", "answered"), StartResumes(t) PROVE Goal
    BY <2>1, <2>7 DEF StartResumes, service, window
  <2>8. ASSUME NEW t \in InFlight("scanStatus", "answered"), StatusResumes(t) PROVE Goal
    BY <2>1, <2>8 DEF StatusResumes, service, window
  <2>9. ASSUME NEW t \in InFlight("rows", "answered"), RowsResume(t) PROVE Goal
    BY <2>1, <2>9 DEF RowsResume, service, window
  <2>10. ASSUME NEW t \in InFlight("categoryBreakdown", "answered"), DashboardResumes(t) PROVE Goal
    BY <2>1, <2>10 DEF DashboardResumes, service, window
  <2>11. ASSUME NEW t \in InFlight("prepareTrash", "answered"), PrepareResumes(t) PROVE Goal
    BY <2>1, <2>11 DEF PrepareResumes, service, window
  <2>12. ASSUME NEW t \in InFlight("confirmTrash", "answered"), ConfirmResumes(t) PROVE Goal
    BY <2>1, <2>12 DEF ConfirmResumes, service, window
  <2>13. ASSUME NEW what \in Ops, NEW t \in InFlight(what, "due"), LoadDashboard(t) PROVE Goal
    BY <2>1, <2>13 DEF LoadDashboard, service, window
  <2>14. ASSUME Poll PROVE Goal
    BY <2>1, <2>14 DEF Poll, service, window
  <2>15. ASSUME EventArrives PROVE Goal
    BY <2>1, <2>15 DEF EventArrives, service, window
  <2>16. ASSUME Scan PROVE Goal
    BY <2>1, <2>16 DEF Scan, service, window
  <2>17. ASSUME CancelTrashConfirmation PROVE Goal
    BY <2>1, <2>17 DEF CancelTrashConfirmation, service, window
  <2>18. ASSUME ConfirmTrash PROVE Goal
    BY <2>1, <2>18 DEF ConfirmTrash, service, window
  <2>19. ASSUME NEW p \in Places, Browse(p) PROVE Goal
    BY <2>1, <2>19 DEF Browse, service, window
  <2>20. ASSUME NEW n \in Nodes, PrepareTrash(n) PROVE Goal
    BY <2>1, <2>20 DEF PrepareTrash, service, window
  <2>21. ASSUME ScanEnds PROVE Goal
    BY <2>2, <2>21 DEF ScanEnds, ScanNext
  <2>22. ASSUME Tell PROVE Goal
    BY <2>2, <2>22 DEF Tell, ScanNext
  <2>23. ASSUME UNCHANGED vars PROVE Goal
    BY <2>1, <2>23 DEF vars, service
  <2>24. Goal
    BY StepsAre, <1>2, <2>3, <2>4, <2>5, <2>6, <2>7, <2>8, <2>9, <2>10, <2>11, <2>12, <2>13, <2>14,
      <2>15, <2>16, <2>17, <2>18, <2>19, <2>20, <2>21, <2>22, <2>23 DEF StepKinds
  <2> QED BY <2>24 DEF Goal
<1> QED BY <1>1, <1>2, PTL DEF Spec, ScanSpec
=============================================================================
