-------------------------------- MODULE Mole --------------------------------
(***************************************************************************)
(* The operations of the Mole adapter (crates/adapter-mole): each runs     *)
(* `mo` once, as a BackendRun; the two about applications list what is     *)
(* installed first, and pass Mole only names it has just listed.           *)
(*                                                                         *)
(* Mole prints its script a line at a time and may stop after any of them, *)
(* and end well or badly.  Other things happen meanwhile: applications     *)
(* disappear, and another dry run may replace the cleanup preview file,    *)
(* which has one fixed name, or be caught writing it.                      *)
(***************************************************************************)
EXTENDS BackendRun, MoleOutput

CONSTANTS
  CleanupPlans,   \* what cleanup dry runs may find: sequences of sections
  LooksLikeARow,  \* path lines that end the way a row does
  ItemsOf,        \* what uninstalling an application takes with it
  Reports         \* what optimization dry runs may report: sequences of sections

(* Mole lists finitely many applications.                                  *)
ASSUME MoleAssumption == IsFiniteSet(DOMAIN ItemsOf)

VARIABLES
  op, names,       \* the operation, and the applications it is about
  command,         \* what `mo` is running for it: op, "list", or "none"
  script, output,  \* what it has yet to print, and what was read of it
  planned,         \* history: the plans a dry run of op may truthfully report
  installedApps,   \* the applications there are
  previewFile,     \* the lines of clean-list.txt
  result           \* what the operation returned

request  == <<op, names, command, script, output, planned>>
world    == <<installedApps, previewFile>>
moleVars == <<runVars, request, world, result>>

Previews   == {"optimizePreview", "cleanupPreview", "uninstallPreview"}
Executions == {"optimize", "cleanup", "uninstall"}
Queries    == {"systemStatus", "applications"}
MoleOps    == Previews \cup Executions \cup Queries

NoResult == [kind |-> "none"]
Refused(why) == [kind |-> "error", why |-> why]
Offered(plan) == [kind |-> "preview", plan |-> plan]
Ran(completion, removed) == [kind |-> "outcome", completion |-> completion, removed |-> removed]

MoleInit ==
  /\ child = "none" /\ cancel = FALSE /\ unread = FALSE /\ answer = "none"
  /\ op = "none" /\ names = {} /\ command = "none"
  /\ script = <<>> /\ output = <<>> /\ planned = {}
  /\ installedApps = DOMAIN ItemsOf
  /\ previewFile = <<>>
  /\ result = NoResult

-----------------------------------------------------------------------------
(* What `mo` prints.                                                       *)

PlanFor(apps) == LET each == SetToSeq(apps) IN [k \in DOMAIN each |-> [name |-> each[k], items |-> ItemsOf[each[k]]]]

Json(apps) == <<Line("open", apps, 0), Plain("close")>>

Removing(gone, apps) ==
  LET each(how, some) == SetToSeq({Line(how, app, 0) : app \in some})
      summary == IF gone = {} THEN <<>> ELSE <<Line("freed", gone, 0)>>
  IN  each("remove", gone) \o summary \o each("failed", apps \ gone)

(* A cleanup preview is whatever the file holds, whoever wrote it.         *)
MayPlan(cmd, apps) ==
  CASE cmd = "uninstallPreview" -> {{PlanFor(apps)}}
    [] cmd = "optimizePreview"  -> {{report} : report \in Reports}
    [] cmd = "cleanupPreview"   -> {{CategoriesOf(plan) : plan \in CleanupPlans}}
    [] OTHER                    -> {{}}

Scripts(cmd, apps, plans) ==
  CASE cmd \in {"list"} \cup Queries -> {Json(installedApps)}
    [] cmd = "optimizePreview"  -> {OptimizeDryRun(plan) : plan \in plans}
    [] cmd = "optimize"         -> {<<Plain("report")>>, <<Plain("failed")>>}
    [] cmd = "cleanupPreview"   -> {<<Plain("publish")>>, <<Plain("unsafe")>>}
    [] cmd = "cleanup"          -> {<<Plain(scope)>> \o end : scope \in {"included", "skipped"},
                                                              end \in {<<>>, <<Plain("failed")>>}}
    [] cmd = "uninstallPreview" -> {UninstallDryRun(plan) : plan \in plans}
    [] cmd = "uninstall"        -> {Matched(PlanFor(apps)) \o Removing(gone, apps) : gone \in SUBSET apps}

UnderWay == op # "none" /\ result = NoResult

Texts == {CleanupFile(plan, LooksLikeARow) : plan \in CleanupPlans}

(* A line is printed, what it tells of has happened, and the adapter reads *)
(* it, unless an earlier one could not be read.                            *)
Prints ==
  /\ child = "running" /\ script # <<>>
  /\ script' = Tail(script)
  /\ output' = IF unread THEN output ELSE Append(output, Head(script))
  /\ installedApps' = IF Head(script).kind = "remove" THEN installedApps \ {Head(script).text} ELSE installedApps
  /\ IF Head(script).kind = "publish" THEN previewFile' \in Texts ELSE UNCHANGED previewFile
  /\ UNCHANGED <<runVars, op, names, command, planned, result>>

(* Bytes that are no text, or a failing read.                              *)
ReadFails ==
  /\ child = "running" /\ ~unread /\ Output /\ unread'
  /\ UNCHANGED <<request, world, result>>

MoleStops ==
  /\ \E how \in {"exited", "failed"} \cup (IF cancel THEN {"killed"} ELSE {}) : ChildEnds(how)
  /\ UNCHANGED <<request, world, result>>

MoleCancel == UnderWay /\ RunCancel /\ UNCHANGED <<request, world, result>>

(* Bound: others only touch what the operation under way looks at.         *)
AppDisappears ==
  /\ UnderWay /\ op \in {"uninstallPreview", "uninstall"}
  /\ \E app \in installedApps : installedApps' = installedApps \ {app}
  /\ UNCHANGED <<runVars, request, previewFile, result>>

AnotherDryRun ==
  /\ UnderWay /\ op = "cleanupPreview"
  /\ \E text \in Texts : \E n \in 0 .. Len(text) : previewFile' = SubSeq(text, 1, n)
  /\ UNCHANGED <<runVars, request, installedApps, result>>

-----------------------------------------------------------------------------
(* The adapter.                                                            *)

Spawns(cmd, apps) ==
  /\ child' = "running" /\ unread' = FALSE /\ answer' = "none" /\ UNCHANGED cancel
  /\ command' = cmd /\ output' = <<>>
  /\ planned' \in MayPlan(cmd, apps \cap installedApps)
  /\ script' \in Scripts(cmd, apps \cap installedApps, planned')

Returns(r) == result' = r /\ UNCHANGED <<op, command>>
ReturnsAtOnce(why) == Returns(Refused(why)) /\ UNCHANGED <<runVars, names, script, output, planned>>

(* A spawn that fails means nothing happened.                              *)
BeginMole(o, apps) ==
  /\ op = "none" /\ result = NoResult
  /\ \/ ReturnsAtOnce("spawn")
     \/ LET first == IF o \in {"uninstallPreview", "uninstall"} THEN "list" ELSE o IN
          IF first = "list" /\ apps = {} THEN ReturnsAtOnce("nothing named")
          ELSE op' = o /\ names' = apps /\ Spawns(first, apps) /\ UNCHANGED result
  /\ UNCHANGED world

(* finish(): how the run ended is known; a read error is one of the ends.  *)
Finishes(said) ==
  /\ command # "none" /\ Tell(said)
  /\ said \in {"ok", "malformed"} => (said = "malformed" <=> unread)

(* validated_names: names Mole has just listed, each once.                 *)
Lists ==
  /\ UnderWay /\ command = "list"
  /\ \E said \in Answers :
       /\ Finishes(said)
       /\ IF /\ said = "ok" /\ Len(output) = 2 /\ names \subseteq output[1].text
          THEN command' = "listed" /\ UNCHANGED <<op, result>>
          ELSE Returns(Refused("not listed"))
  /\ UNCHANGED <<names, script, output, planned, world>>

BeginListed ==
  /\ UnderWay /\ command = "listed"
  /\ \/ ReturnsAtOnce("spawn")
     \/ Spawns(op, names) /\ UNCHANGED <<op, names, result>>
  /\ UNCHANGED world

(* system_status, installed_applications and the previews: the run must    *)
(* have succeeded, and what it said must be whole.                         *)
Reading ==
  CASE command = "cleanupPreview"   -> IF "unsafe" \in Kinds(output) THEN NotAPlan ELSE ReadCleanup(previewFile)
    [] command = "uninstallPreview" -> ReadUninstall(output)
    [] command = "optimizePreview"  -> ReadOptimize(output)
    [] command \in Queries         -> [plan |-> <<>>, malformed |-> Len(output) # 2]

PreviewOf(said) ==
  IF said # "ok" THEN Refused(said)
  ELSE IF Reading.malformed THEN Refused("malformed")
  ELSE IF command \in Queries THEN [kind |-> "answer"]
  ELSE Offered(Reading.plan)

Summary == CASE command = "uninstall" -> UninstallOutcome(output)
             [] command = "cleanup"   -> CleanupOutcome(output)
             [] command = "optimize"  -> [removed |-> {}, completion |-> "finished"]

(* Mutant: a summary is believed whatever else was printed or happened.    *)
ExecutionOfSummary(said) ==
  Ran(Summary.completion, Summary.removed)

(* execution_of, uninstall_execution_of, execute_optimize_from: once Mole  *)
(* ran, how it ended is an outcome, except that two of the three turn a    *)
(* failed wait into an error.                                              *)
ExecutionOf(said) ==
  IF said = "waitFailed" /\ command # "cleanup" THEN Refused(said)
  ELSE Ran(CASE said = "ok" -> Summary.completion [] said = "cancelled" -> said [] OTHER -> "failed",
           Summary.removed)

FinishMole ==
  /\ UnderWay /\ command \in MoleOps
  /\ \E said \in Answers :
       /\ Finishes(said)
       /\ Returns(IF command \in Executions THEN ExecutionOf(said) ELSE PreviewOf(said))
  /\ UNCHANGED <<names, script, output, planned, world>>

MoleNext ==
  \/ Prints \/ ReadFails \/ MoleStops \/ MoleCancel
  \/ AppDisappears \/ AnotherDryRun
  \/ Lists \/ BeginListed \/ FinishMole

-----------------------------------------------------------------------------
(* A plan is offered for approval only if it is all of a plan Mole made: a *)
(* run that stopped half way, with whatever exit status, a file another    *)
(* run was writing, a path with a newline that reads like two rows, none   *)
(* of them narrows it: "a narrowed plan shown as a complete one is the     *)
(* failure worth preventing" (adapter-mole lib.rs).                        *)
PreviewsAreWhole == result.kind = "preview" => answer = "ok" /\ result.plan \in planned

(* Once Mole runs for real, "every way this can end is an outcome to       *)
(* report" (execute_cleanup_from), save a failed wait of the other two; it *)
(* is finished only if Mole ended well by itself, all of its output was    *)
(* read and nothing in it failed (an optimization's output is not looked   *)
(* at); a cancelled one says so; and no application is named as removed    *)
(* that is still there.                                                    *)
OutcomesAreHonest ==
  /\ result.kind = "error" /\ command \in Executions => answer = "waitFailed" /\ command # "cleanup"
  /\ result.kind = "outcome" =>
    /\ result.completion = "finished" =>
         /\ child = "exited" /\ ~unread
         /\ command # "optimize" => "failed" \notin Kinds(output)
    /\ result.completion = "cancelled" <=> answer = "cancelled"
    /\ result.removed \cap installedApps = {}
=============================================================================
