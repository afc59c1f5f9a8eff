------------------------------- MODULE Review -------------------------------
(***************************************************************************)
(* The review-and-confirm protocol of one backend-owned operation: a       *)
(* preview discovers what would be removed, the newest preview is          *)
(* remembered, a one-time token is bound to it, and a confirmation spends  *)
(* the token and runs the backend.  The same protocol exists three times:  *)
(* CleanupState, UninstallState and OptimizeState (crates/app/src), driven *)
(* by the request threads of native.rs through commands.rs.                *)
(*                                                                         *)
(* A request is served by a thread of its own, and the state is locked for *)
(* one method call at a time, never across a call to the backend.  So a    *)
(* worker below takes one step per lock acquisition and one per call to    *)
(* the backend, and the steps of different requests interleave.            *)
(***************************************************************************)
EXTENDS Integers, Sequences, FiniteSets

CONSTANTS
  Kinds,       \* which of the three operations are looked at
  Workers,     \* request threads that may be alive at once
  NoWorker,    \* an empty slot
  Lifetime,    \* PREVIEW_LIFETIME, in ticks
  MaxPreviews, \* bound: previews started
  MaxTokens,   \* bound: confirmations issued
  MaxTime,     \* bound: the monotonic clock
  MaxVersion   \* bound: the installed backend is upgraded up to here

ASSUME KindAssumption == Kinds \subseteq {"cleanup", "uninstall", "optimize"}
ASSUME WorkerAssumption == NoWorker \notin Workers
ASSUME BoundAssumption ==
  /\ Lifetime \in Nat /\ MaxPreviews \in Nat /\ MaxTokens \in Nat
  /\ MaxTime \in Nat /\ MaxVersion \in Nat

VARIABLES
  kind,                       \* whose state this is; it never changes
  nextPreview, activePreview, activeExecution, nextConfirmation,
  latest, pending,            \* the six fields of CleanupState
  pc, previewId, token, held, ok, cancelled,  \* the request threads
  journal,                    \* operations the journal has recorded
  now, version, world,        \* clock, installed version, runs that ended
  runs,                       \* history: every backend run that started
  spent                       \* history: the reviews an approval was spent on

state    == <<nextPreview, activePreview, activeExecution, nextConfirmation, latest, pending>>
threads  == <<pc, previewId, token, held, ok, cancelled>>
outside  == <<kind, now, version>>
history  == <<runs, spent>>
vars     == <<state, threads, journal, outside, world, history>>

(* What a discovery reported: whether it listed anything, the version that *)
(* listed it, and the state of the disk it saw (runs ended by then).       *)
Review == [id : Nat, empty : BOOLEAN, version : Nat, seen : Nat, at : Nat]
NoReview == [id |-> 0, empty |-> TRUE, version |-> 0, seen |-> 0, at |-> 0]
NoPreview == [id |-> 0, worker |-> NoWorker]
Run == [token : Nat, review : Review, version : Nat, world : Nat]

Optimizing == kind = "optimize"
Fresh(r) == now - r.at < Lifetime

PreviewSteps == {"discover", "remember", "endPreview"}
ExecutionSteps == {"take", "check", "validate", "spawn", "running", "forget", "record", "endRun"}

Init ==
  /\ kind \in Kinds
  /\ nextPreview = 0 /\ activePreview = NoPreview
  /\ activeExecution = NoWorker /\ nextConfirmation = 0
  /\ latest = NoReview /\ pending = {}
  /\ pc = [w \in Workers |-> "idle"]
  /\ previewId = [w \in Workers |-> 0]
  /\ token = [w \in Workers |-> 0]
  /\ held = [w \in Workers |-> NoReview]
  /\ ok = [w \in Workers |-> FALSE]
  /\ cancelled = [w \in Workers |-> FALSE]
  /\ journal = <<>> /\ runs = <<>> /\ spent = {}
  /\ now = 0 /\ version = 1 /\ world = 0

Goto(w, step) == pc' = [pc EXCEPT ![w] = step]

(* Forget the newest review and every token bound to it.                   *)
DropReview == latest' = NoReview /\ pending' = {}

-----------------------------------------------------------------------------
(* A preview request.                                                      *)

(* Mutant: a new preview drops the old review and leaves its token alive.  *)
StartPreviewKeepsToken(w) ==
  /\ pc[w] = "idle"
  /\ activePreview = NoPreview
  /\ nextPreview < MaxPreviews
  /\ nextPreview' = nextPreview + 1
  /\ activePreview' = [id |-> nextPreview', worker |-> w]
  /\ latest' = IF Optimizing THEN NoReview ELSE latest
  /\ previewId' = [previewId EXCEPT ![w] = nextPreview']
  /\ Goto(w, "discover")
  /\ UNCHANGED <<pending, activeExecution, nextConfirmation, token, held, ok, cancelled, journal, outside, world, history>>

(* Claim the preview slot; refused while another preview holds it.  The    *)
(* optimization variant drops the old review here.                         *)
StartPreview(w) ==
  /\ pc[w] = "idle"
  /\ activePreview = NoPreview
  /\ nextPreview < MaxPreviews
  /\ nextPreview' = nextPreview + 1
  /\ activePreview' = [id |-> nextPreview', worker |-> w]
  /\ IF Optimizing THEN DropReview ELSE UNCHANGED <<latest, pending>>
  /\ previewId' = [previewId EXCEPT ![w] = nextPreview']
  /\ Goto(w, "discover")
  /\ UNCHANGED <<activeExecution, nextConfirmation, token, held, ok, cancelled, journal, outside, world, history>>

(* The dry run ends: the backend has read the disk, with nothing locked.   *)
(* A stopped dry run is an Err, whatever it printed.                       *)
Discover(w) ==
  /\ pc[w] = "discover"
  /\ ~cancelled[w]
  /\ \E empty \in BOOLEAN :
       held' = [held EXCEPT ![w] = [id |-> previewId[w], empty |-> empty,
                                    version |-> version, seen |-> world, at |-> 0]]
  /\ Goto(w, "remember")
  /\ UNCHANGED <<state, previewId, token, ok, cancelled, journal, outside, world, history>>

(* Mutant: the early return of a failed dry run skips finish_preview.      *)
DiscoveryReturnsEarly(w) ==
  /\ pc[w] = "discover"
  /\ Goto(w, "idle")
  /\ UNCHANGED <<state, previewId, token, held, ok, cancelled, journal, outside, world, history>>

(* No usable backend, a failed or stopped dry run, unreadable output: an   *)
(* Err, and nothing is remembered.                                         *)
DiscoveryFails(w) ==
  /\ pc[w] = "discover"
  /\ Goto(w, "endPreview")
  /\ UNCHANGED <<state, previewId, token, held, ok, cancelled, journal, outside, world, history>>

(* Mutant: a new review leaves the tokens of the old one alive.            *)
RememberKeepsTokens(w) ==
  /\ pc[w] = "remember"
  /\ latest' = [held[w] EXCEPT !.at = now]
  /\ held' = [held EXCEPT ![w] = NoReview]
  /\ Goto(w, "endPreview")
  /\ UNCHANGED <<pending, nextPreview, activePreview, activeExecution, nextConfirmation,
                 previewId, token, ok, cancelled, journal, outside, world, history>>

Remember(w) ==
  /\ pc[w] = "remember"
  /\ latest' = [held[w] EXCEPT !.at = now]
  /\ pending' = {}
  /\ held' = [held EXCEPT ![w] = NoReview]
  /\ Goto(w, "endPreview")
  /\ UNCHANGED <<nextPreview, activePreview, activeExecution, nextConfirmation,
                 previewId, token, ok, cancelled, journal, outside, world, history>>

(* finish_preview(id): only the preview that holds the slot clears it.     *)
FinishPreview(w) ==
  /\ pc[w] = "endPreview"
  /\ activePreview' = IF activePreview.id = previewId[w] THEN NoPreview ELSE activePreview
  /\ previewId' = [previewId EXCEPT ![w] = 0]
  /\ cancelled' = [cancelled EXCEPT ![w] = FALSE]
  /\ Goto(w, "idle")
  /\ UNCHANGED <<nextPreview, activeExecution, nextConfirmation, latest, pending,
                 token, held, ok, journal, outside, world, history>>

-----------------------------------------------------------------------------
(* Requests that are a single locked call.                                 *)

(* A review there is nothing to do about is not offered for confirmation,  *)
(* except by an optimization, which never asks how much it lists.          *)
Offerable(r) == Optimizing \/ ~r.empty

(* Bind the newest review to a fresh token, dropping any earlier token.    *)
Prepare ==
  /\ latest # NoReview
  /\ Fresh(latest)
  /\ Offerable(latest)
  /\ nextConfirmation < MaxTokens
  /\ nextConfirmation' = nextConfirmation + 1
  /\ pending' = {[token |-> nextConfirmation', review |-> latest]}
  /\ UNCHANGED <<nextPreview, activePreview, activeExecution, latest, threads,
                 journal, outside, world, history>>

(* The slot holds a clone of its worker's token, so cancelling reaches the *)
(* worker that holds the slot now.                                         *)
CancelPreview ==
  /\ activePreview # NoPreview
  /\ cancelled' = [cancelled EXCEPT ![activePreview.worker] = TRUE]
  /\ UNCHANGED <<state, pc, previewId, token, held, ok, journal, outside, world, history>>

CancelExecution ==
  /\ activeExecution # NoWorker
  /\ cancelled' = [cancelled EXCEPT ![activeExecution] = TRUE]
  /\ UNCHANGED <<state, pc, previewId, token, held, ok, journal, outside, world, history>>

-----------------------------------------------------------------------------
(* A confirmation request.                                                 *)

(* Mutant: a second run is let in while one is going.                      *)
StartExecutionUnclaimed(w, t) ==
  /\ pc[w] = "idle"
  /\ activeExecution' = w
  /\ token' = [token EXCEPT ![w] = t]
  /\ Goto(w, "take")
  /\ UNCHANGED <<nextPreview, activePreview, nextConfirmation, latest, pending,
                 previewId, held, ok, cancelled, journal, outside, world, history>>

(* The slot is claimed before the token is looked at.                      *)
StartExecution(w, t) ==
  /\ pc[w] = "idle"
  /\ activeExecution = NoWorker
  /\ activeExecution' = w
  /\ token' = [token EXCEPT ![w] = t]
  /\ Goto(w, "take")
  /\ UNCHANGED <<nextPreview, activePreview, nextConfirmation, latest, pending,
                 previewId, held, ok, cancelled, journal, outside, world, history>>

(* Mutant: an optimization spends the token and keeps the review.          *)
TakeKeepsReview(w) ==
  /\ pc[w] = "take"
  /\ \E p \in pending :
       /\ p.token = token[w]
       /\ Fresh(p.review)
       /\ held' = [held EXCEPT ![w] = p.review]
       /\ spent' = spent \cup {p.review.id}
       /\ pending' = pending \ {p}
  /\ Goto(w, "check")
  /\ UNCHANGED <<latest, nextPreview, activePreview, activeExecution, nextConfirmation,
                 previewId, token, ok, cancelled, journal, outside, world, runs>>

(* The token is removed; the review it named stays until the run is over,  *)
(* except in an optimization, which drops it as the token is spent.        *)
Take(w) ==
  /\ pc[w] = "take"
  /\ \E p \in pending :
       /\ p.token = token[w]
       /\ Fresh(p.review)
       /\ held' = [held EXCEPT ![w] = p.review]
       /\ spent' = spent \cup {p.review.id}
       /\ IF Optimizing THEN DropReview
                        ELSE pending' = pending \ {p} /\ UNCHANGED latest
  /\ Goto(w, "check")
  /\ UNCHANGED <<nextPreview, activePreview, activeExecution, nextConfirmation,
                 previewId, token, ok, cancelled, journal, outside, world, runs>>

(* An unknown, spent or expired token; an expired one is removed as well.  *)
TakeRefused(w) ==
  /\ pc[w] = "take"
  /\ ~\E p \in pending : p.token = token[w] /\ Fresh(p.review)
  /\ pending' = {p \in pending : p.token # token[w]}
  /\ Goto(w, "endRun")
  /\ UNCHANGED <<nextPreview, activePreview, activeExecution, nextConfirmation, latest,
                 previewId, token, held, ok, cancelled, journal, outside, world, history>>

(* What follows an adapter's answer: the review is dropped, and a result   *)
(* that is not an Err is recorded.  An optimization does neither.          *)
AfterRun == IF Optimizing THEN "endRun" ELSE "forget"

(* execution_binary: the installed backend must be the reviewed version.   *)
CheckVersion(w) ==
  /\ pc[w] = "check"
  /\ Goto(w, IF version # held[w].version THEN AfterRun
             ELSE IF kind = "uninstall" THEN "validate" ELSE "spawn")
  /\ UNCHANGED <<state, previewId, token, held, ok, cancelled, journal, outside, world, history>>

(* An uninstall reads the live inventory again, and is refused when it no  *)
(* longer lists the application, or when it was stopped meanwhile.         *)
ValidateNames(w) ==
  /\ pc[w] = "validate"
  /\ \/ ~cancelled[w] /\ Goto(w, "spawn")
     \/ Goto(w, AfterRun)
  /\ UNCHANGED <<state, previewId, token, held, ok, cancelled, journal, outside, world, history>>

(* The process could not be started: nothing ran.                          *)
SpawnFails(w) ==
  /\ pc[w] = "spawn"
  /\ Goto(w, AfterRun)
  /\ UNCHANGED <<state, previewId, token, held, ok, cancelled, journal, outside, world, history>>

Spawn(w) ==
  /\ pc[w] = "spawn"
  /\ runs' = Append(runs, [token |-> token[w], review |-> held[w],
                           version |-> version, world |-> world])
  /\ Goto(w, "running")
  /\ UNCHANGED <<state, previewId, token, held, ok, cancelled, journal, outside, world, spent>>

(* The run is over and has changed the disk.  A cleanup reports every way  *)
(* this can end; an uninstall and an optimization answer Err when waiting  *)
(* for the process failed.                                                 *)
Reap(w) ==
  /\ pc[w] = "running"
  /\ world' = world + 1
  /\ \E reported \in IF kind = "cleanup" THEN {TRUE} ELSE BOOLEAN :
       ok' = [ok EXCEPT ![w] = reported]
  /\ Goto(w, AfterRun)
  /\ UNCHANGED <<state, previewId, token, held, cancelled, journal, outside, history>>

(* Mutant: the tokens are dropped and the review they name is not.         *)
ForgetTokensOnly(w) ==
  /\ pc[w] = "forget"
  /\ pending' = {}
  /\ Goto(w, IF ok[w] THEN "record" ELSE "endRun")
  /\ UNCHANGED <<latest, nextPreview, activePreview, activeExecution, nextConfirmation,
                 previewId, token, held, ok, cancelled, journal, outside, world, history>>

(* Mutant: a run that was cancelled is not recorded.                       *)
ForgetCancelled(w) ==
  /\ pc[w] = "forget"
  /\ DropReview
  /\ Goto(w, IF ok[w] /\ ~cancelled[w] THEN "record" ELSE "endRun")
  /\ UNCHANGED <<nextPreview, activePreview, activeExecution, nextConfirmation,
                 previewId, token, held, ok, cancelled, journal, outside, world, history>>

Forget(w) ==
  /\ pc[w] = "forget"
  /\ DropReview
  /\ Goto(w, IF ok[w] THEN "record" ELSE "endRun")
  /\ UNCHANGED <<nextPreview, activePreview, activeExecution, nextConfirmation,
                 previewId, token, held, ok, cancelled, journal, outside, world, history>>

Record(w) ==
  /\ pc[w] = "record"
  /\ journal' = Append(journal, [token |-> token[w], review |-> held[w].id])
  /\ Goto(w, "endRun")
  /\ UNCHANGED <<state, previewId, token, held, ok, cancelled, outside, world, history>>

FinishExecution(w) ==
  /\ pc[w] = "endRun"
  /\ activeExecution' = NoWorker
  /\ token' = [token EXCEPT ![w] = 0]
  /\ held' = [held EXCEPT ![w] = NoReview]
  /\ ok' = [ok EXCEPT ![w] = FALSE]
  /\ cancelled' = [cancelled EXCEPT ![w] = FALSE]
  /\ Goto(w, "idle")
  /\ UNCHANGED <<nextPreview, activePreview, nextConfirmation, latest, pending,
                 previewId, journal, outside, world, history>>

-----------------------------------------------------------------------------
(* Outside: time passes, and the user's package manager upgrades Mole.     *)
Tick ==
  /\ now < MaxTime
  /\ now' = now + 1
  /\ UNCHANGED <<state, threads, journal, kind, version, world, history>>

Upgrade ==
  /\ version < MaxVersion
  /\ version' = version + 1
  /\ UNCHANGED <<state, threads, journal, kind, now, world, history>>

(* The steps of a request once it has started.                             *)
Step(w) ==
  \/ Discover(w) \/ DiscoveryFails(w) \/ Remember(w) \/ FinishPreview(w)
  \/ Take(w) \/ TakeRefused(w) \/ CheckVersion(w) \/ ValidateNames(w)
  \/ SpawnFails(w) \/ Spawn(w) \/ Reap(w) \/ Forget(w) \/ Record(w) \/ FinishExecution(w)

Next ==
  \/ \E w \in Workers : StartPreview(w) \/ Step(w)
  \/ \E w \in Workers, t \in 1..nextConfirmation : StartExecution(w, t)
  \/ Prepare \/ CancelPreview \/ CancelExecution
  \/ Tick \/ Upgrade

Spec == Init /\ [][Next]_vars

(* The scheduler runs every thread, and a backend call returns (its child  *)
(* exits or is killed): see RunningProcess.  Requests are not fair.        *)
FairSpec == Spec /\ \A w \in Workers : WF_vars(Step(w))
-----------------------------------------------------------------------------
(* The fields and the threads hold values of the types the code gives them.*)
TypeOK ==
  /\ kind \in Kinds
  /\ nextPreview \in 0..MaxPreviews /\ nextConfirmation \in 0..MaxTokens
  /\ activePreview \in [id : Nat, worker : Workers \cup {NoWorker}]
  /\ activeExecution \in Workers \cup {NoWorker}
  /\ latest \in Review
  /\ pending \subseteq [token : Nat, review : Review]
  /\ pc \in [Workers -> {"idle"} \cup PreviewSteps \cup ExecutionSteps]
  /\ previewId \in [Workers -> Nat] /\ token \in [Workers -> Nat]
  /\ held \in [Workers -> Review]
  /\ ok \in [Workers -> BOOLEAN] /\ cancelled \in [Workers -> BOOLEAN]
  /\ journal \in Seq([token : Nat, review : Nat])
  /\ now \in Nat /\ version \in Nat /\ world \in Nat
  /\ runs \in Seq(Run) /\ spent \subseteq Nat

(* The slots are exclusive: whoever is inside a preview or a run holds the *)
(* slot, so two backend runs never overlap and no request frees a slot it  *)
(* does not hold (start_execution, finish_preview).                        *)
SlotsOwned ==
  \A w \in Workers :
    /\ pc[w] \in ExecutionSteps <=> activeExecution = w
    /\ pc[w] \in PreviewSteps <=> activePreview.worker = w

(* A live token always stands for the newest review: a review that was     *)
(* replaced or dropped can no longer be confirmed, so what the user        *)
(* approves is what the service last showed (prepare, remember, forget).   *)
TokensNameLatest == \A p \in pending : p.review = latest

(* One approval, one run, and one run per review: replaying a token, or a  *)
(* second token issued for the same review while its run is going, never   *)
(* starts the backend again (take, forget and the execution slot).         *)
OneRunPerReview ==
  \A i, j \in DOMAIN runs :
    i # j => /\ runs[i].token # runs[j].token
             /\ runs[i].review.id # runs[j].review.id

(* The journal holds only what ran, each run once, in the order of the     *)
(* runs; and every cleanup that started, cancelled and failed ones         *)
(* included (commands.rs:218-221), is in it when its slot is given back.   *)
(* An uninstall that could not be waited for is missing from it (Reap).    *)
JournalFollowsRuns ==
  /\ \E at \in [DOMAIN journal -> DOMAIN runs] :
       /\ \A i, j \in DOMAIN journal : i < j => at[i] < at[j]
       /\ \A i \in DOMAIN journal : journal[i] = [token |-> runs[at[i]].token, review |-> runs[at[i]].review.id]
  /\ kind = "cleanup" /\ activeExecution = NoWorker => Len(journal) = Len(runs)

(* "A second run must review a fresh discovery." (cleanup.rs:104-107): the *)
(* review a run acts on was discovered after the previous run ended.       *)
FreshDiscovery == \A i \in DOMAIN runs : runs[i].review.seen = runs[i].world

(* The protocol keeps the promise of Approval: the offer on the table is   *)
(* the remembered review, it is accepted by take, and settled when the     *)
(* execution slot is given back.                                           *)
ActingOn == IF activeExecution = NoWorker THEN 0 ELSE held[activeExecution].id

Promise == INSTANCE Approval WITH
             Nothing  <- 0,
             offered  <- latest.id,
             inFlight <- ActingOn,
             spent    <- spent
KeepsPromise == Promise!Spec

(* A claimed slot is always given back, so no later request is refused for *)
(* ever: whatever the backend does, every path ends in the finish call.    *)
SlotsFreed ==
  /\ activePreview # NoPreview ~> activePreview = NoPreview
  /\ activeExecution # NoWorker ~> activeExecution = NoWorker
-----------------------------------------------------------------------------
(* The inductive invariant behind OneRunPerReview and KeepsPromise.        *)

(* A run that holds a spent token, before and after its process started.   *)
Approved == {"check", "validate", "spawn"}
Holding == Approved \cup {"running", "forget"}

(* Only the preview in the slot finishes it, and its id is newer than any  *)
(* review or spent approval.                                               *)
PreviewIsNewest ==
  /\ activePreview.id <= nextPreview /\ latest.id <= nextPreview
  /\ spent \subseteq 1..nextPreview
  /\ \A w \in Workers :
       /\ pc[w] \in PreviewSteps => previewId[w] = activePreview.id
       /\ pc[w] \in {"discover", "remember"} =>
            previewId[w] > latest.id /\ previewId[w] \notin spent
       /\ pc[w] = "remember" => held[w].id = previewId[w]

(* A worker holds a review only between reading it and being done with it. *)
HeldWhenNeeded ==
  \A w \in Workers :
    /\ pc[w] \in {"idle", "discover", "endPreview", "take"} => held[w] = NoReview
    /\ pc[w] \in Holding => held[w].id \in spent

(* No review, no id; no id, no token.                                      *)
OffersAreReal ==
  /\ latest.id = 0 => latest = NoReview
  /\ pending # {} => latest # NoReview

(* The only spent review still on the table is the one a run is acting on. *)
LatestUnspent ==
  latest.id \in spent =>
    /\ ~Optimizing
    /\ activeExecution \in Workers /\ pc[activeExecution] \in Holding

(* Tokens are issued in order, and a token that was used is gone.          *)
TokensAreOneTime ==
  /\ \A p \in pending : p.token <= nextConfirmation
  /\ \A w \in Workers : token[w] <= nextConfirmation
  /\ \A i \in DOMAIN runs :
       /\ runs[i].token <= nextConfirmation /\ runs[i].review.id \in spent
       /\ \A p \in pending : p.token # runs[i].token
  /\ \A w \in Workers : pc[w] \in Approved =>
       /\ \A p \in pending : p.token # token[w]
       /\ \A i \in DOMAIN runs :
            runs[i].token # token[w] /\ runs[i].review.id # held[w].id

IndInv ==
  /\ TypeOK /\ SlotsOwned /\ TokensNameLatest /\ PreviewIsNewest /\ HeldWhenNeeded
  /\ OffersAreReal /\ LatestUnspent /\ TokensAreOneTime /\ OneRunPerReview
=============================================================================
