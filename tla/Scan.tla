-------------------------------- MODULE Scan --------------------------------
(***************************************************************************)
(* The scan slot and the snapshot it produces: start_native, claim,        *)
(* release, cancel and run_native of crates/app/src/scan.rs over the       *)
(* ScanState of state.rs, the reporter of native.rs, and the reads that    *)
(* name a scan id (rows, categoryBreakdown).                               *)
(*                                                                         *)
(* A request thread claims the slot and starts a walker thread of its own; *)
(* the walker gives the slot back, and only then, with the lock dropped,   *)
(* reports.  So the reports of one scan interleave with the next scan.     *)
(***************************************************************************)
EXTENDS Integers, Sequences

CONSTANTS
  Requests,    \* request threads
  MaxScans,    \* bound: scans claimed (next_id)
  MaxProgress  \* bound: progress reports of one scan

ASSUME ScanBounds == MaxScans \in Nat /\ MaxProgress \in Nat

Scans == 1..MaxScans
None == 0

VARIABLES
  active, result, nextId,  \* ScanState: the slot, the snapshot, the counter
  cancelled,               \* the scans whose cancel token was tripped
  starting,                \* request thread -> the scan it has claimed
  asked,                   \* request thread -> the scan its breakdown names
  stage, walked, ticks,    \* walker thread of each scan
  latest,                  \* ScanReporter.latest: whose progress it holds
  out,                     \* the events written to the window, in order
  ends,                    \* history: the events among them that end a scan
  answers                  \* history: <<scan asked for, snapshot read>>

slot    == <<active, result, nextId>>
request == <<starting, asked, answers>>
walker  == <<stage, walked, ticks>>
report  == <<latest, out, ends>>
vars    == <<slot, cancelled, request, walker, report>>

(* A walker: started by its request, walking (and between the two writes   *)
(* of a progress report), done walking, then reporting its one result.     *)
Walking == {"walking", "ticked"}

Init ==
  /\ active = None /\ result = None /\ nextId = 0
  /\ cancelled = {}
  /\ starting = [r \in Requests |-> None] /\ asked = [r \in Requests |-> None]
  /\ stage = [n \in Scans |-> "none"]
  /\ walked = [n \in Scans |-> FALSE] /\ ticks = [n \in Scans |-> 0]
  /\ latest = None /\ out = <<>> /\ ends = <<>> /\ answers = {}

Goto(n, s) == stage' = [stage EXCEPT ![n] = s]
How(n) == IF walked[n] THEN "finished" ELSE "failed"
End(event) == out' = Append(out, event) /\ ends' = Append(ends, event)
Busy(r) == starting[r] # None \/ asked[r] # None

-----------------------------------------------------------------------------
(* Request threads.                                                        *)

(* Refused, with nothing changed, while a scan holds the slot.  The last   *)
(* snapshot stays until a replacement completes.                           *)
Claim(r) ==
  /\ ~Busy(r)
  /\ active = None
  /\ nextId < MaxScans
  /\ nextId' = nextId + 1
  /\ active' = nextId'
  /\ starting' = [starting EXCEPT ![r] = nextId']
  /\ Goto(nextId', "claimed")
  /\ UNCHANGED <<result, cancelled, asked, answers, walked, ticks, report>>

StartWalker(r) ==
  /\ starting[r] # None
  /\ Goto(starting[r], "walking")
  /\ starting' = [starting EXCEPT ![r] = None]
  /\ UNCHANGED <<slot, cancelled, asked, answers, walked, ticks, report>>

(* The thread could not be started: release() empties the slot, whoever    *)
(* holds it, and the request answers with the error.                       *)
Release(r) ==
  /\ starting[r] # None
  /\ active' = None
  /\ Goto(starting[r], "aborted")
  /\ starting' = [starting EXCEPT ![r] = None]
  /\ UNCHANGED <<result, nextId, cancelled, asked, answers, walked, ticks, report>>

(* The stop button names no scan: it trips whatever is running.            *)
Cancel ==
  /\ active # None
  /\ cancelled' = cancelled \cup {active}
  /\ UNCHANGED <<slot, request, walker, report>>

(* rows: one lock, so the snapshot cannot change under the read.           *)
Rows(n) ==
  /\ result # None /\ result = n
  /\ answers' = answers \cup {<<n, result>>}
  /\ UNCHANGED <<slot, cancelled, starting, asked, walker, report>>

(* categoryBreakdown: the volume is measured with the lock released, and   *)
(* the scan id is checked again when the lock is retaken.                  *)
BeginBreakdown(r, n) ==
  /\ ~Busy(r)
  /\ result # None /\ result = n
  /\ asked' = [asked EXCEPT ![r] = n]
  /\ UNCHANGED <<slot, cancelled, starting, answers, walker, report>>

(* Mutant: the scan id is not checked again after measuring the volume.    *)
BreakdownUnchecked(r) ==
  /\ asked[r] # None
  /\ answers' = answers \cup {<<asked[r], result>>}
  /\ asked' = [asked EXCEPT ![r] = None]
  /\ UNCHANGED <<slot, cancelled, starting, walker, report>>

Breakdown(r) ==
  /\ asked[r] # None
  /\ answers' = IF result = asked[r] THEN answers \cup {<<asked[r], result>>} ELSE answers
  /\ asked' = [asked EXCEPT ![r] = None]
  /\ UNCHANGED <<slot, cancelled, starting, walker, report>>

-----------------------------------------------------------------------------
(* Walker threads.                                                         *)

(* A progress report sets `latest`, then writes the event.                 *)
TickLatest(n) ==
  /\ stage[n] = "walking" /\ ticks[n] < MaxProgress
  /\ ticks' = [ticks EXCEPT ![n] = @ + 1]
  /\ latest' = n
  /\ Goto(n, "ticked")
  /\ UNCHANGED <<slot, cancelled, request, walked, out, ends>>

TickEmit(n) ==
  /\ stage[n] = "ticked"
  /\ out' = Append(out, <<"progress", n>>)
  /\ Goto(n, "walking")
  /\ UNCHANGED <<slot, cancelled, request, walked, ticks, latest, ends>>

(* walk() returns.  No usable backend, a failed one and unreadable output  *)
(* are failures; a tripped token is one whatever the backend answered.     *)
WalkEnds(n) ==
  /\ stage[n] = "walking"
  /\ \E good \in IF n \in cancelled THEN {FALSE} ELSE BOOLEAN :
       walked' = [walked EXCEPT ![n] = good]
  /\ Goto(n, "ended")
  /\ UNCHANGED <<slot, cancelled, request, ticks, report>>

(* Mutant: a scan that failed wipes the last snapshot.                     *)
PublishNothing(n) ==
  /\ stage[n] = "ended"
  /\ active' = None
  /\ result' = IF walked[n] THEN n ELSE None
  /\ Goto(n, "clear")
  /\ UNCHANGED <<nextId, cancelled, request, walked, ticks, report>>

(* Mutant: a scan that failed leaves without giving the slot back.         *)
PublishKeepsSlot(n) ==
  /\ stage[n] = "ended"
  /\ active' = IF walked[n] THEN None ELSE active
  /\ result' = IF walked[n] THEN n ELSE result
  /\ Goto(n, "clear")
  /\ UNCHANGED <<nextId, cancelled, request, walked, ticks, report>>

(* Mutant: a failure is reported where it is found and again at the end.   *)
PublishReportsFailure(n) ==
  /\ stage[n] = "ended"
  /\ active' = None
  /\ result' = IF walked[n] THEN n ELSE result
  /\ IF walked[n] THEN UNCHANGED <<out, ends>> ELSE End(<<"failed", n>>)
  /\ Goto(n, "clear")
  /\ UNCHANGED <<nextId, cancelled, request, walked, ticks, latest>>

(* One lock: the slot is emptied and a completed walk becomes the snapshot.*)
Publish(n) ==
  /\ stage[n] = "ended"
  /\ active' = None
  /\ result' = IF walked[n] THEN n ELSE result
  /\ Goto(n, "clear")
  /\ UNCHANGED <<nextId, cancelled, request, walked, ticks, report>>

(* finished() and failed() wipe `latest`, whoever set it, then report.     *)
ClearLatest(n) ==
  /\ stage[n] = "clear"
  /\ latest' = None
  /\ Goto(n, "emit")
  /\ UNCHANGED <<slot, cancelled, request, walked, ticks, out, ends>>

Emit(n) ==
  /\ stage[n] = "emit"
  /\ End(<<How(n), n>>)
  /\ Goto(n, "done")
  /\ UNCHANGED <<slot, cancelled, request, walked, ticks, latest>>

RequestStep(r) == StartWalker(r) \/ Release(r) \/ Breakdown(r)
Reports(n) == TickEmit(n) \/ Publish(n) \/ ClearLatest(n) \/ Emit(n)
WalkerStep(n) == TickLatest(n) \/ TickEmit(n) \/ WalkEnds(n)
                 \/ Publish(n) \/ ClearLatest(n) \/ Emit(n)

Next ==
  \/ \E r \in Requests : Claim(r) \/ RequestStep(r)
  \/ \E r \in Requests, n \in Scans : BeginBreakdown(r, n)
  \/ \E n \in Scans : Rows(n) \/ WalkerStep(n)
  \/ Cancel

Spec == Init /\ [][Next]_vars

(* Threads run.  A walk is only sure to end once it was cancelled: a       *)
(* backend may take for ever, and is killed when its token is tripped.     *)
FairSpec ==
  /\ Spec
  /\ \A r \in Requests : WF_vars(RequestStep(r))
  /\ \A n \in Scans :
       /\ WF_vars(Reports(n))
       /\ WF_vars(n \in cancelled /\ WalkEnds(n))

-----------------------------------------------------------------------------
(* "Emitted once, with the totals, when a scan completes", "Emitted once   *)
(* when a scan ends without a result" (scan.rs:24-27), and no progress of  *)
(* a scan follows its end, however the next scan interleaves.              *)
EndIsLastAndOnce ==
  \A i, j \in DOMAIN out :
    i < j /\ out[i][2] = out[j][2] => out[i][1] = "progress"

(* A node id is resolved in the tree of the scan that issued it, never in  *)
(* the tree that replaced it while the request was under way.              *)
AnswersNameTheirScan == \A a \in answers : a[1] = a[2]

(* What the window relies on: whatever the threads and the progress        *)
(* reports do, the slot, the snapshot and the end reports move only as the *)
(* abstract service allows.  "A cancelled or failed scan keeps the         *)
(* previous result available." (docs/adr/0033:30), no earlier result       *)
(* replaces a later one, and a finished event announces a snapshot that is *)
(* in place already.                                                       *)
Owed == {<<How(n), n>> : n \in {m \in Scans : stage[m] \in {"clear", "emit"}}}
Service == INSTANCE ScanPromise WITH owed <- Owed, told <- ends
KeepsScanPromise == Service!ScanSpec

(* A claim is honoured or given up, never left to block every later scan;  *)
(* and a stopped scan gives the slot back and reaches the end of its       *)
(* thread, where the window has been told.                                 *)
ScansEnd ==
  \A n \in Scans :
    /\ stage[n] = "claimed" ~> stage[n] # "claimed"
    /\ n \in cancelled ~> active # n /\ stage[n] \in {"done", "aborted"}
=============================================================================
