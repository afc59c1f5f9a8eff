--------------------------- MODULE RunningProcess ---------------------------
(***************************************************************************)
(* One backend subprocess and the threads that mind it: RunningProcess of  *)
(* crates/adapter/src/process.rs, and the caller that streams its stdout   *)
(* and names the outcome (AdapterNcdu::scan, crates/adapter-ncdu).         *)
(*                                                                         *)
(* Four threads share the child: the caller, the watcher that kills it     *)
(* when the token trips, the one that drains stderr, and the one that      *)
(* writes its input.  The pipes between them are counters of unread units  *)
(* up to a capacity: a write to a full pipe and a read of an empty one     *)
(* block.  The child is any program: it reads, writes, exits or waits in   *)
(* whatever order it likes, and may leave a process of its own behind that *)
(* holds its stdout and stderr open.                                       *)
(***************************************************************************)
EXTENDS Naturals

CONSTANTS
  Capacity,              \* of a pipe
  MaxOut, MaxErr, MaxIn  \* bounds: units the child writes, units of input

ASSUME CapacityAssumption == Capacity \in Nat \ {0}
ASSUME ProcessBounds == MaxOut \in Nat /\ MaxErr \in Nat /\ MaxIn \in Nat

VARIABLES
  child, reaped,   \* the child's end, and whether it was waited for
  doing,           \* what the child is blocked in, "work" when in nothing
  todo,            \* what the child may still write, or ask its input for
  helper,          \* a process the child left behind is running
  pipe,            \* unread units in its stdout, stderr and stdin
  stdout,          \* the caller's end of stdout: "open" or "closed"
  input,           \* units of input still to be written
  main, answer,    \* the caller, and what it answered
  malformed,       \* the caller's parser gave up before the end of stdout
  watcher, drainer,
  lock,            \* who holds the child's mutex across a step
  finished, cancel \* the flags the watcher polls

process == <<child, reaped, doing, todo, helper>>
pipes   == <<pipe, stdout, input>>
caller  == <<main, answer, malformed, finished>>
vars    == <<process, pipes, caller, watcher, drainer, lock, cancel>>

Ended == {"exited", "failed", "killed"}
Running == child = "running"
WriteEndOpen == Running \/ helper

Init ==
  /\ child = "running" /\ reaped = FALSE /\ doing = "work" /\ helper = FALSE
  /\ todo = [out |-> MaxOut, err |-> MaxErr, in |-> MaxIn + 1]
  /\ pipe = [out |-> 0, err |-> 0, in |-> 0] /\ stdout = "open" /\ input = MaxIn
  /\ main = "streaming" /\ answer = "none" /\ malformed = FALSE
  /\ watcher = "watching" /\ drainer = "reading" /\ lock = "free"
  /\ finished = FALSE /\ cancel = FALSE

Ends(how) == child' = how /\ doing' = "work"

-----------------------------------------------------------------------------
(* The child.                                                              *)
Begins(call) ==
  /\ Running /\ doing = "work" /\ todo[call] > 0
  /\ doing' = call
  /\ todo' = [todo EXCEPT ![call] = @ - 1]
  /\ UNCHANGED <<child, reaped, helper, pipes, caller, watcher, drainer, lock, cancel>>

(* A write nobody will read kills the child, unless it ignores the signal. *)
WritesOut ==
  /\ Running /\ doing = "out"
  /\ \/ /\ stdout = "open" /\ pipe.out < Capacity
        /\ pipe' = [pipe EXCEPT !.out = @ + 1]
        /\ doing' = "work" /\ UNCHANGED child
     \/ /\ stdout = "closed"
        /\ doing' = "work" /\ child' \in {"running", "failed"} /\ UNCHANGED pipe
  /\ UNCHANGED <<reaped, todo, helper, stdout, input, caller, watcher, drainer, lock, cancel>>

WritesErr ==
  /\ Running /\ doing = "err" /\ pipe.err < Capacity
  /\ pipe' = [pipe EXCEPT !.err = @ + 1]
  /\ doing' = "work"
  /\ UNCHANGED <<child, reaped, todo, helper, stdout, input, caller, watcher, drainer, lock, cancel>>

(* A read returns a unit, or nothing once the writer has let go.           *)
ReadsIn ==
  /\ Running /\ doing = "in"
  /\ pipe.in > 0 \/ input = 0
  /\ pipe' = [pipe EXCEPT !.in = IF @ > 0 THEN @ - 1 ELSE 0]
  /\ doing' = "work"
  /\ UNCHANGED <<child, reaped, todo, helper, stdout, input, caller, watcher, drainer, lock, cancel>>

Exits ==
  /\ Running /\ doing = "work"
  /\ Ends("exited") \/ Ends("failed")
  /\ UNCHANGED <<reaped, todo, helper, pipes, caller, watcher, drainer, lock, cancel>>

LeavesHelper ==
  /\ Running /\ doing = "work" /\ ~helper
  /\ helper' = TRUE
  /\ UNCHANGED <<child, reaped, doing, todo, pipes, caller, watcher, drainer, lock, cancel>>

HelperExits ==
  /\ helper /\ helper' = FALSE
  /\ UNCHANGED <<child, reaped, doing, todo, pipes, caller, watcher, drainer, lock, cancel>>

Child == (\E call \in {"out", "err", "in"} : Begins(call)) \/ WritesOut \/ WritesErr \/ ReadsIn \/ Exits

-----------------------------------------------------------------------------
(* The input is written on its own thread, and stdin closed after it.      *)
WriteInput ==
  /\ input > 0
  /\ IF Running THEN pipe.in < Capacity /\ pipe' = [pipe EXCEPT !.in = @ + 1] /\ input' = input - 1
                ELSE input' = 0 /\ UNCHANGED pipe
  /\ UNCHANGED <<process, stdout, caller, watcher, drainer, lock, cancel>>

(* Mutant: stderr is only read once stdout has been.                       *)
DrainLate ==
  /\ drainer = "reading" /\ main # "streaming"
  /\ \/ pipe.err > 0 /\ pipe' = [pipe EXCEPT !.err = @ - 1] /\ UNCHANGED drainer
     \/ pipe.err = 0 /\ ~WriteEndOpen /\ drainer' = "ended" /\ UNCHANGED pipe
  /\ UNCHANGED <<process, stdout, input, caller, watcher, lock, cancel>>

(* Stderr is drained on its own thread, to the end.                        *)
Drain ==
  /\ drainer = "reading"
  /\ \/ pipe.err > 0 /\ pipe' = [pipe EXCEPT !.err = @ - 1] /\ UNCHANGED drainer
     \/ pipe.err = 0 /\ ~WriteEndOpen /\ drainer' = "ended" /\ UNCHANGED pipe
  /\ UNCHANGED <<process, stdout, input, caller, watcher, lock, cancel>>

-----------------------------------------------------------------------------
(* The watcher: cancelled? then kill; finished? then stop; sleep.          *)
Watch ==
  /\ \/ watcher = "watching" /\ watcher' = IF cancel THEN "killing" ELSE "passed"
     \/ watcher = "passed"   /\ watcher' = IF finished THEN "ended" ELSE "watching"
  /\ UNCHANGED <<process, pipes, caller, drainer, lock, cancel>>

(* Killing a child that has already ended does nothing.                    *)
Kill == IF Running THEN Ends("killed") ELSE UNCHANGED <<child, doing>>

WatcherKills ==
  /\ watcher = "killing" /\ lock = "free"
  /\ Kill
  /\ watcher' = "ended"
  /\ UNCHANGED <<reaped, todo, helper, pipes, caller, drainer, lock, cancel>>

(* Whoever holds the token may trip it at any time.                        *)
Cancel ==
  /\ ~cancel /\ cancel' = TRUE
  /\ UNCHANGED <<process, pipes, caller, watcher, drainer, lock>>

-----------------------------------------------------------------------------
(* The caller: stream stdout to its end, or until what was read makes the  *)
(* parser give up; either way the pipe is let go.                          *)
Stream ==
  /\ main = "streaming"
  /\ \/ pipe.out > 0 /\ pipe' = [pipe EXCEPT !.out = @ - 1] /\ UNCHANGED malformed
     \/ pipe.out > 0 /\ pipe' = [pipe EXCEPT !.out = 0] /\ malformed' = TRUE
     \/ pipe.out = 0 /\ ~WriteEndOpen /\ malformed' \in BOOLEAN /\ UNCHANGED pipe
  /\ IF malformed' \/ (pipe.out = 0) THEN stdout' = "closed" /\ main' = "polling"
                                     ELSE UNCHANGED <<stdout, main>>
  /\ UNCHANGED <<process, input, answer, finished, watcher, drainer, lock, cancel>>

(* Mutant: a blocking wait, which keeps the lock until the child ends.     *)
TryWaitBlocking ==
  /\ \/ main = "polling" /\ lock = "free" /\ Running /\ lock' = "caller"
        /\ UNCHANGED <<reaped, finished, main>>
     \/ main = "polling" /\ ~Running /\ lock' = "free"
        /\ reaped' = TRUE /\ finished' = TRUE /\ main' = "joinWatcher"
  /\ UNCHANGED <<child, doing, todo, helper, pipes, answer, malformed, watcher, drainer, cancel>>

(* finish(): try_wait under the lock, again after each sleep.              *)
TryWait ==
  /\ main = "polling" /\ lock = "free" /\ ~Running
  /\ reaped' = TRUE /\ finished' = TRUE /\ main' = "joinWatcher"
  /\ UNCHANGED <<child, doing, todo, helper, pipes, answer, malformed, watcher, drainer, lock, cancel>>

JoinWatcher ==
  /\ main = "joinWatcher" /\ watcher = "ended"
  /\ main' = "joinStderr"
  /\ UNCHANGED <<process, pipes, answer, malformed, finished, watcher, drainer, lock, cancel>>

(* Mutant: the exit status is looked at before the cancellation.           *)
OutcomeStatusFirst ==
  IF child # "exited" THEN "backendFailed"
  ELSE IF cancel THEN "cancelled"
  ELSE IF malformed THEN "malformed" ELSE "ok"

(* Cancellation is asked about first, then the status, then the parse.     *)
Outcome ==
  IF cancel THEN "cancelled"
  ELSE IF child # "exited" THEN "backendFailed"
  ELSE IF malformed THEN "malformed" ELSE "ok"

JoinStderr ==
  /\ main = "joinStderr" /\ drainer = "ended"
  /\ main' = "answered" /\ answer' = Outcome
  /\ UNCHANGED <<process, pipes, malformed, finished, watcher, drainer, lock, cancel>>

(* try_wait fails: `?` drops the process, and drop kills and waits with    *)
(* the lock held.                                                          *)
WaitFails ==
  /\ main = "polling" /\ lock = "free"
  /\ lock' = "caller" /\ main' = "dropping"
  /\ Kill
  /\ UNCHANGED <<reaped, todo, helper, pipes, answer, malformed, finished, watcher, drainer, cancel>>

(* Mutant: drop kills and does not wait.                                   *)
DropForgets ==
  /\ main = "dropping"
  /\ lock' = "free" /\ finished' = TRUE /\ main' = "dropped"
  /\ UNCHANGED <<child, reaped, doing, todo, helper, pipes, answer, malformed, watcher, drainer, cancel>>

DropWaits ==
  /\ main = "dropping" /\ ~Running
  /\ reaped' = TRUE /\ lock' = "free" /\ finished' = TRUE /\ main' = "dropped"
  /\ UNCHANGED <<child, doing, todo, helper, pipes, answer, malformed, watcher, drainer, cancel>>

DropJoins ==
  /\ main = "dropped" /\ watcher = "ended"
  /\ main' = "answered" /\ answer' = "waitFailed"
  /\ UNCHANGED <<process, pipes, malformed, finished, watcher, drainer, lock, cancel>>

Caller == TryWait \/ JoinWatcher \/ JoinStderr \/ DropWaits \/ DropJoins

-----------------------------------------------------------------------------
Threads == Stream \/ Caller \/ WaitFails \/ Watch \/ WatcherKills \/ Drain \/ WriteInput

Next == Threads \/ Child \/ LeavesHelper \/ HelperExits \/ Cancel

Spec == Init /\ [][Next]_vars

(* Every thread of this process is scheduled.  The child is on its own, as *)
(* is what it leaves behind: they may wait for ever.                       *)
FairSpec ==
  /\ Spec
  /\ WF_vars(Stream) /\ WF_vars(Caller)
  /\ WF_vars(Watch) /\ WF_vars(WatcherKills)
  /\ WF_vars(Drain) /\ WF_vars(WriteInput)

-----------------------------------------------------------------------------
(* Once the caller is answered, the child is dead and waited for and no    *)
(* watcher can kill whatever comes by its name next (finish, drop).        *)
NothingLeftBehind == main = "answered" => reaped /\ ~Running /\ watcher = "ended" /\ lock = "free"

(* What a caller may rely on (BackendRun): "reporting either of those as   *)
(* the failure would blame the backend for something the user did"         *)
(* (adapter-ncdu), so a child that was killed on request is not answered   *)
(* as a failure; and a success is all of it: the child ended well by       *)
(* itself, and every unit it wrote to stdout and to stderr was read,       *)
(* whichever thread came last.                                             *)
Promise == INSTANCE BackendRun WITH unread <- pipe.out > 0 \/ pipe.err > 0 \/ malformed
KeepsRunPromise == Promise!RunSpec

(* "Cancellation has to kill the child" (process.rs:9): after a cancel the *)
(* caller is answered, whatever the child does and whether or not waiting  *)
(* for it fails, unless a process it left behind holds its pipes for ever. *)
CancelIsAnswered == <>[]~helper => (cancel ~> main = "answered")

(* No pipe and no join can hold a child that would end: the threads behind *)
(* stdin, stdout and stderr never wait for one another.                    *)
RunIsAnswered == WF_vars(Child) /\ WF_vars(HelperExits) => <>(main = "answered")
=============================================================================
