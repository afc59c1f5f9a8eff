--------------------------- MODULE ProcessProofs ---------------------------
(***************************************************************************)
(* Proofs about RunningProcess, for pipes of any capacity and any amounts  *)
(* of output and input: nothing is left behind, and the four threads keep  *)
(* the promise of BackendRun.  ProcessInv is inductive: each thread only   *)
(* leaves once what it waits for can no longer change.                     *)
(***************************************************************************)
EXTENDS RunningProcess, TLAPS

Pipes == {"out", "err", "in"}

TypeOK ==
  /\ child \in {"running"} \cup Ended /\ reaped \in BOOLEAN /\ helper \in BOOLEAN
  /\ doing \in {"work"} \cup Pipes
  /\ todo \in [out : Nat, err : Nat, in : Nat] /\ pipe \in [out : Nat, err : Nat, in : Nat]
  /\ stdout \in {"open", "closed"} /\ input \in Nat
  /\ main \in {"streaming", "polling", "joinWatcher", "joinStderr", "dropping", "dropped", "answered"}
  /\ answer \in {"none", "cancelled", "backendFailed", "malformed", "ok", "waitFailed"}
  /\ malformed \in BOOLEAN /\ finished \in BOOLEAN /\ cancel \in BOOLEAN
  /\ watcher \in {"watching", "passed", "killing", "ended"}
  /\ drainer \in {"reading", "ended"} /\ lock \in {"free", "caller"}

(* Past the poll and past the wait of drop, the child was waited for, and  *)
(* past the first join the watcher is gone; the lock is held across steps  *)
(* by drop alone.                                                          *)
WaitedFor ==
  /\ main \in {"joinWatcher", "joinStderr", "dropped", "answered"} => reaped /\ ~Running
  /\ main \in {"joinStderr", "answered"} => watcher = "ended"
  /\ lock = "caller" <=> main = "dropping"
  /\ answer # "none" <=> main = "answered"

(* A child is only killed when the token was tripped or the caller gave up *)
(* waiting for it.                                                         *)
KilledOnRequest ==
  /\ watcher = "killing" => cancel
  /\ child = "killed" => cancel \/ main \in {"dropping", "dropped", "answered"}

(* A pipe that was let go, or drained to its end, stays empty.             *)
ReadToTheEnd ==
  /\ main = "streaming" <=> stdout = "open"
  /\ malformed => stdout = "closed"
  /\ stdout = "closed" => pipe.out = 0
  /\ drainer = "ended" => pipe.err = 0 /\ ~Running

ProcessInv == TypeOK /\ WaitedFor /\ KilledOnRequest /\ ReadToTheEnd

-----------------------------------------------------------------------------
(* Every step keeps the flags, the pipes and the threads within their types. *)
LEMMA TypeStep ==
  ASSUME TypeOK, [Next]_vars
  PROVE  TypeOK'
<1> USE CapacityAssumption, ProcessBounds DEF process, pipes, caller, Running, WriteEndOpen, Ends, Kill, TypeOK, Ended, Pipes
<1>1. ASSUME NEW call \in {"out", "err", "in"}, Begins(call) PROVE TypeOK'
  BY <1>1 DEF Begins
<1>2. ASSUME WritesOut PROVE TypeOK'
  BY <1>2 DEF WritesOut
<1>3. ASSUME WritesErr PROVE TypeOK'
  BY <1>3 DEF WritesErr
<1>4. ASSUME ReadsIn PROVE TypeOK'
  BY <1>4 DEF ReadsIn
<1>5. ASSUME Exits PROVE TypeOK'
  BY <1>5 DEF Exits
<1>6. ASSUME LeavesHelper PROVE TypeOK'
  BY <1>6 DEF LeavesHelper
<1>7. ASSUME HelperExits PROVE TypeOK'
  <2>1. helper' \in BOOLEAN
    BY <1>7 DEF HelperExits
  <2>2. UNCHANGED <<child, reaped, doing, todo, pipe, stdout, input, main, answer, malformed, finished,
                    watcher, drainer, lock, cancel>>
    BY <1>7 DEF HelperExits
  <2> QED BY <2>1, <2>2
<1>8. ASSUME WriteInput PROVE TypeOK'
  BY <1>8 DEF WriteInput
<1>9. ASSUME Drain PROVE TypeOK'
  BY <1>9 DEF Drain
<1>10. ASSUME Watch PROVE TypeOK'
  BY <1>10 DEF Watch
<1>11. ASSUME WatcherKills PROVE TypeOK'
  BY <1>11 DEF WatcherKills
<1>12. ASSUME Cancel PROVE TypeOK'
  BY <1>12 DEF Cancel
<1>13. ASSUME Stream PROVE TypeOK'
  <2>1. pipe' \in [out : Nat, err : Nat, in : Nat]
    BY <1>13 DEF Stream
  <2>2. malformed' \in BOOLEAN
    <3>1. \/ malformed' = malformed \/ malformed' = TRUE \/ malformed' \in BOOLEAN
      BY <1>13, Zenon DEF Stream
    <3> QED BY <3>1, Zenon
  <2>3. stdout' \in {"open", "closed"} /\ main' \in {"streaming", "polling"}
    BY <1>13 DEF Stream
  <2>4. UNCHANGED <<child, reaped, doing, todo, helper, input, answer, finished,
                    watcher, drainer, lock, cancel>>
    BY <1>13 DEF Stream
  <2> QED BY <2>1, <2>2, <2>3, <2>4
<1>14. ASSUME TryWait PROVE TypeOK'
  BY <1>14 DEF TryWait
<1>15. ASSUME JoinWatcher PROVE TypeOK'
  BY <1>15 DEF JoinWatcher
<1>16. ASSUME JoinStderr PROVE TypeOK'
  BY <1>16 DEF JoinStderr, Outcome
<1>17. ASSUME WaitFails PROVE TypeOK'
  BY <1>17 DEF WaitFails
<1>18. ASSUME DropWaits PROVE TypeOK'
  BY <1>18 DEF DropWaits
<1>19. ASSUME DropJoins PROVE TypeOK'
  BY <1>19 DEF DropJoins
<1>20. ASSUME UNCHANGED vars PROVE TypeOK'
  BY <1>20 DEF vars
<1> QED BY <1>1, <1>2, <1>3, <1>4, <1>5, <1>6, <1>7, <1>8, <1>9, <1>10, <1>11, <1>12, <1>13,
    <1>14, <1>15, <1>16, <1>17, <1>18, <1>19, <1>20 DEF Next, Threads, Caller, Child

(* The caller goes on only when the child was waited for, or the watcher left. *)
LEMMA WaitedStep ==
  ASSUME TypeOK, WaitedFor, [Next]_vars
  PROVE  WaitedFor'
<1> USE CapacityAssumption, ProcessBounds DEF process, pipes, caller, Running, WriteEndOpen, Ends, Kill, WaitedFor
<1>1. ASSUME NEW call \in {"out", "err", "in"}, Begins(call) PROVE WaitedFor'
  BY <1>1 DEF Begins
<1>2. ASSUME WritesOut PROVE WaitedFor'
  BY <1>2 DEF WritesOut
<1>3. ASSUME WritesErr PROVE WaitedFor'
  BY <1>3 DEF WritesErr
<1>4. ASSUME ReadsIn PROVE WaitedFor'
  BY <1>4 DEF ReadsIn
<1>5. ASSUME Exits PROVE WaitedFor'
  BY <1>5 DEF Exits
<1>6. ASSUME LeavesHelper PROVE WaitedFor'
  BY <1>6 DEF LeavesHelper
<1>7. ASSUME HelperExits PROVE WaitedFor'
  BY <1>7 DEF HelperExits
<1>8. ASSUME WriteInput PROVE WaitedFor'
  BY <1>8 DEF WriteInput
<1>9. ASSUME Drain PROVE WaitedFor'
  BY <1>9 DEF Drain
<1>10. ASSUME Watch PROVE WaitedFor'
  BY <1>10 DEF Watch
<1>11. ASSUME WatcherKills PROVE WaitedFor'
  BY <1>11 DEF WatcherKills
<1>12. ASSUME Cancel PROVE WaitedFor'
  BY <1>12 DEF Cancel
<1>13. ASSUME Stream PROVE WaitedFor'
  BY <1>13 DEF Stream
<1>14. ASSUME TryWait PROVE WaitedFor'
  BY <1>14 DEF TryWait
<1>15. ASSUME JoinWatcher PROVE WaitedFor'
  BY <1>15 DEF JoinWatcher
<1>16. ASSUME JoinStderr PROVE WaitedFor'
  BY <1>16 DEF JoinStderr, Outcome
<1>17. ASSUME WaitFails PROVE WaitedFor'
  BY <1>17 DEF WaitFails
<1>18. ASSUME DropWaits PROVE WaitedFor'
  BY <1>18 DEF DropWaits
<1>19. ASSUME DropJoins PROVE WaitedFor'
  BY <1>19 DEF DropJoins
<1>20. ASSUME UNCHANGED vars PROVE WaitedFor'
  BY <1>20 DEF vars
<1> QED BY <1>1, <1>2, <1>3, <1>4, <1>5, <1>6, <1>7, <1>8, <1>9, <1>10, <1>11, <1>12, <1>13,
    <1>14, <1>15, <1>16, <1>17, <1>18, <1>19, <1>20 DEF Next, Threads, Caller, Child

(* Nobody kills a child of his own accord.                                 *)
LEMMA KilledStep ==
  ASSUME TypeOK, KilledOnRequest, [Next]_vars
  PROVE  KilledOnRequest'
<1> USE CapacityAssumption, ProcessBounds DEF process, pipes, caller, Running, WriteEndOpen, Ends, Kill, KilledOnRequest
<1>1. ASSUME NEW call \in {"out", "err", "in"}, Begins(call) PROVE KilledOnRequest'
  BY <1>1 DEF Begins
<1>2. ASSUME WritesOut PROVE KilledOnRequest'
  BY <1>2 DEF WritesOut
<1>3. ASSUME WritesErr PROVE KilledOnRequest'
  BY <1>3 DEF WritesErr
<1>4. ASSUME ReadsIn PROVE KilledOnRequest'
  BY <1>4 DEF ReadsIn
<1>5. ASSUME Exits PROVE KilledOnRequest'
  BY <1>5 DEF Exits
<1>6. ASSUME LeavesHelper PROVE KilledOnRequest'
  BY <1>6 DEF LeavesHelper
<1>7. ASSUME HelperExits PROVE KilledOnRequest'
  BY <1>7 DEF HelperExits
<1>8. ASSUME WriteInput PROVE KilledOnRequest'
  BY <1>8 DEF WriteInput
<1>9. ASSUME Drain PROVE KilledOnRequest'
  BY <1>9 DEF Drain
<1>10. ASSUME Watch PROVE KilledOnRequest'
  BY <1>10 DEF Watch
<1>11. ASSUME WatcherKills PROVE KilledOnRequest'
  BY <1>11 DEF WatcherKills
<1>12. ASSUME Cancel PROVE KilledOnRequest'
  BY <1>12 DEF Cancel
<1>13. ASSUME Stream PROVE KilledOnRequest'
  BY <1>13 DEF Stream
<1>14. ASSUME TryWait PROVE KilledOnRequest'
  BY <1>14 DEF TryWait
<1>15. ASSUME JoinWatcher PROVE KilledOnRequest'
  BY <1>15 DEF JoinWatcher
<1>16. ASSUME JoinStderr PROVE KilledOnRequest'
  BY <1>16 DEF JoinStderr
<1>17. ASSUME WaitFails PROVE KilledOnRequest'
  BY <1>17 DEF WaitFails
<1>18. ASSUME DropWaits PROVE KilledOnRequest'
  BY <1>18 DEF DropWaits
<1>19. ASSUME DropJoins PROVE KilledOnRequest'
  BY <1>19 DEF DropJoins
<1>20. ASSUME UNCHANGED vars PROVE KilledOnRequest'
  BY <1>20 DEF vars
<1> QED BY <1>1, <1>2, <1>3, <1>4, <1>5, <1>6, <1>7, <1>8, <1>9, <1>10, <1>11, <1>12, <1>13,
    <1>14, <1>15, <1>16, <1>17, <1>18, <1>19, <1>20 DEF Next, Threads, Caller, Child

(* Stdout is let go of once it is read or given up, stderr when nobody can write. *)
LEMMA ReadStep ==
  ASSUME TypeOK, WaitedFor, ReadToTheEnd, [Next]_vars
  PROVE  ReadToTheEnd'
<1> USE CapacityAssumption, ProcessBounds DEF process, pipes, caller, Running, WriteEndOpen, Ends, Kill, TypeOK, ReadToTheEnd, Ended
<1>1. ASSUME NEW call \in {"out", "err", "in"}, Begins(call) PROVE ReadToTheEnd'
  BY <1>1 DEF Begins
<1>2. ASSUME WritesOut PROVE ReadToTheEnd'
  BY <1>2 DEF WritesOut
<1>3. ASSUME WritesErr PROVE ReadToTheEnd'
  BY <1>3 DEF WritesErr
<1>4. ASSUME ReadsIn PROVE ReadToTheEnd'
  BY <1>4 DEF ReadsIn
<1>5. ASSUME Exits PROVE ReadToTheEnd'
  BY <1>5 DEF Exits
<1>6. ASSUME LeavesHelper PROVE ReadToTheEnd'
  BY <1>6 DEF LeavesHelper
<1>7. ASSUME HelperExits PROVE ReadToTheEnd'
  BY <1>7 DEF HelperExits
<1>8. ASSUME WriteInput PROVE ReadToTheEnd'
  BY <1>8 DEF WriteInput
<1>9. ASSUME Drain PROVE ReadToTheEnd'
  BY <1>9 DEF Drain
<1>10. ASSUME Watch PROVE ReadToTheEnd'
  BY <1>10 DEF Watch
<1>11. ASSUME WatcherKills PROVE ReadToTheEnd'
  BY <1>11 DEF WatcherKills
<1>12. ASSUME Cancel PROVE ReadToTheEnd'
  BY <1>12 DEF Cancel
<1>13. ASSUME Stream PROVE ReadToTheEnd'
  BY <1>13 DEF Stream
<1>14. ASSUME TryWait PROVE ReadToTheEnd'
  BY <1>14 DEF TryWait
<1>15. ASSUME JoinWatcher PROVE ReadToTheEnd'
  BY <1>15 DEF JoinWatcher
<1>16. ASSUME JoinStderr PROVE ReadToTheEnd'
  BY <1>16 DEF JoinStderr
<1>17. ASSUME WaitFails PROVE ReadToTheEnd'
  BY <1>17 DEF WaitFails
<1>18. ASSUME DropWaits PROVE ReadToTheEnd'
  BY <1>18 DEF DropWaits
<1>19. ASSUME DropJoins PROVE ReadToTheEnd'
  BY <1>19 DEF DropJoins
<1>20. ASSUME UNCHANGED vars PROVE ReadToTheEnd'
  BY <1>20 DEF vars
<1> QED BY <1>1, <1>2, <1>3, <1>4, <1>5, <1>6, <1>7, <1>8, <1>9, <1>10, <1>11, <1>12, <1>13,
    <1>14, <1>15, <1>16, <1>17, <1>18, <1>19, <1>20 DEF Next, Threads, Caller, Child

-----------------------------------------------------------------------------
(* ProcessInv holds in every state the threads and the child reach.        *)
THEOREM Inductive == Spec => []ProcessInv
<1>1. Init => ProcessInv
  <2> SUFFICES ASSUME Init PROVE ProcessInv
    OBVIOUS
  <2> USE CapacityAssumption, ProcessBounds DEF Init
  <2>1. reaped \in BOOLEAN /\ helper \in BOOLEAN /\ malformed \in BOOLEAN /\ finished \in BOOLEAN
        /\ cancel \in BOOLEAN
    BY Zenon
  <2>2. TypeOK
    BY <2>1 DEF TypeOK, Ended, Pipes
  <2>3. WaitedFor /\ KilledOnRequest /\ ReadToTheEnd
    BY DEF WaitedFor, KilledOnRequest, ReadToTheEnd, Running
  <2> QED BY <2>2, <2>3 DEF ProcessInv
<1>2. ProcessInv /\ [Next]_vars => ProcessInv'
  BY TypeStep, WaitedStep, KilledStep, ReadStep DEF ProcessInv
<1> QED BY <1>1, <1>2, PTL DEF Spec

(* The child, its pipes and the threads keep their types.                  *)
THEOREM TypeCorrect == Spec => []TypeOK
<1>1. ProcessInv => TypeOK
  BY DEF ProcessInv
<1> QED BY <1>1, Inductive, PTL

(* An answered caller leaves no child, no watcher and no held lock behind, *)
(* on the path that waits and on the one that drops.                       *)
THEOREM NothingIsLeft == Spec => []NothingLeftBehind
<1>1. ProcessInv => NothingLeftBehind
  BY DEF ProcessInv, TypeOK, WaitedFor, NothingLeftBehind
<1> QED BY <1>1, Inductive, PTL

(* The outcome follows from what was read and waited for, not from which   *)
(* thread came last.                                                       *)
LEMMA OutcomeIsTrue ==
  ASSUME ProcessInv, JoinStderr
  PROVE  Promise!TellsTheTruth(Outcome) /\ Outcome \in Promise!Answers
<1>1. child \in Ended /\ pipe.out = 0 /\ pipe.err = 0
  BY DEF JoinStderr, ProcessInv, TypeOK, WaitedFor, ReadToTheEnd, Running
<1>2. child = "killed" => cancel
  BY DEF JoinStderr, ProcessInv, KilledOnRequest
<1>3. CASE cancel
  BY <1>1, <1>3 DEF Outcome, Promise!TellsTheTruth, Promise!Answers, Ended
<1>4. CASE ~cancel
  BY <1>1, <1>2, <1>4 DEF Outcome, Promise!TellsTheTruth, Promise!Answers, Ended
<1> QED BY <1>3, <1>4

(* Every step is a step of BackendRun or leaves it where it is.            *)
LEMMA PromiseStep ==
  ASSUME ProcessInv, [Next]_vars
  PROVE  [Promise!RunNext]_<<child, cancel, pipe.out > 0 \/ pipe.err > 0 \/ malformed, answer>>
<1> DEFINE unread == pipe.out > 0 \/ pipe.err > 0 \/ malformed
<1> DEFINE Goal == [Promise!RunNext]_<<child, cancel, unread, answer>>
<1>1. ASSUME UNCHANGED <<child, cancel, answer>>, unread' = unread PROVE Goal
  BY <1>1
<1>2. ASSUME UNCHANGED <<child, cancel, answer>>, answer = "none" PROVE Goal
  <2>1. unread' \in BOOLEAN
    OBVIOUS
  <2>2. Promise!Output
    BY <1>2, <2>1 DEF Promise!Output
  <2> QED BY <2>2 DEF Promise!RunNext
<1>3. ASSUME Running, child' \in Ended, UNCHANGED <<cancel, answer>>, unread' = unread PROVE Goal
  BY <1>3 DEF Running, Ended, Promise!ChildEnds, Promise!RunNext
<1>4. Running => answer = "none"
  BY DEF ProcessInv, WaitedFor
<1> HIDE DEF Goal
<1>5. ASSUME NEW call \in {"out", "err", "in"}, Begins(call) PROVE Goal
  BY <1>5, <1>1 DEF Begins, process, pipes, caller
<1>6. ASSUME WritesOut PROVE Goal
  <2>1. CASE UNCHANGED child
    BY <1>6, <1>2, <1>4, <2>1 DEF WritesOut, caller
  <2>2. CASE UNCHANGED pipe /\ child' = "failed"
    BY <1>6, <1>3, <2>2 DEF WritesOut, caller, Ended
  <2>3. UNCHANGED child \/ (UNCHANGED pipe /\ child' = "failed")
    BY <1>6 DEF WritesOut, Running
  <2> QED BY <2>1, <2>2, <2>3
<1>7. ASSUME WritesErr PROVE Goal
  BY <1>7, <1>2, <1>4 DEF WritesErr, process, caller
<1>8. ASSUME ReadsIn PROVE Goal
  BY <1>8, <1>2, <1>4 DEF ReadsIn, process, caller
<1>9. ASSUME Exits PROVE Goal
  BY <1>9, <1>3 DEF Exits, Ends, Ended, pipes, caller
<1>10. ASSUME LeavesHelper PROVE Goal
  BY <1>10, <1>1 DEF LeavesHelper, process, pipes, caller
<1>11. ASSUME HelperExits PROVE Goal
  BY <1>11, <1>1 DEF HelperExits, process, pipes, caller
<1>12. ASSUME WriteInput PROVE Goal
  <2>1. pipe'.out = pipe.out /\ pipe'.err = pipe.err
    BY <1>12 DEF WriteInput, ProcessInv, TypeOK
  <2> QED BY <1>12, <1>1, <2>1 DEF WriteInput, process, caller
<1>13. ASSUME Drain PROVE Goal
  <2>1. UNCHANGED <<child, cancel, answer>> /\ pipe'.out = pipe.out /\ pipe'.err \in Nat /\ pipe'.err <= pipe.err
    BY <1>13 DEF Drain, ProcessInv, TypeOK, process, caller
  <2>2. CASE answer = "none"
    BY <1>2, <2>1, <2>2
  <2>3. CASE unread' = unread
    BY <1>1, <2>1, <2>3
  <2>4. CASE answer # "none" /\ ~unread'
    BY <2>1, <2>4 DEF Goal, Promise!Output, Promise!RunNext
  <2>5. unread' => unread
    BY <1>13, <2>1 DEF Drain, caller, ProcessInv, TypeOK
  <2> QED BY <2>2, <2>3, <2>4, <2>5
<1>14. ASSUME Watch PROVE Goal
  BY <1>14, <1>1 DEF Watch, process, pipes, caller
<1>15. ASSUME WatcherKills PROVE Goal
  <2>1. CASE Running
    BY <1>15, <1>3, <2>1 DEF WatcherKills, Kill, Ends, Ended, pipes, caller
  <2>2. CASE ~Running
    BY <1>15, <1>1, <2>2 DEF WatcherKills, Kill, pipes, caller
  <2> QED BY <2>1, <2>2
<1>16. ASSUME Cancel PROVE Goal
  BY <1>16 DEF Cancel, Goal, Promise!RunCancel, Promise!RunNext, process, pipes, caller
<1>17. ASSUME Stream PROVE Goal
  <2>1. answer = "none"
    BY <1>17 DEF Stream, ProcessInv, WaitedFor
  <2> QED BY <1>17, <1>2, <2>1 DEF Stream, process
<1>18. ASSUME TryWait PROVE Goal
  BY <1>18, <1>1 DEF TryWait, process, pipes, caller
<1>19. ASSUME JoinWatcher PROVE Goal
  BY <1>19, <1>1 DEF JoinWatcher, process, pipes, caller
<1>20. ASSUME JoinStderr PROVE Goal
  <2>1. answer = "none" /\ answer' = Outcome /\ UNCHANGED <<child, cancel, pipe, malformed>>
    BY <1>20 DEF JoinStderr, ProcessInv, WaitedFor, process, pipes
  <2>2. Promise!Tell(Outcome) /\ Outcome \in Promise!Answers
    BY <1>20, <2>1, OutcomeIsTrue DEF Promise!Tell
  <2> QED BY <2>2 DEF Goal, Promise!RunNext
<1>21. ASSUME WaitFails PROVE Goal
  <2>1. CASE Running
    BY <1>21, <1>3, <2>1 DEF WaitFails, Kill, Ends, Ended, pipes
  <2>2. CASE ~Running
    BY <1>21, <1>1, <2>2 DEF WaitFails, Kill, pipes
  <2> QED BY <2>1, <2>2
<1>22. ASSUME DropWaits PROVE Goal
  BY <1>22, <1>1 DEF DropWaits, process, pipes, caller
<1>23. ASSUME DropJoins PROVE Goal
  <2>1. answer = "none" /\ answer' = "waitFailed" /\ child # "running"
        /\ UNCHANGED <<child, cancel, pipe, malformed>>
    BY <1>23 DEF DropJoins, ProcessInv, WaitedFor, Running, process, pipes
  <2>2. Promise!Tell("waitFailed") /\ "waitFailed" \in Promise!Answers
    BY <2>1 DEF Promise!Tell, Promise!TellsTheTruth, Promise!Answers
  <2> QED BY <2>2 DEF Goal, Promise!RunNext
<1>24. ASSUME UNCHANGED vars PROVE Goal
  BY <1>24, <1>1 DEF vars, process, pipes, caller
<1>25. Goal
  BY <1>5, <1>6, <1>7, <1>8, <1>9, <1>10, <1>11, <1>12, <1>13, <1>14, <1>15, <1>16, <1>17, <1>18,
      <1>19, <1>20, <1>21, <1>22, <1>23, <1>24 DEF Next, Threads, Caller, Child
<1> QED BY <1>25 DEF Goal

(* The threads and pipes of a run answer their caller as BackendRun says.  *)
THEOREM PromiseKept == Spec => KeepsRunPromise
<1>1. Init => Promise!RunInit
  BY DEF Init, Promise!RunInit
<1>2. ProcessInv /\ [Next]_vars =>
        [Promise!RunNext]_<<child, cancel, pipe.out > 0 \/ pipe.err > 0 \/ malformed, answer>>
  BY PromiseStep
<1> QED BY <1>1, <1>2, Inductive, PTL DEF Spec, KeepsRunPromise, Promise!RunSpec, Promise!runVars
=============================================================================
