--------------------------- MODULE ServiceProofs ---------------------------
(***************************************************************************)
(* Proofs about Scan, and about the helper process and its client          *)
(* (NativeService, ServiceClient), for any number of requests of any kinds *)
(* and any bounds: scans end once and last, answers name their scan, and   *)
(* the threads keep the promise of ScanPromise; the helper exits clean,    *)
(* the threads it runs a scan with are those of Scan, so that all of this  *)
(* holds of it too; and a request is taken out of the client's table and   *)
(* resumed once.  ScanInv is inductive: the scan whose thread has not      *)
(* published is the one in the slot.                                       *)
(***************************************************************************)
EXTENDS ServiceClient, TLAPS

Event == {"progress", "finished", "failed"} \X Scans
Stages == {"none", "claimed", "walking", "ticked", "ended", "clear", "emit", "done", "aborted"}

TypeOK ==
  /\ active \in 0..MaxScans /\ result \in 0..MaxScans /\ nextId \in 0..MaxScans
  /\ cancelled \subseteq Scans
  /\ starting \in [Requests -> 0..MaxScans] /\ asked \in [Requests -> 0..MaxScans]
  /\ stage \in [Scans -> Stages]
  /\ walked \in [Scans -> BOOLEAN] /\ ticks \in [Scans -> Nat]
  /\ out \in Seq(Event) /\ ends \in Seq(Event)

(* A scan holds the slot from its claim until its thread publishes, and    *)
(* ids that were not issued have no thread.                                *)
SlotIsTheWalk ==
  \A n \in Scans :
    /\ stage[n] \in {"claimed", "walking", "ticked", "ended"} <=> active = n
    /\ n > nextId => stage[n] = "none"

(* A claim has one request, until its thread was started or given up: so   *)
(* Release, which empties the slot whoever holds it, empties its own.      *)
ClaimsAreHeld ==
  \A r \in Requests : starting[r] # None =>
    /\ stage[starting[r]] = "claimed"
    /\ \A q \in Requests : starting[q] = starting[r] => q = r

(* The end of a scan is the last thing its thread does.                    *)
EndsAreDone == \A i \in DOMAIN out : out[i][1] # "progress" => stage[out[i][2]] = "done"

(* The history of ends is the subsequence of the events that are no        *)
(* progress.                                                               *)
Selects(at) ==
  /\ at \in [DOMAIN ends -> DOMAIN out]
  /\ \A i, j \in DOMAIN ends : i < j => at[i] < at[j]
  /\ \A i \in DOMAIN ends : ends[i] = out[at[i]]
  /\ \A j \in DOMAIN out : out[j][1] # "progress" <=> \E i \in DOMAIN ends : at[i] = j

EndsAreSelected == \E at : Selects(at)

ScanInv ==
  /\ TypeOK /\ SlotIsTheWalk /\ ClaimsAreHeld /\ EndsAreDone
  /\ EndIsLastAndOnce /\ AnswersNameTheirScan /\ EndsAreSelected

-----------------------------------------------------------------------------
(* Every step keeps the fields and the threads within their types.         *)
LEMMA TypeStep ==
  ASSUME TypeOK, [Next]_vars
  PROVE  TypeOK'
<1> USE ScanBounds DEF TypeOK, Stages, Scans, None, Goto, slot, request, walker, report
<1>1. ASSUME NEW r \in Requests, Claim(r) PROVE TypeOK'
  BY <1>1 DEF Claim
<1>2. ASSUME NEW r \in Requests, RequestStep(r) PROVE TypeOK'
  <2>1. CASE StartWalker(r)
    BY <2>1 DEF StartWalker
  <2>2. CASE Release(r)
    BY <2>2 DEF Release
  <2>3. CASE Breakdown(r)
    BY <2>3 DEF Breakdown
  <2> QED BY <1>2, <2>1, <2>2, <2>3 DEF RequestStep
<1>3. ASSUME NEW r \in Requests, NEW n \in Scans, BeginBreakdown(r, n) PROVE TypeOK'
  BY <1>3 DEF BeginBreakdown
<1>4. ASSUME NEW n \in Scans, Rows(n) PROVE TypeOK'
  BY <1>4 DEF Rows
<1>5. ASSUME NEW n \in Scans, WalkerStep(n) PROVE TypeOK'
  <2>1. CASE TickLatest(n)
    BY <2>1 DEF TickLatest
  <2>2. CASE TickEmit(n)
    <3>1. <<"progress", n>> \in Event
      BY DEF Event
    <3> QED BY <2>2, <3>1 DEF TickEmit
  <2>3. CASE WalkEnds(n)
    <3>1. walked' \in [Scans -> BOOLEAN]
      BY <2>3 DEF WalkEnds
    <3> QED BY <2>3, <3>1 DEF WalkEnds
  <2>4. CASE Publish(n)
    BY <2>4 DEF Publish
  <2>5. CASE ClearLatest(n)
    BY <2>5 DEF ClearLatest
  <2>6. CASE Emit(n)
    <3>1. <<How(n), n>> \in Event
      BY DEF Event, How
    <3> QED BY <2>6, <3>1 DEF Emit, End
  <2> QED BY <1>5, <2>1, <2>2, <2>3, <2>4, <2>5, <2>6 DEF WalkerStep
<1>6. CASE Cancel
  BY <1>6 DEF Cancel
<1>7. CASE UNCHANGED vars
  BY <1>7 DEF vars
<1> QED BY <1>1, <1>2, <1>3, <1>4, <1>5, <1>6, <1>7 DEF Next

(* The slot follows the threads.                                           *)
LEMMA SlotStep ==
  ASSUME TypeOK, SlotIsTheWalk, ClaimsAreHeld, [Next]_vars
  PROVE  SlotIsTheWalk'
<1> USE ScanBounds DEF TypeOK, SlotIsTheWalk, Stages, Scans, None, Goto, slot, request, walker, report
<1>1. ASSUME NEW r \in Requests, Claim(r) PROVE SlotIsTheWalk'
  BY <1>1 DEF Claim
<1>2. ASSUME NEW r \in Requests, RequestStep(r) PROVE SlotIsTheWalk'
  <2>1. CASE StartWalker(r)
    BY <2>1 DEF StartWalker, ClaimsAreHeld
  <2>2. CASE Release(r)
    BY <2>2 DEF Release, ClaimsAreHeld
  <2>3. CASE Breakdown(r)
    BY <2>3 DEF Breakdown
  <2> QED BY <1>2, <2>1, <2>2, <2>3 DEF RequestStep
<1>3. ASSUME NEW r \in Requests, NEW n \in Scans, BeginBreakdown(r, n) PROVE SlotIsTheWalk'
  BY <1>3 DEF BeginBreakdown
<1>4. ASSUME NEW n \in Scans, Rows(n) PROVE SlotIsTheWalk'
  BY <1>4 DEF Rows
<1>5. ASSUME NEW n \in Scans, WalkerStep(n) PROVE SlotIsTheWalk'
  <2>1. CASE TickLatest(n)
    BY <2>1 DEF TickLatest
  <2>2. CASE TickEmit(n)
    BY <2>2 DEF TickEmit
  <2>3. CASE WalkEnds(n)
    BY <2>3 DEF WalkEnds
  <2>4. CASE Publish(n)
    BY <2>4 DEF Publish
  <2>5. CASE ClearLatest(n)
    BY <2>5 DEF ClearLatest
  <2>6. CASE Emit(n)
    BY <2>6 DEF Emit
  <2> QED BY <1>5, <2>1, <2>2, <2>3, <2>4, <2>5, <2>6 DEF WalkerStep
<1>6. CASE Cancel
  BY <1>6 DEF Cancel
<1>7. CASE UNCHANGED vars
  BY <1>7 DEF vars
<1> QED BY <1>1, <1>2, <1>3, <1>4, <1>5, <1>6, <1>7 DEF Next

(* Only the request that claimed a scan starts or gives up its thread.     *)
LEMMA ClaimsStep ==
  ASSUME TypeOK, SlotIsTheWalk, ClaimsAreHeld, [Next]_vars
  PROVE  ClaimsAreHeld'
<1> USE ScanBounds DEF TypeOK, ClaimsAreHeld, Stages, Scans, None, Goto, slot, request, walker, report
<1>1. ASSUME NEW r \in Requests, Claim(r) PROVE ClaimsAreHeld'
  <2>1. \A q \in Requests : starting[q] = None
    BY <1>1 DEF Claim, SlotIsTheWalk
  <2> QED BY <2>1, <1>1 DEF Claim
<1>2. ASSUME NEW r \in Requests, RequestStep(r) PROVE ClaimsAreHeld'
  <2>1. CASE StartWalker(r)
    BY <2>1 DEF StartWalker
  <2>2. CASE Release(r)
    BY <2>2 DEF Release
  <2>3. CASE Breakdown(r)
    BY <2>3 DEF Breakdown
  <2> QED BY <1>2, <2>1, <2>2, <2>3 DEF RequestStep
<1>3. ASSUME NEW r \in Requests, NEW n \in Scans, BeginBreakdown(r, n) PROVE ClaimsAreHeld'
  BY <1>3 DEF BeginBreakdown
<1>4. ASSUME NEW n \in Scans, Rows(n) PROVE ClaimsAreHeld'
  BY <1>4 DEF Rows
<1>5. ASSUME NEW n \in Scans, WalkerStep(n) PROVE ClaimsAreHeld'
  <2>1. CASE TickLatest(n)
    BY <2>1 DEF TickLatest
  <2>2. CASE TickEmit(n)
    BY <2>2 DEF TickEmit
  <2>3. CASE WalkEnds(n)
    BY <2>3 DEF WalkEnds
  <2>4. CASE Publish(n)
    BY <2>4 DEF Publish
  <2>5. CASE ClearLatest(n)
    BY <2>5 DEF ClearLatest
  <2>6. CASE Emit(n)
    BY <2>6 DEF Emit
  <2> QED BY <1>5, <2>1, <2>2, <2>3, <2>4, <2>5, <2>6 DEF WalkerStep
<1>6. CASE Cancel
  BY <1>6 DEF Cancel
<1>7. CASE UNCHANGED vars
  BY <1>7 DEF vars
<1> QED BY <1>1, <1>2, <1>3, <1>4, <1>5, <1>6, <1>7 DEF Next

(* What a new event does to the sequence of events.                        *)
LEMMA AppendEvent ==
  ASSUME TypeOK, NEW e \in Event, out' = Append(out, e)
  PROVE  /\ Len(out) \in Nat /\ DOMAIN out = 1..Len(out) /\ DOMAIN out' = 1..(Len(out) + 1)
         /\ out'[Len(out) + 1] = e /\ \A i \in DOMAIN out : out'[i] = out[i]
BY DEF TypeOK

(* An event names a scan.                                                  *)
LEMMA EventTypes ==
  ASSUME TypeOK, NEW i \in DOMAIN out
  PROVE  out[i][2] \in Scans
<1>1. out[i] \in Event
  BY DEF TypeOK
<1> QED BY <1>1 DEF Event

(* No thread reports after it reported its end, and it reports one end.    *)
LEMMA EndsStep ==
  ASSUME TypeOK, SlotIsTheWalk, ClaimsAreHeld, EndsAreDone, EndIsLastAndOnce, [Next]_vars
  PROVE  EndsAreDone' /\ EndIsLastAndOnce'
<1> DEFINE Goal == EndsAreDone' /\ EndIsLastAndOnce'
<1>1. ASSUME UNCHANGED out, \A n \in Scans : stage[n] = "done" => stage'[n] = "done"
      PROVE  Goal
  BY <1>1, EventTypes DEF EndsAreDone, EndIsLastAndOnce
<1>2. ASSUME NEW e \in Event, out' = Append(out, e), stage[e[2]] # "done",
             e[1] # "progress" => stage'[e[2]] = "done",
             \A n \in Scans : stage[n] = "done" => stage'[n] = "done"
      PROVE  Goal
  <2>1. \A i \in DOMAIN out : out[i][2] = e[2] => out[i][1] = "progress"
    BY <1>2 DEF EndsAreDone
  <2>2. EndsAreDone'
    BY <1>2, AppendEvent, EventTypes DEF EndsAreDone
  <2>3. EndIsLastAndOnce'
    BY <1>2, <2>1, AppendEvent DEF EndIsLastAndOnce
  <2> QED BY <2>2, <2>3
<1> HIDE DEF Goal
<1> USE ScanBounds DEF TypeOK, Stages, Scans, None, Goto, slot, request, walker, report
<1>3. ASSUME NEW r \in Requests, Claim(r) PROVE Goal
  BY <1>1, <1>3 DEF Claim, SlotIsTheWalk
<1>4. ASSUME NEW r \in Requests, RequestStep(r) PROVE Goal
  <2>1. CASE StartWalker(r)
    BY <1>1, <2>1 DEF StartWalker, ClaimsAreHeld
  <2>2. CASE Release(r)
    BY <1>1, <2>2 DEF Release, ClaimsAreHeld
  <2>3. CASE Breakdown(r)
    BY <1>1, <2>3 DEF Breakdown
  <2> QED BY <1>4, <2>1, <2>2, <2>3 DEF RequestStep
<1>5. ASSUME NEW r \in Requests, NEW n \in Scans, BeginBreakdown(r, n) PROVE Goal
  BY <1>1, <1>5 DEF BeginBreakdown
<1>6. ASSUME NEW n \in Scans, Rows(n) PROVE Goal
  BY <1>1, <1>6 DEF Rows
<1>7. ASSUME NEW n \in Scans, WalkerStep(n) PROVE Goal
  <2>1. CASE TickLatest(n)
    BY <1>1, <2>1 DEF TickLatest
  <2>2. CASE TickEmit(n)
    <3>1. <<"progress", n>> \in Event
      BY DEF Event
    <3> QED BY <1>2, <2>2, <3>1 DEF TickEmit
  <2>3. CASE WalkEnds(n)
    BY <1>1, <2>3 DEF WalkEnds
  <2>4. CASE Publish(n)
    BY <1>1, <2>4 DEF Publish
  <2>5. CASE ClearLatest(n)
    BY <1>1, <2>5 DEF ClearLatest
  <2>6. CASE Emit(n)
    <3>1. <<How(n), n>> \in Event
      BY DEF Event, How
    <3> QED BY <1>2, <2>6, <3>1 DEF Emit, End
  <2> QED BY <1>7, <2>1, <2>2, <2>3, <2>4, <2>5, <2>6 DEF WalkerStep
<1>8. ASSUME Cancel PROVE Goal
  BY <1>1, <1>8 DEF Cancel
<1>9. ASSUME UNCHANGED vars PROVE Goal
  BY <1>1, <1>9 DEF vars
<1>10. Goal
  BY <1>3, <1>4, <1>5, <1>6, <1>7, <1>8, <1>9 DEF Next
<1> QED BY <1>10 DEF Goal

(* An answer is only given by the snapshot that was asked for.             *)
LEMMA AnswersStep ==
  ASSUME AnswersNameTheirScan, [Next]_vars
  PROVE  AnswersNameTheirScan'
<1> USE DEF AnswersNameTheirScan, slot, request, walker, report
<1>1. ASSUME NEW r \in Requests, Claim(r) PROVE AnswersNameTheirScan'
  BY <1>1 DEF Claim
<1>2. ASSUME NEW r \in Requests, RequestStep(r) PROVE AnswersNameTheirScan'
  BY <1>2 DEF RequestStep, StartWalker, Release, Breakdown
<1>3. ASSUME NEW r \in Requests, NEW n \in Scans, BeginBreakdown(r, n) PROVE AnswersNameTheirScan'
  BY <1>3 DEF BeginBreakdown
<1>4. ASSUME NEW n \in Scans, Rows(n) PROVE AnswersNameTheirScan'
  BY <1>4 DEF Rows
<1>5. ASSUME NEW n \in Scans, WalkerStep(n) PROVE AnswersNameTheirScan'
  BY <1>5 DEF WalkerStep, TickLatest, TickEmit, WalkEnds, Publish, ClearLatest, Emit
<1>6. CASE Cancel
  BY <1>6 DEF Cancel
<1>7. CASE UNCHANGED vars
  BY <1>7 DEF vars
<1> QED BY <1>1, <1>2, <1>3, <1>4, <1>5, <1>6, <1>7 DEF Next

(* A walker's step says nothing, reports progress, or reports an end.      *)
LEMMA EventStep ==
  ASSUME [Next]_vars
  PROVE  \/ UNCHANGED <<out, ends>>
         \/ \E n \in Scans : out' = Append(out, <<"progress", n>>) /\ UNCHANGED ends
         \/ \E n \in Scans : End(<<How(n), n>>)
<1> USE DEF slot, request, walker, report
<1>1. CASE \E r \in Requests : Claim(r) \/ RequestStep(r)
  BY <1>1 DEF Claim, RequestStep, StartWalker, Release, Breakdown
<1>2. CASE Cancel \/ UNCHANGED vars
  BY <1>2 DEF Cancel, vars
<1>3. CASE \E n \in Scans : Rows(n) \/ \E r \in Requests : BeginBreakdown(r, n)
  BY <1>3 DEF Rows, BeginBreakdown
<1>4. CASE \E n \in Scans : WalkerStep(n)
  BY <1>4 DEF WalkerStep, TickLatest, TickEmit, WalkEnds, Publish, ClearLatest, Emit
<1> QED BY <1>1, <1>2, <1>3, <1>4 DEF Next

(* Whatever is reported, the history of ends goes with the events.         *)
LEMMA SelectedStep ==
  ASSUME TypeOK, EndsAreSelected, [Next]_vars
  PROVE  EndsAreSelected'
<1>1. PICK at : Selects(at)
  BY DEF EndsAreSelected
<1>2. CASE UNCHANGED <<out, ends>>
  <2>1. Selects(at)'
    BY <1>1, <1>2 DEF Selects
  <2> QED BY <2>1 DEF EndsAreSelected
<1>3. ASSUME NEW n \in Scans, out' = Append(out, <<"progress", n>>), UNCHANGED ends
      PROVE  EndsAreSelected'
  <2>1. <<"progress", n>> \in Event
    BY DEF Event
  <2>2. /\ DOMAIN out' = DOMAIN out \cup {Len(out) + 1} /\ Len(out) + 1 \notin DOMAIN out
        /\ out'[Len(out) + 1] = <<"progress", n>> /\ \A i \in DOMAIN out : out'[i] = out[i]
    BY <1>3, <2>1, AppendEvent
  <2>3. \A i \in DOMAIN ends : at[i] \in DOMAIN out
    BY <1>1 DEF Selects
  <2>4. \A j \in DOMAIN out' : out'[j][1] # "progress" <=> \E i \in DOMAIN ends : at[i] = j
    <3>1. ASSUME NEW j \in DOMAIN out
          PROVE  out'[j][1] # "progress" <=> \E i \in DOMAIN ends : at[i] = j
      BY <1>1, <2>2 DEF Selects
    <3> QED BY <3>1, <2>2, <2>3
  <2>5. Selects(at)'
    BY <1>1, <1>3, <2>2, <2>3, <2>4 DEF Selects
  <2> QED BY <2>5 DEF EndsAreSelected
<1>4. ASSUME NEW n \in Scans, End(<<How(n), n>>) PROVE EndsAreSelected'
  <2> DEFINE e == <<How(n), n>>
  <2>1. e \in Event /\ e[1] # "progress"
    BY DEF Event, How
  <2>2. /\ Len(out) \in Nat /\ DOMAIN out = 1..Len(out)
        /\ DOMAIN out' = DOMAIN out \cup {Len(out) + 1} /\ Len(out) + 1 \notin DOMAIN out
        /\ out'[Len(out) + 1] = e /\ \A i \in DOMAIN out : out'[i] = out[i]
    BY <1>4, <2>1, AppendEvent DEF End
  <2>3. /\ Len(ends) \in Nat /\ DOMAIN ends = 1..Len(ends)
        /\ DOMAIN ends' = DOMAIN ends \cup {Len(ends) + 1} /\ Len(ends) + 1 \notin DOMAIN ends
        /\ ends'[Len(ends) + 1] = e /\ \A i \in DOMAIN ends : ends'[i] = ends[i]
    BY <1>4, <2>1 DEF End, TypeOK
  <2> HIDE DEF e
  <2>4. PICK next : next = [i \in DOMAIN ends' |-> IF i = Len(ends) + 1 THEN Len(out) + 1 ELSE at[i]]
    OBVIOUS
  <2>5. /\ \A i \in DOMAIN ends : next[i] = at[i] /\ at[i] \in DOMAIN out
        /\ next[Len(ends) + 1] = Len(out) + 1
    BY <1>1, <2>3, <2>4 DEF Selects
  <2>6. next \in [DOMAIN ends' -> DOMAIN out']
    <3>1. \A i \in DOMAIN ends' : next[i] \in DOMAIN out'
      BY <2>2, <2>3, <2>5
    <3> QED BY <3>1, <2>4
  <2>7. \A i, j \in DOMAIN ends' : i < j => next[i] < next[j]
    <3> SUFFICES ASSUME NEW i \in DOMAIN ends', NEW j \in DOMAIN ends', i < j
                 PROVE  next[i] < next[j]
      OBVIOUS
    <3>1. i \in DOMAIN ends
      BY <2>3
    <3>2. CASE j \in DOMAIN ends
      <4>1. at[i] < at[j]
        BY <1>1, <3>1, <3>2 DEF Selects
      <4> QED BY <4>1, <3>1, <3>2, <2>5
    <3>3. CASE j = Len(ends) + 1
      BY <3>1, <3>3, <2>2, <2>5
    <3> QED BY <3>2, <3>3, <2>3
  <2>8. \A i \in DOMAIN ends' : ends'[i] = out'[next[i]]
    <3>1. \A i \in DOMAIN ends : ends[i] = out[at[i]]
      BY <1>1 DEF Selects
    <3> QED BY <3>1, <2>2, <2>3, <2>5
  <2>9. \A j \in DOMAIN out' : out'[j][1] # "progress" <=> \E i \in DOMAIN ends' : next[i] = j
    <3>1. ASSUME NEW j \in DOMAIN out
          PROVE  out'[j][1] # "progress" <=> \E i \in DOMAIN ends' : next[i] = j
      <4>1. out[j][1] # "progress" <=> \E i \in DOMAIN ends : at[i] = j
        BY <1>1 DEF Selects
      <4> QED BY <4>1, <2>2, <2>3, <2>5
    <3> QED BY <3>1, <2>1, <2>2, <2>3, <2>5
  <2>10. Selects(next)'
    BY <2>6, <2>7, <2>8, <2>9 DEF Selects
  <2> QED BY <2>10 DEF EndsAreSelected
<1> QED BY <1>2, <1>3, <1>4, EventStep

-----------------------------------------------------------------------------
(* ScanInv holds in every state the threads reach.                         *)
THEOREM Inductive == Spec => []ScanInv
<1>1. Init => ScanInv
  <2> SUFFICES ASSUME Init PROVE ScanInv
    OBVIOUS
  <2> USE ScanBounds DEF Init, None, Scans
  <2>1. TypeOK /\ SlotIsTheWalk /\ ClaimsAreHeld
    BY DEF TypeOK, SlotIsTheWalk, ClaimsAreHeld, Stages
  <2>2. EndsAreDone /\ EndIsLastAndOnce /\ AnswersNameTheirScan
    BY DEF EndsAreDone, EndIsLastAndOnce, AnswersNameTheirScan
  <2>3. Selects(<<>>)
    BY DEF Selects
  <2> QED BY <2>1, <2>2, <2>3 DEF ScanInv, EndsAreSelected
<1>2. ScanInv /\ [Next]_vars => ScanInv'
  BY TypeStep, SlotStep, ClaimsStep, EndsStep, AnswersStep, SelectedStep DEF ScanInv
<1> QED BY <1>1, <1>2, PTL DEF Spec

(* The slot, the threads and the events keep their types.                  *)
THEOREM TypeCorrect == Spec => []TypeOK
<1>1. ScanInv => TypeOK
  BY DEF ScanInv
<1> QED BY <1>1, Inductive, PTL

(* One scan at a time holds the slot, it is the one whose thread has not   *)
(* published, and only its own request releases it.                        *)
THEOREM SlotIsOwned == Spec => [](SlotIsTheWalk /\ ClaimsAreHeld)
<1>1. ScanInv => SlotIsTheWalk /\ ClaimsAreHeld
  BY DEF ScanInv
<1> QED BY <1>1, Inductive, PTL

(* However the reports of scans interleave, each scan ends once, and       *)
(* nothing about it follows.                                               *)
THEOREM EndsOnce == Spec => []EndIsLastAndOnce
<1>1. ScanInv => EndIsLastAndOnce
  BY DEF ScanInv
<1> QED BY <1>1, Inductive, PTL

(* No answer about one scan comes from the tree of another.                *)
THEOREM AnswersAreTheirs == Spec => []AnswersNameTheirScan
<1>1. ScanInv => AnswersNameTheirScan
  BY DEF ScanInv
<1> QED BY <1>1, Inductive, PTL

(* Every step is a step of ScanPromise or leaves it where it is: Claim     *)
(* claims, Release releases, Publish ends the scan, Emit tells its end.    *)
LEMMA PromiseStep ==
  ASSUME ScanInv, [Next]_vars
  PROVE  [Service!ScanNext]_<<active, result, nextId, Owed, ends>>
<1> DEFINE Goal == [Service!ScanNext]_<<active, result, nextId, Owed, ends>>
<1> USE ScanBounds DEF ScanInv, TypeOK, Scans, None, Goto, slot, request, walker, report
<1>1. ASSUME UNCHANGED <<walked, slot, ends>>,
             \A n \in Scans : stage'[n] \in {"clear", "emit"} <=> stage[n] \in {"clear", "emit"}
      PROVE  Goal
  BY <1>1 DEF Owed, How
<1> HIDE DEF Goal
<1>2. ASSUME NEW r \in Requests, Claim(r) PROVE Goal
  <2>1. UNCHANGED <<walked, result, ends>> /\ nextId' = nextId + 1 /\ active' = nextId'
    BY <1>2 DEF Claim
  <2>2. Owed' = Owed
    BY <1>2 DEF Claim, Owed, How, SlotIsTheWalk
  <2> QED BY <2>1, <2>2, <1>2 DEF Goal, Claim, Service!ClaimSlot, Service!ScanNext, Service!None
<1>3. ASSUME NEW r \in Requests, StartWalker(r) PROVE Goal
  BY <1>1, <1>3 DEF StartWalker, ClaimsAreHeld
<1>4. ASSUME NEW r \in Requests, Release(r) PROVE Goal
  <2>1. active # None /\ active' = None /\ UNCHANGED <<result, nextId, ends>>
    BY <1>4 DEF Release, ClaimsAreHeld, SlotIsTheWalk
  <2>2. Owed' = Owed
    BY <1>4 DEF Release, Owed, How, ClaimsAreHeld
  <2> QED BY <2>1, <2>2 DEF Goal, Service!ReleaseSlot, Service!ScanNext, Service!None
<1>5. ASSUME NEW r \in Requests, Breakdown(r) PROVE Goal
  BY <1>1, <1>5 DEF Breakdown
<1>6. ASSUME NEW r \in Requests, NEW n \in Scans, BeginBreakdown(r, n) PROVE Goal
  BY <1>1, <1>6 DEF BeginBreakdown
<1>7. ASSUME NEW n \in Scans, Rows(n) PROVE Goal
  BY <1>1, <1>7 DEF Rows
<1>8. ASSUME NEW n \in Scans, TickLatest(n) PROVE Goal
  BY <1>1, <1>8 DEF TickLatest
<1>9. ASSUME NEW n \in Scans, TickEmit(n) PROVE Goal
  BY <1>1, <1>9 DEF TickEmit
<1>10. ASSUME NEW n \in Scans, WalkEnds(n) PROVE Goal
  <2>1. UNCHANGED <<slot, ends>> /\ stage[n] = "walking" /\ stage' = [stage EXCEPT ![n] = "ended"]
    BY <1>10 DEF WalkEnds
  <2>2. \A m \in Scans : m # n => walked'[m] = walked[m]
    BY <1>10 DEF WalkEnds
  <2>3. Owed' = Owed
    BY <2>1, <2>2 DEF Owed, How
  <2> QED BY <2>1, <2>3 DEF Goal
<1>11. ASSUME NEW n \in Scans, Publish(n) PROVE Goal
  <2>1. active = n /\ n # None /\ active' = None /\ UNCHANGED <<nextId, walked, ends>>
    BY <1>11 DEF Publish, SlotIsTheWalk
  <2>2. result' = IF How(n) = "finished" THEN active ELSE result
    BY <2>1, <1>11 DEF Publish, How
  <2>3. Owed' = Owed \cup {<<How(n), n>>}
    BY <1>11 DEF Publish, Owed, How
  <2>4. How(n) \in {"finished", "failed"}
    BY DEF How
  <2>5. Service!EndScan(How(n))
    BY <2>1, <2>2, <2>3 DEF Service!EndScan, Service!None
  <2> QED BY <2>4, <2>5 DEF Goal, Service!ScanNext
<1>12. ASSUME NEW n \in Scans, ClearLatest(n) PROVE Goal
  BY <1>1, <1>12 DEF ClearLatest
<1>13. ASSUME NEW n \in Scans, Emit(n) PROVE Goal
  <2>1. UNCHANGED <<slot, walked>> /\ ends' = Append(ends, <<How(n), n>>)
    BY <1>13 DEF Emit, End
  <2>2. <<How(n), n>> \in Owed
    BY <1>13 DEF Emit, Owed
  <2>3. Owed' = Owed \ {<<How(n), n>>}
    BY <1>13 DEF Emit, Owed, How
  <2> QED BY <2>1, <2>2, <2>3 DEF Goal, Service!TellEnd, Service!ScanNext
<1>14. ASSUME Cancel PROVE Goal
  BY <1>1, <1>14 DEF Cancel
<1>15. ASSUME UNCHANGED vars PROVE Goal
  BY <1>1, <1>15 DEF vars
<1>16. Goal
  BY <1>2, <1>3, <1>4, <1>5, <1>6, <1>7, <1>8, <1>9, <1>10, <1>11, <1>12, <1>13, <1>14, <1>15
     DEF Next, RequestStep, WalkerStep
<1> QED BY <1>16 DEF Goal

(* Whatever the threads do, the window sees the scans it was promised.     *)
THEOREM PromiseKept == Spec => KeepsScanPromise
<1>1. Init => Service!ScanInit
  BY ScanBounds DEF Init, Service!ScanInit, Service!None, None, Owed, Scans
<1>2. ScanInv /\ [Next]_vars => [Service!ScanNext]_<<active, result, nextId, Owed, ends>>
  BY PromiseStep
<1> QED BY <1>1, <1>2, Inductive, PTL DEF Spec, KeepsScanPromise, Service!ScanSpec, Service!scanVars

-----------------------------------------------------------------------------
(* The helper process and its client.                                      *)

TypeServiceOK ==
  /\ main \in {"reading", "exited", "killed"} \cup Eof \cup Drain
  /\ kind \in [Requests -> Kinds]
  /\ pc \in [Requests -> {"unsent", "entering", "starting", "running", "replying",
                          "finished", "joined"}]
  /\ replied \subseteq Requests
  /\ input \in Seq(Requests)

(* Who holds the operation slot is a request thread that runs one.         *)
OperationIsRun ==
  operation # Nobody => operation \in Requests /\ Running(operation) /\ kind[operation] = "operation"

(* A thread is only over once its request was answered.                    *)
OverIsAnswered == \A r \in Requests : pc[r] \in {"finished", "joined"} => r \in replied

(* The drain looks for threads, then for a scan.  Since no line is read    *)
(* any more, no thread comes back while it looks for the scan, and without *)
(* one no scan is claimed.                                                 *)
DrainedInOrder ==
  /\ main \in {"scan", "exited"} => \A r \in Requests : pc[r] \in {"unsent", "joined"}
  /\ main = "exited" => active = None

ServiceInv ==
  /\ TypeServiceOK /\ OperationIsRun /\ OverIsAnswered /\ DrainedInOrder

(* An entered request is in the table and was not resumed, or is out of it *)
(* and was resumed, once.                                                  *)
TakenOutOnce ==
  /\ caller \in [Requests -> {"none", "entered", "asked", "refused"}]
  /\ pending \subseteq {r \in Requests : caller[r] # "none"}
  /\ resumed = [r \in Requests |-> IF caller[r] = "none" \/ r \in pending THEN 0 ELSE 1]

-----------------------------------------------------------------------------
(* What the helper does to its scan is a step of Scan, or nothing.         *)
LEMMA ScanPart ==
  ASSUME [ClientNext]_whole
  PROVE  [Next]_vars
<1> USE DEF all, whole, service, client
<1>1. ASSUME NEW r \in Requests, Steps(EnterScan(r)) PROVE [Next]_vars
  BY <1>1 DEF Steps, EnterScan, Next
<1>2. ASSUME NEW r \in Requests, Steps(LaunchScan(r)) PROVE [Next]_vars
  BY <1>2 DEF Steps, LaunchScan, Next, RequestStep
<1>3. ASSUME NEW r \in Requests, Steps(EnterOperation(r)) PROVE [Next]_vars
  BY <1>3 DEF Steps, EnterOperation
<1>4. ASSUME NEW r \in Requests, Steps(EnterProbe(r)) PROVE [Next]_vars
  BY <1>4 DEF Steps, EnterProbe
<1>5. ASSUME NEW r \in Requests, Steps(Reply(r)) PROVE [Next]_vars
  BY <1>5 DEF Steps, Reply
<1>6. ASSUME NEW r \in Requests, Steps(EndOperation(r)) PROVE [Next]_vars
  BY <1>6 DEF Steps, EndOperation
<1>7. ASSUME NEW r \in Requests, Steps(EndProbe(r)) PROVE [Next]_vars
  BY <1>7 DEF Steps, EndProbe
<1>8. ASSUME NEW n \in Scans, Steps(WalkerThread(n)) PROVE [Next]_vars
  BY <1>8 DEF Steps, WalkerThread, Next
<1>9. ASSUME Steps(EndOfInput) PROVE [Next]_vars
  BY <1>9 DEF Steps, EndOfInput
<1>10. ASSUME Steps(CancelScan) PROVE [Next]_vars
  BY <1>10 DEF Steps, CancelScan, Next, Cancel, vars, slot, request, walker, report
<1>11. ASSUME Steps(CancelOperations) PROVE [Next]_vars
  BY <1>11 DEF Steps, CancelOperations
<1>12. ASSUME Steps(Reap) PROVE [Next]_vars
  BY <1>12 DEF Steps, Reap
<1>13. ASSUME Steps(TestWorkers) PROVE [Next]_vars
  BY <1>13 DEF Steps, TestWorkers
<1>14. ASSUME Steps(TestScan) PROVE [Next]_vars
  BY <1>14 DEF Steps, TestScan
<1>15. ASSUME NEW r \in Requests, Enter(r) PROVE [Next]_vars
  BY <1>15 DEF Enter
<1>16. ASSUME NEW r \in Requests, Write(r) PROVE [Next]_vars
  BY <1>16 DEF Write
<1>17. ASSUME NEW r \in Requests, GiveUp(r) PROVE [Next]_vars
  BY <1>17 DEF GiveUp
<1>18. ASSUME Receive PROVE [Next]_vars
  BY <1>18 DEF Receive
<1>19. ASSUME OutputEnds PROVE [Next]_vars
  BY <1>19 DEF OutputEnds
<1>20. ASSUME Terminated PROVE [Next]_vars
  BY <1>20 DEF Terminated
<1>21. ASSUME ReadLine PROVE [Next]_vars
  BY <1>21 DEF ReadLine, Read
<1>22. ASSUME Killed /\ UNCHANGED client PROVE [Next]_vars
  BY <1>22 DEF Killed
<1>23. ASSUME UNCHANGED whole PROVE [Next]_vars
  BY <1>23
<1> HIDE DEF all, whole, service, client
<1> QED BY <1>1, <1>2, <1>3, <1>4, <1>5, <1>6, <1>7, <1>8, <1>9, <1>10, <1>11, <1>12, <1>13,
    <1>14, <1>15, <1>16, <1>17, <1>18, <1>19, <1>20, <1>21, <1>22, <1>23 DEF Steps, ClientNext, ClientStep, HelperStep, RequestThread, Main

(* Every step keeps the threads and the pipe within their types.           *)
LEMMA TypeServiceStep ==
  ASSUME TypeServiceOK, [ClientNext]_whole
  PROVE  TypeServiceOK'
<1> USE DEF service, all, whole, client, At, MainGoes, Alive, Running, TypeServiceOK, Eof, Drain
<1>1. ASSUME NEW r \in Requests, Steps(EnterScan(r)) PROVE TypeServiceOK'
  BY <1>1 DEF Steps, EnterScan
<1>2. ASSUME NEW r \in Requests, Steps(LaunchScan(r)) PROVE TypeServiceOK'
  BY <1>2 DEF Steps, LaunchScan
<1>3. ASSUME NEW r \in Requests, Steps(EnterOperation(r)) PROVE TypeServiceOK'
  BY <1>3 DEF Steps, EnterOperation
<1>4. ASSUME NEW r \in Requests, Steps(EnterProbe(r)) PROVE TypeServiceOK'
  BY <1>4 DEF Steps, EnterProbe
<1>5. ASSUME NEW r \in Requests, Steps(Reply(r)) PROVE TypeServiceOK'
  BY <1>5 DEF Steps, Reply
<1>6. ASSUME NEW r \in Requests, Steps(EndOperation(r)) PROVE TypeServiceOK'
  BY <1>6 DEF Steps, EndOperation
<1>7. ASSUME NEW r \in Requests, Steps(EndProbe(r)) PROVE TypeServiceOK'
  BY <1>7 DEF Steps, EndProbe
<1>8. ASSUME NEW n \in Scans, Steps(WalkerThread(n)) PROVE TypeServiceOK'
  BY <1>8 DEF Steps, WalkerThread
<1>9. ASSUME Steps(EndOfInput) PROVE TypeServiceOK'
  BY <1>9 DEF Steps, EndOfInput
<1>10. ASSUME Steps(CancelScan) PROVE TypeServiceOK'
  BY <1>10 DEF Steps, CancelScan
<1>11. ASSUME Steps(CancelOperations) PROVE TypeServiceOK'
  BY <1>11 DEF Steps, CancelOperations
<1>12. ASSUME Steps(Reap) PROVE TypeServiceOK'
  BY <1>12 DEF Steps, Reap
<1>13. ASSUME Steps(TestWorkers) PROVE TypeServiceOK'
  BY <1>13 DEF Steps, TestWorkers
<1>14. ASSUME Steps(TestScan) PROVE TypeServiceOK'
  BY <1>14 DEF Steps, TestScan
<1>15. ASSUME NEW r \in Requests, Enter(r) PROVE TypeServiceOK'
  BY <1>15 DEF Enter
<1>16. ASSUME NEW r \in Requests, Write(r) PROVE TypeServiceOK'
  BY <1>16 DEF Write
<1>17. ASSUME NEW r \in Requests, GiveUp(r) PROVE TypeServiceOK'
  BY <1>17 DEF GiveUp
<1>18. ASSUME Receive PROVE TypeServiceOK'
  BY <1>18 DEF Receive
<1>19. ASSUME OutputEnds PROVE TypeServiceOK'
  BY <1>19 DEF OutputEnds
<1>20. ASSUME Terminated PROVE TypeServiceOK'
  BY <1>20 DEF Terminated
<1>21. ASSUME ReadLine PROVE TypeServiceOK'
  BY <1>21 DEF ReadLine, Read
<1>22. ASSUME Killed /\ UNCHANGED client PROVE TypeServiceOK'
  BY <1>22 DEF Killed
<1>23. ASSUME UNCHANGED whole PROVE TypeServiceOK'
  BY <1>23
<1> HIDE DEF service, all, whole, client, At, MainGoes, Alive, Running, TypeServiceOK, Eof, Drain
<1> QED BY <1>1, <1>2, <1>3, <1>4, <1>5, <1>6, <1>7, <1>8, <1>9, <1>10, <1>11, <1>12, <1>13,
    <1>14, <1>15, <1>16, <1>17, <1>18, <1>19, <1>20, <1>21, <1>22, <1>23 DEF Steps, ClientNext, ClientStep, HelperStep, RequestThread, Main

(* The slot is entered by a thread that goes on to run, and given back when it ends. *)
LEMMA OperationStep ==
  ASSUME TypeServiceOK, OperationIsRun, [ClientNext]_whole
  PROVE  OperationIsRun'
<1> USE DEF service, all, whole, client, At, MainGoes, Alive, Running, TypeServiceOK,
    OperationIsRun
<1>1. ASSUME NEW r \in Requests, Steps(EnterScan(r)) PROVE OperationIsRun'
  BY <1>1 DEF Steps, EnterScan
<1>2. ASSUME NEW r \in Requests, Steps(LaunchScan(r)) PROVE OperationIsRun'
  BY <1>2 DEF Steps, LaunchScan
<1>3. ASSUME NEW r \in Requests, Steps(EnterOperation(r)) PROVE OperationIsRun'
  BY <1>3 DEF Steps, EnterOperation
<1>4. ASSUME NEW r \in Requests, Steps(EnterProbe(r)) PROVE OperationIsRun'
  BY <1>4 DEF Steps, EnterProbe
<1>5. ASSUME NEW r \in Requests, Steps(Reply(r)) PROVE OperationIsRun'
  BY <1>5 DEF Steps, Reply
<1>6. ASSUME NEW r \in Requests, Steps(EndOperation(r)) PROVE OperationIsRun'
  BY <1>6 DEF Steps, EndOperation
<1>7. ASSUME NEW r \in Requests, Steps(EndProbe(r)) PROVE OperationIsRun'
  BY <1>7 DEF Steps, EndProbe
<1>8. ASSUME NEW n \in Scans, Steps(WalkerThread(n)) PROVE OperationIsRun'
  BY <1>8 DEF Steps, WalkerThread
<1>9. ASSUME Steps(EndOfInput) PROVE OperationIsRun'
  BY <1>9 DEF Steps, EndOfInput
<1>10. ASSUME Steps(CancelScan) PROVE OperationIsRun'
  BY <1>10 DEF Steps, CancelScan
<1>11. ASSUME Steps(CancelOperations) PROVE OperationIsRun'
  BY <1>11 DEF Steps, CancelOperations
<1>12. ASSUME Steps(Reap) PROVE OperationIsRun'
  BY <1>12 DEF Steps, Reap
<1>13. ASSUME Steps(TestWorkers) PROVE OperationIsRun'
  BY <1>13 DEF Steps, TestWorkers
<1>14. ASSUME Steps(TestScan) PROVE OperationIsRun'
  BY <1>14 DEF Steps, TestScan
<1>15. ASSUME NEW r \in Requests, Enter(r) PROVE OperationIsRun'
  BY <1>15 DEF Enter
<1>16. ASSUME NEW r \in Requests, Write(r) PROVE OperationIsRun'
  BY <1>16 DEF Write
<1>17. ASSUME NEW r \in Requests, GiveUp(r) PROVE OperationIsRun'
  BY <1>17 DEF GiveUp
<1>18. ASSUME Receive PROVE OperationIsRun'
  BY <1>18 DEF Receive
<1>19. ASSUME OutputEnds PROVE OperationIsRun'
  BY <1>19 DEF OutputEnds
<1>20. ASSUME Terminated PROVE OperationIsRun'
  BY <1>20 DEF Terminated
<1>21. ASSUME ReadLine PROVE OperationIsRun'
  BY <1>21 DEF ReadLine, Read
<1>22. ASSUME Killed /\ UNCHANGED client PROVE OperationIsRun'
  BY <1>22 DEF Killed
<1>23. ASSUME UNCHANGED whole PROVE OperationIsRun'
  BY <1>23
<1> HIDE DEF service, all, whole, client, At, MainGoes, Alive, Running, TypeServiceOK, OperationIsRun
<1> QED BY <1>1, <1>2, <1>3, <1>4, <1>5, <1>6, <1>7, <1>8, <1>9, <1>10, <1>11, <1>12, <1>13,
    <1>14, <1>15, <1>16, <1>17, <1>18, <1>19, <1>20, <1>21, <1>22, <1>23 DEF Steps, ClientNext, ClientStep, HelperStep, RequestThread, Main

(* Only Reply finishes a thread, and only a finished one is joined.        *)
LEMMA OverStep ==
  ASSUME TypeServiceOK, OverIsAnswered, [ClientNext]_whole
  PROVE  OverIsAnswered'
<1> USE DEF service, all, whole, client, At, MainGoes, Alive, Running, TypeServiceOK,
    OverIsAnswered
<1>1. ASSUME NEW r \in Requests, Steps(EnterScan(r)) PROVE OverIsAnswered'
  BY <1>1 DEF Steps, EnterScan
<1>2. ASSUME NEW r \in Requests, Steps(LaunchScan(r)) PROVE OverIsAnswered'
  BY <1>2 DEF Steps, LaunchScan
<1>3. ASSUME NEW r \in Requests, Steps(EnterOperation(r)) PROVE OverIsAnswered'
  BY <1>3 DEF Steps, EnterOperation
<1>4. ASSUME NEW r \in Requests, Steps(EnterProbe(r)) PROVE OverIsAnswered'
  BY <1>4 DEF Steps, EnterProbe
<1>5. ASSUME NEW r \in Requests, Steps(Reply(r)) PROVE OverIsAnswered'
  BY <1>5 DEF Steps, Reply
<1>6. ASSUME NEW r \in Requests, Steps(EndOperation(r)) PROVE OverIsAnswered'
  BY <1>6 DEF Steps, EndOperation
<1>7. ASSUME NEW r \in Requests, Steps(EndProbe(r)) PROVE OverIsAnswered'
  BY <1>7 DEF Steps, EndProbe
<1>8. ASSUME NEW n \in Scans, Steps(WalkerThread(n)) PROVE OverIsAnswered'
  BY <1>8 DEF Steps, WalkerThread
<1>9. ASSUME Steps(EndOfInput) PROVE OverIsAnswered'
  BY <1>9 DEF Steps, EndOfInput
<1>10. ASSUME Steps(CancelScan) PROVE OverIsAnswered'
  BY <1>10 DEF Steps, CancelScan
<1>11. ASSUME Steps(CancelOperations) PROVE OverIsAnswered'
  BY <1>11 DEF Steps, CancelOperations
<1>12. ASSUME Steps(Reap) PROVE OverIsAnswered'
  BY <1>12 DEF Steps, Reap
<1>13. ASSUME Steps(TestWorkers) PROVE OverIsAnswered'
  BY <1>13 DEF Steps, TestWorkers
<1>14. ASSUME Steps(TestScan) PROVE OverIsAnswered'
  BY <1>14 DEF Steps, TestScan
<1>15. ASSUME NEW r \in Requests, Enter(r) PROVE OverIsAnswered'
  BY <1>15 DEF Enter
<1>16. ASSUME NEW r \in Requests, Write(r) PROVE OverIsAnswered'
  BY <1>16 DEF Write
<1>17. ASSUME NEW r \in Requests, GiveUp(r) PROVE OverIsAnswered'
  BY <1>17 DEF GiveUp
<1>18. ASSUME Receive PROVE OverIsAnswered'
  BY <1>18 DEF Receive
<1>19. ASSUME OutputEnds PROVE OverIsAnswered'
  BY <1>19 DEF OutputEnds
<1>20. ASSUME Terminated PROVE OverIsAnswered'
  BY <1>20 DEF Terminated
<1>21. ASSUME ReadLine PROVE OverIsAnswered'
  BY <1>21 DEF ReadLine, Read
<1>22. ASSUME Killed /\ UNCHANGED client PROVE OverIsAnswered'
  BY <1>22 DEF Killed
<1>23. ASSUME UNCHANGED whole PROVE OverIsAnswered'
  BY <1>23
<1> HIDE DEF service, all, whole, client, At, MainGoes, Alive, Running, TypeServiceOK, OverIsAnswered
<1> QED BY <1>1, <1>2, <1>3, <1>4, <1>5, <1>6, <1>7, <1>8, <1>9, <1>10, <1>11, <1>12, <1>13,
    <1>14, <1>15, <1>16, <1>17, <1>18, <1>19, <1>20, <1>21, <1>22, <1>23 DEF Steps, ClientNext, ClientStep, HelperStep, RequestThread, Main

(* No thread starts once input has ended, and nothing runs once the helper did. *)
LEMMA DrainStep ==
  ASSUME TypeServiceOK, DrainedInOrder, [ClientNext]_whole
  PROVE  DrainedInOrder'
<1> USE DEF service, all, whole, client, At, MainGoes, Alive, Running, TypeServiceOK,
    DrainedInOrder, slot, vars
<1>1. ASSUME NEW r \in Requests, Steps(EnterScan(r)) PROVE DrainedInOrder'
  BY <1>1 DEF Steps, EnterScan
<1>2. ASSUME NEW r \in Requests, Steps(LaunchScan(r)) PROVE DrainedInOrder'
  BY <1>2 DEF Steps, LaunchScan
<1>3. ASSUME NEW r \in Requests, Steps(EnterOperation(r)) PROVE DrainedInOrder'
  BY <1>3 DEF Steps, EnterOperation
<1>4. ASSUME NEW r \in Requests, Steps(EnterProbe(r)) PROVE DrainedInOrder'
  BY <1>4 DEF Steps, EnterProbe
<1>5. ASSUME NEW r \in Requests, Steps(Reply(r)) PROVE DrainedInOrder'
  BY <1>5 DEF Steps, Reply
<1>6. ASSUME NEW r \in Requests, Steps(EndOperation(r)) PROVE DrainedInOrder'
  BY <1>6 DEF Steps, EndOperation
<1>7. ASSUME NEW r \in Requests, Steps(EndProbe(r)) PROVE DrainedInOrder'
  BY <1>7 DEF Steps, EndProbe
<1>8. ASSUME NEW n \in Scans, Steps(WalkerThread(n)) PROVE DrainedInOrder'
  BY <1>8 DEF Steps, WalkerThread, WalkerStep, TickLatest, TickEmit, WalkEnds, Publish,
      ClearLatest, Emit, None
<1>9. ASSUME Steps(EndOfInput) PROVE DrainedInOrder'
  BY <1>9 DEF Steps, EndOfInput
<1>10. ASSUME Steps(CancelScan) PROVE DrainedInOrder'
  BY <1>10 DEF Steps, CancelScan
<1>11. ASSUME Steps(CancelOperations) PROVE DrainedInOrder'
  BY <1>11 DEF Steps, CancelOperations
<1>12. ASSUME Steps(Reap) PROVE DrainedInOrder'
  BY <1>12 DEF Steps, Reap
<1>13. ASSUME Steps(TestWorkers) PROVE DrainedInOrder'
  BY <1>13 DEF Steps, TestWorkers
<1>14. ASSUME Steps(TestScan) PROVE DrainedInOrder'
  BY <1>14 DEF Steps, TestScan
<1>15. ASSUME NEW r \in Requests, Enter(r) PROVE DrainedInOrder'
  BY <1>15 DEF Enter
<1>16. ASSUME NEW r \in Requests, Write(r) PROVE DrainedInOrder'
  BY <1>16 DEF Write
<1>17. ASSUME NEW r \in Requests, GiveUp(r) PROVE DrainedInOrder'
  BY <1>17 DEF GiveUp
<1>18. ASSUME Receive PROVE DrainedInOrder'
  BY <1>18 DEF Receive
<1>19. ASSUME OutputEnds PROVE DrainedInOrder'
  BY <1>19 DEF OutputEnds
<1>20. ASSUME Terminated PROVE DrainedInOrder'
  BY <1>20 DEF Terminated
<1>21. ASSUME ReadLine PROVE DrainedInOrder'
  BY <1>21 DEF ReadLine, Read
<1>22. ASSUME Killed /\ UNCHANGED client PROVE DrainedInOrder'
  BY <1>22 DEF Killed
<1>23. ASSUME UNCHANGED whole PROVE DrainedInOrder'
  BY <1>23
<1> HIDE DEF service, all, whole, client, At, MainGoes, Alive, Running, TypeServiceOK, DrainedInOrder, slot, vars
<1> QED BY <1>1, <1>2, <1>3, <1>4, <1>5, <1>6, <1>7, <1>8, <1>9, <1>10, <1>11, <1>12, <1>13,
    <1>14, <1>15, <1>16, <1>17, <1>18, <1>19, <1>20, <1>21, <1>22, <1>23 DEF Steps, ClientNext, ClientStep, HelperStep, RequestThread, Main

(* Whoever takes an entry out resumes its caller in the same step.         *)
LEMMA TakenOutStep ==
  ASSUME TakenOutOnce, [ClientNext]_whole
  PROVE  TakenOutOnce'
<1> USE DEF client, whole, TakenOutOnce, RemovePending, FailPending, Resume
<1>1. ASSUME NEW r \in Requests, Steps(EnterScan(r)) PROVE TakenOutOnce'
  BY <1>1 DEF Steps, EnterScan
<1>2. ASSUME NEW r \in Requests, Steps(LaunchScan(r)) PROVE TakenOutOnce'
  BY <1>2 DEF Steps, LaunchScan
<1>3. ASSUME NEW r \in Requests, Steps(EnterOperation(r)) PROVE TakenOutOnce'
  BY <1>3 DEF Steps, EnterOperation
<1>4. ASSUME NEW r \in Requests, Steps(EnterProbe(r)) PROVE TakenOutOnce'
  BY <1>4 DEF Steps, EnterProbe
<1>5. ASSUME NEW r \in Requests, Steps(Reply(r)) PROVE TakenOutOnce'
  BY <1>5 DEF Steps, Reply
<1>6. ASSUME NEW r \in Requests, Steps(EndOperation(r)) PROVE TakenOutOnce'
  BY <1>6 DEF Steps, EndOperation
<1>7. ASSUME NEW r \in Requests, Steps(EndProbe(r)) PROVE TakenOutOnce'
  BY <1>7 DEF Steps, EndProbe
<1>8. ASSUME NEW n \in Scans, Steps(WalkerThread(n)) PROVE TakenOutOnce'
  BY <1>8 DEF Steps, WalkerThread
<1>9. ASSUME Steps(EndOfInput) PROVE TakenOutOnce'
  BY <1>9 DEF Steps, EndOfInput
<1>10. ASSUME Steps(CancelScan) PROVE TakenOutOnce'
  BY <1>10 DEF Steps, CancelScan
<1>11. ASSUME Steps(CancelOperations) PROVE TakenOutOnce'
  BY <1>11 DEF Steps, CancelOperations
<1>12. ASSUME Steps(Reap) PROVE TakenOutOnce'
  BY <1>12 DEF Steps, Reap
<1>13. ASSUME Steps(TestWorkers) PROVE TakenOutOnce'
  BY <1>13 DEF Steps, TestWorkers
<1>14. ASSUME Steps(TestScan) PROVE TakenOutOnce'
  BY <1>14 DEF Steps, TestScan
<1>15. ASSUME NEW r \in Requests, Enter(r) PROVE TakenOutOnce'
  BY <1>15 DEF Enter
<1>16. ASSUME NEW r \in Requests, Write(r) PROVE TakenOutOnce'
  BY <1>16 DEF Write
<1>17. ASSUME NEW r \in Requests, GiveUp(r) PROVE TakenOutOnce'
  BY <1>17 DEF GiveUp
<1>18. ASSUME Receive PROVE TakenOutOnce'
  BY <1>18 DEF Receive
<1>19. ASSUME OutputEnds PROVE TakenOutOnce'
  BY <1>19 DEF OutputEnds
<1>20. ASSUME Terminated PROVE TakenOutOnce'
  BY <1>20 DEF Terminated
<1>21. ASSUME ReadLine PROVE TakenOutOnce'
  BY <1>21 DEF ReadLine, Read
<1>22. ASSUME Killed /\ UNCHANGED client PROVE TakenOutOnce'
  BY <1>22 DEF Killed
<1>23. ASSUME UNCHANGED whole PROVE TakenOutOnce'
  BY <1>23
<1> HIDE DEF client, whole, TakenOutOnce, RemovePending, FailPending, Resume
<1> QED BY <1>1, <1>2, <1>3, <1>4, <1>5, <1>6, <1>7, <1>8, <1>9, <1>10, <1>11, <1>12, <1>13,
    <1>14, <1>15, <1>16, <1>17, <1>18, <1>19, <1>20, <1>21, <1>22, <1>23 DEF Steps, ClientNext, ClientStep, HelperStep, RequestThread, Main

-----------------------------------------------------------------------------
(* The helper's threads and the drain stay in ServiceInv, and the client   *)
(* keeps its table.                                                        *)
THEOREM ServiceInductive == ClientSpec => [](ServiceInv /\ TakenOutOnce)
<1>1. ClientInit => ServiceInv /\ TakenOutOnce
  <2> SUFFICES ASSUME ClientInit PROVE ServiceInv /\ TakenOutOnce
    OBVIOUS
  <2> USE DEF ClientInit, ServiceInit
  <2>1. TypeServiceOK
    BY DEF TypeServiceOK
  <2>2. OperationIsRun /\ OverIsAnswered /\ DrainedInOrder
    BY DEF OperationIsRun, OverIsAnswered, DrainedInOrder
  <2>3. TakenOutOnce
    BY DEF TakenOutOnce
  <2> QED BY <2>1, <2>2, <2>3 DEF ServiceInv
<1>2. ServiceInv /\ TakenOutOnce /\ [ClientNext]_whole => (ServiceInv /\ TakenOutOnce)'
  BY TypeServiceStep, OperationStep, OverStep, DrainStep, TakenOutStep DEF ServiceInv
<1> QED BY <1>1, <1>2, PTL DEF ClientSpec

(* A scan of the helper is a scan of Scan, end to end, whatever the other  *)
(* threads, the drain and the client do.                                   *)
THEOREM ServiceScans == ClientSpec => Spec
<1>1. ClientInit => Init
  BY DEF ClientInit, ServiceInit
<1> QED BY <1>1, ScanPart, PTL DEF ClientSpec, Spec

(* So what the window is told and answered about scans is what is proved   *)
(* of Scan.                                                                *)
THEOREM ServiceKeepsPromise ==
  ClientSpec => KeepsScanPromise /\ [](EndIsLastAndOnce /\ AnswersNameTheirScan)
BY ServiceScans, PromiseKept, EndsOnce, AnswersAreTheirs, PTL

(* Each of the three conditions of a clean exit follows from the order in  *)
(* which the drain looks: threads first, which hold operations and claims, *)
(* and then the scan.                                                      *)
THEOREM ExitsClean == ClientSpec => []ExitIsClean
<1>1. ServiceInv /\ ScanInv => ExitIsClean
  <2> SUFFICES ASSUME ServiceInv, ScanInv, main = "exited" PROVE ExitIsClean
    BY DEF ExitIsClean
  <2> USE DEF ServiceInv
  <2>1. \A r \in Requests : pc[r] \in {"unsent", "joined"}
    BY DEF DrainedInOrder
  <2>2. \A r \in Requests : pc[r] = "joined" => r \in replied
    BY DEF OverIsAnswered
  <2>3. operation = Nobody
    BY <2>1 DEF OperationIsRun, Running
  <2>4. \A n \in Scans : stage[n] \notin {"claimed", "ended"} \cup Walking
    BY DEF DrainedInOrder, ScanInv, SlotIsTheWalk, Walking, Scans, None
  <2> QED BY <2>1, <2>2, <2>3, <2>4 DEF ExitIsClean
<1> QED BY <1>1, ServiceInductive, ServiceScans, Inductive, PTL

(* No caller is resumed twice, whichever of the reply, the two ends and a  *)
(* failed write finds its entry; and none is dropped from the table        *)
(* without being resumed.                                                  *)
THEOREM ResumedAtMostOnce == ClientSpec => []TakenOutOnce
BY ServiceInductive, PTL
=============================================================================
