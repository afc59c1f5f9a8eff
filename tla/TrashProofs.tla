---------------------------- MODULE TrashProofs ----------------------------
(***************************************************************************)
(* Proofs about Trash, for any number of request threads, any paths and    *)
(* any bounds: a token moves one item at most, only paths below the scan   *)
(* root are moved, and the log follows the moves.  TrashInv is inductive:  *)
(* a token lives in the slot or in one thread, never in both.              *)
(***************************************************************************)
EXTENDS Trash, TLAPS

Pending == [token : Nat, scan : Nat, target : Paths]
Steps == {"idle", "plan", "issue", "take", "checkScan", "validate", "move", "record"}

ThreadsOK ==
  /\ pc \in [Workers -> Steps] /\ token \in [Workers -> Nat] /\ scan \in [Workers -> Nat]
  /\ target \in [Workers -> Paths \cup {NoPath}]
  /\ resolved \in [Workers -> Paths \cup {NoPath}]

RestOK ==
  /\ nextConfirmation \in Nat /\ pending \subseteq Pending /\ result \in Nat
  /\ leadsTo \in [Paths -> Paths \cup {NoPath}] /\ changes \in Nat
  /\ dialogs \in Seq(Paths)
  /\ moves \in Seq(Nat \X Paths) /\ log \in Seq(Nat \X Paths)

TypeOK == ThreadsOK /\ RestOK

(* From its preparation to its answer a thread has a path, and what is     *)
(* offered and what is moved is inside the scan root.                      *)
PathsAreChecked ==
  /\ \A w \in Workers :
       /\ pc[w] \in {"plan", "issue", "checkScan", "validate", "move", "record"} => target[w] \in Paths
       /\ pc[w] = "issue" => target[w] \in Inside
       /\ pc[w] = "move" => resolved[w] \in Inside
  /\ \A i \in DOMAIN dialogs : dialogs[i] \in Inside

(* The slot holds the newest dialog's token or none.                       *)
SlotIsNewest ==
  /\ Len(dialogs) = nextConfirmation
  /\ \A p, q \in pending : p = q
  /\ \A p \in pending :
       p.token > 0 /\ p.token = nextConfirmation /\ p.target = dialogs[nextConfirmation]

(* A thread that took a token, for the path its dialog named.              *)
Holding(w) == pc[w] \in {"checkScan", "validate", "move", "record"}

(* A token that was taken is in no other hands, and one that is still to   *)
(* be used has moved nothing.                                              *)
TokensAreTaken ==
  /\ \A w \in Workers : token[w] <= nextConfirmation
  /\ \A w \in Workers : Holding(w) =>
       /\ token[w] \in DOMAIN dialogs /\ target[w] = dialogs[token[w]]
       /\ \A p \in pending : p.token # token[w]
       /\ \A v \in Workers : Holding(v) /\ token[v] = token[w] => v = w

MovesAreSpent ==
  \A i \in DOMAIN moves :
    /\ moves[i][1] <= nextConfirmation
    /\ \A p \in pending : p.token # moves[i][1]
    /\ \A w \in Workers : Holding(w) /\ token[w] = moves[i][1] => pc[w] = "record"
    /\ \A j \in DOMAIN moves : moves[i][1] = moves[j][1] => i = j

(* What is about to be recorded was moved.                                 *)
RecordsAreMoves ==
  \A w \in Workers : pc[w] = "record" => \E j \in DOMAIN moves : moves[j][1] = token[w]

(* The log names what the dialog named, whatever the platform moved.       *)
LogNamesTheDialog ==
  \A i \in DOMAIN log : log[i][1] \in DOMAIN dialogs /\ log[i][2] = dialogs[log[i][1]]

TrashInv ==
  /\ TypeOK /\ PathsAreChecked /\ SlotIsNewest /\ TokensAreTaken /\ MovesAreSpent
  /\ RecordsAreMoves /\ MovesStayInside /\ LogFollowsMoves /\ LogNamesTheDialog

-----------------------------------------------------------------------------
(* A thread that answers is idle again, and holds nothing.                 *)
LEMMA AnswerTypes ==
  ASSUME ThreadsOK, NEW w \in Workers, Answer(w)
  PROVE  ThreadsOK'
BY DEF ThreadsOK, Answer, Goto, Steps

(* Every step keeps the threads within their types.                        *)
LEMMA ThreadsStep ==
  ASSUME TypeOK, PathsAreChecked, [Next]_vars
  PROVE  ThreadsOK'
<1> USE PathAssumption, TrashBounds DEF TypeOK, Goto, confirmation, disk, record
<1>1. ASSUME NEW w \in Workers, Plan(w) PROVE ThreadsOK'
  <2>1. leadsTo[target[w]] \in Paths \cup {NoPath}
    BY <1>1 DEF Plan, PathsAreChecked, RestOK
  <2>2. CASE Valid(leadsTo[target[w]])
    BY <2>1, <2>2, <1>1 DEF Plan, ThreadsOK, Steps
  <2>3. CASE ~Valid(leadsTo[target[w]])
    BY <2>3, <1>1, AnswerTypes DEF Plan
  <2> QED BY <2>2, <2>3
<1>2. ASSUME NEW w \in Workers, Issue(w) PROVE ThreadsOK'
  BY <1>2, AnswerTypes DEF Issue
<1>3. ASSUME NEW w \in Workers, Take(w) PROVE ThreadsOK'
  <2>1. CASE \E p \in pending : p.token = token[w]
    <3>1. PICK p \in pending : /\ scan' = [scan EXCEPT ![w] = p.scan]
                               /\ target' = [target EXCEPT ![w] = p.target]
      BY <1>3, <2>1 DEF Take
    <3>2. p.scan \in Nat /\ p.target \in Paths
      BY DEF Pending, RestOK
    <3>3. scan' \in [Workers -> Nat] /\ target' \in [Workers -> Paths \cup {NoPath}]
      BY <3>1, <3>2 DEF ThreadsOK
    <3>4. pc' \in [Workers -> Steps] /\ UNCHANGED <<token, resolved>>
      BY <1>3, <2>1 DEF Take, ThreadsOK, Steps
    <3> QED BY <3>3, <3>4 DEF ThreadsOK
  <2>2. CASE ~\E p \in pending : p.token = token[w]
    BY <1>3, <2>2, AnswerTypes DEF Take
  <2> QED BY <2>1, <2>2
<1>4. ASSUME NEW w \in Workers, CheckScan(w) PROVE ThreadsOK'
  <2>1. CASE result = scan[w]
    BY <1>4, <2>1 DEF CheckScan, ThreadsOK, Steps
  <2>2. CASE result # scan[w]
    BY <1>4, <2>2, AnswerTypes DEF CheckScan
  <2> QED BY <2>1, <2>2
<1>5. ASSUME NEW w \in Workers, Validate(w) PROVE ThreadsOK'
  <2>1. leadsTo[target[w]] \in Paths \cup {NoPath}
    BY <1>5 DEF Validate, PathsAreChecked, RestOK
  <2>2. CASE Valid(leadsTo[target[w]])
    BY <2>1, <2>2, <1>5 DEF Validate, ThreadsOK, Steps
  <2>3. CASE ~Valid(leadsTo[target[w]])
    BY <2>3, <1>5, AnswerTypes DEF Validate
  <2> QED BY <2>2, <2>3
<1>6. ASSUME NEW w \in Workers, Move(w) PROVE ThreadsOK'
  <2>1. CASE Answer(w)
    BY <2>1, AnswerTypes
  <2>2. CASE ~Answer(w)
    BY <2>2, <1>6 DEF Move, ThreadsOK, Steps
  <2> QED BY <2>1, <2>2
<1>7. ASSUME NEW w \in Workers, Record(w) PROVE ThreadsOK'
  BY <1>7, AnswerTypes DEF Record
<1>8. ASSUME NEW w \in Workers, NEW p \in Paths, ReadRow(w, p) PROVE ThreadsOK'
  <2>1. target' \in [Workers -> Paths \cup {NoPath}] /\ scan' \in [Workers -> Nat]
    BY <1>8 DEF ReadRow, ThreadsOK, RestOK
  <2>2. pc' \in [Workers -> Steps] /\ UNCHANGED <<token, resolved>>
    BY <1>8 DEF ReadRow, ThreadsOK, Steps
  <2> QED BY <2>1, <2>2 DEF ThreadsOK
<1>9. ASSUME NEW w \in Workers, NEW t \in 1..nextConfirmation, Confirm(w, t) PROVE ThreadsOK'
  BY <1>9 DEF Confirm, ThreadsOK, Steps
<1>10. ASSUME NewScan PROVE ThreadsOK'
  BY <1>10 DEF NewScan, thread, ThreadsOK
<1>11. ASSUME NEW p \in Paths, Change(p) PROVE ThreadsOK'
  BY <1>11 DEF Change, thread, ThreadsOK
<1>12. ASSUME UNCHANGED vars PROVE ThreadsOK'
  BY <1>12 DEF vars, thread, ThreadsOK
<1> QED BY <1>1, <1>2, <1>3, <1>4, <1>5, <1>6, <1>7, <1>8, <1>9, <1>10, <1>11, <1>12 DEF Next, Step

(* Every step keeps the slot, the disk and the histories within theirs.    *)
LEMMA RestStep ==
  ASSUME TypeOK, PathsAreChecked, [Next]_vars
  PROVE  RestOK'
<1> USE PathAssumption, TrashBounds DEF TypeOK, RestOK, confirmation, disk, record
<1>1. ASSUME NEW w \in Workers, Plan(w) PROVE RestOK'
  BY <1>1 DEF Plan
<1>2. ASSUME NEW w \in Workers, Issue(w) PROVE RestOK'
  <2>1. target[w] \in Paths /\ scan[w] \in Nat
    BY <1>2 DEF Issue, PathsAreChecked, ThreadsOK
  <2>2. pending' \subseteq Pending
    BY <2>1, <1>2 DEF Issue, Pending
  <2>3. dialogs' \in Seq(Paths)
    BY <2>1, <1>2 DEF Issue
  <2> QED BY <2>2, <2>3, <1>2 DEF Issue
<1>3. ASSUME NEW w \in Workers, Take(w) PROVE RestOK'
  BY <1>3 DEF Take
<1>4. ASSUME NEW w \in Workers, CheckScan(w) PROVE RestOK'
  BY <1>4 DEF CheckScan
<1>5. ASSUME NEW w \in Workers, Validate(w) PROVE RestOK'
  BY <1>5 DEF Validate
<1>6. ASSUME NEW w \in Workers, Move(w) PROVE RestOK'
  <2>1. resolved[w] \in Paths /\ token[w] \in Nat
    BY <1>6 DEF Move, PathsAreChecked, ThreadsOK
  <2>2. Gone(resolved[w]) \in [Paths -> Paths \cup {NoPath}]
    BY DEF Gone
  <2>3. moves' \in Seq(Nat \X Paths) /\ leadsTo' \in [Paths -> Paths \cup {NoPath}]
    <3>1. CASE UNCHANGED <<moves, leadsTo>>
      BY <3>1
    <3>2. CASE moves' = Append(moves, <<token[w], resolved[w]>>) /\ leadsTo' = Gone(resolved[w])
      BY <2>1, <2>2, <3>2
    <3> QED BY <3>1, <3>2, <1>6 DEF Move
  <2> QED BY <2>3, <1>6 DEF Move
<1>7. ASSUME NEW w \in Workers, Record(w) PROVE RestOK'
  <2>1. target[w] \in Paths /\ token[w] \in Nat
    BY <1>7 DEF Record, PathsAreChecked, ThreadsOK
  <2>2. log' \in Seq(Nat \X Paths)
    BY <2>1, <1>7 DEF Record
  <2> QED BY <2>2, <1>7 DEF Record
<1>8. ASSUME NEW w \in Workers, NEW p \in Paths, ReadRow(w, p) PROVE RestOK'
  BY <1>8 DEF ReadRow
<1>9. ASSUME NEW w \in Workers, NEW t \in 1..nextConfirmation, Confirm(w, t) PROVE RestOK'
  BY <1>9 DEF Confirm
<1>10. ASSUME NewScan PROVE RestOK'
  BY <1>10 DEF NewScan
<1>11. ASSUME NEW p \in Paths, Change(p) PROVE RestOK'
  <2>1. Gone(p) \in [Paths -> Paths \cup {NoPath}]
    BY DEF Gone
  <2>2. leadsTo' \in [Paths -> Paths \cup {NoPath}]
    BY <2>1, <1>11 DEF Change
  <2> QED BY <2>2, <1>11 DEF Change
<1>12. ASSUME UNCHANGED vars PROVE RestOK'
  BY <1>12 DEF vars
<1> QED BY <1>1, <1>2, <1>3, <1>4, <1>5, <1>6, <1>7, <1>8, <1>9, <1>10, <1>11, <1>12 DEF Next, Step

(* plan() and move_to_trash() resolve and check, each for itself.          *)
LEMMA PathsStep ==
  ASSUME TypeOK, PathsAreChecked, [Next]_vars
  PROVE  PathsAreChecked'
<1> USE PathAssumption, TrashBounds DEF TypeOK, ThreadsOK, RestOK, Steps, PathsAreChecked, Goto, Answer, confirmation,
    thread, disk, record
<1>1. ASSUME NEW w \in Workers, Plan(w) PROVE PathsAreChecked'
  <2>1. CASE Valid(leadsTo[target[w]])
    BY <2>1, <1>1 DEF Plan, Valid
  <2>2. CASE ~Valid(leadsTo[target[w]])
    BY <2>2, <1>1 DEF Plan
  <2> QED BY <2>1, <2>2
<1>2. ASSUME NEW w \in Workers, Issue(w) PROVE PathsAreChecked'
  <2>1. target[w] \in Inside
    BY <1>2 DEF Issue
  <2>2. \A i \in DOMAIN dialogs' : dialogs'[i] \in Inside
    BY <2>1, <1>2 DEF Issue
  <2> QED BY <2>2, <1>2 DEF Issue
<1>3. ASSUME NEW w \in Workers, Take(w) PROVE PathsAreChecked'
  <2>1. CASE \E p \in pending : p.token = token[w]
    <3>1. PICK p \in pending : target' = [target EXCEPT ![w] = p.target]
      BY <1>3, <2>1 DEF Take
    <3>2. p.target \in Paths
      BY DEF Pending
    <3> QED BY <1>3, <2>1, <3>1, <3>2 DEF Take
  <2>2. CASE ~\E p \in pending : p.token = token[w]
    BY <1>3, <2>2 DEF Take
  <2> QED BY <2>1, <2>2
<1>4. ASSUME NEW w \in Workers, CheckScan(w) PROVE PathsAreChecked'
  BY <1>4 DEF CheckScan
<1>5. ASSUME NEW w \in Workers, Validate(w) PROVE PathsAreChecked'
  BY <1>5 DEF Validate, Valid
<1>6. ASSUME NEW w \in Workers, Move(w) PROVE PathsAreChecked'
  BY <1>6 DEF Move
<1>7. ASSUME NEW w \in Workers, Record(w) PROVE PathsAreChecked'
  BY <1>7 DEF Record
<1>8. ASSUME NEW w \in Workers, NEW p \in Paths, ReadRow(w, p) PROVE PathsAreChecked'
  BY <1>8 DEF ReadRow
<1>9. ASSUME NEW w \in Workers, NEW t \in 1..nextConfirmation, Confirm(w, t) PROVE PathsAreChecked'
  BY <1>9 DEF Confirm
<1>10. ASSUME NewScan PROVE PathsAreChecked'
  BY <1>10 DEF NewScan
<1>11. ASSUME NEW p \in Paths, Change(p) PROVE PathsAreChecked'
  BY <1>11 DEF Change
<1>12. ASSUME UNCHANGED vars PROVE PathsAreChecked'
  BY <1>12 DEF vars
<1> QED BY <1>1, <1>2, <1>3, <1>4, <1>5, <1>6, <1>7, <1>8, <1>9, <1>10, <1>11, <1>12 DEF Next, Step

(* Issue drops the token of any dialog left open.                          *)
LEMMA SlotStep ==
  ASSUME TypeOK, SlotIsNewest, [Next]_vars
  PROVE  SlotIsNewest'
<1> USE DEF SlotIsNewest, confirmation, thread, disk, record
<1>1. ASSUME NEW w \in Workers, Plan(w) PROVE SlotIsNewest'
  BY <1>1 DEF Plan
<1>2. ASSUME NEW w \in Workers, Issue(w) PROVE SlotIsNewest'
  <2>1. /\ dialogs \in Seq(Paths) /\ dialogs' = Append(dialogs, target[w]) /\ nextConfirmation \in Nat
        /\ nextConfirmation' = nextConfirmation + 1
        /\ pending' = {[token |-> nextConfirmation', scan |-> scan[w], target |-> target[w]]}
    BY <1>2 DEF Issue, TypeOK, RestOK
  <2>2. Len(dialogs') = nextConfirmation' /\ dialogs'[nextConfirmation'] = target[w]
    BY <2>1
  <2> QED BY <2>1, <2>2
<1>3. ASSUME NEW w \in Workers, Take(w) PROVE SlotIsNewest'
  BY <1>3 DEF Take
<1>4. ASSUME NEW w \in Workers, CheckScan(w) PROVE SlotIsNewest'
  BY <1>4 DEF CheckScan
<1>5. ASSUME NEW w \in Workers, Validate(w) PROVE SlotIsNewest'
  BY <1>5 DEF Validate
<1>6. ASSUME NEW w \in Workers, Move(w) PROVE SlotIsNewest'
  BY <1>6 DEF Move
<1>7. ASSUME NEW w \in Workers, Record(w) PROVE SlotIsNewest'
  BY <1>7 DEF Record
<1>8. ASSUME NEW w \in Workers, NEW p \in Paths, ReadRow(w, p) PROVE SlotIsNewest'
  BY <1>8 DEF ReadRow
<1>9. ASSUME NEW w \in Workers, NEW t \in 1..nextConfirmation, Confirm(w, t) PROVE SlotIsNewest'
  BY <1>9 DEF Confirm
<1>10. ASSUME NewScan PROVE SlotIsNewest'
  BY <1>10 DEF NewScan
<1>11. ASSUME NEW p \in Paths, Change(p) PROVE SlotIsNewest'
  BY <1>11 DEF Change
<1>12. ASSUME UNCHANGED vars PROVE SlotIsNewest'
  BY <1>12 DEF vars
<1> QED BY <1>1, <1>2, <1>3, <1>4, <1>5, <1>6, <1>7, <1>8, <1>9, <1>10, <1>11, <1>12 DEF Next, Step

(* A step of a thread that takes no token: it keeps the one it took or     *)
(* lets go of it, and the other threads stay where they are.               *)
Others(w) ==
  \A v \in Workers : v # w => pc'[v] = pc[v] /\ token'[v] = token[v] /\ target'[v] = target[v]

KeepsHold(w) ==
  /\ Others(w)
  /\ token'[w] \in {token[w], 0}
  /\ Holding(w)' => /\ Holding(w) /\ pc[w] # "record"
                    /\ token'[w] = token[w] /\ target'[w] = target[w]

(* An answered thread is idle and holds no token (Answer: the request's      *)
(* last act).                                                              *)
LEMMA AnswerLetsGo ==
  ASSUME ThreadsOK, NEW w \in Workers, Answer(w)
  PROVE  KeepsHold(w) /\ pc'[w] = "idle" /\ token'[w] = 0
BY DEF ThreadsOK, Answer, Goto, KeepsHold, Others, Holding

(* No step but Take takes a token, and none but Move brings a thread to    *)
(* the record.                                                             *)
LEMMA HoldStep ==
  ASSUME ThreadsOK, NEW w \in Workers,
         \/ Plan(w) \/ CheckScan(w) \/ Validate(w) \/ Move(w) \/ Record(w)
         \/ \E p \in Paths : ReadRow(w, p)
  PROVE  KeepsHold(w)
<1>1. CASE Answer(w)
  BY <1>1, AnswerLetsGo
<1>2. CASE ~Answer(w)
  <2> USE <1>2 DEF ThreadsOK, Goto, KeepsHold, Others, Holding
  <2>1. CASE Plan(w)
    BY <2>1 DEF Plan
  <2>2. CASE CheckScan(w)
    BY <2>2 DEF CheckScan
  <2>3. CASE Validate(w)
    BY <2>3 DEF Validate
  <2>4. CASE Move(w)
    BY <2>4 DEF Move
  <2>5. CASE Record(w)
    BY <2>5 DEF Record
  <2>6. CASE \E p \in Paths : ReadRow(w, p)
    BY <2>6 DEF ReadRow
  <2> QED BY <2>1, <2>2, <2>3, <2>4, <2>5, <2>6
<1> QED BY <1>1, <1>2

(* A token is taken once, and holds on to the path its dialog named.       *)
LEMMA TokensStep ==
  ASSUME TypeOK, SlotIsNewest, TokensAreTaken, [Next]_vars
  PROVE  TokensAreTaken'
<1>1. nextConfirmation \in Nat /\ token \in [Workers -> Nat] /\ ThreadsOK
  BY DEF TypeOK, ThreadsOK, RestOK
<1>2. ASSUME NEW w \in Workers, KeepsHold(w), UNCHANGED <<confirmation, dialogs>>
      PROVE  TokensAreTaken'
  <2>1. \A v \in Workers : token'[v] <= nextConfirmation
    BY <1>1, <1>2 DEF TokensAreTaken, KeepsHold, Others
  <2>2. \A v \in Workers : Holding(v)' => Holding(v) /\ token'[v] = token[v] /\ target'[v] = target[v]
    BY <1>2 DEF KeepsHold, Others, Holding
  <2> QED BY <1>2, <2>1, <2>2 DEF TokensAreTaken, confirmation
<1>3. ASSUME NEW w \in Workers, Plan(w) PROVE TokensAreTaken'
  BY <1>3, <1>1, <1>2, HoldStep DEF Plan, disk, record
<1>4. ASSUME NEW w \in Workers, Issue(w) PROVE TokensAreTaken'
  <2>1. /\ dialogs \in Seq(Paths) /\ dialogs' = Append(dialogs, target[w])
        /\ nextConfirmation' = nextConfirmation + 1
        /\ \A p \in pending' : p.token = nextConfirmation'
        /\ Answer(w)
    BY <1>4 DEF Issue, TypeOK, RestOK
  <2>2. /\ DOMAIN dialogs = 1..nextConfirmation /\ DOMAIN dialogs' = 1..nextConfirmation'
        /\ \A t \in DOMAIN dialogs : dialogs'[t] = dialogs[t]
    BY <1>1, <2>1 DEF SlotIsNewest
  <2>3. token'[w] = 0 /\ ~Holding(w)' /\ Others(w)
    BY <1>1, <2>1, AnswerLetsGo DEF KeepsHold, Holding
  <2>4. \A v \in Workers : token'[v] <= nextConfirmation'
    BY <1>1, <2>1, <2>3 DEF Others, TokensAreTaken
  <2>5. ASSUME NEW v \in Workers, Holding(v)'
        PROVE  /\ v # w /\ Holding(v) /\ token'[v] = token[v] /\ target'[v] = target[v]
               /\ token[v] \in DOMAIN dialogs /\ token[v] < nextConfirmation'
    BY <1>1, <2>1, <2>3, <2>5 DEF Others, Holding, TokensAreTaken
  <2>6. ASSUME NEW v \in Workers, Holding(v)'
        PROVE  /\ token'[v] \in DOMAIN dialogs' /\ target'[v] = dialogs'[token'[v]]
               /\ \A p \in pending' : p.token # token'[v]
    <3>1. target[v] = dialogs[token[v]] /\ token[v] \in Nat
      BY <1>1, <2>5, <2>6 DEF TokensAreTaken
    <3> QED BY <1>1, <2>1, <2>2, <2>5, <2>6, <3>1
  <2>7. ASSUME NEW v \in Workers, NEW u \in Workers, Holding(v)', Holding(u)', token'[v] = token'[u]
        PROVE  v = u
    BY <2>5, <2>7 DEF TokensAreTaken
  <2> QED BY <2>4, <2>6, <2>7 DEF TokensAreTaken
<1>5. ASSUME NEW w \in Workers, Take(w) PROVE TokensAreTaken'
  <2>1. CASE \E p \in pending : p.token = token[w]
    <3>1. PICK p \in pending : /\ p.token = token[w] /\ pending' = pending \ {p}
                               /\ target' = [target EXCEPT ![w] = p.target]
      BY <1>5, <2>1 DEF Take
    <3>2. UNCHANGED <<token, dialogs, nextConfirmation>> /\ pc' = [pc EXCEPT ![w] = "checkScan"]
      BY <1>5, <2>1 DEF Take, Goto, record
    <3>3. pending' = {} /\ token[w] = nextConfirmation /\ target'[w] = dialogs[nextConfirmation]
      BY <1>1, <3>1 DEF SlotIsNewest, ThreadsOK
    <3>4. token[w] \in DOMAIN dialogs
      <4>1. Len(dialogs) = nextConfirmation /\ dialogs \in Seq(Paths)
        BY DEF SlotIsNewest, TypeOK, RestOK
      <4>2. nextConfirmation > 0
        BY <3>1, <3>3 DEF SlotIsNewest
      <4> QED BY <1>1, <3>3, <4>1, <4>2
    <3>5. \A v \in Workers : v # w => Holding(v)' = Holding(v) /\ target'[v] = target[v]
      BY <1>1, <3>1, <3>2 DEF Holding, ThreadsOK
    <3>6. \A v \in Workers : Holding(v) => token[v] # token[w]
      BY <3>1 DEF TokensAreTaken
    <3> QED BY <3>2, <3>3, <3>4, <3>5, <3>6 DEF TokensAreTaken
  <2>2. CASE ~\E p \in pending : p.token = token[w]
    BY <1>5, <1>1, <1>2, <2>2, AnswerLetsGo DEF Take, confirmation, disk, record
  <2> QED BY <2>1, <2>2
<1>6. ASSUME NEW w \in Workers, CheckScan(w) PROVE TokensAreTaken'
  BY <1>6, <1>1, <1>2, HoldStep DEF CheckScan, disk, record
<1>7. ASSUME NEW w \in Workers, Validate(w) PROVE TokensAreTaken'
  BY <1>7, <1>1, <1>2, HoldStep DEF Validate, disk, record
<1>8. ASSUME NEW w \in Workers, Move(w) PROVE TokensAreTaken'
  BY <1>8, <1>1, <1>2, HoldStep DEF Move, disk, record
<1>9. ASSUME NEW w \in Workers, Record(w) PROVE TokensAreTaken'
  BY <1>9, <1>1, <1>2, HoldStep DEF Record, disk, record
<1>10. ASSUME NEW w \in Workers, NEW p \in Paths, ReadRow(w, p) PROVE TokensAreTaken'
  BY <1>10, <1>1, <1>2, HoldStep DEF ReadRow, disk, record
<1>11. ASSUME NEW w \in Workers, NEW t \in 1..nextConfirmation, Confirm(w, t) PROVE TokensAreTaken'
  <2>1. /\ token' = [token EXCEPT ![w] = t] /\ pc' = [pc EXCEPT ![w] = "take"]
        /\ UNCHANGED <<confirmation, target, dialogs>>
    BY <1>11 DEF Confirm, Goto, record
  <2>2. \A v \in Workers : token'[v] <= nextConfirmation
    BY <1>1, <2>1 DEF TokensAreTaken
  <2>3. \A v \in Workers : Holding(v)' => v # w /\ Holding(v) /\ token'[v] = token[v]
    BY <1>1, <2>1 DEF Holding, ThreadsOK
  <2> QED BY <2>1, <2>2, <2>3 DEF TokensAreTaken, confirmation
<1>12. ASSUME NewScan PROVE TokensAreTaken'
  BY <1>12 DEF NewScan, TokensAreTaken, Holding, confirmation, thread, disk, record
<1>13. ASSUME NEW p \in Paths, Change(p) PROVE TokensAreTaken'
  BY <1>13 DEF Change, TokensAreTaken, Holding, confirmation, thread, disk, record
<1>14. ASSUME UNCHANGED vars PROVE TokensAreTaken'
  BY <1>14 DEF vars, TokensAreTaken, Holding, confirmation, thread, disk, record
<1> QED BY <1>3, <1>4, <1>5, <1>6, <1>7, <1>8, <1>9, <1>10, <1>11, <1>12, <1>13, <1>14 DEF Next,
    Step

(* What was moved was moved with a token nobody will move with again.      *)
LEMMA MovesStep ==
  ASSUME TypeOK, SlotIsNewest, TokensAreTaken, MovesAreSpent, [Next]_vars
  PROVE  MovesAreSpent'
<1>1. /\ nextConfirmation \in Nat /\ token \in [Workers -> Nat] /\ ThreadsOK
      /\ moves \in Seq(Nat \X Paths)
  BY DEF TypeOK, ThreadsOK, RestOK
<1>2. ASSUME NEW w \in Workers, KeepsHold(w), UNCHANGED <<confirmation, moves>>
      PROVE  MovesAreSpent'
  BY <1>2 DEF MovesAreSpent, KeepsHold, Others, Holding, confirmation
<1>3. ASSUME NEW w \in Workers, Plan(w) PROVE MovesAreSpent'
  BY <1>3, <1>1, <1>2, HoldStep DEF Plan, disk, record
<1>4. ASSUME NEW w \in Workers, Issue(w) PROVE MovesAreSpent'
  <2>1. /\ nextConfirmation' = nextConfirmation + 1 /\ UNCHANGED moves
        /\ \A p \in pending' : p.token = nextConfirmation'
        /\ KeepsHold(w)
    BY <1>4, <1>1, AnswerLetsGo DEF Issue
  <2>2. \A i \in DOMAIN moves : moves[i][1] \in Nat
    BY <1>1
  <2>3. \A v \in Workers : Holding(v)' => (Holding(v) /\ token'[v] = token[v] /\ pc'[v] = pc[v]) \/ v = w
    BY <2>1 DEF KeepsHold, Others, Holding
  <2>4. \A i \in DOMAIN moves : moves[i][1] <= nextConfirmation' /\ \A p \in pending' : p.token # moves[i][1]
    BY <1>1, <2>1, <2>2 DEF MovesAreSpent
  <2>5. \A i \in DOMAIN moves : \A v \in Workers : Holding(v)' /\ token'[v] = moves[i][1] => pc'[v] = "record"
    BY <2>1 DEF MovesAreSpent, KeepsHold, Others, Holding
  <2> QED BY <2>1, <2>4, <2>5 DEF MovesAreSpent
<1>5. ASSUME NEW w \in Workers, Take(w) PROVE MovesAreSpent'
  <2>1. CASE \E p \in pending : p.token = token[w]
    <3>1. PICK p \in pending : p.token = token[w] /\ pending' = pending \ {p}
      BY <1>5, <2>1 DEF Take
    <3>2. pending' = {} /\ \A i \in DOMAIN moves : moves[i][1] # token[w]
      BY <3>1 DEF SlotIsNewest, MovesAreSpent
    <3>3. UNCHANGED <<token, moves, nextConfirmation>> /\ pc' = [pc EXCEPT ![w] = "checkScan"]
      BY <1>5, <2>1 DEF Take, Goto, record
    <3>4. \A v \in Workers : v # w => pc'[v] = pc[v]
      BY <1>1, <3>3 DEF ThreadsOK
    <3> QED BY <3>2, <3>3, <3>4 DEF MovesAreSpent, Holding
  <2>2. CASE ~\E p \in pending : p.token = token[w]
    BY <1>5, <1>1, <1>2, <2>2, AnswerLetsGo DEF Take, confirmation, disk, record
  <2> QED BY <2>1, <2>2
<1>6. ASSUME NEW w \in Workers, CheckScan(w) PROVE MovesAreSpent'
  BY <1>6, <1>1, <1>2, HoldStep DEF CheckScan, disk, record
<1>7. ASSUME NEW w \in Workers, Validate(w) PROVE MovesAreSpent'
  BY <1>7, <1>1, <1>2, HoldStep DEF Validate, disk, record
<1>8. ASSUME NEW w \in Workers, Move(w) PROVE MovesAreSpent'
  <2>1. CASE UNCHANGED moves
    BY <1>8, <1>1, <1>2, <2>1, HoldStep DEF Move
  <2>2. CASE moves' = Append(moves, <<token[w], resolved[w]>>) /\ pc' = [pc EXCEPT ![w] = "record"]
    <3>1. /\ Len(moves) \in Nat /\ DOMAIN moves = 1..Len(moves) /\ DOMAIN moves' = 1..(Len(moves) + 1)
          /\ moves'[Len(moves) + 1][1] = token[w] /\ \A i \in DOMAIN moves : moves'[i] = moves[i]
      BY <1>1, <2>2
    <3>2. /\ token[w] <= nextConfirmation /\ \A p \in pending : p.token # token[w]
          /\ \A v \in Workers : Holding(v) /\ token[v] = token[w] => v = w
      BY <1>8 DEF Move, TokensAreTaken, Holding
    <3>3. \A i \in DOMAIN moves : moves[i][1] # token[w]
      BY <1>8 DEF Move, MovesAreSpent, Holding
    <3>4. UNCHANGED <<token, pending, nextConfirmation>> /\ pc'[w] = "record"
      BY <1>8, <1>1, <2>2 DEF Move, confirmation, ThreadsOK, Answer
    <3>5. \A v \in Workers : v # w => pc'[v] = pc[v]
      BY <1>1, <2>2 DEF ThreadsOK
    <3> DEFINE new == Len(moves) + 1
    <3>6. DOMAIN moves' = DOMAIN moves \cup {new} /\ new \notin DOMAIN moves
      BY <3>1
    <3>7. /\ token[w] <= nextConfirmation
          /\ \A v \in Workers : Holding(v)' /\ token[v] = token[w] => pc'[v] = "record"
      BY <3>2, <3>4, <3>5 DEF Holding
    <3> HIDE DEF new
    <3>8. \A i \in DOMAIN moves : \A v \in Workers : Holding(v)' /\ token[v] = moves[i][1] => pc'[v] = "record"
      BY <3>4, <3>5 DEF MovesAreSpent, Holding
    <3>9. moves'[new][1] = token[w]
      BY <3>1 DEF new
    <3>10. \A i \in DOMAIN moves' :
             /\ moves'[i][1] <= nextConfirmation
             /\ \A p \in pending : p.token # moves'[i][1]
             /\ \A v \in Workers : Holding(v)' /\ token[v] = moves'[i][1] => pc'[v] = "record"
      BY <3>1, <3>2, <3>6, <3>7, <3>8, <3>9 DEF MovesAreSpent
    <3>11. \A i, j \in DOMAIN moves' : moves'[i][1] = moves'[j][1] => i = j
      BY <3>1, <3>3, <3>6, <3>9 DEF MovesAreSpent
    <3> QED BY <3>4, <3>10, <3>11 DEF MovesAreSpent
  <2> QED BY <2>1, <2>2, <1>8 DEF Move, Goto
<1>9. ASSUME NEW w \in Workers, Record(w) PROVE MovesAreSpent'
  BY <1>9, <1>1, <1>2, HoldStep DEF Record, disk, record
<1>10. ASSUME NEW w \in Workers, NEW p \in Paths, ReadRow(w, p) PROVE MovesAreSpent'
  BY <1>10, <1>1, <1>2, HoldStep DEF ReadRow, disk, record
<1>11. ASSUME NEW w \in Workers, NEW t \in 1..nextConfirmation, Confirm(w, t) PROVE MovesAreSpent'
  <2>1. /\ token' = [token EXCEPT ![w] = t] /\ pc' = [pc EXCEPT ![w] = "take"]
        /\ UNCHANGED <<confirmation, moves>>
    BY <1>11 DEF Confirm, Goto, record
  <2>2. \A v \in Workers : Holding(v)' => v # w /\ pc'[v] = pc[v] /\ token'[v] = token[v]
    BY <1>1, <2>1 DEF Holding, ThreadsOK
  <2> QED BY <2>1, <2>2 DEF MovesAreSpent, Holding, confirmation
<1>12. ASSUME NewScan PROVE MovesAreSpent'
  BY <1>12 DEF NewScan, MovesAreSpent, Holding, confirmation, thread, disk, record
<1>13. ASSUME NEW p \in Paths, Change(p) PROVE MovesAreSpent'
  BY <1>13 DEF Change, MovesAreSpent, Holding, confirmation, thread, disk, record
<1>14. ASSUME UNCHANGED vars PROVE MovesAreSpent'
  BY <1>14 DEF vars, MovesAreSpent, Holding, confirmation, thread, disk, record
<1> QED BY <1>3, <1>4, <1>5, <1>6, <1>7, <1>8, <1>9, <1>10, <1>11, <1>12, <1>13, <1>14 DEF Next,
    Step

(* Record follows a move of its own token, and every move is followed by   *)
(* one before its request is answered; the path is the dialog's.           *)
LEMMA LogStep ==
  ASSUME TypeOK, SlotIsNewest, TokensAreTaken, RecordsAreMoves, LogFollowsMoves, LogNamesTheDialog,
         [Next]_vars
  PROVE  RecordsAreMoves' /\ LogFollowsMoves' /\ LogNamesTheDialog'
<1> DEFINE Goal == RecordsAreMoves' /\ LogFollowsMoves' /\ LogNamesTheDialog'
<1>1. ThreadsOK /\ moves \in Seq(Nat \X Paths) /\ log \in Seq(Nat \X Paths)
  BY DEF TypeOK, RestOK
<1>2. ASSUME UNCHANGED <<moves, log, dialogs>>,
             \A v \in Workers : (pc'[v] = "record" <=> pc[v] = "record")
                                /\ (pc[v] = "record" => token'[v] = token[v])
      PROVE  Goal
  BY <1>2 DEF RecordsAreMoves, LogFollowsMoves, LogNamesTheDialog
<1> HIDE DEF Goal
<1>3. ASSUME NEW w \in Workers, KeepsHold(w), pc[w] # "record", pc'[w] # "record",
             UNCHANGED <<moves, log, dialogs>>
      PROVE  Goal
  <2>1. \A v \in Workers : (pc'[v] = "record" <=> pc[v] = "record")
                           /\ (pc[v] = "record" => token'[v] = token[v])
    BY <1>3 DEF KeepsHold, Others
  <2> QED BY <1>2, <1>3, <2>1
<1>4. ASSUME NEW w \in Workers, Plan(w) PROVE Goal
  BY <1>4, <1>1, <1>3, HoldStep DEF Plan, Answer, Goto, ThreadsOK, disk, record
<1>5. ASSUME NEW w \in Workers, Issue(w) PROVE Goal
  <2>1. /\ dialogs \in Seq(Paths) /\ dialogs' = Append(dialogs, target[w]) /\ UNCHANGED <<moves, log>>
        /\ pc[w] # "record" /\ pc'[w] = "idle" /\ KeepsHold(w)
    BY <1>5, <1>1, AnswerLetsGo DEF Issue, TypeOK, RestOK
  <2>2. LogNamesTheDialog'
    BY <2>1 DEF LogNamesTheDialog
  <2>3. RecordsAreMoves' /\ LogFollowsMoves'
    BY <2>1 DEF RecordsAreMoves, LogFollowsMoves, KeepsHold, Others
  <2> QED BY <2>2, <2>3 DEF Goal
<1>6. ASSUME NEW w \in Workers, Take(w) PROVE Goal
  BY <1>6, <1>1, <1>2 DEF Take, Answer, Goto, ThreadsOK, disk, record
<1>7. ASSUME NEW w \in Workers, CheckScan(w) PROVE Goal
  BY <1>7, <1>1, <1>3, HoldStep DEF CheckScan, Answer, Goto, ThreadsOK, disk, record
<1>8. ASSUME NEW w \in Workers, Validate(w) PROVE Goal
  BY <1>8, <1>1, <1>3, HoldStep DEF Validate, Answer, Goto, ThreadsOK, disk, record
<1>9. ASSUME NEW w \in Workers, Move(w) PROVE Goal
  <2>1. CASE UNCHANGED moves /\ Answer(w)
    BY <1>9, <1>1, <1>3, <2>1, AnswerLetsGo DEF Move
  <2>2. CASE moves' = Append(moves, <<token[w], resolved[w]>>) /\ pc' = [pc EXCEPT ![w] = "record"]
             /\ UNCHANGED token
    <3>1. /\ Len(moves) \in Nat /\ DOMAIN moves = 1..Len(moves) /\ DOMAIN moves' = 1..(Len(moves) + 1)
          /\ moves'[Len(moves) + 1][1] = token[w] /\ \A i \in DOMAIN moves : moves'[i] = moves[i]
      BY <1>1, <2>2
    <3>2. /\ UNCHANGED <<log, dialogs>> /\ pc'[w] = "record"
          /\ \A v \in Workers : v # w => pc'[v] = pc[v]
      BY <1>9, <1>1, <2>2 DEF Move, ThreadsOK
    <3> DEFINE new == Len(moves) + 1
    <3>3. DOMAIN moves' = DOMAIN moves \cup {new} /\ moves'[new][1] = token[w]
      BY <3>1
    <3> HIDE DEF new
    <3>4. RecordsAreMoves'
      BY <2>2, <3>1, <3>2, <3>3 DEF RecordsAreMoves
    <3>5. LogFollowsMoves'
      <4>1. \A i \in DOMAIN log : \E j \in DOMAIN moves' : moves'[j][1] = log[i][1]
        BY <3>1, <3>3 DEF LogFollowsMoves
      <4>2. ASSUME NEW j \in DOMAIN moves'
            PROVE  \/ \E i \in DOMAIN log : log[i][1] = moves'[j][1]
                   \/ \E v \in Workers : pc'[v] = "record" /\ token[v] = moves'[j][1]
        <5>1. CASE j = new
          BY <5>1, <3>2, <3>3
        <5>2. CASE j \in DOMAIN moves
          BY <5>2, <3>1, <3>2 DEF LogFollowsMoves
        <5> QED BY <5>1, <5>2, <3>3
      <4> QED BY <4>1, <4>2, <2>2, <3>2 DEF LogFollowsMoves
    <3> QED BY <3>2, <3>4, <3>5 DEF Goal, LogNamesTheDialog
  <2> QED BY <2>1, <2>2, <1>9 DEF Move, Goto
<1>10. ASSUME NEW w \in Workers, Record(w) PROVE Goal
  <2>1. /\ pc[w] = "record" /\ log' = Append(log, <<token[w], target[w]>>) /\ UNCHANGED <<moves, dialogs>>
        /\ pc'[w] = "idle" /\ Others(w)
    BY <1>10, <1>1, AnswerLetsGo DEF Record, KeepsHold
  <2>2. /\ Len(log) \in Nat /\ DOMAIN log = 1..Len(log) /\ DOMAIN log' = 1..(Len(log) + 1)
        /\ log'[Len(log) + 1] = <<token[w], target[w]>> /\ \A i \in DOMAIN log : log'[i] = log[i]
    BY <1>1, <2>1
  <2> DEFINE new == Len(log) + 1
  <2>3. DOMAIN log' = DOMAIN log \cup {new} /\ log'[new] = <<token[w], target[w]>>
    BY <2>2
  <2> HIDE DEF new
  <2>4. RecordsAreMoves'
    BY <2>1 DEF RecordsAreMoves, Others
  <2>5. LogFollowsMoves'
    <3>1. \E j \in DOMAIN moves : moves[j][1] = token[w]
      BY <2>1 DEF RecordsAreMoves
    <3>2. \A i \in DOMAIN log' : \E j \in DOMAIN moves : moves[j][1] = log'[i][1]
      BY <3>1, <2>2, <2>3 DEF LogFollowsMoves
    <3>3. ASSUME NEW j \in DOMAIN moves
          PROVE  \/ \E i \in DOMAIN log' : log'[i][1] = moves[j][1]
                 \/ \E v \in Workers : pc'[v] = "record" /\ token'[v] = moves[j][1]
      <4>1. CASE moves[j][1] = token[w]
        BY <4>1, <2>3
      <4>2. CASE moves[j][1] # token[w]
        BY <4>2, <2>1, <2>2, <2>3 DEF LogFollowsMoves, Others
      <4> QED BY <4>1, <4>2
    <3> QED BY <3>2, <3>3, <2>1 DEF LogFollowsMoves
  <2>6. LogNamesTheDialog'
    <3>1. token[w] \in DOMAIN dialogs /\ target[w] = dialogs[token[w]]
      BY <2>1 DEF TokensAreTaken, Holding
    <3> QED BY <3>1, <2>1, <2>2, <2>3 DEF LogNamesTheDialog
  <2> QED BY <2>4, <2>5, <2>6 DEF Goal
<1>11. ASSUME NEW w \in Workers, NEW p \in Paths, ReadRow(w, p) PROVE Goal
  BY <1>11, <1>1, <1>3, HoldStep DEF ReadRow, Answer, Goto, ThreadsOK, disk, record
<1>12. ASSUME NEW w \in Workers, NEW t \in 1..nextConfirmation, Confirm(w, t) PROVE Goal
  BY <1>12, <1>1, <1>2 DEF Confirm, Goto, ThreadsOK, disk, record
<1>13. ASSUME NewScan PROVE Goal
  BY <1>13, <1>2 DEF NewScan, thread, record
<1>14. ASSUME NEW p \in Paths, Change(p) PROVE Goal
  BY <1>14, <1>2 DEF Change, thread, record
<1>15. ASSUME UNCHANGED vars PROVE Goal
  BY <1>15, <1>2 DEF vars, thread, record
<1>16. Goal
  BY <1>4, <1>5, <1>6, <1>7, <1>8, <1>9, <1>10, <1>11, <1>12, <1>13, <1>14, <1>15 DEF Next, Step
<1> QED BY <1>16 DEF Goal

(* What is handed to the platform was just checked.                        *)
LEMMA InsideStep ==
  ASSUME TypeOK, PathsAreChecked, MovesStayInside, [Next]_vars
  PROVE  MovesStayInside'
<1> USE DEF MovesStayInside, thread, record
<1>1. ASSUME NEW w \in Workers, Plan(w) PROVE MovesStayInside'
  BY <1>1 DEF Plan
<1>2. ASSUME NEW w \in Workers, Issue(w) PROVE MovesStayInside'
  BY <1>2 DEF Issue
<1>3. ASSUME NEW w \in Workers, Take(w) PROVE MovesStayInside'
  BY <1>3 DEF Take
<1>4. ASSUME NEW w \in Workers, CheckScan(w) PROVE MovesStayInside'
  BY <1>4 DEF CheckScan
<1>5. ASSUME NEW w \in Workers, Validate(w) PROVE MovesStayInside'
  BY <1>5 DEF Validate
<1>6. ASSUME NEW w \in Workers, Move(w) PROVE MovesStayInside'
  <2>1. resolved[w] \in Inside /\ moves \in Seq(Nat \X Paths)
    BY <1>6 DEF Move, PathsAreChecked, TypeOK, RestOK
  <2>2. CASE moves' = Append(moves, <<token[w], resolved[w]>>)
    BY <2>1, <2>2
  <2> QED BY <2>2, <1>6 DEF Move
<1>7. ASSUME NEW w \in Workers, Record(w) PROVE MovesStayInside'
  BY <1>7 DEF Record
<1>8. ASSUME NEW w \in Workers, NEW p \in Paths, ReadRow(w, p) PROVE MovesStayInside'
  BY <1>8 DEF ReadRow
<1>9. ASSUME NEW w \in Workers, NEW t \in 1..nextConfirmation, Confirm(w, t) PROVE MovesStayInside'
  BY <1>9 DEF Confirm
<1>10. ASSUME NewScan PROVE MovesStayInside'
  BY <1>10 DEF NewScan
<1>11. ASSUME NEW p \in Paths, Change(p) PROVE MovesStayInside'
  BY <1>11 DEF Change
<1>12. ASSUME UNCHANGED vars PROVE MovesStayInside'
  BY <1>12 DEF vars
<1> QED BY <1>1, <1>2, <1>3, <1>4, <1>5, <1>6, <1>7, <1>8, <1>9, <1>10, <1>11, <1>12 DEF Next, Step

-----------------------------------------------------------------------------
(* TrashInv holds in every state the threads reach.                        *)
THEOREM Inductive == Spec => []TrashInv
<1>1. Init => TrashInv
  <2> SUFFICES ASSUME Init PROVE TrashInv
    OBVIOUS
  <2> USE PathAssumption DEF Init
  <2>1. TypeOK /\ PathsAreChecked
    BY DEF TypeOK, ThreadsOK, RestOK, PathsAreChecked, Steps, Pending
  <2>2. SlotIsNewest /\ TokensAreTaken /\ MovesAreSpent
    BY DEF SlotIsNewest, TokensAreTaken, MovesAreSpent, Holding
  <2>3. RecordsAreMoves /\ MovesStayInside /\ LogFollowsMoves /\ LogNamesTheDialog
    BY DEF RecordsAreMoves, MovesStayInside, LogFollowsMoves, LogNamesTheDialog
  <2> QED BY <2>1, <2>2, <2>3 DEF TrashInv
<1>2. TrashInv /\ [Next]_vars => TrashInv'
  BY ThreadsStep, RestStep, PathsStep, SlotStep, TokensStep, MovesStep, LogStep, InsideStep
     DEF TrashInv, TypeOK
<1> QED BY <1>1, <1>2, PTL DEF Spec

(* The threads, the slot and the disk keep their types.                    *)
THEOREM TypeCorrect == Spec => []TypeOK
<1>1. TrashInv => TypeOK
  BY DEF TrashInv
<1> QED BY <1>1, Inductive, PTL

(* No confirmation moves two items, and the only one that can still be     *)
(* given is the newest dialog's.                                           *)
THEOREM MovesAreConfirmedOnce == Spec => []OneMovePerToken
<1>1. TrashInv => OneMovePerToken
  BY DEF TrashInv, OneMovePerToken, MovesAreSpent, SlotIsNewest
<1> QED BY <1>1, Inductive, PTL

(* Nothing outside the scan root is handed to the platform, whatever other *)
(* programs do to the paths.                                               *)
THEOREM MovesAreInside == Spec => []MovesStayInside
<1>1. TrashInv => MovesStayInside
  BY DEF TrashInv
<1> QED BY <1>1, Inductive, PTL

(* Every move is recorded by the time it is answered, and nothing else is. *)
THEOREM LogIsTrue == Spec => []LogFollowsMoves
<1>1. TrashInv => LogFollowsMoves
  BY DEF TrashInv
<1> QED BY <1>1, Inductive, PTL

(* What is recorded is the path the dialog named.                          *)
THEOREM LogNamesWhatWasShown == Spec => []LogNamesTheDialog
<1>1. TrashInv => LogNamesTheDialog
  BY DEF TrashInv
<1> QED BY <1>1, Inductive, PTL
=============================================================================
