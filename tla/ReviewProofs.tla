---------------------------- MODULE ReviewProofs ----------------------------
(***************************************************************************)
(* Proofs about Review, for all three kinds of operation, any number of    *)
(* request threads and any bounds.  IndInv is inductive: each lemma below  *)
(* shows that every step keeps one of its conjuncts, from the others.      *)
(***************************************************************************)
EXTENDS Review, TLAPS

(* The absent review is a value of the field that holds it.                *)
LEMMA NoReviewType == NoReview \in Review
BY DEF NoReview, Review

(* A run in the history is a run.                                          *)
LEMMA RunTypes ==
  ASSUME TypeOK, NEW i \in DOMAIN runs
  PROVE  runs[i] \in Run /\ runs[i].token \in Nat
<1>1. runs \in Seq(Run)
  BY DEF TypeOK
<1>2. runs[i] \in Run
  BY <1>1
<1> QED BY <1>2 DEF Run

(* Two live tokens for the one newest review cannot be equal and differ.   *)
LEMMA OneTokenPerReview ==
  ASSUME TypeOK, TokensNameLatest, NEW p \in pending, NEW q \in pending, p.token = q.token
  PROVE  p = q
<1>1. p \in [token : Nat, review : Review] /\ q \in [token : Nat, review : Review]
  BY DEF TypeOK
<1>2. p.review = q.review
  BY DEF TokensNameLatest
<1> QED BY <1>1, <1>2

(* Every step keeps the fields and the threads within their types.         *)
LEMMA TypeStep ==
  ASSUME TypeOK, [Next]_vars
  PROVE  TypeOK'
<1> USE NoReviewType, KindAssumption, WorkerAssumption, BoundAssumption DEF Goto, DropReview,
    AfterRun, Optimizing, Offerable, Fresh, state, threads, outside, history, TypeOK,
    PreviewSteps, ExecutionSteps
<1>1. ASSUME NEW w \in Workers, Discover(w) PROVE TypeOK'
  <2>1. \A empty \in BOOLEAN :
          [id |-> previewId[w], empty |-> empty, version |-> version, seen |-> world, at |-> 0]
              \in Review
    BY DEF Review
  <2>2. held' \in [Workers -> Review]
    BY <2>1, <1>1 DEF Discover
  <2> QED BY <2>2, <1>1 DEF Discover
<1>2. ASSUME NEW w \in Workers, DiscoveryFails(w) PROVE TypeOK'
  BY <1>2 DEF DiscoveryFails
<1>3. ASSUME NEW w \in Workers, Remember(w) PROVE TypeOK'
  <2>1. [held[w] EXCEPT !.at = now] \in Review
    BY DEF Review
  <2>2. held' \in [Workers -> Review]
    BY <1>3 DEF Remember
  <2> QED BY <2>1, <2>2, <1>3 DEF Remember
<1>4. ASSUME NEW w \in Workers, FinishPreview(w) PROVE TypeOK'
  BY <1>4 DEF FinishPreview, NoPreview
<1>5. ASSUME NEW w \in Workers, Take(w) PROVE TypeOK'
  BY <1>5 DEF Take, Review
<1>6. ASSUME NEW w \in Workers, TakeRefused(w) PROVE TypeOK'
  BY <1>6 DEF TakeRefused
<1>7. ASSUME NEW w \in Workers, CheckVersion(w) PROVE TypeOK'
  BY <1>7 DEF CheckVersion
<1>8. ASSUME NEW w \in Workers, ValidateNames(w) PROVE TypeOK'
  BY <1>8 DEF ValidateNames
<1>9. ASSUME NEW w \in Workers, SpawnFails(w) PROVE TypeOK'
  BY <1>9 DEF SpawnFails
<1>10. ASSUME NEW w \in Workers, Spawn(w) PROVE TypeOK'
  <2>1. [token |-> token[w], review |-> held[w], version |-> version, world |-> world] \in Run
    BY DEF Run
  <2>2. runs' \in Seq(Run)
    BY <2>1, <1>10 DEF Spawn
  <2> QED BY <2>2, <1>10 DEF Spawn
<1>11. ASSUME NEW w \in Workers, Reap(w) PROVE TypeOK'
  <2>1. PICK reported \in BOOLEAN : ok' = [ok EXCEPT ![w] = reported]
    BY <1>11 DEF Reap
  <2>2. ok' \in [Workers -> BOOLEAN]
    BY <2>1
  <2> QED BY <2>2, <1>11 DEF Reap
<1>12. ASSUME NEW w \in Workers, Forget(w) PROVE TypeOK'
  BY <1>12 DEF Forget
<1>13. ASSUME NEW w \in Workers, Record(w) PROVE TypeOK'
  <2>1. [token |-> token[w], review |-> held[w].id] \in [token : Nat, review : Nat]
    BY DEF Review
  <2>2. journal' \in Seq([token : Nat, review : Nat])
    BY <2>1, <1>13 DEF Record
  <2> QED BY <2>2, <1>13 DEF Record
<1>14. ASSUME NEW w \in Workers, FinishExecution(w) PROVE TypeOK'
  BY <1>14 DEF FinishExecution
<1>15. ASSUME NEW w \in Workers, StartPreview(w) PROVE TypeOK'
  BY <1>15 DEF StartPreview, NoPreview
<1>16. ASSUME NEW w \in Workers, NEW t \in 1..nextConfirmation, StartExecution(w, t) PROVE TypeOK'
  BY <1>16 DEF StartExecution
<1>17. CASE Prepare
  BY <1>17 DEF Prepare
<1>18. CASE CancelPreview
  BY <1>18 DEF CancelPreview
<1>19. CASE CancelExecution
  BY <1>19 DEF CancelExecution
<1>20. CASE Tick
  BY <1>20 DEF Tick
<1>21. CASE Upgrade
  BY <1>21 DEF Upgrade
<1>22. CASE UNCHANGED vars
  BY <1>22 DEF vars
<1> QED BY <1>1, <1>2, <1>3, <1>4, <1>5, <1>6, <1>7, <1>8, <1>9, <1>10, <1>11, <1>12, <1>13,
    <1>14, <1>15, <1>16, <1>17, <1>18, <1>19, <1>20, <1>21, <1>22 DEF Next, Step

(* Claiming looks at the slot first, and only its holder gives it back.    *)
LEMMA SlotsStep ==
  ASSUME TypeOK, SlotsOwned, PreviewIsNewest, [Next]_vars
  PROVE  SlotsOwned'
<1> USE KindAssumption, WorkerAssumption, BoundAssumption DEF Goto, DropReview, AfterRun,
    Optimizing, state, threads, outside, history, TypeOK, SlotsOwned, PreviewSteps, ExecutionSteps
<1>1. ASSUME NEW w \in Workers, Discover(w) PROVE SlotsOwned'
  BY <1>1 DEF Discover
<1>2. ASSUME NEW w \in Workers, DiscoveryFails(w) PROVE SlotsOwned'
  BY <1>2 DEF DiscoveryFails
<1>3. ASSUME NEW w \in Workers, Remember(w) PROVE SlotsOwned'
  BY <1>3 DEF Remember
<1>4. ASSUME NEW w \in Workers, FinishPreview(w) PROVE SlotsOwned'
  BY <1>4 DEF FinishPreview, PreviewIsNewest, NoPreview
<1>5. ASSUME NEW w \in Workers, Take(w) PROVE SlotsOwned'
  BY <1>5 DEF Take
<1>6. ASSUME NEW w \in Workers, TakeRefused(w) PROVE SlotsOwned'
  BY <1>6 DEF TakeRefused
<1>7. ASSUME NEW w \in Workers, CheckVersion(w) PROVE SlotsOwned'
  BY <1>7 DEF CheckVersion
<1>8. ASSUME NEW w \in Workers, ValidateNames(w) PROVE SlotsOwned'
  BY <1>8 DEF ValidateNames
<1>9. ASSUME NEW w \in Workers, SpawnFails(w) PROVE SlotsOwned'
  BY <1>9 DEF SpawnFails
<1>10. ASSUME NEW w \in Workers, Spawn(w) PROVE SlotsOwned'
  BY <1>10 DEF Spawn
<1>11. ASSUME NEW w \in Workers, Reap(w) PROVE SlotsOwned'
  BY <1>11 DEF Reap
<1>12. ASSUME NEW w \in Workers, Forget(w) PROVE SlotsOwned'
  BY <1>12 DEF Forget
<1>13. ASSUME NEW w \in Workers, Record(w) PROVE SlotsOwned'
  BY <1>13 DEF Record
<1>14. ASSUME NEW w \in Workers, FinishExecution(w) PROVE SlotsOwned'
  BY <1>14 DEF FinishExecution
<1>15. ASSUME NEW w \in Workers, StartPreview(w) PROVE SlotsOwned'
  BY <1>15 DEF StartPreview, NoPreview
<1>16. ASSUME NEW w \in Workers, NEW t \in 1..nextConfirmation, StartExecution(w, t) PROVE
    SlotsOwned'
  BY <1>16 DEF StartExecution
<1>17. CASE Prepare
  BY <1>17 DEF Prepare
<1>18. CASE CancelPreview
  BY <1>18 DEF CancelPreview
<1>19. CASE CancelExecution
  BY <1>19 DEF CancelExecution
<1>20. CASE Tick
  BY <1>20 DEF Tick
<1>21. CASE Upgrade
  BY <1>21 DEF Upgrade
<1>22. CASE UNCHANGED vars
  BY <1>22 DEF vars
<1> QED BY <1>1, <1>2, <1>3, <1>4, <1>5, <1>6, <1>7, <1>8, <1>9, <1>10, <1>11, <1>12, <1>13,
    <1>14, <1>15, <1>16, <1>17, <1>18, <1>19, <1>20, <1>21, <1>22 DEF Next, Step

(* Whatever replaces or drops the newest review clears the tokens with it. *)
LEMMA TokensStep ==
  ASSUME TypeOK, TokensNameLatest, [Next]_vars
  PROVE  TokensNameLatest'
<1> USE KindAssumption, WorkerAssumption, BoundAssumption DEF Goto, DropReview, AfterRun,
    Optimizing, state, threads, outside, history, TypeOK, TokensNameLatest
<1>1. ASSUME NEW w \in Workers, Discover(w) PROVE TokensNameLatest'
  BY <1>1 DEF Discover
<1>2. ASSUME NEW w \in Workers, DiscoveryFails(w) PROVE TokensNameLatest'
  BY <1>2 DEF DiscoveryFails
<1>3. ASSUME NEW w \in Workers, Remember(w) PROVE TokensNameLatest'
  BY <1>3 DEF Remember
<1>4. ASSUME NEW w \in Workers, FinishPreview(w) PROVE TokensNameLatest'
  BY <1>4 DEF FinishPreview
<1>5. ASSUME NEW w \in Workers, Take(w) PROVE TokensNameLatest'
  BY <1>5 DEF Take
<1>6. ASSUME NEW w \in Workers, TakeRefused(w) PROVE TokensNameLatest'
  BY <1>6 DEF TakeRefused
<1>7. ASSUME NEW w \in Workers, CheckVersion(w) PROVE TokensNameLatest'
  BY <1>7 DEF CheckVersion
<1>8. ASSUME NEW w \in Workers, ValidateNames(w) PROVE TokensNameLatest'
  BY <1>8 DEF ValidateNames
<1>9. ASSUME NEW w \in Workers, SpawnFails(w) PROVE TokensNameLatest'
  BY <1>9 DEF SpawnFails
<1>10. ASSUME NEW w \in Workers, Spawn(w) PROVE TokensNameLatest'
  BY <1>10 DEF Spawn
<1>11. ASSUME NEW w \in Workers, Reap(w) PROVE TokensNameLatest'
  BY <1>11 DEF Reap
<1>12. ASSUME NEW w \in Workers, Forget(w) PROVE TokensNameLatest'
  BY <1>12 DEF Forget
<1>13. ASSUME NEW w \in Workers, Record(w) PROVE TokensNameLatest'
  BY <1>13 DEF Record
<1>14. ASSUME NEW w \in Workers, FinishExecution(w) PROVE TokensNameLatest'
  BY <1>14 DEF FinishExecution
<1>15. ASSUME NEW w \in Workers, StartPreview(w) PROVE TokensNameLatest'
  BY <1>15 DEF StartPreview
<1>16. ASSUME NEW w \in Workers, NEW t \in 1..nextConfirmation, StartExecution(w, t) PROVE
    TokensNameLatest'
  BY <1>16 DEF StartExecution
<1>17. CASE Prepare
  BY <1>17 DEF Prepare
<1>18. CASE CancelPreview
  BY <1>18 DEF CancelPreview
<1>19. CASE CancelExecution
  BY <1>19 DEF CancelExecution
<1>20. CASE Tick
  BY <1>20 DEF Tick
<1>21. CASE Upgrade
  BY <1>21 DEF Upgrade
<1>22. CASE UNCHANGED vars
  BY <1>22 DEF vars
<1> QED BY <1>1, <1>2, <1>3, <1>4, <1>5, <1>6, <1>7, <1>8, <1>9, <1>10, <1>11, <1>12, <1>13,
    <1>14, <1>15, <1>16, <1>17, <1>18, <1>19, <1>20, <1>21, <1>22 DEF Next, Step

(* The preview in the slot carries the largest id issued; a review and a spent *)
(* approval come from previews that were remembered, so from smaller ids.  *)
LEMMA NewestStep ==
  ASSUME TypeOK, SlotsOwned, PreviewIsNewest, TokensNameLatest, OffersAreReal, [Next]_vars
  PROVE  PreviewIsNewest'
<1> USE KindAssumption, WorkerAssumption, BoundAssumption DEF Goto, DropReview, AfterRun,
    Optimizing, state, threads, outside, history, TypeOK, SlotsOwned, PreviewIsNewest,
    TokensNameLatest, PreviewSteps, ExecutionSteps
<1>1. ASSUME NEW w \in Workers, Discover(w) PROVE PreviewIsNewest'
  BY <1>1 DEF Discover, PreviewSteps
<1>2. ASSUME NEW w \in Workers, DiscoveryFails(w) PROVE PreviewIsNewest'
  BY <1>2 DEF DiscoveryFails
<1>3. ASSUME NEW w \in Workers, Remember(w) PROVE PreviewIsNewest'
  BY <1>3 DEF Remember
<1>4. ASSUME NEW w \in Workers, FinishPreview(w) PROVE PreviewIsNewest'
  BY <1>4 DEF FinishPreview, NoPreview
<1>5. ASSUME NEW w \in Workers, Take(w) PROVE PreviewIsNewest'
  <2>1. PICK p \in pending : /\ p.token = token[w]
                             /\ held' = [held EXCEPT ![w] = p.review]
                             /\ spent' = spent \cup {p.review.id}
                             /\ latest' \in {latest, NoReview}
    BY <1>5 DEF Take
  <2>2. latest.id \in 1..nextPreview /\ p.review = latest
    BY <2>1 DEF TokensNameLatest, OffersAreReal, Review
  <2>3. latest'.id <= latest.id
    BY <2>1, <2>2 DEF NoReview, Review
  <2>4. spent' \subseteq 1..nextPreview
    BY <2>1, <2>2
  <2>5. \A v \in Workers : v # w => pc'[v] = pc[v] /\ held'[v] = held[v]
    BY <2>1, <1>5 DEF Take
  <2>6. pc'[w] = "check" /\ UNCHANGED <<previewId, activePreview, nextPreview>>
    BY <1>5 DEF Take
  <2>7. ASSUME NEW v \in Workers, pc'[v] \in {"discover", "remember"}
        PROVE  previewId[v] > latest'.id /\ previewId[v] \notin spent'
    <3>1. previewId[v] > latest.id /\ previewId[v] \notin spent
      BY <2>5, <2>6, <2>7
    <3>2. latest.id \in Nat /\ latest'.id \in Nat /\ previewId[v] \in Nat
      BY <2>1, NoReviewType DEF Review
    <3> QED BY <2>1, <2>2, <2>3, <3>1, <3>2
  <2>8. activePreview'.id <= nextPreview' /\ latest'.id <= nextPreview'
    <3>1. latest'.id \in Nat /\ latest.id \in Nat
      BY <2>1, NoReviewType DEF Review
    <3> QED BY <2>2, <2>3, <2>6, <3>1
  <2> QED BY <2>4, <2>5, <2>6, <2>7, <2>8
<1>6. ASSUME NEW w \in Workers, TakeRefused(w) PROVE PreviewIsNewest'
  BY <1>6 DEF TakeRefused
<1>7. ASSUME NEW w \in Workers, CheckVersion(w) PROVE PreviewIsNewest'
  BY <1>7 DEF CheckVersion
<1>8. ASSUME NEW w \in Workers, ValidateNames(w) PROVE PreviewIsNewest'
  BY <1>8 DEF ValidateNames
<1>9. ASSUME NEW w \in Workers, SpawnFails(w) PROVE PreviewIsNewest'
  BY <1>9 DEF SpawnFails
<1>10. ASSUME NEW w \in Workers, Spawn(w) PROVE PreviewIsNewest'
  BY <1>10 DEF Spawn
<1>11. ASSUME NEW w \in Workers, Reap(w) PROVE PreviewIsNewest'
  BY <1>11 DEF Reap
<1>12. ASSUME NEW w \in Workers, Forget(w) PROVE PreviewIsNewest'
  <2>1. latest.id \in Nat /\ NoReview.id = 0
    BY DEF Review, NoReview
  <2>2. latest'.id = 0
    BY <2>1, <1>12 DEF Forget
  <2>3. \A v \in Workers : pc'[v] \in {"discover", "remember"} => previewId[v] > 0
    BY <2>1, <1>12 DEF Forget
  <2>4. UNCHANGED <<activePreview, nextPreview, previewId, spent, held>> /\ pc'[w] \notin
      PreviewSteps
    BY <1>12 DEF Forget
  <2> QED BY <2>2, <2>3, <2>4, <1>12 DEF Forget
<1>13. ASSUME NEW w \in Workers, Record(w) PROVE PreviewIsNewest'
  BY <1>13 DEF Record
<1>14. ASSUME NEW w \in Workers, FinishExecution(w) PROVE PreviewIsNewest'
  BY <1>14 DEF FinishExecution
<1>15. ASSUME NEW w \in Workers, StartPreview(w) PROVE PreviewIsNewest'
  <2>1. latest.id \in Nat /\ NoReview.id = 0
    BY DEF Review, NoReview
  <2>2. latest' = latest \/ latest'.id = 0
    BY <2>1, <1>15 DEF StartPreview
  <2>3. \A v \in Workers : v # w => pc'[v] = pc[v] /\ pc[v] \notin PreviewSteps
    BY <1>15 DEF StartPreview, NoPreview
  <2>4. /\ nextPreview' = nextPreview + 1 /\ activePreview'.id = nextPreview'
        /\ previewId'[w] = nextPreview' /\ pc'[w] = "discover"
        /\ UNCHANGED <<spent, held>>
    BY <1>15 DEF StartPreview
  <2>5. nextPreview \in Nat
    OBVIOUS
  <2>6. spent' \subseteq 1..nextPreview' /\ nextPreview' \notin spent
    BY <2>4, <2>5
  <2>7. latest'.id < nextPreview'
    BY <2>1, <2>2, <2>4, <2>5
  <2>8. ASSUME NEW v \in Workers, pc'[v] \in PreviewSteps
        PROVE  v = w
    BY <2>3, <2>8
  <2>9. activePreview'.id <= nextPreview' /\ latest'.id <= nextPreview'
    BY <2>1, <2>2, <2>4, <2>5, <2>7
  <2>10. previewId'[w] > latest'.id /\ previewId'[w] \notin spent'
    BY <2>1, <2>2, <2>4, <2>5, <2>6, <2>7
  <2> QED BY <2>4, <2>6, <2>8, <2>9, <2>10
<1>16. ASSUME NEW w \in Workers, NEW t \in 1..nextConfirmation, StartExecution(w, t) PROVE
    PreviewIsNewest'
  BY <1>16 DEF StartExecution
<1>17. CASE Prepare
  BY <1>17 DEF Prepare
<1>18. CASE CancelPreview
  BY <1>18 DEF CancelPreview
<1>19. CASE CancelExecution
  BY <1>19 DEF CancelExecution
<1>20. CASE Tick
  BY <1>20 DEF Tick
<1>21. CASE Upgrade
  BY <1>21 DEF Upgrade
<1>22. CASE UNCHANGED vars
  BY <1>22 DEF vars
<1> QED BY <1>1, <1>2, <1>3, <1>4, <1>5, <1>6, <1>7, <1>8, <1>9, <1>10, <1>11, <1>12, <1>13,
    <1>14, <1>15, <1>16, <1>17, <1>18, <1>19, <1>20, <1>21, <1>22 DEF Next, Step

(* A request holds a review from take to finish_execution and no longer.   *)
LEMMA HeldStep ==
  ASSUME TypeOK, TokensNameLatest, HeldWhenNeeded, [Next]_vars
  PROVE  HeldWhenNeeded'
<1> USE KindAssumption, WorkerAssumption, BoundAssumption DEF Goto, DropReview, AfterRun,
    Optimizing, state, threads, outside, history, TypeOK, HeldWhenNeeded, Approved, Holding
<1>1. ASSUME NEW w \in Workers, Discover(w) PROVE HeldWhenNeeded'
  BY <1>1 DEF Discover
<1>2. ASSUME NEW w \in Workers, DiscoveryFails(w) PROVE HeldWhenNeeded'
  BY <1>2 DEF DiscoveryFails
<1>3. ASSUME NEW w \in Workers, Remember(w) PROVE HeldWhenNeeded'
  BY <1>3 DEF Remember
<1>4. ASSUME NEW w \in Workers, FinishPreview(w) PROVE HeldWhenNeeded'
  BY <1>4 DEF FinishPreview
<1>5. ASSUME NEW w \in Workers, Take(w) PROVE HeldWhenNeeded'
  BY <1>5 DEF Take
<1>6. ASSUME NEW w \in Workers, TakeRefused(w) PROVE HeldWhenNeeded'
  BY <1>6 DEF TakeRefused
<1>7. ASSUME NEW w \in Workers, CheckVersion(w) PROVE HeldWhenNeeded'
  BY <1>7 DEF CheckVersion
<1>8. ASSUME NEW w \in Workers, ValidateNames(w) PROVE HeldWhenNeeded'
  BY <1>8 DEF ValidateNames
<1>9. ASSUME NEW w \in Workers, SpawnFails(w) PROVE HeldWhenNeeded'
  BY <1>9 DEF SpawnFails
<1>10. ASSUME NEW w \in Workers, Spawn(w) PROVE HeldWhenNeeded'
  BY <1>10 DEF Spawn
<1>11. ASSUME NEW w \in Workers, Reap(w) PROVE HeldWhenNeeded'
  BY <1>11 DEF Reap
<1>12. ASSUME NEW w \in Workers, Forget(w) PROVE HeldWhenNeeded'
  BY <1>12 DEF Forget
<1>13. ASSUME NEW w \in Workers, Record(w) PROVE HeldWhenNeeded'
  BY <1>13 DEF Record
<1>14. ASSUME NEW w \in Workers, FinishExecution(w) PROVE HeldWhenNeeded'
  BY <1>14 DEF FinishExecution
<1>15. ASSUME NEW w \in Workers, StartPreview(w) PROVE HeldWhenNeeded'
  BY <1>15 DEF StartPreview
<1>16. ASSUME NEW w \in Workers, NEW t \in 1..nextConfirmation, StartExecution(w, t) PROVE
    HeldWhenNeeded'
  BY <1>16 DEF StartExecution
<1>17. CASE Prepare
  BY <1>17 DEF Prepare
<1>18. CASE CancelPreview
  BY <1>18 DEF CancelPreview
<1>19. CASE CancelExecution
  BY <1>19 DEF CancelExecution
<1>20. CASE Tick
  BY <1>20 DEF Tick
<1>21. CASE Upgrade
  BY <1>21 DEF Upgrade
<1>22. CASE UNCHANGED vars
  BY <1>22 DEF vars
<1> QED BY <1>1, <1>2, <1>3, <1>4, <1>5, <1>6, <1>7, <1>8, <1>9, <1>10, <1>11, <1>12, <1>13,
    <1>14, <1>15, <1>16, <1>17, <1>18, <1>19, <1>20, <1>21, <1>22 DEF Next, Step

(* A remembered review carries the id of its preview, which is never zero. *)
LEMMA OffersStep ==
  ASSUME TypeOK, PreviewIsNewest, OffersAreReal, [Next]_vars
  PROVE  OffersAreReal'
<1> USE KindAssumption, WorkerAssumption, BoundAssumption DEF Goto, DropReview, AfterRun,
    Optimizing, state, threads, outside, history, TypeOK, OffersAreReal
<1>1. ASSUME NEW w \in Workers, Discover(w) PROVE OffersAreReal'
  BY <1>1 DEF Discover
<1>2. ASSUME NEW w \in Workers, DiscoveryFails(w) PROVE OffersAreReal'
  BY <1>2 DEF DiscoveryFails
<1>3. ASSUME NEW w \in Workers, Remember(w) PROVE OffersAreReal'
  <2>1. latest'.id = previewId[w]
    BY <1>3 DEF Remember, PreviewIsNewest, Review
  <2>2. latest.id \in Nat /\ previewId[w] \in Nat
    BY DEF Review
  <2>3. previewId[w] > latest.id
    BY <1>3 DEF Remember, PreviewIsNewest
  <2>4. previewId[w] > 0
    BY <2>2, <2>3
  <2> QED BY <2>1, <2>4, <1>3 DEF Remember, NoReview
<1>4. ASSUME NEW w \in Workers, FinishPreview(w) PROVE OffersAreReal'
  BY <1>4 DEF FinishPreview
<1>5. ASSUME NEW w \in Workers, Take(w) PROVE OffersAreReal'
  BY <1>5 DEF Take
<1>6. ASSUME NEW w \in Workers, TakeRefused(w) PROVE OffersAreReal'
  BY <1>6 DEF TakeRefused
<1>7. ASSUME NEW w \in Workers, CheckVersion(w) PROVE OffersAreReal'
  BY <1>7 DEF CheckVersion
<1>8. ASSUME NEW w \in Workers, ValidateNames(w) PROVE OffersAreReal'
  BY <1>8 DEF ValidateNames
<1>9. ASSUME NEW w \in Workers, SpawnFails(w) PROVE OffersAreReal'
  BY <1>9 DEF SpawnFails
<1>10. ASSUME NEW w \in Workers, Spawn(w) PROVE OffersAreReal'
  BY <1>10 DEF Spawn
<1>11. ASSUME NEW w \in Workers, Reap(w) PROVE OffersAreReal'
  BY <1>11 DEF Reap
<1>12. ASSUME NEW w \in Workers, Forget(w) PROVE OffersAreReal'
  BY <1>12 DEF Forget
<1>13. ASSUME NEW w \in Workers, Record(w) PROVE OffersAreReal'
  BY <1>13 DEF Record
<1>14. ASSUME NEW w \in Workers, FinishExecution(w) PROVE OffersAreReal'
  BY <1>14 DEF FinishExecution
<1>15. ASSUME NEW w \in Workers, StartPreview(w) PROVE OffersAreReal'
  BY <1>15 DEF StartPreview
<1>16. ASSUME NEW w \in Workers, NEW t \in 1..nextConfirmation, StartExecution(w, t) PROVE
    OffersAreReal'
  BY <1>16 DEF StartExecution
<1>17. CASE Prepare
  BY <1>17 DEF Prepare
<1>18. CASE CancelPreview
  BY <1>18 DEF CancelPreview
<1>19. CASE CancelExecution
  BY <1>19 DEF CancelExecution
<1>20. CASE Tick
  BY <1>20 DEF Tick
<1>21. CASE Upgrade
  BY <1>21 DEF Upgrade
<1>22. CASE UNCHANGED vars
  BY <1>22 DEF vars
<1> QED BY <1>1, <1>2, <1>3, <1>4, <1>5, <1>6, <1>7, <1>8, <1>9, <1>10, <1>11, <1>12, <1>13,
    <1>14, <1>15, <1>16, <1>17, <1>18, <1>19, <1>20, <1>21, <1>22 DEF Next, Step

(* A spent review stays on the table only while its own run is under way: the *)
(* run forgets it before it gives the slot back.                           *)
LEMMA UnspentStep ==
  ASSUME TypeOK, SlotsOwned, PreviewIsNewest, OffersAreReal, TokensNameLatest, LatestUnspent,
      [Next]_vars
  PROVE  LatestUnspent'
<1> USE KindAssumption, WorkerAssumption, BoundAssumption DEF Goto, DropReview, AfterRun,
    Optimizing, state, threads, outside, history, TypeOK, SlotsOwned, LatestUnspent, Holding,
    Approved, PreviewSteps, ExecutionSteps
<1>1. ASSUME NEW w \in Workers, Discover(w) PROVE LatestUnspent'
  BY <1>1 DEF Discover
<1>2. ASSUME NEW w \in Workers, DiscoveryFails(w) PROVE LatestUnspent'
  BY <1>2 DEF DiscoveryFails
<1>3. ASSUME NEW w \in Workers, Remember(w) PROVE LatestUnspent'
  BY <1>3 DEF Remember, PreviewIsNewest
<1>4. ASSUME NEW w \in Workers, FinishPreview(w) PROVE LatestUnspent'
  BY <1>4 DEF FinishPreview
<1>5. ASSUME NEW w \in Workers, Take(w) PROVE LatestUnspent'
  BY <1>5 DEF Take, TokensNameLatest, OffersAreReal, PreviewIsNewest, NoReview
<1>6. ASSUME NEW w \in Workers, TakeRefused(w) PROVE LatestUnspent'
  BY <1>6 DEF TakeRefused
<1>7. ASSUME NEW w \in Workers, CheckVersion(w) PROVE LatestUnspent'
  BY <1>7 DEF CheckVersion
<1>8. ASSUME NEW w \in Workers, ValidateNames(w) PROVE LatestUnspent'
  BY <1>8 DEF ValidateNames
<1>9. ASSUME NEW w \in Workers, SpawnFails(w) PROVE LatestUnspent'
  BY <1>9 DEF SpawnFails
<1>10. ASSUME NEW w \in Workers, Spawn(w) PROVE LatestUnspent'
  BY <1>10 DEF Spawn
<1>11. ASSUME NEW w \in Workers, Reap(w) PROVE LatestUnspent'
  BY <1>11 DEF Reap
<1>12. ASSUME NEW w \in Workers, Forget(w) PROVE LatestUnspent'
  BY <1>12 DEF Forget, NoReview, PreviewIsNewest
<1>13. ASSUME NEW w \in Workers, Record(w) PROVE LatestUnspent'
  BY <1>13 DEF Record
<1>14. ASSUME NEW w \in Workers, FinishExecution(w) PROVE LatestUnspent'
  BY <1>14 DEF FinishExecution
<1>15. ASSUME NEW w \in Workers, StartPreview(w) PROVE LatestUnspent'
  <2>1. NoReview.id \notin spent
    BY DEF PreviewIsNewest, NoReview
  <2> QED BY <2>1, <1>15 DEF StartPreview
<1>16. ASSUME NEW w \in Workers, NEW t \in 1..nextConfirmation, StartExecution(w, t) PROVE
    LatestUnspent'
  BY <1>16 DEF StartExecution
<1>17. CASE Prepare
  BY <1>17 DEF Prepare
<1>18. CASE CancelPreview
  BY <1>18 DEF CancelPreview
<1>19. CASE CancelExecution
  BY <1>19 DEF CancelExecution
<1>20. CASE Tick
  BY <1>20 DEF Tick
<1>21. CASE Upgrade
  BY <1>21 DEF Upgrade
<1>22. CASE UNCHANGED vars
  BY <1>22 DEF vars
<1> QED BY <1>1, <1>2, <1>3, <1>4, <1>5, <1>6, <1>7, <1>8, <1>9, <1>10, <1>11, <1>12, <1>13,
    <1>14, <1>15, <1>16, <1>17, <1>18, <1>19, <1>20, <1>21, <1>22 DEF Next, Step

(* Taking a token removes the only copy of it; the next one issued is larger. *)
LEMMA OneTimeStep ==
  ASSUME TypeOK, SlotsOwned, TokensNameLatest, HeldWhenNeeded, LatestUnspent, TokensAreOneTime,
      [Next]_vars
  PROVE  TokensAreOneTime'
<1> USE KindAssumption, WorkerAssumption, BoundAssumption DEF Goto, DropReview, AfterRun,
    Optimizing, state, threads, outside, history, TypeOK, TokensAreOneTime, Approved
<1>1. ASSUME NEW w \in Workers, Discover(w) PROVE TokensAreOneTime'
  BY <1>1 DEF Discover
<1>2. ASSUME NEW w \in Workers, DiscoveryFails(w) PROVE TokensAreOneTime'
  BY <1>2 DEF DiscoveryFails
<1>3. ASSUME NEW w \in Workers, Remember(w) PROVE TokensAreOneTime'
  BY <1>3 DEF Remember
<1>4. ASSUME NEW w \in Workers, FinishPreview(w) PROVE TokensAreOneTime'
  BY <1>4 DEF FinishPreview
<1>5. ASSUME NEW w \in Workers, Take(w) PROVE TokensAreOneTime'
  <2>1. PICK p \in pending : /\ p.token = token[w]
                             /\ held' = [held EXCEPT ![w] = p.review]
                             /\ spent' = spent \cup {p.review.id}
                             /\ pending' \in {{}, pending \ {p}}
    BY <1>5 DEF Take
  <2>2. p.review = latest /\ \A q \in pending : q.token = token[w] => q = p
    BY <2>1, OneTokenPerReview DEF TokensNameLatest
  <2>3. latest.id \notin spent
    BY <1>5 DEF Take, SlotsOwned, LatestUnspent, Holding, ExecutionSteps
  <2>4. pending' \subseteq pending /\ \A q \in pending' : q.token # token[w]
    BY <2>1, <2>2
  <2>5. \A i \in DOMAIN runs : runs[i].token # token[w] /\ runs[i].review.id # latest.id
    BY <2>1, <2>3
  <2>6. held'[w] = latest
    BY <2>1, <2>2
  <2>7. \A v \in Workers : pc'[v] \in Approved => v = w
    BY <1>5 DEF Take, SlotsOwned, ExecutionSteps
  <2>8. UNCHANGED <<nextConfirmation, token, runs>> /\ spent \subseteq spent'
    BY <2>1, <1>5 DEF Take
  <2> QED BY <2>4, <2>5, <2>6, <2>7, <2>8
<1>6. ASSUME NEW w \in Workers, TakeRefused(w) PROVE TokensAreOneTime'
  BY <1>6 DEF TakeRefused
<1>7. ASSUME NEW w \in Workers, CheckVersion(w) PROVE TokensAreOneTime'
  BY <1>7 DEF CheckVersion
<1>8. ASSUME NEW w \in Workers, ValidateNames(w) PROVE TokensAreOneTime'
  BY <1>8 DEF ValidateNames
<1>9. ASSUME NEW w \in Workers, SpawnFails(w) PROVE TokensAreOneTime'
  BY <1>9 DEF SpawnFails
<1>10. ASSUME NEW w \in Workers, Spawn(w) PROVE TokensAreOneTime'
  <2>1. \A v \in Workers : pc'[v] \notin Approved
    BY <1>10 DEF Spawn, SlotsOwned, ExecutionSteps
  <2>2. \A p \in pending : p.token # token[w]
    BY <1>10 DEF Spawn
  <2>3. token[w] <= nextConfirmation /\ held[w].id \in spent
    BY <1>10 DEF Spawn, HeldWhenNeeded, Holding
  <2>4. UNCHANGED <<pending, token, nextConfirmation, spent>>
    BY <1>10 DEF Spawn
  <2>5. \A i \in DOMAIN runs' :
          \/ i \in DOMAIN runs /\ runs'[i] = runs[i]
          \/ runs'[i].token = token[w] /\ runs'[i].review = held[w]
    BY <1>10 DEF Spawn
  <2> QED BY <2>1, <2>2, <2>3, <2>4, <2>5
<1>11. ASSUME NEW w \in Workers, Reap(w) PROVE TokensAreOneTime'
  BY <1>11 DEF Reap
<1>12. ASSUME NEW w \in Workers, Forget(w) PROVE TokensAreOneTime'
  BY <1>12 DEF Forget
<1>13. ASSUME NEW w \in Workers, Record(w) PROVE TokensAreOneTime'
  BY <1>13 DEF Record
<1>14. ASSUME NEW w \in Workers, FinishExecution(w) PROVE TokensAreOneTime'
  BY <1>14 DEF FinishExecution
<1>15. ASSUME NEW w \in Workers, StartPreview(w) PROVE TokensAreOneTime'
  BY <1>15 DEF StartPreview
<1>16. ASSUME NEW w \in Workers, NEW t \in 1..nextConfirmation, StartExecution(w, t) PROVE
    TokensAreOneTime'
  BY <1>16 DEF StartExecution
<1>17. CASE Prepare
  <2>1. /\ nextConfirmation' = nextConfirmation + 1
        /\ pending' = {[token |-> nextConfirmation', review |-> latest]}
        /\ UNCHANGED <<pc, token, held, runs, spent>>
    BY <1>17 DEF Prepare
  <2>2. /\ \A v \in Workers : token[v] \in Nat /\ token[v] < nextConfirmation'
        /\ \A i \in DOMAIN runs : runs[i].token < nextConfirmation'
    <3>1. \A i \in DOMAIN runs : runs[i].token \in Nat
      BY RunTypes
    <3> QED BY <2>1, <3>1
  <2>3. \A p \in pending' : p.token = nextConfirmation'
    BY <2>1
  <2>4. nextConfirmation \in Nat /\ nextConfirmation' \in Nat
    BY <2>1
  <2>5. \A i \in DOMAIN runs : runs[i].token \in Nat
    BY RunTypes
  <2> QED BY <2>1, <2>2, <2>3, <2>4, <2>5
<1>18. CASE CancelPreview
  BY <1>18 DEF CancelPreview
<1>19. CASE CancelExecution
  BY <1>19 DEF CancelExecution
<1>20. CASE Tick
  BY <1>20 DEF Tick
<1>21. CASE Upgrade
  BY <1>21 DEF Upgrade
<1>22. CASE UNCHANGED vars
  BY <1>22 DEF vars
<1> QED BY <1>1, <1>2, <1>3, <1>4, <1>5, <1>6, <1>7, <1>8, <1>9, <1>10, <1>11, <1>12, <1>13,
    <1>14, <1>15, <1>16, <1>17, <1>18, <1>19, <1>20, <1>21, <1>22 DEF Next, Step

(* A process is only started with a token and a review no earlier run used. *)
LEMMA OneRunStep ==
  ASSUME TypeOK, TokensAreOneTime, OneRunPerReview, [Next]_vars
  PROVE  OneRunPerReview'
<1> USE KindAssumption, WorkerAssumption, BoundAssumption DEF Goto, DropReview, AfterRun,
    Optimizing, state, threads, outside, history, TypeOK, OneRunPerReview
<1>1. ASSUME NEW w \in Workers, Discover(w) PROVE OneRunPerReview'
  BY <1>1 DEF Discover
<1>2. ASSUME NEW w \in Workers, DiscoveryFails(w) PROVE OneRunPerReview'
  BY <1>2 DEF DiscoveryFails
<1>3. ASSUME NEW w \in Workers, Remember(w) PROVE OneRunPerReview'
  BY <1>3 DEF Remember
<1>4. ASSUME NEW w \in Workers, FinishPreview(w) PROVE OneRunPerReview'
  BY <1>4 DEF FinishPreview
<1>5. ASSUME NEW w \in Workers, Take(w) PROVE OneRunPerReview'
  BY <1>5 DEF Take
<1>6. ASSUME NEW w \in Workers, TakeRefused(w) PROVE OneRunPerReview'
  BY <1>6 DEF TakeRefused
<1>7. ASSUME NEW w \in Workers, CheckVersion(w) PROVE OneRunPerReview'
  BY <1>7 DEF CheckVersion
<1>8. ASSUME NEW w \in Workers, ValidateNames(w) PROVE OneRunPerReview'
  BY <1>8 DEF ValidateNames
<1>9. ASSUME NEW w \in Workers, SpawnFails(w) PROVE OneRunPerReview'
  BY <1>9 DEF SpawnFails
<1>10. ASSUME NEW w \in Workers, Spawn(w) PROVE OneRunPerReview'
  <2> DEFINE r == [token |-> token[w], review |-> held[w], version |-> version, world |-> world]
  <2>1. runs \in Seq(Run) /\ runs' = Append(runs, r)
    BY <1>10 DEF Spawn
  <2>2. /\ DOMAIN runs' = DOMAIN runs \cup {Len(runs) + 1}
        /\ runs'[Len(runs) + 1] = r
        /\ \A i \in DOMAIN runs : runs'[i] = runs[i]
    BY <2>1
  <2>3. \A i \in DOMAIN runs : runs[i].token # r.token /\ runs[i].review.id # r.review.id
    BY <1>10 DEF Spawn, TokensAreOneTime, Approved
  <2> QED BY <2>2, <2>3
<1>11. ASSUME NEW w \in Workers, Reap(w) PROVE OneRunPerReview'
  BY <1>11 DEF Reap
<1>12. ASSUME NEW w \in Workers, Forget(w) PROVE OneRunPerReview'
  BY <1>12 DEF Forget
<1>13. ASSUME NEW w \in Workers, Record(w) PROVE OneRunPerReview'
  BY <1>13 DEF Record
<1>14. ASSUME NEW w \in Workers, FinishExecution(w) PROVE OneRunPerReview'
  BY <1>14 DEF FinishExecution
<1>15. ASSUME NEW w \in Workers, StartPreview(w) PROVE OneRunPerReview'
  BY <1>15 DEF StartPreview
<1>16. ASSUME NEW w \in Workers, NEW t \in 1..nextConfirmation, StartExecution(w, t) PROVE
    OneRunPerReview'
  BY <1>16 DEF StartExecution
<1>17. CASE Prepare
  BY <1>17 DEF Prepare
<1>18. CASE CancelPreview
  BY <1>18 DEF CancelPreview
<1>19. CASE CancelExecution
  BY <1>19 DEF CancelExecution
<1>20. CASE Tick
  BY <1>20 DEF Tick
<1>21. CASE Upgrade
  BY <1>21 DEF Upgrade
<1>22. CASE UNCHANGED vars
  BY <1>22 DEF vars
<1> QED BY <1>1, <1>2, <1>3, <1>4, <1>5, <1>6, <1>7, <1>8, <1>9, <1>10, <1>11, <1>12, <1>13,
    <1>14, <1>15, <1>16, <1>17, <1>18, <1>19, <1>20, <1>21, <1>22 DEF Next, Step

-----------------------------------------------------------------------------
(* The protocol starts in IndInv.                                          *)
LEMMA InitIndInv == Init => IndInv
<1> SUFFICES ASSUME Init PROVE IndInv
  OBVIOUS
<1> USE KindAssumption, WorkerAssumption, BoundAssumption DEF Init
<1>1. TypeOK
  BY NoReviewType DEF TypeOK, NoPreview
<1>2. SlotsOwned /\ TokensNameLatest
  BY DEF SlotsOwned, TokensNameLatest, PreviewSteps, ExecutionSteps, NoPreview
<1>3. PreviewIsNewest /\ HeldWhenNeeded /\ OffersAreReal
  BY DEF PreviewIsNewest, HeldWhenNeeded, OffersAreReal, NoPreview, NoReview, PreviewSteps, Holding, Approved
<1>4. LatestUnspent /\ TokensAreOneTime /\ OneRunPerReview
  BY DEF LatestUnspent, TokensAreOneTime, OneRunPerReview, Approved
<1> QED BY <1>1, <1>2, <1>3, <1>4 DEF IndInv

(* The lemmas above, together.                                             *)
LEMMA NextIndInv == IndInv /\ [Next]_vars => IndInv'
<1> SUFFICES ASSUME IndInv, [Next]_vars PROVE IndInv'
  OBVIOUS
<1> USE DEF IndInv
<1>1. TypeOK' /\ SlotsOwned' /\ TokensNameLatest'
  BY TypeStep, SlotsStep, TokensStep
<1>2. PreviewIsNewest' /\ HeldWhenNeeded' /\ OffersAreReal'
  BY NewestStep, HeldStep, OffersStep
<1>3. LatestUnspent' /\ TokensAreOneTime' /\ OneRunPerReview'
  BY UnspentStep, OneTimeStep, OneRunStep
<1> QED BY <1>1, <1>2, <1>3

(* IndInv holds in every state the protocol reaches.                       *)
THEOREM Inductive == Spec => []IndInv
<1> QED BY InitIndInv, NextIndInv, PTL DEF Spec

(* The fields and the threads keep their types.                            *)
THEOREM TypeCorrect == Spec => []TypeOK
<1>1. IndInv => TypeOK
  BY DEF IndInv
<1> QED BY <1>1, Inductive, PTL

(* Backend runs never overlap, and no request frees a slot it does not     *)
(* hold, however many requests are under way.                              *)
THEOREM SlotsAreExclusive == Spec => []SlotsOwned
<1>1. IndInv => SlotsOwned
  BY DEF IndInv
<1> QED BY <1>1, Inductive, PTL

(* A live token always stands for the newest review.                       *)
THEOREM TokensAreBound == Spec => []TokensNameLatest
<1>1. IndInv => TokensNameLatest
  BY DEF IndInv
<1> QED BY <1>1, Inductive, PTL

(* No token and no review ever starts the backend twice.                   *)
THEOREM RunsAreApprovedOnce == Spec => []OneRunPerReview
<1>1. IndInv => OneRunPerReview
  BY DEF IndInv
<1> QED BY <1>1, Inductive, PTL

(* Every step is a step of Approval or leaves it where it is: Remember     *)
(* offers, Take accepts, Forget and a new optimization preview withdraw,   *)
(* FinishExecution settles.                                                *)
LEMMA PromiseStep ==
  ASSUME IndInv, [Next]_vars
  PROVE  [Promise!Next]_<<latest.id, ActingOn, spent>>
<1> DEFINE Goal == [Promise!Next]_<<latest.id, ActingOn, spent>>
<1> USE WorkerAssumption DEF IndInv, TypeOK, Goto, state, threads, outside, history
<1>1. ASSUME NEW w \in Workers, Discover(w) PROVE Goal
  <2>1. ActingOn' = ActingOn
    BY <1>1 DEF Discover, ActingOn, SlotsOwned, PreviewSteps, ExecutionSteps
  <2> QED BY <2>1, <1>1 DEF Discover
<1>2. ASSUME NEW w \in Workers, DiscoveryFails(w) PROVE Goal
  BY <1>2 DEF DiscoveryFails, ActingOn
<1>3. ASSUME NEW w \in Workers, Remember(w) PROVE Goal
  <2>1. latest'.id = previewId[w] /\ previewId[w] \notin spent /\ previewId[w] # 0
    BY <1>3 DEF Remember, PreviewIsNewest, Review
  <2>2. ActingOn' = ActingOn
    BY <1>3 DEF Remember, ActingOn, SlotsOwned, PreviewSteps, ExecutionSteps
  <2>3. Promise!Offer
    BY <2>1, <2>2, <1>3 DEF Remember, Promise!Offer
  <2> QED BY <2>3 DEF Promise!Next
<1>4. ASSUME NEW w \in Workers, FinishPreview(w) PROVE Goal
  BY <1>4 DEF FinishPreview, ActingOn
<1>5. ASSUME NEW w \in Workers, Take(w) PROVE Goal
  <2>1. PICK p \in pending : /\ held' = [held EXCEPT ![w] = p.review]
                             /\ spent' = spent \cup {p.review.id}
                             /\ latest' \in {latest, NoReview}
    BY <1>5 DEF Take, DropReview
  <2>2. p.review = latest /\ latest.id # 0
    BY <2>1 DEF TokensNameLatest, OffersAreReal
  <2>3. activeExecution = w /\ activeExecution' = w /\ w # NoWorker
    BY <1>5 DEF Take, SlotsOwned, ExecutionSteps
  <2>4. latest.id \notin spent
    BY <2>3, <1>5 DEF Take, LatestUnspent, Holding, Approved
  <2>5. ActingOn = 0 /\ ActingOn' = latest.id
    BY <2>1, <2>2, <2>3, <1>5 DEF Take, ActingOn, HeldWhenNeeded, NoReview
  <2>6. latest'.id \in {latest.id, 0} /\ spent' = spent \cup {latest.id}
    BY <2>1, <2>2 DEF NoReview
  <2>7. Promise!Accept
    BY <2>2, <2>4, <2>5, <2>6 DEF Promise!Accept
  <2> QED BY <2>7 DEF Promise!Next
<1>6. ASSUME NEW w \in Workers, TakeRefused(w) PROVE Goal
  BY <1>6 DEF TakeRefused, ActingOn
<1>7. ASSUME NEW w \in Workers, CheckVersion(w) PROVE Goal
  BY <1>7 DEF CheckVersion, ActingOn
<1>8. ASSUME NEW w \in Workers, ValidateNames(w) PROVE Goal
  BY <1>8 DEF ValidateNames, ActingOn
<1>9. ASSUME NEW w \in Workers, SpawnFails(w) PROVE Goal
  BY <1>9 DEF SpawnFails, ActingOn
<1>10. ASSUME NEW w \in Workers, Spawn(w) PROVE Goal
  BY <1>10 DEF Spawn, ActingOn
<1>11. ASSUME NEW w \in Workers, Reap(w) PROVE Goal
  BY <1>11 DEF Reap, ActingOn
<1>12. ASSUME NEW w \in Workers, Forget(w) PROVE Goal
  <2>1. latest'.id = 0 /\ UNCHANGED spent
    BY <1>12 DEF Forget, DropReview, NoReview
  <2>2. ActingOn' = ActingOn
    BY <1>12 DEF Forget, ActingOn
  <2>3. Promise!Withdraw
    BY <2>1, <2>2 DEF Promise!Withdraw
  <2> QED BY <2>3 DEF Promise!Next
<1>13. ASSUME NEW w \in Workers, Record(w) PROVE Goal
  BY <1>13 DEF Record, ActingOn
<1>14. ASSUME NEW w \in Workers, FinishExecution(w) PROVE Goal
  <2>1. activeExecution = w /\ activeExecution' = NoWorker /\ UNCHANGED <<latest, spent>>
    BY <1>14 DEF FinishExecution, SlotsOwned, ExecutionSteps
  <2>2. latest.id \notin spent
    BY <2>1, <1>14 DEF FinishExecution, LatestUnspent, Holding, Approved
  <2>3. ActingOn' = 0
    BY <2>1 DEF ActingOn
  <2>4. CASE ActingOn = 0
    BY <2>1, <2>3, <2>4
  <2>5. CASE ActingOn # 0
    BY <2>1, <2>2, <2>3, <2>5 DEF Promise!Settle, Promise!Next
  <2> QED BY <2>4, <2>5
<1>15. ASSUME NEW w \in Workers, StartPreview(w) PROVE Goal
  <2>1. UNCHANGED <<ActingOn, spent>> /\ latest'.id \in {latest.id, 0}
    BY <1>15 DEF StartPreview, DropReview, NoReview, ActingOn
  <2> QED BY <2>1 DEF Promise!Withdraw, Promise!Next
<1>16. ASSUME NEW w \in Workers, NEW t \in 1..nextConfirmation, StartExecution(w, t) PROVE Goal
  <2>1. ActingOn = 0 /\ ActingOn' = 0
    BY <1>16 DEF StartExecution, ActingOn, HeldWhenNeeded, NoReview
  <2> QED BY <2>1, <1>16 DEF StartExecution
<1>17. CASE Prepare
  BY <1>17 DEF Prepare, ActingOn
<1>18. CASE CancelPreview
  BY <1>18 DEF CancelPreview, ActingOn
<1>19. CASE CancelExecution
  BY <1>19 DEF CancelExecution, ActingOn
<1>20. CASE Tick
  BY <1>20 DEF Tick, ActingOn
<1>21. CASE Upgrade
  BY <1>21 DEF Upgrade, ActingOn
<1>22. CASE UNCHANGED vars
  BY <1>22 DEF vars, ActingOn
<1> QED BY <1>1, <1>2, <1>3, <1>4, <1>5, <1>6, <1>7, <1>8, <1>9, <1>10, <1>11, <1>12, <1>13,
    <1>14, <1>15, <1>16, <1>17, <1>18, <1>19, <1>20, <1>21, <1>22 DEF Next, Step

(* The protocol implements Approval: what a run acts on was on the table   *)
(* when it was accepted, and is never accepted again.                      *)
THEOREM PromiseKept == Spec => KeepsPromise
<1>1. Init => Promise!Init
  BY DEF Init, Promise!Init, ActingOn, NoReview
<1>2. IndInv /\ [Next]_vars => [Promise!Next]_<<latest.id, ActingOn, spent>>
  BY PromiseStep
<1> QED BY <1>1, <1>2, Inductive, PTL DEF Spec, KeepsPromise, Promise!Spec

-----------------------------------------------------------------------------
(* The journal and the runs, for JournalFollowsRuns.                       *)

(* A run whose end is still to be recorded, or to turn out unrecordable.   *)
Unrecorded(w) ==
  \/ pc[w] \in {"running", "record"}
  \/ pc[w] = "forget" /\ ok[w]

(* Each entry has a run of its own, at increasing positions.               *)
Matches(at) ==
  /\ at \in [DOMAIN journal -> DOMAIN runs]
  /\ \A i, j \in DOMAIN journal : i < j => at[i] < at[j]
  /\ \A i \in DOMAIN journal :
       journal[i] = [token |-> runs[at[i]].token, review |-> runs[at[i]].review.id]

(* Nothing was reported before the process ended.                          *)
ReportedLate ==
  \A w \in Workers : pc[w] \notin {"forget", "record", "endRun"} => ~ok[w]

(* The run still to be recorded is the last one, and no entry stands for   *)
(* it; an operation that reports every end is behind by that run alone.    *)
LastUnrecorded ==
  \A w \in Workers : Unrecorded(w) =>
    /\ Len(runs) > 0
    /\ token[w] = runs[Len(runs)].token /\ held[w].id = runs[Len(runs)].review.id

EntriesMatch ==
  \E at : Matches(at) /\ \A w \in Workers : Unrecorded(w) =>
    \A i \in DOMAIN journal : at[i] # Len(runs)

NoneMissing ==
  kind = "cleanup" =>
    /\ (\A w \in Workers : ~Unrecorded(w)) => Len(journal) = Len(runs)
    /\ (\E w \in Workers : Unrecorded(w)) => Len(journal) + 1 = Len(runs)

JournalKeepsUp == LastUnrecorded /\ EntriesMatch /\ NoneMissing

(* A step that starts, ends and records no run.                            *)
LEMMA QuietStep ==
  ASSUME JournalKeepsUp, UNCHANGED <<kind, journal, runs>>,
         \A w \in Workers : Unrecorded(w)' <=> Unrecorded(w),
         \A w \in Workers : Unrecorded(w) => token'[w] = token[w] /\ held'[w].id = held[w].id
  PROVE  JournalKeepsUp'
<1>1. PICK at : Matches(at) /\ \A w \in Workers : Unrecorded(w) =>
                  \A i \in DOMAIN journal : at[i] # Len(runs)
  BY DEF JournalKeepsUp, EntriesMatch
<1>2. Matches(at)'
  BY <1>1 DEF Matches
<1>3. EntriesMatch'
  BY <1>1, <1>2 DEF EntriesMatch
<1>4. LastUnrecorded' /\ NoneMissing'
  BY DEF JournalKeepsUp, LastUnrecorded, NoneMissing
<1> QED BY <1>3, <1>4 DEF JournalKeepsUp

(* What a run reported is only looked at once its process ended.           *)
LEMMA ReportedStep ==
  ASSUME TypeOK, ReportedLate, [Next]_vars
  PROVE  ReportedLate'
<1> USE DEF TypeOK, ReportedLate, Goto, AfterRun, Optimizing, threads
<1>1. ASSUME NEW w \in Workers, Step(w) PROVE ReportedLate'
  <2>1. CASE Discover(w) \/ DiscoveryFails(w) \/ Remember(w) \/ FinishPreview(w)
    BY <2>1 DEF Discover, DiscoveryFails, Remember, FinishPreview
  <2>2. CASE Take(w) \/ TakeRefused(w) \/ CheckVersion(w)
    BY <2>2 DEF Take, TakeRefused, CheckVersion
  <2>3. CASE ValidateNames(w) \/ SpawnFails(w) \/ Spawn(w)
    BY <2>3 DEF ValidateNames, SpawnFails, Spawn
  <2>4. CASE Reap(w)
    BY <2>4 DEF Reap
  <2>5. CASE Forget(w) \/ Record(w) \/ FinishExecution(w)
    BY <2>5 DEF Forget, Record, FinishExecution
  <2> QED BY <1>1, <2>1, <2>2, <2>3, <2>4, <2>5 DEF Step
<1>2. ASSUME NEW w \in Workers, StartPreview(w) PROVE ReportedLate'
  BY <1>2 DEF StartPreview
<1>3. ASSUME NEW w \in Workers, NEW t \in 1..nextConfirmation, StartExecution(w, t) PROVE ReportedLate'
  BY <1>3 DEF StartExecution
<1>4. CASE Prepare \/ CancelPreview \/ CancelExecution \/ Tick \/ Upgrade
  BY <1>4 DEF Prepare, CancelPreview, CancelExecution, Tick, Upgrade
<1>5. CASE UNCHANGED vars
  BY <1>5 DEF vars
<1> QED BY <1>1, <1>2, <1>3, <1>4, <1>5 DEF Next

(* Spawn starts the last run, Reap and Forget keep it the last one, and    *)
(* Record gives it the next entry.                                         *)
LEMMA JournalStep ==
  ASSUME TypeOK, SlotsOwned, ReportedLate, JournalKeepsUp, [Next]_vars
  PROVE  JournalKeepsUp'
<1> USE DEF TypeOK, Goto, AfterRun, Optimizing, threads
<1>1. ASSUME NEW w \in Workers, Step(w) PROVE JournalKeepsUp'
  <2>1. CASE Discover(w)
    BY <2>1, QuietStep DEF Discover, Unrecorded, state, outside, history
  <2>2. CASE DiscoveryFails(w)
    BY <2>2, QuietStep DEF DiscoveryFails, Unrecorded, state, outside, history
  <2>3. CASE Remember(w)
    BY <2>3, QuietStep DEF Remember, Unrecorded, outside, history
  <2>4. CASE FinishPreview(w)
    BY <2>4, QuietStep DEF FinishPreview, Unrecorded, outside, history
  <2>5. CASE Take(w)
    BY <2>5, QuietStep DEF Take, Unrecorded, outside
  <2>6. CASE TakeRefused(w)
    BY <2>6, QuietStep DEF TakeRefused, Unrecorded, outside, history
  <2>7. CASE CheckVersion(w)
    BY <2>7, QuietStep DEF CheckVersion, Unrecorded, ReportedLate, outside, history
  <2>8. CASE ValidateNames(w)
    BY <2>8, QuietStep DEF ValidateNames, Unrecorded, ReportedLate, outside, history
  <2>9. CASE SpawnFails(w)
    BY <2>9, QuietStep DEF SpawnFails, Unrecorded, ReportedLate, outside, history
  <2>10. CASE Spawn(w)
    <3> DEFINE r == [token |-> token[w], review |-> held[w], version |-> version, world |-> world]
    <3>1. /\ runs \in Seq(Run) /\ runs' = Append(runs, r)
          /\ UNCHANGED <<journal, kind, token, held>>
      BY <2>10 DEF Spawn, outside
    <3>2. /\ Len(runs) \in Nat /\ Len(runs') = Len(runs) + 1 /\ runs'[Len(runs')] = r
          /\ DOMAIN runs = 1..Len(runs) /\ DOMAIN runs' = 1..Len(runs')
          /\ \A i \in DOMAIN runs : runs'[i] = runs[i]
      BY <3>1
    <3>3. \A v \in Workers : ~Unrecorded(v)
      BY <2>10 DEF Spawn, SlotsOwned, ExecutionSteps, Unrecorded
    <3>4. \A v \in Workers : Unrecorded(v)' <=> v = w
      BY <2>10, <3>3 DEF Spawn, Unrecorded
    <3>5. PICK at : Matches(at)
      BY DEF JournalKeepsUp, EntriesMatch
    <3>6. Matches(at)' /\ \A i \in DOMAIN journal' : at[i] # Len(runs')
      BY <3>1, <3>2, <3>5 DEF Matches
    <3>7. LastUnrecorded'
      BY <3>1, <3>2, <3>4 DEF LastUnrecorded
    <3>8. EntriesMatch'
      BY <3>6 DEF EntriesMatch
    <3>9. NoneMissing'
      BY <3>1, <3>2, <3>3, <3>4 DEF JournalKeepsUp, NoneMissing
    <3> QED BY <3>7, <3>8, <3>9 DEF JournalKeepsUp
  <2>11. CASE Reap(w)
    <3>1. UNCHANGED <<kind, journal, runs, token, held>> /\ Unrecorded(w)
      BY <2>11 DEF Reap, Unrecorded, outside, history
    <3>2. \A v \in Workers : Unrecorded(v) => v = w
      BY <2>11 DEF Reap, SlotsOwned, ExecutionSteps, Unrecorded
    <3>3. \A v \in Workers : Unrecorded(v)' => Unrecorded(v)
      BY <2>11 DEF Reap, Unrecorded
    <3>4. kind = "cleanup" => Unrecorded(w)'
      BY <2>11 DEF Reap, Unrecorded
    <3>5. PICK at : Matches(at) /\ \A v \in Workers : Unrecorded(v) =>
                      \A i \in DOMAIN journal : at[i] # Len(runs)
      BY DEF JournalKeepsUp, EntriesMatch
    <3>6. Matches(at)'
      BY <3>1, <3>5 DEF Matches
    <3>7. LastUnrecorded'
      BY <3>1, <3>3 DEF JournalKeepsUp, LastUnrecorded
    <3>8. EntriesMatch'
      BY <3>1, <3>3, <3>5, <3>6 DEF EntriesMatch
    <3>9. NoneMissing'
      BY <3>1, <3>3, <3>4 DEF JournalKeepsUp, NoneMissing
    <3> QED BY <3>7, <3>8, <3>9 DEF JournalKeepsUp
  <2>12. CASE Forget(w)
    BY <2>12, QuietStep DEF Forget, Unrecorded, outside, history
  <2>13. CASE Record(w)
    <3> DEFINE e == [token |-> token[w], review |-> held[w].id]
    <3>1. /\ journal' = Append(journal, e) /\ UNCHANGED <<kind, runs>>
          /\ Unrecorded(w) /\ ~Unrecorded(w)'
      BY <2>13 DEF Record, Unrecorded, outside, history
    <3>2. /\ Len(journal) \in Nat /\ Len(journal') = Len(journal) + 1
          /\ DOMAIN journal = 1..Len(journal) /\ DOMAIN journal' = 1..Len(journal')
          /\ journal'[Len(journal')] = e /\ \A i \in DOMAIN journal : journal'[i] = journal[i]
      <4>1. journal \in Seq([token : Nat, review : Nat]) /\ journal' = Append(journal, e)
        BY <3>1 DEF TypeOK
      <4>2. token[w] \in Nat /\ held[w] \in Review
        BY DEF TypeOK
      <4>3. e \in [token : Nat, review : Nat]
        BY <4>2 DEF Review
      <4> HIDE DEF e
      <4>4. ASSUME NEW S, journal \in Seq(S), e \in S
            PROVE  /\ Len(journal) \in Nat /\ Len(journal') = Len(journal) + 1
                   /\ DOMAIN journal = 1..Len(journal) /\ DOMAIN journal' = 1..Len(journal')
                   /\ journal'[Len(journal')] = e /\ \A i \in DOMAIN journal : journal'[i] = journal[i]
        BY <4>1, <4>4
      <4> QED BY <4>1, <4>3, <4>4
    <3>3. \A v \in Workers : ~Unrecorded(v)'
      BY <2>13 DEF Record, SlotsOwned, ExecutionSteps, Unrecorded
    <3>4. PICK at : Matches(at) /\ \A i \in DOMAIN journal : at[i] # Len(runs)
      BY <3>1 DEF JournalKeepsUp, EntriesMatch
    <3>5. /\ Len(runs) \in Nat /\ DOMAIN runs = 1..Len(runs) /\ Len(runs) > 0
          /\ e = [token |-> runs[Len(runs)].token, review |-> runs[Len(runs)].review.id]
      BY <3>1 DEF JournalKeepsUp, LastUnrecorded
    <3>6. \A i \in DOMAIN journal : at[i] \in DOMAIN runs /\ at[i] < Len(runs)
      BY <3>4, <3>5 DEF Matches
    <3>7. PICK next : next = [i \in DOMAIN journal' |-> IF i = Len(journal') THEN Len(runs) ELSE at[i]]
      OBVIOUS
    <3> HIDE DEF TypeOK
    <3>8. /\ \A i \in DOMAIN journal : next[i] = at[i] /\ i < Len(journal')
          /\ next[Len(journal')] = Len(runs)
          /\ DOMAIN journal' = DOMAIN journal \cup {Len(journal')}
      BY <3>2, <3>7
    <3>9. next \in [DOMAIN journal' -> DOMAIN runs]
      <4>1. ASSUME NEW i \in DOMAIN journal' PROVE next[i] \in DOMAIN runs
        <5>1. CASE i = Len(journal')
          BY <5>1, <3>5, <3>8
        <5>2. CASE i # Len(journal')
          BY <5>2, <3>6, <3>8
        <5> QED BY <5>1, <5>2
      <4> QED BY <4>1, <3>7
    <3>10. \A i, j \in DOMAIN journal' : i < j => next[i] < next[j]
      <4> SUFFICES ASSUME NEW i \in DOMAIN journal', NEW j \in DOMAIN journal', i < j
                   PROVE  next[i] < next[j]
        OBVIOUS
      <4>1. i \in DOMAIN journal
        BY <3>2
      <4>2. CASE j = Len(journal')
        BY <4>1, <4>2, <3>6, <3>8
      <4>3. CASE j # Len(journal')
        <5>1. j \in DOMAIN journal
          BY <4>3, <3>8
        <5>2. at[i] < at[j]
          BY <4>1, <5>1, <3>4 DEF Matches
        <5> QED BY <4>1, <5>1, <5>2, <3>8
      <4> QED BY <4>2, <4>3
    <3>11. \A i \in DOMAIN journal' :
            journal'[i] = [token |-> runs[next[i]].token, review |-> runs[next[i]].review.id]
      <4>1. \A i \in DOMAIN journal :
              journal'[i] = [token |-> runs[next[i]].token, review |-> runs[next[i]].review.id]
        BY <3>2, <3>4, <3>8 DEF Matches
      <4> QED BY <4>1, <3>2, <3>5, <3>8
    <3>12. Matches(next)'
      BY <3>1, <3>9, <3>10, <3>11 DEF Matches
    <3>13. EntriesMatch'
      BY <3>3, <3>12 DEF EntriesMatch
    <3>14. LastUnrecorded' /\ NoneMissing'
      BY <3>1, <3>2, <3>3 DEF JournalKeepsUp, LastUnrecorded, NoneMissing
    <3> QED BY <3>13, <3>14 DEF JournalKeepsUp
  <2>14. CASE FinishExecution(w)
    BY <2>14, QuietStep DEF FinishExecution, Unrecorded, outside, history
  <2> QED BY <1>1, <2>1, <2>2, <2>3, <2>4, <2>5, <2>6, <2>7, <2>8, <2>9, <2>10, <2>11, <2>12,
        <2>13, <2>14 DEF Step
<1>2. ASSUME NEW w \in Workers, StartPreview(w) PROVE JournalKeepsUp'
  BY <1>2, QuietStep DEF StartPreview, Unrecorded, outside, history
<1>3. ASSUME NEW w \in Workers, NEW t \in 1..nextConfirmation, StartExecution(w, t)
      PROVE  JournalKeepsUp'
  BY <1>3, QuietStep DEF StartExecution, Unrecorded, outside, history
<1>4. CASE Prepare \/ CancelPreview \/ CancelExecution
  BY <1>4, QuietStep DEF Prepare, CancelPreview, CancelExecution, Unrecorded, outside, history
<1>5. CASE Tick \/ Upgrade
  BY <1>5, QuietStep DEF Tick, Upgrade, Unrecorded, history
<1>6. CASE UNCHANGED vars
  BY <1>6, QuietStep DEF vars, Unrecorded, outside, history
<1> QED BY <1>1, <1>2, <1>3, <1>4, <1>5, <1>6 DEF Next

(* The journal holds only what ran, once and in order, and no cleanup is   *)
(* missing from it when its slot is given back.                            *)
THEOREM JournalIsTrue == Spec => []JournalFollowsRuns
<1>1. Init => ReportedLate /\ JournalKeepsUp
  <2> SUFFICES ASSUME Init PROVE ReportedLate /\ JournalKeepsUp
    OBVIOUS
  <2>1. ReportedLate /\ \A w \in Workers : ~Unrecorded(w)
    BY DEF Init, ReportedLate, Unrecorded
  <2>2. Matches([i \in DOMAIN journal |-> i])
    BY DEF Init, Matches
  <2>3. Len(journal) = Len(runs)
    BY DEF Init
  <2> QED BY <2>1, <2>2, <2>3 DEF JournalKeepsUp, LastUnrecorded, EntriesMatch, NoneMissing
<1>2. IndInv /\ ReportedLate /\ JournalKeepsUp /\ [Next]_vars => (ReportedLate /\ JournalKeepsUp)'
  BY ReportedStep, JournalStep DEF IndInv
<1>3. IndInv /\ JournalKeepsUp => JournalFollowsRuns
  <2> SUFFICES ASSUME IndInv, JournalKeepsUp PROVE JournalFollowsRuns
    OBVIOUS
  <2>1. \E at \in [DOMAIN journal -> DOMAIN runs] : Matches(at)
    BY DEF JournalKeepsUp, EntriesMatch, Matches
  <2>2. activeExecution = NoWorker => \A w \in Workers : ~Unrecorded(w)
    BY WorkerAssumption DEF IndInv, SlotsOwned, ExecutionSteps, Unrecorded
  <2> QED BY <2>1, <2>2 DEF JournalKeepsUp, NoneMissing, JournalFollowsRuns, Matches
<1> QED BY <1>1, <1>2, <1>3, Inductive, PTL DEF Spec
=============================================================================
