------------------------------ MODULE Approval ------------------------------
(***************************************************************************)
(* What the review protocol promises, with no threads, tokens or clocks:   *)
(* a discovery is offered, an offer may be replaced or withdrawn at any    *)
(* time, and only the offer on the table can be accepted.  An accepted     *)
(* discovery is acted on by one run at a time and can never be accepted    *)
(* again; whatever is on the table once the run is over is another one.    *)
(***************************************************************************)
EXTENDS Naturals

CONSTANT Nothing   \* no discovery

VARIABLES offered, inFlight, spent

Init == offered = Nothing /\ inFlight = Nothing /\ spent = {}

Offer == /\ offered' \notin spent \cup {Nothing}
         /\ UNCHANGED <<inFlight, spent>>

Withdraw == offered' = Nothing /\ UNCHANGED <<inFlight, spent>>

Accept == /\ inFlight = Nothing
          /\ offered \notin spent \cup {Nothing}
          /\ inFlight' = offered
          /\ spent' = spent \cup {offered}
          /\ offered' \in {offered, Nothing}

Settle == /\ inFlight # Nothing
          /\ offered \notin spent
          /\ inFlight' = Nothing
          /\ UNCHANGED <<offered, spent>>

Next == Offer \/ Withdraw \/ Accept \/ Settle

Spec == Init /\ [][Next]_<<offered, inFlight, spent>>
=============================================================================
