-------------------------------- MODULE Undo --------------------------------
(***************************************************************************)
(* The undo of a recoverable deletion: undo_delete_in (commands.rs) over   *)
(* the journal and the rip adapter's undo (crates/adapter-rip), a request  *)
(* thread each.  The state is not locked between the look at the operation *)
(* and its mark, so two requests may undo the same one, and the file       *)
(* system may change under both.                                           *)
(*                                                                         *)
(* No backend offers a deletion any more, but journals hold them.          *)
(***************************************************************************)
EXTENDS Journal

CONSTANTS Requests, MaxUndos  \* threads; bound: undos asked for

VARIABLES
  place,   \* of each item: "buried", "covered" (and something else is at its path), or "back"
  undo,    \* where each request is, with its copy of the operation
  undos,
  unsaid   \* history: items back whose run could not be waited for or read, or was cut off

undoVars == <<place, undo, undos, unsaid>>
allVars  == <<vars, undoVars>>

Asleep == [pc |-> "idle", id |-> 0, item |-> 0]
At(t, pc) == undo[t].pc = pc
Goto(t, pc) == undo' = [undo EXCEPT ![t].pc = pc]
Answer(t) == undo' = [undo EXCEPT ![t] = Asleep]

UndoInit ==
  /\ Init
  /\ place = [item \in 1 .. MaxItems |-> "buried"]
  /\ undo = [t \in Requests |-> Asleep] /\ undos = 0 /\ unsaid = {}

-----------------------------------------------------------------------------
(* The operation is looked up and copied; one that is undone is refused.   *)
AskUndo(t) ==
  /\ At(t, "idle") /\ undos < MaxUndos /\ undos' = undos + 1
  /\ \E i \in DOMAIN entries :
       /\ entries[i].kind = "deleted" /\ ~entries[i].undone
       /\ undo' = [undo EXCEPT ![t] = [pc |-> "asked", id |-> entries[i].id, item |-> entries[i].item]]
  /\ UNCHANGED <<vars, place, unsaid>>

(* undo(): a path that exists again is refused, as are a receipt outside   *)
(* the graveyard and an unusable rip.                                      *)
CheckTarget(t) ==
  /\ At(t, "asked")
  /\ \/ place[undo[t].item] = "buried" /\ Goto(t, "checked")
     \/ Answer(t)
  /\ UNCHANGED <<vars, place, undos, unsaid>>

Restores(item) == place' = [place EXCEPT ![item] = "back"] /\ putBack' = putBack \cup {item}

(* rip restores the item if it is there and its path is free, or fails;    *)
(* and its run is read and waited for, or it is not.                       *)
Unbury(t) ==
  /\ At(t, "checked")
  /\ LET item == undo[t].item IN
       /\ \/ place[item] = "buried" /\ Restores(item)
          \/ UNCHANGED <<place, putBack>>
       /\ \/ Goto(t, "ran") /\ UNCHANGED unsaid
          \/ Answer(t) /\ unsaid' = IF place'[item] = "back" THEN unsaid \cup {item} ELSE unsaid
  /\ UNCHANGED <<memory, file, items, recorded, restarts, undos>>

(* Mutant: the exit status is believed.                                    *)
ObserveStatus(t) ==
  /\ At(t, "ran")
  /\ Goto(t, "restored") \/ Answer(t)
  /\ UNCHANGED <<vars, place, undos, unsaid>>

(* What counts is where the item is now, not what rip said.                *)
Observe(t) ==
  /\ At(t, "ran")
  /\ IF place[undo[t].item] = "back" THEN Goto(t, "restored") ELSE Answer(t)
  /\ UNCHANGED <<vars, place, undos, unsaid>>

Mark(t, outcome) ==
  /\ At(t, "restored")
  /\ MarkUndone(undo[t].id, undo[t].item, outcome)
  /\ Answer(t)
  /\ UNCHANGED <<place, undos, unsaid>>

(* Others: a listed item is taken back with rip itself, or its path used.  *)
OthersRestore(item) ==
  /\ place[item] = "buried" /\ Restores(item) /\ unsaid' = unsaid \cup {item}
  /\ UNCHANGED <<memory, file, items, recorded, restarts, undo, undos>>
OthersCover(item) ==
  /\ place[item] = "buried" /\ place' = [place EXCEPT ![item] = "covered"]
  /\ UNCHANGED <<vars, undo, undos, unsaid>>

(* The requests end with the process.                                      *)
Dies ==
  /\ undo' = [t \in Requests |-> Asleep]
  /\ unsaid' = unsaid \cup {undo[t].item : t \in {u \in Requests : At(u, "ran") \/ At(u, "restored")}}
  /\ UNCHANGED <<place, undos>>

UndoNext ==
  \/ Records /\ restarts' = restarts /\ UNCHANGED undoVars
  \/ Records /\ restarts' # restarts /\ Dies
  \/ Restart /\ Dies
  \/ \E t \in Requests :
       \/ AskUndo(t) \/ CheckTarget(t) \/ Unbury(t) \/ Observe(t)
       \/ \E outcome \in Faults \cup {"ok"} : Mark(t, outcome)
       \/ \E outcome \in CutOff : /\ At(t, "restored")
                                  /\ KilledInside(UndoneEvent(undo[t].id, undo[t].item), outcome)
                                  /\ Dies /\ UNCHANGED items
  \/ \E i \in DOMAIN entries : /\ entries[i].kind = "deleted"
                             /\ (OthersRestore(entries[i].item) \/ OthersCover(entries[i].item))

UndoSpec == UndoInit /\ [][UndoNext]_allVars
-----------------------------------------------------------------------------
(* "if restore completed, returning cancellation would leave the journal   *)
(* claiming the item was still deleted" (adapter-rip): of two undos of one *)
(* deletion, the one that finds the item already back marks it too, so     *)
(* once all requests are answered an item they took back is marked, in     *)
(* this session; unless the run that took it back could not be read or     *)
(* waited for, when the adapter does not look.                             *)
RestoredIsMarked ==
  (\A t \in Requests : At(t, "idle")) =>
    \A i \in DOMAIN entries :
      entries[i].kind = "deleted" /\ place[entries[i].item] = "back" /\ ~entries[i].undone
        => entries[i].item \in unsaid \/ restarts > 0
=============================================================================
