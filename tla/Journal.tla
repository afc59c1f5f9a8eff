------------------------------ MODULE Journal ------------------------------
(***************************************************************************)
(* The operation journal of crates/app/src/deletion.rs: every destructive  *)
(* operation gets an id from one counter, is kept in memory, and is        *)
(* appended to one file of JSON lines that the next session reads back.    *)
(*                                                                         *)
(* An append is three writes to the file (the event, the newline, the      *)
(* sync) and each can fail; the process can also be killed between them.   *)
(* What an append leaves is never repaired, so the next one continues on   *)
(* the same line.  The state is locked for a whole record call.            *)
(***************************************************************************)
EXTENDS Integers, Sequences, FiniteSets, FiniteSetsExt

CONSTANTS
  Terminal,    \* what cannot be undone: moves to the Trash, cleanups, uninstalls
  Faults,      \* how an append may fail (see Outcomes)
  MaxItems,    \* bound: operations performed
  MaxRestarts  \* bound: sessions after the first

Outcomes == {"ok", "refused", "torn", "split", "unterminated", "unsynced"}

ASSUME KindAssumption == {"deleted", "undone"} \cap Terminal = {}
ASSUME FaultAssumption == Faults \subseteq Outcomes \ {"ok"}
ASSUME JournalBounds == MaxItems \in Nat /\ MaxRestarts \in Nat

VARIABLES
  nextOperation,  \* the id counter
  entries,        \* the operations in memory, oldest first
  lines, tail,    \* the file: its lines, and what follows the last newline
  items,          \* history: operations performed so far
  recorded,       \* history: events whose append reported success
  putBack,        \* history: deleted items that were restored
  restarts

memory == <<nextOperation, entries>>
file   == <<lines, tail>>
vars   == <<memory, file, items, recorded, putBack, restarts>>

(* An event names its operation by id; item tells apart two operations     *)
(* that were given the same one.  A piece is what one append wrote of it.  *)
Event == [kind : Terminal \cup {"deleted", "undone"}, id : Nat, item : Nat]
Piece == [event : Event, wrote : {"whole", "part", "split"}]
Entry == [kind : Terminal \cup {"deleted"}, id : Nat, item : Nat, undone : BOOLEAN]

-----------------------------------------------------------------------------
(* Reading the file back.                                                  *)

(* A line is one event only when one append wrote it, and wrote all of it; *)
(* any other line is skipped.                                              *)
Parses(line) == Len(line) = 1 /\ line[1].wrote = "whole"

(* Text cut inside a character makes the whole file unreadable.            *)
Readable(ls) == \A i \in DOMAIN ls : \A k \in DOMAIN ls[i] : ls[i][k].wrote # "split"

EventsIn(ls) == IF Readable(ls) THEN {i \in DOMAIN ls : Parses(ls[i])} ELSE {}
EventAt(ls, i) == ls[i][1].event

(* An undone event marks the first deletion before it that has its id.     *)
MarkedUndone(ls, i) ==
  /\ \E j \in EventsIn(ls) :
       i < j /\ EventAt(ls, j).kind = "undone" /\ EventAt(ls, j).id = EventAt(ls, i).id
  /\ ~\E k \in EventsIn(ls) :
       k < i /\ EventAt(ls, k).kind = "deleted" /\ EventAt(ls, k).id = EventAt(ls, i).id

(* The lines that hold an operation, and the n-th of them.                 *)
Operations(ls) == {i \in EventsIn(ls) : EventAt(ls, i).kind # "undone"}
Rank(S, i) == Cardinality({j \in S : j <= i})
Nth(S, n) == CHOOSE i \in S : Rank(S, i) = n

EntryAt(ls, i) ==
  LET event == EventAt(ls, i) IN
  [kind |-> event.kind, id |-> event.id, item |-> event.item,
   undone |-> event.kind = "deleted" /\ MarkedUndone(ls, i)]

load_journal(ls) ==
  [n \in 1 .. Cardinality(Operations(ls)) |-> EntryAt(ls, Nth(Operations(ls), n))]

(* Mutant: only the deletions are looked at.                               *)
LastDeletionId(es) == Max({es[i].id : i \in {j \in DOMAIN es : es[j].kind = "deleted"}} \cup {0})

(* The largest id of any kind.                                             *)
LastId(es) == Max({es[i].id : i \in DOMAIN es} \cup {0})

Init ==
  /\ nextOperation = 0 /\ entries = <<>>
  /\ lines = <<>> /\ tail = <<>>
  /\ items = 0 /\ recorded = {} /\ putBack = {} /\ restarts = 0

-----------------------------------------------------------------------------
(* What an append leaves in the file, and whether it reports success.      *)
append(event, outcome) ==
  LET left(wrote) == tail \o <<[event |-> event, wrote |-> wrote]>>
  IN CASE outcome \in {"ok", "unsynced"} -> lines' = Append(lines, left("whole")) /\ tail' = <<>>
       [] outcome = "unterminated"       -> tail' = left("whole") /\ UNCHANGED lines
       [] outcome = "torn"               -> tail' = left("part") /\ UNCHANGED lines
       [] outcome = "split"              -> tail' = left("split") /\ UNCHANGED lines
       [] outcome = "refused"            -> UNCHANGED file

(* The next operation, and the event that stands for it.                   *)
NewItem == items < MaxItems /\ items' = items + 1
NewEvent(kind) == [kind |-> kind, id |-> nextOperation + 1, item |-> items + 1]
EntryOf(event) == [kind |-> event.kind, id |-> event.id, item |-> event.item, undone |-> FALSE]
Note(event, outcome) == recorded' = IF outcome = "ok" THEN recorded \cup {event} ELSE recorded

(* Mutant: an id is only used up when the append succeeds.                 *)
RecordDeleteReusing(outcome) ==
  /\ NewItem
  /\ LET event == NewEvent("deleted") IN
       /\ append(event, outcome) /\ Note(event, outcome)
       /\ nextOperation' = IF outcome = "ok" THEN event.id ELSE nextOperation
       /\ entries' = IF outcome = "ok" THEN Append(entries, EntryOf(event)) ELSE entries
  /\ UNCHANGED <<putBack, restarts>>

(* A recoverable deletion: it failed unless its receipt was appended.      *)
RecordDelete(outcome) ==
  /\ NewItem
  /\ LET event == NewEvent("deleted") IN
       /\ append(event, outcome) /\ Note(event, outcome)
       /\ nextOperation' = event.id
       /\ entries' = IF outcome = "ok" THEN Append(entries, EntryOf(event)) ELSE entries
  /\ UNCHANGED <<putBack, restarts>>

(* Mutant: a failed append is reported as a success.                       *)
RecordTerminalSilently(kind, outcome) ==
  /\ NewItem
  /\ LET event == NewEvent(kind) IN
       /\ append(event, outcome) /\ recorded' = recorded \cup {event}
       /\ nextOperation' = event.id
       /\ entries' = Append(entries, EntryOf(event))
  /\ UNCHANGED <<putBack, restarts>>

(* record_trash(), record_cleanup(), record_uninstall(): it has already    *)
(* happened, so it is listed either way, and a failed append travels beside*)
(* it (log_error).                                                         *)
RecordTerminal(kind, outcome) ==
  /\ NewItem
  /\ LET event == NewEvent(kind) IN
       /\ append(event, outcome) /\ Note(event, outcome)
       /\ nextOperation' = event.id
       /\ entries' = Append(entries, EntryOf(event))
  /\ UNCHANGED <<putBack, restarts>>

(* mark_undone(): the first deletion of that id is marked, whether or not  *)
(* the append succeeds, and whether or not it was marked before.           *)
UndoneEvent(id, item) == [kind |-> "undone", id |-> id, item |-> item]
Named(id) == {i \in DOMAIN entries : entries[i].kind = "deleted" /\ entries[i].id = id}

MarkUndone(id, item, outcome) ==
  /\ append(UndoneEvent(id, item), outcome) /\ Note(UndoneEvent(id, item), outcome)
  /\ entries' = [i \in DOMAIN entries |->
                   IF i \in Named(id) /\ \A j \in Named(id) : i <= j
                   THEN [entries[i] EXCEPT !.undone = TRUE] ELSE entries[i]]
  /\ UNCHANGED <<nextOperation, items, putBack, restarts>>

(* The process ends, or is killed between two appends, and starts again.   *)
Restart ==
  /\ restarts < MaxRestarts
  /\ restarts' = restarts + 1
  /\ entries' = load_journal(lines \o <<tail>>)
  /\ nextOperation' = LastId(entries')
  /\ UNCHANGED <<file, items, recorded, putBack>>

(* It is killed inside an append: as far as it got is what the file keeps, *)
(* and nobody was told anything.                                           *)
KilledInside(event, outcome) ==
  /\ restarts < MaxRestarts
  /\ restarts' = restarts + 1
  /\ append(event, outcome)
  /\ entries' = load_journal(lines' \o <<tail'>>)
  /\ nextOperation' = LastId(entries')
  /\ UNCHANGED <<recorded, putBack>>

CutOff == Faults \cap {"torn", "split", "unterminated"}

(* The undo of a deletion is a request of its own (Undo).                  *)
Records ==
  \/ \E outcome \in Faults \cup {"ok"} :
       RecordDelete(outcome) \/ \E kind \in Terminal : RecordTerminal(kind, outcome)
  \/ \E outcome \in CutOff, kind \in Terminal \cup {"deleted"} :
       NewItem /\ KilledInside(NewEvent(kind), outcome)

-----------------------------------------------------------------------------
(* "One id space across every kind, so 'operation 4' in the journal names  *)
(* one event rather than four" (deletion.rs:229-230), and a larger id is a *)
(* later operation: through failed appends and restarts, whatever of the   *)
(* file was lost.                                                          *)
IdsInOrder == \A i, j \in DOMAIN entries : i < j => entries[i].id < entries[j].id

(* A deletion shown as undone was undone: the undo of one operation is     *)
(* never read back as the undo of another that was given the same id.      *)
UndoneIsTrue == \A i \in DOMAIN entries : entries[i].undone => entries[i].item \in putBack

Survives(event) ==
  LET next == load_journal(lines \o <<tail>>) IN
  \E i \in DOMAIN next :
    /\ next[i].item = event.item
    /\ IF event.kind = "undone" THEN next[i].undone ELSE next[i].kind = event.kind

(* The file as the next session splits it, and the lines two appends share.*)
AllLines == lines \o <<tail>>
SharedLines == {i \in DOMAIN AllLines : Len(AllLines[i]) > 1}

(* Records the next session does not read back; an undo is not one of them *)
(* when the deletion it undoes is not read back either.                    *)
Lost ==
  {event \in recorded :
     /\ ~Survives(event)
     /\ event.kind = "undone" => Survives([event EXCEPT !.kind = "deleted"])}

(* A failed append costs at most the one record that continues on its line:*)
(* what was reported as recorded before it and after that is read back by  *)
(* every later session, and undone if that is what was recorded.  (A cut   *)
(* inside a character is the exception: the whole file is given up.)       *)
LossIsBounded == Readable(AllLines) => Cardinality(Lost) <= Cardinality(SharedLines)

(* "A recoverable operation is not successful until its undo receipt is    *)
(* durable." (deletion.rs:279)                                             *)
ReceiptsAreDurable == \A event \in recorded : event.kind = "deleted" => Survives(event)
=============================================================================
