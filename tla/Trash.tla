------------------------------- MODULE Trash -------------------------------
(***************************************************************************)
(* Moving a selected item to the Trash: prepare_trash_in and               *)
(* confirm_trash_in of crates/app/src/commands.rs, the pending slot of     *)
(* deletion.rs and the validation of adapter/src/delete.rs.                *)
(*                                                                         *)
(* A request thread locks the scan for one read, then the confirmation     *)
(* state for one call, and touches the file system with nothing locked.    *)
(* Meanwhile a scan may be replaced, and other programs move files about   *)
(* and turn one path into a link to another.                               *)
(***************************************************************************)
EXTENDS Integers, Sequences, FiniteSets

CONSTANTS
  Workers,     \* request threads that may be alive at once
  Paths,       \* the paths that exist or may come to exist
  Inside,      \* those strictly below the scan root and not critical to the system
  NoPath,
  MaxTokens,   \* bound: confirmations issued
  MaxScans,    \* bound: scans completed
  MaxChanges   \* bound: changes other programs make

ASSUME PathAssumption == Inside \subseteq Paths /\ NoPath \notin Paths
ASSUME TrashBounds == MaxTokens \in Nat /\ MaxScans \in Nat /\ MaxChanges \in Nat

VARIABLES
  nextConfirmation, pending,  \* the confirmation slot
  result,                     \* the scan whose rows are on screen
  pc, token, scan, target,    \* the request threads, and what each
  resolved,                   \* found its target to be
  leadsTo,                    \* path -> itself, the path it links to, or NoPath
  changes,
  dialogs,                    \* history: token -> the path its dialog named
  moves, log                  \* history: <<token, path>> moved and recorded

confirmation == <<nextConfirmation, pending>>
thread == <<pc, token, scan, target, resolved>>
disk   == <<leadsTo, changes>>
record == <<dialogs, moves, log>>
vars   == <<confirmation, result, thread, disk, record>>

Init ==
  /\ nextConfirmation = 0 /\ pending = {} /\ result = 1
  /\ pc = [w \in Workers |-> "idle"]
  /\ token = [w \in Workers |-> 0] /\ scan = [w \in Workers |-> 0]
  /\ target = [w \in Workers |-> NoPath] /\ resolved = [w \in Workers |-> NoPath]
  /\ leadsTo = [p \in Paths |-> p] /\ changes = 0
  /\ dialogs = <<>> /\ moves = <<>> /\ log = <<>>

Goto(w, step) == pc' = [pc EXCEPT ![w] = step]
Answer(w) ==
  /\ Goto(w, "idle")
  /\ token' = [token EXCEPT ![w] = 0] /\ scan' = [scan EXCEPT ![w] = 0]
  /\ target' = [target EXCEPT ![w] = NoPath] /\ resolved' = [resolved EXCEPT ![w] = NoPath]

(* Mutant: containment below the scan root is not checked.                 *)
ValidAnywhere(p) == p # NoPath

(* What validate_delete_target accepts: a path that resolves, strictly     *)
(* inside the scan root, outside the system's own locations.               *)
Valid(p) == p \in Inside

-----------------------------------------------------------------------------
(* prepareTrash.                                                           *)

(* The row is read under the scan's lock: its scan must be the one on      *)
(* screen, so the path is one of that scan's.                              *)
ReadRow(w, p) ==
  /\ pc[w] = "idle" /\ nextConfirmation < MaxTokens
  /\ scan' = [scan EXCEPT ![w] = result]
  /\ target' = [target EXCEPT ![w] = p]
  /\ Goto(w, "plan")
  /\ UNCHANGED <<confirmation, result, token, resolved, disk, record>>

(* plan(): the path is resolved, and refused if it no longer qualifies.    *)
Plan(w) ==
  /\ pc[w] = "plan"
  /\ IF Valid(leadsTo[target[w]])
     THEN target' = [target EXCEPT ![w] = leadsTo[@]] /\ Goto(w, "issue") /\ UNCHANGED <<token, scan, resolved>>
     ELSE Answer(w)
  /\ UNCHANGED <<confirmation, result, disk, record>>

(* One slot: the token of any dialog left open is dropped.                 *)
Issue(w) ==
  /\ pc[w] = "issue" /\ nextConfirmation < MaxTokens
  /\ nextConfirmation' = nextConfirmation + 1
  /\ pending' = {[token |-> nextConfirmation', scan |-> scan[w], target |-> target[w]]}
  /\ dialogs' = Append(dialogs, target[w])
  /\ Answer(w)
  /\ UNCHANGED <<result, disk, moves, log>>

-----------------------------------------------------------------------------
(* confirmTrash.                                                           *)
Confirm(w, t) ==
  /\ pc[w] = "idle"
  /\ token' = [token EXCEPT ![w] = t]
  /\ Goto(w, "take")
  /\ UNCHANGED <<confirmation, result, scan, target, resolved, disk, record>>

(* Mutant: the token is read and left in the slot.                         *)
TakeCopy(w) ==
  /\ pc[w] = "take"
  /\ \/ \E p \in pending :
          /\ p.token = token[w]
          /\ scan' = [scan EXCEPT ![w] = p.scan] /\ target' = [target EXCEPT ![w] = p.target]
          /\ Goto(w, "checkScan") /\ UNCHANGED <<token, resolved>>
     \/ (~\E p \in pending : p.token = token[w]) /\ Answer(w)
  /\ UNCHANGED <<confirmation, result, disk, record>>

(* The token is removed, whatever becomes of the request.                  *)
Take(w) ==
  /\ pc[w] = "take"
  /\ \/ \E p \in pending :
          /\ p.token = token[w]
          /\ pending' = pending \ {p}
          /\ scan' = [scan EXCEPT ![w] = p.scan] /\ target' = [target EXCEPT ![w] = p.target]
          /\ Goto(w, "checkScan") /\ UNCHANGED <<token, resolved>>
     \/ (~\E p \in pending : p.token = token[w]) /\ Answer(w) /\ UNCHANGED pending
  /\ UNCHANGED <<nextConfirmation, result, disk, record>>

(* The rows the dialog was opened from must still be on screen.            *)
CheckScan(w) ==
  /\ pc[w] = "checkScan"
  /\ IF result = scan[w] THEN Goto(w, "validate") /\ UNCHANGED <<token, scan, target, resolved>> ELSE Answer(w)
  /\ UNCHANGED <<confirmation, result, disk, record>>

(* move_to_trash(): the path is resolved and checked again, and what it    *)
(* resolves to now is what the platform is asked to move.                  *)
Validate(w) ==
  /\ pc[w] = "validate"
  /\ IF Valid(leadsTo[target[w]])
     THEN /\ resolved' = [resolved EXCEPT ![w] = leadsTo[target[w]]]
          /\ Goto(w, "move") /\ UNCHANGED <<token, scan, target>>
     ELSE Answer(w)
  /\ UNCHANGED <<confirmation, result, disk, record>>

(* What was at p is gone, and so is what any link to p led to.             *)
Gone(p) == [x \in Paths |-> IF p \in {x, leadsTo[x]} THEN NoPath ELSE leadsTo[x]]

(* Mutant: a refused move is recorded like one that happened.              *)
MoveUnreported(w) ==
  /\ pc[w] = "move"
  /\ \/ /\ leadsTo[resolved[w]] # NoPath
        /\ moves' = Append(moves, <<token[w], resolved[w]>>)
        /\ leadsTo' = Gone(resolved[w])
     \/ UNCHANGED <<moves, leadsTo>>
  /\ Goto(w, "record") /\ UNCHANGED <<token, scan, target, resolved>>
  /\ UNCHANGED <<confirmation, result, changes, dialogs, log>>

(* The platform moves what is at the path by now, or declines; what is not *)
(* there cannot be moved.                                                  *)
Move(w) ==
  /\ pc[w] = "move"
  /\ \/ /\ leadsTo[resolved[w]] # NoPath
        /\ moves' = Append(moves, <<token[w], resolved[w]>>)
        /\ leadsTo' = Gone(resolved[w])
        /\ Goto(w, "record") /\ UNCHANGED <<token, scan, target, resolved>>
     \/ Answer(w) /\ UNCHANGED <<moves, leadsTo>>
  /\ UNCHANGED <<confirmation, result, changes, dialogs, log>>

(* record_trash(): the path the token held, not the one that was moved.    *)
Record(w) ==
  /\ pc[w] = "record"
  /\ log' = Append(log, <<token[w], target[w]>>)
  /\ Answer(w)
  /\ UNCHANGED <<confirmation, result, disk, dialogs, moves>>

-----------------------------------------------------------------------------
(* A scan completes; other programs remove, create and relink.             *)
NewScan ==
  /\ result < MaxScans
  /\ result' = result + 1
  /\ UNCHANGED <<confirmation, thread, disk, record>>

Change(p) ==
  /\ changes < MaxChanges
  /\ changes' = changes + 1
  /\ \E q \in {NoPath, p} \cup {x \in Paths : leadsTo[x] = x} :
       leadsTo' = [Gone(p) EXCEPT ![p] = q]
  /\ UNCHANGED <<confirmation, result, thread, record>>

Step(w) == Plan(w) \/ Issue(w) \/ Take(w) \/ CheckScan(w) \/ Validate(w) \/ Move(w) \/ Record(w)

Next ==
  \/ \E w \in Workers : Step(w)
  \/ \E w \in Workers, p \in Paths : ReadRow(w, p)
  \/ \E w \in Workers, t \in 1..nextConfirmation : Confirm(w, t)
  \/ NewScan \/ \E p \in Paths : Change(p)

Spec == Init /\ [][Next]_vars
-----------------------------------------------------------------------------
(* One confirmation moves at most one item, however often and from however *)
(* many requests its token is sent (take_pending); and only the newest     *)
(* dialog's token is taken, for the path it named: "The second confirmation*)
(* would execute whichever the map happened to still hold"                 *)
(* (deletion.rs:48-50) cannot happen.                                      *)
OneMovePerToken ==
  /\ \A i, j \in DOMAIN moves : i # j => moves[i][1] # moves[j][1]
  /\ \A p \in pending : p.token = nextConfirmation /\ p.target = dialogs[nextConfirmation]

(* The path the platform is handed is below the scan root and not critical *)
(* to the system, whatever became of the selected path since it was        *)
(* selected (delete.rs).  What the platform finds under that path by then  *)
(* is its own affair, as trash.rs says.                                    *)
MovesStayInside == \A i \in DOMAIN moves : moves[i][2] \in Inside

(* Every move is recorded by the time its request is answered, and nothing *)
(* else is: the Trash log names as many items as went to the Trash.        *)
LogFollowsMoves ==
  /\ \A i \in DOMAIN log : \E j \in DOMAIN moves : moves[j][1] = log[i][1]
  /\ \A j \in DOMAIN moves :
       \/ \E i \in DOMAIN log : log[i][1] = moves[j][1]
       \/ \E w \in Workers : pc[w] = "record" /\ token[w] = moves[j][1]

(* "Consume a one-time confirmation and move the exact path it names."     *)
(* (commands.rs:736)                                                       *)
MovesWhatWasNamed == \A i \in DOMAIN moves : moves[i][2] = dialogs[moves[i][1]]
=============================================================================
