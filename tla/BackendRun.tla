----------------------------- MODULE BackendRun -----------------------------
(***************************************************************************)
(* What an adapter may rely on when it runs a backend as a subprocess:     *)
(* the child runs until it ends or is killed, the caller is told once how, *)
(* and only what was asked for or really happened is what it is told.      *)
(* RunningProcess implements this with four threads and three pipes; the   *)
(* operations of the Mole adapter are built on it (Mole).                  *)
(***************************************************************************)
EXTENDS Naturals

VARIABLES
  child,   \* "running", or how it ended
  cancel,  \* the caller's token is tripped
  unread,  \* something the child wrote was not read
  answer   \* what the caller was told

runVars == <<child, cancel, unread, answer>>

Answers == {"cancelled", "backendFailed", "malformed", "ok", "waitFailed"}

RunInit == child = "running" /\ cancel = FALSE /\ unread \in BOOLEAN /\ answer = "none"

RunCancel == ~cancel /\ cancel' = TRUE /\ UNCHANGED <<child, unread, answer>>

(* By itself, or by whoever gives up on it.                                *)
ChildEnds(how) == child = "running" /\ child' = how /\ UNCHANGED <<cancel, unread, answer>>

(* Output is written and read; after the answer it is only read.           *)
Output ==
  /\ unread' \in (IF answer = "none" THEN BOOLEAN ELSE {FALSE})
  /\ UNCHANGED <<child, cancel, answer>>

(* A user who cancelled is told so, whatever became of the child; a child  *)
(* that was killed is not blamed; and a run is a success when it ended     *)
(* well, and all of it was read.                                           *)
TellsTheTruth(said) ==
  /\ child # "running"
  /\ said = "cancelled" <=> cancel /\ said # "waitFailed"
  /\ said = "backendFailed" => child = "failed"
  /\ said \in {"ok", "malformed"} => child = "exited"
  /\ said = "ok" => ~unread

Tell(said) == answer = "none" /\ TellsTheTruth(said) /\ answer' = said /\ UNCHANGED <<child, cancel, unread>>

RunNext ==
  \/ RunCancel \/ Output
  \/ \E how \in {"exited", "failed", "killed"} : ChildEnds(how)
  \/ \E said \in Answers : Tell(said)

RunSpec == RunInit /\ [][RunNext]_runVars
=============================================================================
