--------------------------- MODULE ServiceClient ---------------------------
(***************************************************************************)
(* The app's end of the service: NativeServiceClient.swift over the helper *)
(* of NativeService, joined by two pipes.  A request is entered in a table *)
(* under its id and its line is written; three queues of the system take   *)
(* it out again and resume its caller: the one that reads replies, the one *)
(* that is told how the helper ended, and the caller's own when its write  *)
(* fails.  Resuming twice is a fatal error of the Swift runtime, resuming  *)
(* never leaves the window as it is for good.                              *)
(*                                                                         *)
(* Closing the app closes the input, and nothing more is asked or answered.*)
(***************************************************************************)
EXTENDS NativeService

VARIABLES
  input,    \* lines the helper has not read
  output,   \* replies the app has not read (events resume nobody)
  caller,   \* where each request is: "none", "entered", "asked", "refused"
  pending,  \* requests in the table
  resumed,  \* history: how often each was resumed
  closed,   \* the end of the output was read
  noticed   \* the end of the helper was handled

client == <<input, output, caller, pending, resumed, closed, noticed>>
whole  == <<all, client>>

AppIsOpen == main \in {"reading", "killed"}

ClientInit ==
  /\ ServiceInit
  /\ input = <<>> /\ output = <<>>
  /\ caller = [r \in Requests |-> "none"] /\ pending = {}
  /\ resumed = [r \in Requests |-> 0] /\ closed = FALSE /\ noticed = FALSE

Resume(rs) == resumed' = [r \in Requests |-> IF r \in rs THEN resumed[r] + 1 ELSE resumed[r]]

-----------------------------------------------------------------------------
(* requestData(): entered before it is written, so that no reply is early. *)
Enter(r) ==
  /\ AppIsOpen /\ caller[r] = "none"
  /\ caller' = [caller EXCEPT ![r] = "entered"]
  /\ pending' = pending \cup {r}
  /\ UNCHANGED <<all, input, output, resumed, closed, noticed>>

(* The write fails when there is no helper.                                *)
Write(r) ==
  /\ AppIsOpen /\ caller[r] = "entered"
  /\ IF Alive THEN input' = Append(input, r) /\ caller' = [caller EXCEPT ![r] = "asked"]
              ELSE caller' = [caller EXCEPT ![r] = "refused"] /\ UNCHANGED input
  /\ UNCHANGED <<all, output, pending, resumed, closed, noticed>>

(* Mutant: the caller is resumed, but its entry stays.                     *)
RemovePendingKept(r) ==
  /\ pending' = pending
  /\ Resume({r} \cap pending)

(* Whoever takes the entry out resumes the caller, and nobody else does.   *)
RemovePending(r) ==
  /\ pending' = pending \ {r}
  /\ Resume({r} \cap pending)

GiveUp(r) ==
  /\ AppIsOpen /\ caller[r] = "refused"
  /\ caller' = [caller EXCEPT ![r] = "asked"]
  /\ RemovePending(r)
  /\ UNCHANGED <<all, input, output, closed, noticed>>

(* A line of the output.                                                   *)
Receive ==
  /\ AppIsOpen /\ output # <<>>
  /\ output' = Tail(output)
  /\ RemovePending(Head(output))
  /\ UNCHANGED <<all, input, caller, closed, noticed>>

(* failPending(): whoever waits by now is told that the service is gone.   *)
FailPending == pending' = {} /\ Resume(pending)

(* The output has ended, after its last reply.                             *)
OutputEnds ==
  /\ main = "killed" /\ output = <<>> /\ ~closed
  /\ closed' = TRUE
  /\ FailPending
  /\ UNCHANGED <<all, input, output, caller, noticed>>

(* The helper has ended; replies may still be in the pipe.                 *)
Terminated ==
  /\ main = "killed" /\ ~noticed
  /\ noticed' = TRUE
  /\ FailPending
  /\ UNCHANGED <<all, input, output, caller, closed>>

ClientStep == Receive \/ OutputEnds \/ Terminated \/ \E r \in Requests : Write(r) \/ GiveUp(r)

-----------------------------------------------------------------------------
(* The helper's ends of the pipes.                                         *)
ReadLine ==
  /\ input # <<>> /\ Read(Head(input))
  /\ input' = Tail(input)
  /\ UNCHANGED <<output, caller, pending, resumed, closed, noticed>>

(* A step of one of its threads, none of which is left when it has ended;  *)
(* the last of a request writes the reply.                                 *)
Steps(thread) ==
  /\ Alive /\ thread
  /\ output' = output \o SetToSeq(replied' \ replied)
  /\ UNCHANGED <<input, caller, pending, resumed, closed, noticed>>

HelperStep ==
  \/ \E r \in Requests : Steps(RequestThread(r)) \/ Steps(EndOperation(r)) \/ Steps(EndProbe(r))
  \/ \E n \in Scans : Steps(WalkerThread(n))
  \/ Steps(EndOfInput) \/ Steps(Main)

ClientNext ==
  \/ \E r \in Requests : Enter(r)
  \/ ClientStep \/ ReadLine \/ HelperStep
  \/ Killed /\ UNCHANGED client

(* Every thread and every queue is scheduled.  An operation and a walk are *)
(* only sure to end once they were told to; a probe ends on its own, since *)
(* nobody can tell it.  Nothing makes the app close.                       *)
ClientFairness ==
  /\ WF_whole(ClientStep) /\ WF_whole(ReadLine)
  /\ WF_whole(Steps(Main))
  /\ \A r \in Requests :
       /\ WF_whole(Write(r) \/ GiveUp(r))
       /\ WF_whole(Steps(RequestThread(r)))
       /\ WF_whole(Steps(EndProbe(r)))
       /\ WF_whole(Steps(r \in told /\ EndOperation(r)))
  /\ \A n \in Scans :
       /\ WF_whole(Steps(Reports(n) /\ UNCHANGED service))
       /\ WF_whole(Steps(n \in cancelled /\ WalkEnds(n) /\ UNCHANGED service))

ClientSpec == ClientInit /\ [][ClientNext]_whole /\ ClientFairness

-----------------------------------------------------------------------------
(* A request that the helper answered, and any request once the helper is  *)
(* gone, is resumed while the app is open, and resumed once: whichever of  *)
(* the reply, the two ends and the failed write comes first, and even if it*)
(* was entered after both ends had been handled.                           *)
ResumedOnce ==
  \A r \in Requests :
    (caller[r] # "none" /\ (r \in replied \/ main = "killed")) ~> (resumed[r] = 1 \/ ~AppIsOpen)
=============================================================================
