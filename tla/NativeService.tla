--------------------------- MODULE NativeService ---------------------------
(***************************************************************************)
(* The helper process: run() of crates/app/src/native.rs over the scan     *)
(* slot.  Each line read starts a request thread; at the end of input the  *)
(* main thread cancels what is running, and drains: while a request thread *)
(* or a scan is left it cancels again, so that an operation a late thread  *)
(* enters is told as well.                                                 *)
(*                                                                         *)
(* A request is one of three kinds: startScan, which claims the scan slot  *)
(* and leaves a walker behind; an operation that holds a slot with a token *)
(* the main thread can trip (the previews and runs of Review); and a probe,*)
(* which runs a subprocess under a token nobody else holds (systemStatus,  *)
(* the installed applications) or none.                                    *)
(***************************************************************************)
EXTENDS Scan, SequencesExt

VARIABLES
  main,       \* the main thread, or how the helper ended: "exited" or "killed"
  kind, pc,   \* the request threads
  operation,  \* the request that holds the operation slot
  told,       \* requests whose cancel token was tripped
  replied     \* history: requests that were answered

service == <<main, kind, pc, operation, told, replied>>
all     == <<vars, service>>

Kinds == {"scan", "operation", "probe"}
Nobody == "nobody"
Eof == {"eofScan", "eofOperation"}
Drain == {"workers", "scan", "cancelScan", "cancelOperation", "reap"}
Running(r) == pc[r] = "running"
Alive == main \notin {"exited", "killed"}

ServiceInit ==
  /\ Init
  /\ main = "reading"
  /\ kind \in [Requests -> Kinds] /\ pc = [r \in Requests |-> "unsent"]
  /\ operation = Nobody /\ told = {} /\ replied = {}

At(r, step) == pc' = [pc EXCEPT ![r] = step]

-----------------------------------------------------------------------------
(* Request threads.                                                        *)

(* The line is read and a thread started for it.                           *)
Read(r) ==
  /\ main = "reading" /\ pc[r] = "unsent"
  /\ At(r, "entering")
  /\ UNCHANGED <<vars, main, kind, operation, told, replied>>

(* startScan: claim the slot, then start the walker or release the slot.   *)
EnterScan(r) ==
  /\ pc[r] = "entering" /\ kind[r] = "scan"
  /\ IF active = None THEN Claim(r) /\ At(r, "starting")
                      ELSE At(r, "replying") /\ UNCHANGED vars
  /\ UNCHANGED <<main, kind, operation, told, replied>>

LaunchScan(r) ==
  /\ pc[r] = "starting"
  /\ StartWalker(r) \/ Release(r)
  /\ At(r, "replying")
  /\ UNCHANGED <<main, kind, operation, told, replied>>

EnterOperation(r) ==
  /\ pc[r] = "entering" /\ kind[r] = "operation"
  /\ IF operation = Nobody THEN operation' = r /\ At(r, "running")
                           ELSE At(r, "replying") /\ UNCHANGED operation
  /\ UNCHANGED <<vars, main, kind, told, replied>>

EnterProbe(r) ==
  /\ pc[r] = "entering" /\ kind[r] = "probe"
  /\ At(r, "running")
  /\ UNCHANGED <<vars, main, kind, operation, told, replied>>

(* The backend is done, or was killed; an operation gives its slot back.   *)
EndOperation(r) ==
  /\ Running(r) /\ kind[r] = "operation"
  /\ operation' = Nobody
  /\ At(r, "replying")
  /\ UNCHANGED <<vars, main, kind, told, replied>>

EndProbe(r) ==
  /\ Running(r) /\ kind[r] = "probe"
  /\ At(r, "replying")
  /\ UNCHANGED <<vars, main, kind, operation, told, replied>>

Reply(r) ==
  /\ pc[r] = "replying"
  /\ replied' = replied \cup {r}
  /\ At(r, "finished")
  /\ UNCHANGED <<vars, main, kind, operation, told>>

RequestThread(r) ==
  EnterScan(r) \/ LaunchScan(r) \/ EnterOperation(r) \/ EnterProbe(r) \/ Reply(r)

WalkerThread(n) == WalkerStep(n) /\ UNCHANGED service

-----------------------------------------------------------------------------
(* The main thread.                                                        *)
MainGoes(step) == main' = step

EndOfInput ==
  /\ main = "reading"
  /\ MainGoes("eofScan")
  /\ UNCHANGED <<vars, kind, pc, operation, told, replied>>

(* A crash, or a signal, while the app is there.                           *)
Killed ==
  /\ main = "reading"
  /\ MainGoes("killed")
  /\ UNCHANGED <<vars, kind, pc, operation, told, replied>>

CancelScan ==
  /\ main \in {"eofScan", "cancelScan"}
  /\ MainGoes(IF main = "eofScan" THEN "eofOperation" ELSE "cancelOperation")
  /\ cancelled' = IF active = None THEN cancelled ELSE cancelled \cup {active}
  /\ UNCHANGED <<slot, request, walker, report, kind, pc, operation, told, replied>>

(* The six cancel calls: each trips the token of whoever holds its slot.   *)
CancelOperations ==
  /\ main \in {"eofOperation", "cancelOperation"}
  /\ MainGoes(IF main = "eofOperation" THEN "workers" ELSE "reap")
  /\ told' = told \cup ({operation} \ {Nobody})
  /\ UNCHANGED <<vars, kind, pc, operation, replied>>

(* Threads that have finished are joined.                                  *)
Reap ==
  /\ main = "reap"
  /\ MainGoes("workers")
  /\ pc' = [r \in Requests |-> IF pc[r] = "finished" THEN "joined" ELSE pc[r]]
  /\ UNCHANGED <<vars, kind, operation, told, replied>>

(* Mutant: the drain waits without cancelling again.                       *)
TestWorkersPatiently ==
  /\ main = "workers"
  /\ MainGoes(IF \E r \in Requests : pc[r] \notin {"unsent", "joined"} THEN "reap" ELSE "scan")
  /\ UNCHANGED <<vars, kind, pc, operation, told, replied>>

(* The loop condition: are there workers, and only if not, is there a scan?*)
TestWorkers ==
  /\ main = "workers"
  /\ MainGoes(IF \E r \in Requests : pc[r] \notin {"unsent", "joined"} THEN "cancelScan" ELSE "scan")
  /\ UNCHANGED <<vars, kind, pc, operation, told, replied>>

(* Mutant: a scan that is left is not waited for.                          *)
TestNothing ==
  /\ main = "scan"
  /\ MainGoes("exited")
  /\ UNCHANGED <<vars, kind, pc, operation, told, replied>>

TestScan ==
  /\ main = "scan"
  /\ MainGoes(IF active # None THEN "cancelScan" ELSE "exited")
  /\ UNCHANGED <<vars, kind, pc, operation, told, replied>>

Main == CancelScan \/ CancelOperations \/ Reap \/ TestWorkers \/ TestScan

-----------------------------------------------------------------------------
(* When the helper exits, no backend it started is left running and every  *)
(* request it read has been answered: not even one whose thread entered its*)
(* operation, or claimed the scan slot, after the first round of cancels.  *)
ExitIsClean ==
  main = "exited" =>
    /\ \A r \in Requests : pc[r] \in {"unsent", "joined"} /\ (pc[r] = "joined" => r \in replied)
    /\ operation = Nobody
    /\ \A n \in Scans : stage[n] \notin {"claimed", "ended"} \cup Walking

(* Once its input has ended the helper exits.                              *)
EofExits == main \in Eof ~> main = "exited"
=============================================================================
