----------------------------- MODULE MCBackends -----------------------------
(* Three backends, and one kind of trouble at a time: saves that fail and   *)
(* overlap, restarts; installs while an operation is resolved, gated and    *)
(* run; or a Mole whose output stops anywhere, for each of its operations.  *)
EXTENDS Backends

MCPrefs == {"mole", "gdu", "none"}
MCSize == [p \in MCPrefs |-> IF p = "gdu" THEN 1 ELSE 2]
AllFaults == {"open", "short", "rename"}

MCRegistered == <<"ncdu", "mole", "gdu">>
MCDefaultOrder == <<"mole", "ncdu", "gdu">>
MCOffers == [ncdu |-> {"scan"}, gdu |-> {"scan"}, mole |-> Queries \cup Previews]
MCSupported == {"1", "2"}
MCVersions == {"old", "1", "2"}

(* Two applications; a file of two rows, one of them a path of two lines    *)
(* that reads like two rows; and one with two sections of one name.         *)
Item(scope, path) == [scope |-> scope, path |-> path]
MCItems == [Alpha |-> <<Item("removed", "/Alpha.app"), Item("system", "/helper"), Item("review only", "/prefs")>>,
            Beta  |-> <<Item("removed", "/Beta.app")>>]

CacheRow(path, n) == [path |-> path, count |-> n]
Part(name, items) == [name |-> name, items |-> items]
MCCleanup == {<<Part("caches", <<CacheRow(<<"/a">>, 1), CacheRow(<<"/b", "c">>, 2)>>)>>,
              <<Part("caches", <<CacheRow(<<"/a">>, 1)>>), Part("logs", <<CacheRow(<<"/l">>, 1)>>),
                Part("caches", <<CacheRow(<<"/z">>, 3)>>)>>}
MCRows == {"/b"}
MCReports == {<<Part("disk", <<"x", "y">>)>>}

(* Bounds of a run: one operation, and what may have been reviewed before. *)
MCInit ==
  /\ BackendsInit
  /\ trouble = "output" => dir["target"] = 0
  /\ \A b \in DOMAIN MCOffers : installed[b] \in (IF trouble = "installs" THEN {"absent", "1"} ELSE {"1"})
  /\ trouble = "saves" => review = NoReview
  /\ review # NoReview => review.version = "1" /\ review.names # {"Beta"}
  /\ trouble = "installs" => review.op \in {"none", "optimizePreview"} /\ review.names = {}

InstallAbilities == {"none", "scan", "systemStatus", "optimize"}
MCNext ==
  /\ BackendsNext
  /\ trouble = "output" /\ Stage("idle") => (ask'.ability \in Executions <=> review # NoReview)
  /\ trouble = "installs" =>
       /\ ask'.ability \in InstallAbilities /\ chooses' <= 1
       /\ ~cancel' /\ ~unread' /\ child' # "failed"
       /\ UnderWay => UNCHANGED <<installs, chooses>>

MCSpec == MCInit /\ [][MCNext]_backendsVars
=============================================================================
