------------------------------ MODULE Backends ------------------------------
(***************************************************************************)
(* Which backend runs an operation (crates/adapter: registry.rs,           *)
(* preference.rs, detect.rs) and the gate at the head of every operation   *)
(* (usable_binary and execution_binary of the adapters), with the          *)
(* preference of Settings and the runs of Mole.                            *)
(*                                                                         *)
(* Nothing of what is installed is remembered: each detection runs         *)
(* `--version` again, so between two of them, and between the last one and *)
(* the run, a backend may be installed, upgraded or removed.               *)
(***************************************************************************)
EXTENDS Settings, Mole

CONSTANTS
  Registered,    \* the backends, in registration order
  DefaultOrder,  \* the platform's, best first
  Offers,        \* what each backend's capabilities offer
  Supported,     \* the versions inside the adapters' ranges
  Versions,      \* what `--version` may say, or "absent", or "broken"
  MaxAsks, MaxInstalls

(* Every backend that is registered has its capabilities, and the orders   *)
(* name only those; the platform's names none twice (preference.rs,        *)
(* every_default_names_every_backend).                                     *)
ASSUME BackendsAssumption ==
  /\ Registered \in Seq(DOMAIN Offers) /\ DefaultOrder \in Seq(DOMAIN Offers)
  /\ \A b \in DOMAIN Offers : \E k \in DOMAIN Registered : Registered[k] = b
  /\ \A i, j \in DOMAIN DefaultOrder : DefaultOrder[i] = DefaultOrder[j] => i = j
  /\ Default \notin DOMAIN Offers

VARIABLES
  installed,     \* what there is under each backend's name
  ask,           \* the operation under way: see NoAsk
  review,        \* the last preview offered: its operation, names and version
  always, ever,  \* history: backends usable all the time, or at some time, since the ask began
  swapped,       \* history: something was installed between the gate and the run
  trouble,       \* bound: what else goes on: "saves", "installs" or "output"
  asks, installs

askVars      == <<ask, review, always, ever, swapped, asks>>
machine      == <<installed, installs>>
backendsVars == <<vars, moleVars, askVars, machine, trouble>>

NoAsk == [stage |-> "idle", ability |-> "none", pref |-> Default, at |-> 0,
          backend |-> "none", insteadOf |-> Default, version |-> "absent", ran |-> "absent"]
NoReview == [op |-> "none", names |-> {}, version |-> "absent"]

(* Detection::is_usable; a detection that fails is not usable either.      *)
Usable == {b \in DOMAIN installed : installed[b] \in Supported}

PreviewFor(o) == CASE o = "optimize" -> "optimizePreview"
                   [] o = "cleanup" -> "cleanupPreview"
                   [] o = "uninstall" -> "uninstallPreview"

-----------------------------------------------------------------------------
(* resolve_in_order: the choice, the platform's order, registration order; *)
(* of each, the backends that offer the ability.                           *)
Order(pref) == <<pref>> \o DefaultOrder \o Registered
Offering(ability, b) == b \in DOMAIN Offers /\ ability \in Offers[b]

Stage(s) == ask.stage = s

(* An operation is asked for; the preference is read once.                 *)
Ask(ability) ==
  /\ Stage("idle") /\ asks < MaxAsks
  /\ ask' = [NoAsk EXCEPT !.stage = "resolving", !.ability = ability, !.pref = memory, !.at = 1]
  /\ asks' = asks + 1 /\ always' = Usable /\ ever' = Usable /\ swapped' = FALSE
  /\ UNCHANGED <<vars, moleVars, machine, review, trouble>>

(* What was reviewed runs through the adapter that prepared it (by_id).    *)
AskReviewed(o) ==
  /\ Stage("idle") /\ asks < MaxAsks /\ review.op = PreviewFor(o)
  /\ ask' = [NoAsk EXCEPT !.stage = "gate", !.ability = o, !.backend = "mole"]
  /\ asks' = asks + 1 /\ always' = Usable /\ ever' = Usable /\ swapped' = FALSE
  /\ UNCHANGED <<vars, moleVars, machine, review, trouble>>

(* The places in the order that are still to be detected.                  *)
Candidates == {k \in DOMAIN Order(ask.pref) : k >= ask.at /\ Offering(ask.ability, Order(ask.pref)[k])}

(* Mutant: the fallback is not told apart from the choice.                 *)
TakeSilently(k) == [ask EXCEPT !.stage = "gate", !.backend = Order(ask.pref)[k]]

(* The one taken, and whom it stands in for.                               *)
Take(k) == [ask EXCEPT !.stage = "gate", !.backend = Order(ask.pref)[k],
                       !.insteadOf = IF k = 1 THEN Default ELSE ask.pref]

(* One detection: the first usable candidate is taken.                     *)
Detect ==
  /\ Stage("resolving")
  /\ \E k \in Candidates :
       /\ \A other \in Candidates : k <= other
       /\ ask' = IF Order(ask.pref)[k] \in Usable THEN Take(k) ELSE [ask EXCEPT !.at = k + 1]
  /\ UNCHANGED <<vars, moleVars, machine, review, always, ever, swapped, asks, trouble>>

NothingUsable ==
  /\ Stage("resolving") /\ Candidates = {}
  /\ ask' = [ask EXCEPT !.stage = "nothing"]
  /\ UNCHANGED <<vars, moleVars, machine, review, always, ever, swapped, asks, trouble>>

Reviewed(version) == ask.ability \in Executions => version = review.version

(* Mutant: a real run is gated like a preview.                             *)
GateUsable ==
  /\ Stage("gate")
  /\ ask' = IF ask.backend \in Usable
            THEN [ask EXCEPT !.stage = "ready", !.version = installed[ask.backend]]
            ELSE [ask EXCEPT !.stage = "refused"]
  /\ UNCHANGED <<vars, moleVars, machine, review, always, ever, swapped, asks, trouble>>

(* usable_binary, execution_binary: detected once more.                    *)
Gate ==
  /\ Stage("gate")
  /\ ask' = IF ask.backend \in Usable /\ Reviewed(installed[ask.backend])
            THEN [ask EXCEPT !.stage = "ready", !.version = installed[ask.backend]]
            ELSE [ask EXCEPT !.stage = "refused"]
  /\ UNCHANGED <<vars, moleVars, machine, review, always, ever, swapped, asks, trouble>>

(* The run: Mole's is followed to its end, a scan's is another's business. *)
Run ==
  /\ Stage("ready")
  /\ ask' = [ask EXCEPT !.stage = "running", !.ran = installed[ask.backend]]
  /\ IF ask.ability = "scan" THEN UNCHANGED moleVars
     ELSE \E apps \in (IF ask.ability = "uninstallPreview" THEN SUBSET DOMAIN ItemsOf
                       ELSE {IF ask.ability = "uninstall" THEN review.names ELSE {}}) :
            BeginMole(ask.ability, apps)
  /\ UNCHANGED <<vars, machine, review, always, ever, swapped, asks, trouble>>

(* The answer; an offered preview is what may be executed next.            *)
Collect ==
  /\ \/ Stage("nothing") \/ Stage("refused")
     \/ Stage("running") /\ (ask.ability = "scan" \/ result # NoResult)
  /\ ask' = NoAsk
  /\ review' = IF result.kind = "preview"
               THEN [op |-> ask.ability, names |-> names, version |-> ask.version] ELSE review
  /\ op' = "none" /\ names' = {} /\ command' = "none" /\ script' = <<>> /\ output' = <<>> /\ planned' = {}
  /\ child' = "none" /\ cancel' = FALSE /\ unread' = FALSE /\ answer' = "none" /\ result' = NoResult
  /\ UNCHANGED <<vars, world, machine, always, ever, swapped, asks, trouble>>

Asking == \/ \E b \in DOMAIN Offers : \E ability \in Offers[b] : Ask(ability)
          \/ \E o \in Executions : AskReviewed(o)
          \/ Detect \/ NothingUsable \/ Gate \/ Run \/ Collect

(* Something else now answers to a backend's name.                         *)
Install(b, version) ==
  /\ installs < MaxInstalls /\ installs' = installs + 1
  /\ installed[b] # version /\ installed' = [installed EXCEPT ![b] = version]
  /\ always' = always \cap Usable' /\ ever' = ever \cup Usable'
  /\ swapped' = (swapped \/ Stage("ready"))
  /\ UNCHANGED <<vars, moleVars, ask, review, asks, trouble>>

Quietly(action) == action /\ UNCHANGED <<moleVars, askVars, machine, trouble>>

Running == Stage("running") /\ UnderWay /\ MoleNext /\ UNCHANGED <<vars, askVars, machine, trouble>>

BackendsInit ==
  /\ Init /\ MoleInit
  /\ trouble \in {"saves", "installs", "output"}
  /\ installed \in [DOMAIN Offers -> Versions \cup {"absent"}]
  /\ review \in {NoReview} \cup [op : Previews, names : SUBSET DOMAIN ItemsOf, version : Supported]
  /\ ask = NoAsk /\ always = {} /\ ever = {} /\ swapped = FALSE
  /\ asks = 0 /\ installs = 0

BackendsNext ==
  \/ trouble = "saves" /\ Quietly(Next)
  \/ trouble = "installs" /\ \E t \in Threads, p \in Prefs : Quietly(Choose(t, p))
  \/ trouble = "installs" /\ \E b \in DOMAIN Offers, version \in Versions : Install(b, version)
  \/ trouble # "saves" /\ (Asking \/ Running)

BackendsSpec == BackendsInit /\ [][BackendsNext]_backendsVars

-----------------------------------------------------------------------------
(* Whatever is installed or removed while it is being looked for: what is  *)
(* taken offers the ability and was usable; the user's choice is taken if  *)
(* it could have been all along, and otherwise named as the one that was   *)
(* not; a better backend of the platform's order is not passed over; and   *)
(* nothing is answered only if nothing was usable all along.               *)
ResolvesHonestly ==
  LET best(b) == \A i, j \in DOMAIN DefaultOrder :
                   i < j /\ DefaultOrder[j] = b /\ ask.ability \in Offers[DefaultOrder[i]] => DefaultOrder[i] \notin always
      chosen  == ask.pref \in DOMAIN Offers /\ ask.ability \in Offers[ask.pref]
  IN  /\ ask.at > 0 /\ ask.backend # "none" =>
           /\ ask.ability \in Offers[ask.backend] /\ ask.backend \in ever
           /\ chosen /\ ask.pref \in always => ask.backend = ask.pref
           /\ ask.backend # ask.pref => best(ask.backend) /\ ask.insteadOf = ask.pref
           /\ ask.insteadOf # Default => ask.insteadOf = ask.pref /\ ~(chosen /\ ask.pref \in always)
      /\ Stage("nothing") => \A b \in always : ask.ability \notin Offers[b]

(* What changes files runs at the version whose preview was reviewed,      *)
(* unless it was replaced between the gate and the spawn, where nothing    *)
(* looks (execution_binary).                                               *)
RunsWhatWasReviewed ==
  Stage("running") =>
    /\ ask.version \in Supported
    /\ ~swapped => ask.ran = ask.version
    /\ ask.ability \in Executions => ask.version = review.version
=============================================================================
