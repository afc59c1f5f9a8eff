------------------------------ MODULE Footprint ------------------------------
(***************************************************************************)
(* What an application costs: crates/app/src/attribution.rs, asked for by  *)
(* app_footprint_plan_of (commands.rs) for a row of a finished scan or by  *)
(* installed() for a bundle no scan has seen.                              *)
(*                                                                         *)
(* plan() lists the paths that carry the application's identifier or its   *)
(* vendor's name while the scan is locked; resolve() measures those the    *)
(* scan did not cover, one directory entry at a time and with no lock, on  *)
(* a disk that changes meanwhile.                                          *)
(***************************************************************************)
EXTENDS TreeSink

CONSTANTS
  Locations,   \* the paths an identifier may carry, in the order of LOCATIONS: [label, entry]
  Vendor,      \* directories named as the vendor or product, sorted
  Inspected,   \* the applications the window shows
  Identified,  \* those whose Info.plist names an identifier
  WalkBudget,  \* WALK_BUDGET
  MaxChanges   \* bound: changes of the disk during one measurement

RelatedLabel == "Possibly related"
Unknown == -1

(* A bundle is none of the directories that are named for it.              *)
ASSUME FootprintAssumption ==
  /\ Locations \in Seq([label : STRING, entry : Entries]) /\ Vendor \in Seq(Entries)
  /\ \A k \in DOMAIN Locations : Locations[k].label \notin {"Application", RelatedLabel}
  /\ \A j, k \in DOMAIN Locations : Locations[j].entry = Locations[k].entry => j = k
  /\ \A j, k \in DOMAIN Vendor : Vendor[j] = Vendor[k] => j = k
  /\ Inspected \subseteq Entries
  /\ \A e \in Inspected : e \notin {Locations[k].entry : k \in DOMAIN Locations} \cup ToSet(Vendor)
  /\ WalkBudget \in Nat /\ MaxChanges \in Nat

(* Entries are found by name: a directory has no two of one name, and what *)
(* exists lies in something that does.                                     *)
ASSUME NamesAssumption ==
  /\ \A e, f \in Entries : Shape[e].up = Shape[f].up /\ (Shape[e].name = Shape[f].name \/ Shape[e].up = NoEntry) => e = f
  /\ \A d \in Disks : \A e \in d.present : Shape[e].up # NoEntry => Shape[e].up \in d.present

VARIABLES
  footprint,  \* the plan, what of it is measured, and the answer
  walk,       \* the walk under way; counted is history: the entries in bytes
  gone,       \* what other programs removed since the plan
  missed      \* history: entries a directory listing failed to name

NoWalk == [entry |-> NoEntry, stack |-> <<>>, bytes |-> 0, complete |-> TRUE, budget |-> 0, counted |-> {}]
NoFootprint == [phase |-> "none", node |-> NoNode, bundle |-> NoEntry, pending |-> {}, measured |-> <<>>]

FootprintInit ==
  /\ SinkInit
  /\ footprint = NoFootprint /\ walk = NoWalk /\ gone = {} /\ missed = {}

footprintVars == <<footprint, walk, gone, missed>>
allVars == <<sinkVars, footprintVars>>

-----------------------------------------------------------------------------
(* What the tree knows of a path.                                          *)

(* Mutant: a directory whose own record was read counts as read in full.   *)
IsCompleteHere(t, id) == ~SizeIsPartial(t.nodes[id])

(* Every node below, not the directory's own record alone: rollup() carries*)
(* sizes upwards and nothing else.                                         *)
SubtreeIsComplete(t, id) == \A i \in Below(t, id) : ~SizeIsPartial(t.nodes[i])

(* The node a path leads to by names, if the scan's root lies above it.    *)
NodeAt(t, path) ==
  LET above == Len(t.root_path)
      named(id, name) == {c \in ChildrenOf(t, id) : t.nodes[c].name = name}
      found[k \in above..Len(path)] ==
        IF k = above THEN Root
        ELSE IF found[k - 1] = NoNode \/ named(found[k - 1], path[k]) = {} THEN NoNode
        ELSE Min(named(found[k - 1], path[k]))
  IN  IF IsPrefix(t.root_path, path) THEN found[Len(path)] ELSE NoNode

(* Its size, and whether that is all of it; or that a walk has to tell.    *)
SizeFromTree(t, path) ==
  LET id == NodeAt(t, path)
  IN  IF id = NoNode THEN [bytes |-> Unknown, complete |-> FALSE]
      ELSE [bytes |-> t.nodes[id].total, complete |-> SubtreeIsComplete(t, id)]

Exists(e) == e \in disk.present \ gone

(* What may be looked at, in this order: the bundle (0), the paths that    *)
(* carry its identifier, the directories named as its vendor or product.   *)
Spots == 0..(Len(Locations) + Len(Vendor))
LabelAt(k) ==
  IF k = 0 THEN "Application" ELSE IF k <= Len(Locations) THEN Locations[k].label ELSE RelatedLabel
EntryAt(bundle, k) ==
  IF k = 0 THEN bundle ELSE IF k <= Len(Locations) THEN Locations[k].entry ELSE Vendor[k - Len(Locations)]

(* The locations that carry the identifier and exist.                      *)
KnownPaths(bundle) ==
  {k \in Spots : k \in DOMAIN Locations /\ bundle \in Identified /\ Exists(EntryAt(bundle, k))}

(* What is named like the vendor and is not among them.                    *)
RelatedPaths(bundle) ==
  {k \in Spots : /\ k > Len(Locations) /\ Exists(EntryAt(bundle, k))
                 /\ \A l \in KnownPaths(bundle) : EntryAt(bundle, l) # EntryAt(bundle, k)}

Paths(bundle) == KnownPaths(bundle) \cup RelatedPaths(bundle)

FootprintPath(k, bundle, size, source) ==
  [label |-> LabelAt(k), entry |-> EntryAt(bundle, k), bytes |-> size.bytes, complete |-> size.complete, source |-> source]

Planned(node, bundle, pending, measured) ==
  [phase |-> "measuring", node |-> node, bundle |-> bundle, pending |-> pending, measured |-> measured]

(* plan(): for a node of the scan, which knows the size of the bundle.     *)
Plan(id) ==
  /\ Done /\ footprint.phase = "none"
  /\ id \in Ids(Tree) /\ origin[id] \in Inspected
  /\ LET bundle == origin[id]
         size == [bytes |-> Tree.nodes[id].total, complete |-> SubtreeIsComplete(Tree, id)]
     IN  footprint' = Planned(id, bundle, Paths(bundle), [k \in {0} |-> FootprintPath(k, bundle, size, "Scan")])
  /\ UNCHANGED <<sinkVars, walk, gone, missed>>

(* installed(): no scan, so the bundle is walked like the rest.            *)
PlanInstalled(e) ==
  /\ scan.phase = "idle" /\ footprint.phase = "none"
  /\ Exists(e) /\ Shape[e].dir
  /\ footprint' = Planned(NoNode, e, {0} \cup Paths(e), <<>>)
  /\ UNCHANGED <<sinkVars, walk, gone, missed>>

-----------------------------------------------------------------------------
(* resolve(): one path after the other.                                    *)
Measuring == footprint.phase = "measuring" /\ footprint.pending # {}
Current == Min(footprint.pending)
CurrentEntry == EntryAt(footprint.bundle, Current)
Idle == walk.entry = NoEntry

Measured(bytes, complete, source) ==
  LET size == [bytes |-> bytes, complete |-> complete]
      done == DOMAIN footprint.measured \cup {Current}
  IN  footprint' = [footprint EXCEPT
        !.pending = @ \ {Current},
        !.measured = [k \in done |-> IF k = Current THEN FootprintPath(k, footprint.bundle, size, source)
                                  ELSE @[k]]]

KnownToScan ==
  IF footprint.node = NoNode THEN [bytes |-> Unknown, complete |-> FALSE]
  ELSE SizeFromTree(Tree, Trail(CurrentEntry))

TakeFromScan ==
  /\ Measuring /\ Idle /\ KnownToScan.bytes # Unknown
  /\ Measured(KnownToScan.bytes, KnownToScan.complete, "Scan")
  /\ UNCHANGED <<sinkVars, walk, gone, missed>>

(* A path that is gone by now is empty, and that is all of it.             *)
BeginWalk ==
  /\ Measuring /\ Idle /\ KnownToScan.bytes = Unknown
  /\ IF Exists(CurrentEntry)
     THEN /\ walk' = [NoWalk EXCEPT !.entry = CurrentEntry, !.stack = <<CurrentEntry>>, !.budget = WalkBudget]
          /\ UNCHANGED footprint
     ELSE Measured(0, TRUE, "Filesystem") /\ UNCHANGED walk
  /\ UNCHANGED <<sinkVars, gone, missed>>

Top == Last(walk.stack)

(* It vanished since its directory was listed.                             *)
Vanished ==
  /\ ~Idle /\ walk.stack # <<>> /\ ~Exists(Top)
  /\ walk' = [walk EXCEPT !.stack = Front(@), !.complete = FALSE]
  /\ UNCHANGED <<sinkVars, footprint, gone, missed>>

(* No number: an unknown part was counted.                                 *)
Exhausted ==
  /\ ~Idle /\ walk.stack # <<>> /\ Exists(Top) /\ walk.budget = 0
  /\ Measured(Unknown, FALSE, "Unavailable")
  /\ walk' = NoWalk
  /\ UNCHANGED <<sinkVars, gone, missed>>

(* What listing the entry would name, were there no error.                 *)
Contents == IF Shape[Top].dir THEN Listed(Top) \ gone ELSE {}

(* An entry is counted, links as links, and a directory is listed.  One    *)
(* that cannot be opened makes the sum a lower bound; an error while it is *)
(* listed loses entries, and nothing is made of it.                        *)
Visit ==
  /\ ~Idle /\ walk.stack # <<>> /\ Exists(Top) /\ walk.budget > 0
  /\ \E lost \in {{}} \cup {{e} : e \in Contents} :
       /\ missed' = missed \cup lost
       /\ \E order \in SetToSeqs(Contents \ lost) :
            walk' = [walk EXCEPT !.stack    = Front(@) \o order,
                                 !.bytes    = @ + Shape[Top].size,
                                 !.complete = @ /\ ~(Shape[Top].dir /\ Top \in disk.locked),
                                 !.budget   = @ - 1,
                                 !.counted  = @ \cup {Top}]
  /\ UNCHANGED <<sinkVars, footprint, gone>>

EndWalk ==
  /\ ~Idle /\ walk.stack = <<>>
  /\ Measured(walk.bytes, walk.complete, "Filesystem")
  /\ walk' = NoWalk
  /\ UNCHANGED <<sinkVars, gone, missed>>

Resolve ==
  /\ footprint.phase = "measuring" /\ footprint.pending = {}
  /\ footprint' = [footprint EXCEPT !.phase = "answered"]
  /\ UNCHANGED <<sinkVars, walk, gone, missed>>

(* Another program removes something while a footprint is measured.        *)
Change ==
  /\ footprint.phase = "measuring" /\ Cardinality(gone) < MaxChanges
  /\ \E e \in disk.present \ gone :
       /\ Shape[e].up # NoEntry /\ Under(e) \subseteq gone
       /\ gone' = gone \cup {e}
  /\ UNCHANGED <<sinkVars, footprint, walk, missed>>

Walking == Vanished \/ Exhausted \/ Visit \/ EndWalk

FootprintNext ==
  \/ SinkNext /\ footprint.phase = "none" /\ UNCHANGED footprintVars
  \/ \E id \in 1..Cardinality(Entries) : Plan(id)
  \/ \E e \in Inspected : PlanInstalled(e)
  \/ TakeFromScan \/ BeginWalk \/ Walking \/ Resolve
  \/ Change

-----------------------------------------------------------------------------
(* The answer.                                                             *)
Labels == {LabelAt(k) : k \in Spots}

Number(k) == IF footprint.measured[k].bytes = Unknown THEN 0 ELSE footprint.measured[k].bytes
SumOf(paths) == MapThenSumSet(Number, paths)
PathsOf(label) == {k \in DOMAIN footprint.measured : LabelAt(k) = label}
Component(label) ==
  [label |-> label, total |-> SumOf(PathsOf(label)), certain |-> label # RelatedLabel, paths |-> PathsOf(label),
   complete |-> \A k \in PathsOf(label) : footprint.measured[k].bytes # Unknown /\ footprint.measured[k].complete]

(* One component per label that has a path.                                *)
Components == {Component(label) : label \in {l \in Labels : PathsOf(l) # {}}}

Unmeasured == Cardinality({k \in DOMAIN footprint.measured : footprint.measured[k].bytes = Unknown})

(* Mutant: the guess is part of the headline.                              *)
AnswerWithRelated ==
  [total      |-> MapThenSumSet(LAMBDA c : c.total, Components),
   related    |-> MapThenSumSet(LAMBDA c : c.total, {c \in Components : ~c.certain}),
   unmeasured |-> Unmeasured]

(* The headline is what is known by identifier; what is only guessed by    *)
(* name is a second number.                                                *)
Answer ==
  [total      |-> MapThenSumSet(LAMBDA c : c.total, {c \in Components : c.certain}),
   related    |-> MapThenSumSet(LAMBDA c : c.total, {c \in Components : ~c.certain}),
   unmeasured |-> Unmeasured]
-----------------------------------------------------------------------------
Answered == footprint.phase = "answered"
Inside(e) == {f \in disk.present : IsPrefix(Trail(e), Trail(f))}
SizeOf(entries) == MapThenSumSet(LAMBDA e : Shape[e].size, entries)

(* "A partial read is a lower bound, said out loud" (docs/adr/0028): a     *)
(* size that calls itself complete missed nothing that stayed on the disk, *)
(* whoever measured it, except what a failing directory listing kept back; *)
(* one that does not had a reason; no size counts what was not there; and  *)
(* only a walk of more entries than its budget gives no size at all.       *)
SizesAreHonest ==
  \A k \in DOMAIN footprint.measured :
    LET path == footprint.measured[k]
        all == Inside(path.entry)
        lost == UNION {Inside(e) : e \in missed \cup gone}
    IN  /\ path.bytes <= SizeOf(all)
        /\ path.source = "Filesystem" =>
             IF path.complete THEN path.bytes >= SizeOf(all \ lost)
                              ELSE all \cap (disk.locked \cup gone) # {}
        /\ path.source = "Scan" =>
             (path.complete <=> all \subseteq {origin[i] : i \in {j \in Ids(Tree) : ~SizeIsPartial(Tree.nodes[j])}})
        /\ path.source = "Unavailable" => Cardinality(all) > WalkBudget /\ path.bytes = Unknown

(* The headline is every path that carries the identifier, and the bundle, *)
(* each counted once; a path found by the vendor's name is in the second   *)
(* number only; a component that calls itself complete has no part without *)
(* a size; and paths without a size are counted.                           *)
HeadlineIsWhatIsKnown ==
  Answered =>
    LET rows == footprint.measured
        identified == {k \in DOMAIN Locations : footprint.bundle \in Identified}
        known == {footprint.bundle} \cup ({Locations[k].entry : k \in identified} \cap disk.present)
        guessed == (ToSet(Vendor) \cap disk.present) \ known
        sum(entries) == MapThenSumSet(Number, {k \in DOMAIN rows : rows[k].entry \in entries})
    IN  /\ {rows[k].entry : k \in DOMAIN rows} = known \cup guessed
        /\ Cardinality(DOMAIN rows) = Cardinality(known \cup guessed)
        /\ Answer.total = sum(known)
        /\ Answer.related = sum(guessed)
        /\ \A c \in Components : c.complete => \A k \in c.paths : rows[k].source # "Unavailable"
        /\ Answer.unmeasured = 0 <=> \A k \in DOMAIN rows : rows[k].source # "Unavailable"
=============================================================================
