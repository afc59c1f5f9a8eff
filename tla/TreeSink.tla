------------------------------ MODULE TreeSink ------------------------------
(***************************************************************************)
(* From the export of a backend to a tree: parse() and TreeSink of         *)
(* crates/adapter/src/wire.rs, the check of the scan root (scan.rs) and    *)
(* what a scan makes of it (walk of crates/app/src/scan.rs, ScanSummary of *)
(* dto.rs).                                                                *)
(*                                                                         *)
(* The backend walks a disk and writes one record per entry, a directory   *)
(* as a bracket around its children's.  ncdu names a device only where it  *)
(* changes, gdu never does (fixtures/gdu/5.32.0/simple.json).  The stream  *)
(* may end, break or prove unreadable after any record.                    *)
(***************************************************************************)
EXTENDS ScanTree

CONSTANTS
  Shape,    \* entry -> what it is: [up, name, dir, size, ino, links]; up = 0 at the top
  FullName, \* directory -> its whole path, as the root of an export is named
  Disks,    \* the disks there may be, see DiskState
  Asked,    \* the paths a scan may be asked for
  Sources,  \* <<backend, confined>>: who scans, and whether on one file system
  MaxDepth  \* MAX_DEPTH

NoEntry == 0
NoDev == 0
Entries == DOMAIN Shape

(* A directory is numbered before what it holds, and sizes are u64.        *)
ASSUME ShapeAssumption ==
  /\ Shape \in Seq([up : Nat, name : DOMAIN NameRank, dir : BOOLEAN, size : 0..Largest, ino : Nat, links : BOOLEAN])
  /\ \A e \in Entries : Shape[e].up < e /\ (Shape[e].up # NoEntry => Shape[Shape[e].up].dir)

VARIABLES
  disk,    \* what exists, mounted devices, unreadable and skipped entries
  scan,    \* the parse: its phase, failure and counts
  sink,    \* TreeSink
  origin   \* history: the entry each node was made from

(* What exists; the entries where another device is mounted; directories   *)
(* that cannot be read; entries the backend is told to skip.               *)
DiskState == [present : SUBSET Entries, mounted : SUBSET Entries,
              locked : SUBSET Entries, skipped : SUBSET Entries]

ASSUME DiskAssumption == Disks \subseteq DiskState
ASSUME AskedAssumption ==
  /\ Asked \subseteq Entries /\ \A e \in Asked : FullName[e] \in DOMAIN NameRank
  /\ Sources \subseteq {"ncdu", "gdu"} \X BOOLEAN /\ MaxDepth \in Nat

Under(e) == {f \in disk.present : Shape[f].up = e}

DeviceOf(e) ==
  LET device[x \in Entries] ==
        IF x \in disk.mounted \/ Shape[x].up = NoEntry THEN x ELSE device[Shape[x].up]
  IN  device[e]

Trail(e) ==
  LET path[x \in Entries] ==
        IF Shape[x].up = NoEntry THEN <<>> ELSE Append(path[Shape[x].up], Shape[x].name)
  IN  path[e]

-----------------------------------------------------------------------------
(* The backend's side.                                                     *)

(* Skipped on request, or because it is on another file system.            *)
Excluded(e) ==
  /\ e # scan.root
  /\ \/ e \in disk.skipped
     \/ scan.confined /\ DeviceOf(e) # DeviceOf(scan.root)

Listed(e) == IF e \in disk.locked THEN {} ELSE Under(e)

(* A record.  A skipped entry carries no size and no inode, and whether it *)
(* is a directory is not said.                                             *)
Item(e) ==
  LET s == Shape[e]
      changes == e = scan.root \/ DeviceOf(e) # DeviceOf(s.up)
  IN  [name       |-> IF e = scan.root THEN FullName[e] ELSE s.name,
       size       |-> IF Excluded(e) THEN 0 ELSE s.size,
       dev        |-> IF scan.backend = "ncdu" /\ changes THEN DeviceOf(e) ELSE NoDev,
       ino        |-> s.ino,
       hlnkc      |-> s.links /\ ~Excluded(e),
       notreg     |-> FALSE,
       read_error |-> e \in disk.locked /\ ~Excluded(e),
       excluded   |-> Excluded(e)]

-----------------------------------------------------------------------------
(* The sink.                                                               *)

NewStats == [read_errors |-> 0, excluded |-> 0, deduplicated |-> 0, saved |-> 0]
NewSink == [tree |-> EmptyTree(<<>>), stack |-> <<>>, devices |-> <<>>, seen |-> {}, stats |-> NewStats]

CurrentDevice == IF sink.devices = <<>> THEN NoDev ELSE Last(sink.devices)
DeviceIn(item) == IF item.dev # NoDev THEN item.dev ELSE CurrentDevice

(* Regular or not: exports with a mode, which say more, are never asked for*)
KindOf(item) == IF item.notreg THEN "Other" ELSE "File"

Flag(b) == IF b THEN 1 ELSE 0

(* Another name of an inode that was counted already.                      *)
Repeated(item) == item.hlnkc /\ <<DeviceIn(item), item.ino>> \in sink.seen

NodeFrom(item, kind) ==
  [name       |-> item.name,
   kind       |-> kind,
   parent     |-> IF sink.stack = <<>> THEN NoNode ELSE Last(sink.stack),
   own        |-> IF Repeated(item) THEN 0 ELSE item.size,
   total      |-> 0,
   read_error |-> item.read_error,
   hardlink   |-> Repeated(item),
   excluded   |-> item.excluded]

Counted(item) ==
  [read_errors  |-> sink.stats.read_errors + Flag(item.read_error),
   excluded     |-> sink.stats.excluded + Flag(item.excluded),
   deduplicated |-> sink.stats.deduplicated + Flag(Repeated(item)),
   saved        |-> Saturating(sink.stats.saved, IF Repeated(item) THEN item.size ELSE 0)]

(* The record of a directory, and of anything else, is taken in alike.     *)
Took(item, kind) ==
  [sink EXCEPT !.tree  = Push(@, NodeFrom(item, kind)),
               !.seen  = IF item.hlnkc THEN @ \cup {<<DeviceIn(item), item.ino>>} ELSE @,
               !.stats = Counted(item)]

-----------------------------------------------------------------------------
(* The parse.                                                              *)
Phases == {"idle", "header", "root", "tree", "tail", "done", "failed"}
Parsing == {"header", "root", "tree", "tail"}
NoScan == [phase |-> "idle", failure |-> "none", root |-> NoEntry, backend |-> "ncdu",
           confined |-> TRUE, depth |-> 0, items |-> 0, directories |-> 0]

SinkInit ==
  /\ disk \in Disks
  /\ scan = NoScan /\ sink = NewSink /\ origin = <<>>

(* What was decoded is dropped with the parse: no half of a tree survives. *)
Fail(why) ==
  /\ scan' = [scan EXCEPT !.phase = "failed", !.failure = why]
  /\ sink' = NewSink /\ origin' = <<>>
  /\ UNCHANGED disk

(* validate_scan_root: the path has to exist and to be a directory.        *)
Begin(e, source) ==
  /\ scan.phase = "idle"
  /\ IF e \in disk.present /\ Shape[e].dir
     THEN /\ scan' = [scan EXCEPT !.phase = "header", !.root = e, !.backend = source[1], !.confined = source[2]]
          /\ UNCHANGED <<disk, sink, origin>>
     ELSE Fail("RefusedPath")

(* [1, minor, meta: a minor of any number is accepted, a major other than  *)
(* 1 is not.                                                               *)
Header ==
  /\ scan.phase = "header"
  /\ scan' = [scan EXCEPT !.phase = "root"]
  /\ UNCHANGED <<disk, sink, origin>>

OpenDirectory == origin[Last(sink.stack)]
Remaining == Listed(OpenDirectory) \ ToSet(origin)
IsNext(e) ==
            \/ scan.phase = "root" /\ e = scan.root
            \/ scan.phase = "tree" /\ e \in Remaining

(* Mutant: the children of a directory inherit the device of its parent.   *)
OpenDirOuter(e) ==
  /\ IsNext(e) /\ Shape[e].dir /\ ~Excluded(e)
  /\ scan.depth < MaxDepth
  /\ LET new == Took(Item(e), "Directory")
     IN  sink' = [new EXCEPT !.stack = Append(@, Len(new.tree.nodes)), !.devices = Append(@, CurrentDevice)]
  /\ scan' = [scan EXCEPT !.phase = "tree", !.depth = @ + 1, !.items = @ + 1, !.directories = @ + 1]
  /\ origin' = Append(origin, e)
  /\ UNCHANGED disk

(* The first push names the tree's root path.                              *)
OpenDir(e) ==
  /\ IsNext(e) /\ Shape[e].dir /\ ~Excluded(e)
  /\ scan.depth < MaxDepth
  /\ LET new == Took(Item(e), "Directory")
     IN  sink' = [new EXCEPT !.tree.root_path = IF e = scan.root THEN Trail(e) ELSE @,
                             !.stack = Append(@, Len(new.tree.nodes)), !.devices = Append(@, DeviceIn(Item(e)))]
  /\ scan' = [scan EXCEPT !.phase = "tree", !.depth = @ + 1, !.items = @ + 1, !.directories = @ + 1]
  /\ origin' = Append(origin, e)
  /\ UNCHANGED disk

(* One level more than the stack of a parsing thread is sure to hold.      *)
TooDeep(e) ==
  /\ IsNext(e) /\ Shape[e].dir /\ ~Excluded(e)
  /\ scan.depth >= MaxDepth
  /\ Fail("TooDeep")

Leaf(e) ==
  /\ IsNext(e) /\ (Excluded(e) \/ ~Shape[e].dir)
  /\ sink' = Took(Item(e), KindOf(Item(e)))
  /\ scan' = [scan EXCEPT !.items = @ + 1]
  /\ origin' = Append(origin, e)
  /\ UNCHANGED disk

CloseDir ==
  /\ scan.phase = "tree" /\ Remaining = {}
  /\ sink' = [sink EXCEPT !.stack = Front(@), !.devices = Front(@)]
  /\ scan' = [scan EXCEPT !.depth = @ - 1, !.phase = IF scan.depth = 1 THEN "tail" ELSE "tree"]
  /\ UNCHANGED <<disk, origin>>

(* Fields a later minor appends are ignored; the array ends and so does    *)
(* the stream.                                                             *)
Finish ==
  /\ scan.phase = "tail"
  /\ scan' = [scan EXCEPT !.phase = "done"]
  /\ sink' = [sink EXCEPT !.tree = Rolled(@)]
  /\ UNCHANGED <<disk, origin>>

(* The stream ends, cannot be read, is not an export, is of another major, *)
(* is followed by something, or its writer exits with an error: whatever   *)
(* came before is not a scan.                                              *)
Break ==
  /\ scan.phase \in Parsing
  /\ \E why \in {"Truncated", "Malformed", "Io"}
                \cup (IF scan.phase = "header" THEN {"Empty", "UnsupportedFormat"} ELSE {})
                \cup (IF scan.phase = "tail" THEN {"BackendFailed"} ELSE {}) : Fail(why)

SinkNext ==
  \/ \E e \in Asked, source \in Sources : Begin(e, source)
  \/ Header \/ CloseDir \/ Finish \/ Break
  \/ \E e \in Entries : OpenDir(e) \/ TooDeep(e) \/ Leaf(e)

sinkVars == <<disk, scan, sink, origin>>

-----------------------------------------------------------------------------
Done == scan.phase = "done"
Tree == sink.tree

(* The summary of a finished scan.                                         *)
Summary ==
  [total       |-> Tree.nodes[Root].total,
   entries     |-> scan.items,
   directories |-> scan.directories,
   stats       |-> sink.stats]

(* The entries of a disk a scan of this root can reach.                    *)
Reachable ==
  LET reached[e \in Entries] ==
        \/ e = scan.root
        \/ /\ e \in disk.present /\ Shape[e].up # NoEntry
           /\ reached[Shape[e].up] /\ ~Excluded(Shape[e].up) /\ Shape[e].up \notin disk.locked
  IN  {e \in Entries : reached[e]}

(* Another name of the same file came earlier.                             *)
Earlier(i) ==
  /\ Shape[origin[i]].links /\ ~Excluded(origin[i])
  /\ \E j \in 1..(i - 1) :
       /\ Shape[origin[j]].links /\ ~Excluded(origin[j])
       /\ Shape[origin[j]].ino = Shape[origin[i]].ino /\ DeviceOf(origin[j]) = DeviceOf(origin[i])

Bytes(i) == IF Excluded(origin[i]) \/ Earlier(i) THEN 0 ELSE Shape[origin[i]].size

(* A tree is the whole of what the scan could reach, each entry once,      *)
(* however the export is cut: and a directory's total is the space that    *)
(* deleting it and everything else that shares its files would free, with  *)
(* a file of several names counted once per device.  Where nobody says     *)
(* which device an entry is on, files of two devices can share a number:   *)
(* only then may a total fall short.                                       *)
DeviceIsKnown == scan.backend = "ncdu" \/ scan.confined
TreeIsTheDisk ==
  Done =>
    /\ Len(origin) = Len(Tree.nodes) /\ Len(origin) = Cardinality(Reachable)
    /\ ToSet(origin) = Reachable
    /\ \A i \in Ids(Tree) :
         LET free == Min({Largest, MapThenSumSet(Bytes, Below(Tree, i))})
         IN  Tree.nodes[i].total <= free /\ (DeviceIsKnown => Tree.nodes[i].total = free)

(* A path read off the tree names the entry its node was made from, and    *)
(* walking down by names from the root comes back to it.                   *)
PathsNameTheirEntry ==
  Done => \A i \in Ids(Tree) : PathOf(Tree, i) = Trail(origin[i])

(* What the totals could not account for is said, and adds up: what was    *)
(* read is what is counted and what was saved by counting files once.      *)
SummaryAddsUp ==
  Done =>
    LET all == MapThenSumSet(LAMBDA i : IF Excluded(origin[i]) THEN 0 ELSE Shape[origin[i]].size, Ids(Tree))
        marked(p(_)) == Cardinality({i \in Ids(Tree) : p(Tree.nodes[i])})
    IN  /\ all < Largest => Summary.total + Summary.stats.saved = all
        /\ Summary.entries = Len(Tree.nodes)
        /\ Summary.directories = marked(IsDir)
        /\ Summary.stats.read_errors = marked(LAMBDA n : n.read_error)
        /\ Summary.stats.excluded = marked(LAMBDA n : n.excluded)
        /\ Summary.stats.deduplicated = marked(LAMBDA n : n.hardlink)

(* However the window asks for a directory, page after page, it gets every *)
(* child once, in one order that the chosen key decides.                   *)
PagesTile ==
  Done => \A id \in Ids(Tree), sort \in Sorts :
    LET sorted == ChildrenSorted(Tree, id, sort)
        page(offset) == Page(Tree, id, sort, offset, MaxRows + 1).rows
    IN  /\ ToSet(sorted) = ChildrenOf(Tree, id) /\ Len(sorted) = Cardinality(ChildrenOf(Tree, id))
        /\ \A j, k \in DOMAIN sorted : j < k => Before(Tree, sort, sorted[j], sorted[k])
        /\ \A k \in 0..Len(sorted) : page(k) = SubSeq(sorted, k + 1, Min({k + MaxRows, Len(sorted)}))
=============================================================================
