----------------------------- MODULE Categories -----------------------------
(***************************************************************************)
(* What kind of thing uses the disk: the category breakdown of             *)
(* crates/app/src/categories.rs and the application and developer lists of *)
(* inventory.rs.  Both read a finished tree and nothing else, and both     *)
(* know names and paths only; each has its own copy of some of the rules.  *)
(***************************************************************************)
EXTENDS ScanTree

CONSTANTS
  Home,          \* the path of the user's home directory
  Bundles,       \* the names that end in ".app", in any case
  MaxConsumers,  \* MAX_CONSUMERS
  MaxInventory   \* MAX_INVENTORY_ROWS

StorageCategory == {"Apps", "PersonalFiles", "Development", "System", "Other"}
Unclaimed == "none"

PersonalDirectories == {"Documents", "Desktop", "Downloads", "Movies", "Music", "Pictures", "Public"}
DeveloperHomeDirectories ==
  {".cargo", ".rustup", ".gradle", ".m2", ".npm", ".bun", ".deno", ".pub-cache", ".pnpm-store",
   ".nuget", ".cocoapods", "go"}
SystemRoots ==
  {<<root>> : root \in {"System", "Library", "usr", "bin", "sbin", "opt", "private", "cores",
                        "Windows", "Program Files"}}

HasPair(path, first, second) == \E k \in 1..(Len(path) - 1) : path[k] = first /\ path[k + 1] = second
Has(path, name) == \E k \in DOMAIN path : path[k] = name

IsInsideBundle(path) == path # <<>> /\ ToSet(Front(path)) \cap Bundles # {}

IsDeveloperData(name, path) ==
  \/ name \in {"DerivedData", "Archives"} /\ HasPair(path, "Developer", "Xcode")
  \/ name \in {"CoreSimulator", "Caches", "Logs"} /\ Has(path, "Developer")

UnderHome(name, path, names) == name \in names /\ path # <<>> /\ Front(path) = Home

IsApplication(name, path, isDir, inherited) ==
  isDir /\ name \in Bundles /\ inherited # "Development" /\ ~IsInsideBundle(path)

(* The first rule that matches, in this order; a node no rule matches      *)
(* inherits what the nearest one above it claimed.                         *)
Claim(name, path, isDir, inherited) ==
  LET development == \/ name \in {"node_modules", ".git"}
                     \/ UnderHome(name, path, DeveloperHomeDirectories)
                     \/ IsDeveloperData(name, path)
      apps == \/ IsApplication(name, path, isDir, inherited)
              \/ path \in {<<"Applications">>, Home \o <<"Applications">>, Home \o <<"Library">>}
  IN  IF development THEN "Development"
      ELSE IF apps THEN "Apps"
      ELSE IF UnderHome(name, path, PersonalDirectories) THEN "PersonalFiles"
      ELSE IF path \in SystemRoots THEN "System"
      ELSE Unclaimed

(* One pass from the root: the category each node's own bytes go to, and   *)
(* the node they are shown under.  A child of the root is shown even when  *)
(* it claims nothing.                                                      *)
Claims(t) ==
  LET claim[i \in Ids(t)] ==
        LET above == IF ParentOf(t, i) = NoNode THEN [category |-> "Other", owner |-> NoNode]
                     ELSE claim[ParentOf(t, i)]
            here == Claim(t.nodes[i].name, PathOf(t, i), IsDir(t.nodes[i]), above.category)
        IN  [category |-> IF here = Unclaimed THEN above.category ELSE here,
             owner    |-> IF here # Unclaimed \/ ParentOf(t, i) = Root THEN i ELSE above.owner]
  IN  claim

(* Added without saturating: a release build wraps.                        *)
Wrapped(t, ids) == MapThenSumSet(LAMBDA i : t.nodes[i].own, ids) % (Largest + 1)

PathBefore(p, q) ==
  \E k \in 0..Len(p) :
    /\ k < Len(q) /\ SubSeq(p, 1, k) = SubSeq(q, 1, k)
    /\ k < Len(p) => NameRank[p[k + 1]] < NameRank[q[k + 1]]

(* Rows by size, and by path where sizes are equal.                        *)
BySize(t, rows) ==
  SetToSortSeq(rows, LAMBDA a, b : \/ a.bytes > b.bytes
                                   \/ a.bytes = b.bytes /\ PathBefore(PathOf(t, a.id), PathOf(t, b.id)))

(* Mutant: the flag of the claiming node stands for all it accounts for.   *)
ConsumerOfItself(t, claims, id) ==
  [id       |-> id,
   bytes    |-> Wrapped(t, {i \in Ids(t) : claims[i].owner = id}),
   complete |-> ~SizeIsPartial(t.nodes[id])]

Consumer(t, claims, id) ==
  LET owned == {i \in Ids(t) : claims[i].owner = id}
  IN  [id       |-> id,
       bytes    |-> Wrapped(t, owned),
       complete |-> \A i \in owned : ~SizeIsPartial(t.nodes[i])]

Consumers(t, claims, category) ==
  {Consumer(t, claims, id) : id \in {i \in Ids(t) : claims[i].owner = i /\ claims[i].category = category}}

IsAppBundle(t, row) == IsDir(t.nodes[row.id]) /\ t.nodes[row.id].name \in Bundles

(* The largest MaxConsumers rows and every application, in their order.    *)
Trimmed(t, rows) ==
  LET step(kept, row) == IF Len(kept) < MaxConsumers \/ IsAppBundle(t, row) THEN Append(kept, row) ELSE kept
  IN  FoldLeft(step, <<>>, rows)

Breakdown(t) ==
  LET claims == Claims(t)
      totals == [c \in StorageCategory |-> Wrapped(t, {i \in Ids(t) : claims[i].category = c})]
  IN  [scanned    |-> FoldSet(LAMBDA c, sum : Saturating(sum, totals[c]), 0, StorageCategory),
       categories |-> [c \in StorageCategory |->
                         [total |-> totals[c], consumers |-> Trimmed(t, BySize(t, Consumers(t, claims, c)))]]]

-----------------------------------------------------------------------------
(* inventory.rs.                                                           *)

Row(t, id) == [id |-> id, bytes |-> t.nodes[id].total]

Window(rows) == [total |-> Len(rows), rows |-> SubSeq(rows, 1, Min({MaxInventory, Len(rows)}))]

(* Every bundle of the tree, helpers inside others too.  A name is longer  *)
(* than its ending.                                                        *)
Applications(t) ==
  Window(BySize(t, {Row(t, id) : id \in
    {i \in Ids(t) : IsDir(t.nodes[i]) /\ t.nodes[i].name \in Bundles \ {".app"}}}))

DeveloperKind(name, path) ==
  CASE name = "DerivedData" /\ HasPair(path, "Developer", "Xcode") -> "XcodeDerivedData"
    [] name = "CoreSimulator" /\ Has(path, "Developer")            -> "SimulatorData"
    [] name = "Archives" /\ HasPair(path, "Developer", "Xcode")    -> "XcodeArchives"
    [] name \in {"Caches", "Logs"} /\ Has(path, "Developer")       -> "DeveloperCaches"
    [] name = "node_modules"                                       -> "NodeModules"
    [] name = ".git"                                               -> "GitRepository"
    [] OTHER                                                       -> Unclaimed

(* A .git directory stands for the repository it lies in.                  *)
Reported(t, id, kind) ==
  IF kind = "GitRepository" /\ ParentOf(t, id) # NoNode THEN ParentOf(t, id) ELSE id

(* Mutant: the repository is reported by the size of its .git.             *)
DeveloperItemsOfGit(t) ==
  {[id |-> id, bytes |-> t.nodes[id].total, kind |-> DeveloperKind(t.nodes[id].name, PathOf(t, id))] :
     id \in {i \in Ids(t) : IsDir(t.nodes[i]) /\ DeveloperKind(t.nodes[i].name, PathOf(t, i)) # Unclaimed}}

DeveloperItems(t) ==
  {LET kind == DeveloperKind(t.nodes[id].name, PathOf(t, id))
   IN  [kind |-> kind] @@ Row(t, Reported(t, id, kind)) :
     id \in {i \in Ids(t) : IsDir(t.nodes[i]) /\ DeveloperKind(t.nodes[i].name, PathOf(t, i)) # Unclaimed}}

Developer(t) == Window(BySize(t, DeveloperItems(t)))

-----------------------------------------------------------------------------
Exact(t) == MapThenSumSet(LAMBDA i : t.nodes[i].own, Ids(t)) <= Largest

(* What a row of the breakdown accounts for: the node and what lies below  *)
(* it, down to the next nodes with rows of their own.                      *)
Accounted(t, claims, id) ==
  {i \in Below(t, id) :
     \A own \in Below(t, id) \ {id} : claims[own].owner = own => i \notin Below(t, own)}

(* "The categories therefore partition the scan: their totals sum to the   *)
(* scanned size" (categories.rs:12-14): every byte is in one category, and *)
(* under one consumer of that category but for what the root itself holds. *)
(* A consumer's size is that of what it accounts for, and it calls itself  *)
(* complete if and only if all of that was read in full: an error deep     *)
(* down makes it a lower bound, one under another consumer does not        *)
(* (categories.rs:582 and :616).                                           *)
Partitions(t) ==
  LET claims == Claims(t) broken == Breakdown(t)
      loose == {Root} \cap {i \in Ids(t) : claims[i].owner = NoNode}
      of(c) == MapThenSumSet(LAMBDA row : row.bytes, Consumers(t, claims, c))
  IN  Exact(t) =>
        /\ broken.scanned = t.nodes[Root].total
        /\ \A c \in StorageCategory :
             broken.categories[c].total =
               of(c) + IF claims[Root].category = c THEN MapThenSumSet(LAMBDA i : t.nodes[i].own, loose) ELSE 0
        /\ \A i \in Ids(t) : claims[i].owner # NoNode => claims[claims[i].owner].category = claims[i].category
        /\ \A c \in StorageCategory : \A row \in Consumers(t, claims, c) :
             LET below == Accounted(t, claims, row.id)
             IN  /\ row.bytes = MapThenSumSet(LAMBDA i : t.nodes[i].own, below)
                 /\ row.complete <=> \A i \in below : ~SizeIsPartial(t.nodes[i])

(* An application is the outermost bundle outside build output, and is     *)
(* never cut: each one is in the ranking, however small, with no more than *)
(* it holds, and no bundle in the ranking lies in another; the list of     *)
(* applications counts them all, and leaves one out only for larger ones.  *)
(* Two cases are exempt, in which the repeated rules differ.  A directory  *)
(* named ".app" and no more is ranked (categories.rs:136, :362) and not    *)
(* listed (inventory.rs:139).  Where the scan's root is a bundle, one      *)
(* directly in it has a row of its own, as every child of the root has     *)
(* (categories.rs:249), and is ranked beside the application it is part of *)
ApplicationsAreRanked(t) ==
  LET claims == Claims(t)
      ranked == {row \in ToSet(Breakdown(t).categories["Apps"].consumers) : IsAppBundle(t, row)}
      named == {row \in ranked : t.nodes[row.id].name # ".app"}
      listed == Applications(t)
      bundles == {i \in Ids(t) : IsDir(t.nodes[i]) /\ t.nodes[i].name \in Bundles}
      outer == {i \in bundles : /\ ToSet(AncestorsOf(t, i)) \cap bundles = {}
                                /\ i # Root => claims[ParentOf(t, i)].category # "Development"
                                /\ ~IsInsideBundle(PathOf(t, i))}
      besides == {i \in bundles : Root \in outer /\ ParentOf(t, i) = Root}
  IN  /\ {row.id : row \in ranked} = outer \cup besides
      /\ listed.total >= Cardinality(named)
      /\ \A row \in ranked : row.bytes <= t.nodes[row.id].total
      /\ \A row \in named :
           \/ \E shown \in ToSet(listed.rows) : shown.id = row.id /\ shown.bytes >= row.bytes
           \/ Len(listed.rows) = MaxInventory /\ \A shown \in ToSet(listed.rows) : shown.bytes >= row.bytes

(* The two copies of the developer rules agree: what the developer list    *)
(* shows is what Development claims for a name found anywhere, neither     *)
(* more nor less, with a repository shown by its own size in place of its  *)
(* .git; and what Development claims is counted there, under a row of its  *)
(* own, whatever lies around it.                                           *)
DeveloperListAgrees(t) ==
  LET claims == Claims(t)
      inherited(i) == IF i = Root THEN "Other" ELSE claims[ParentOf(t, i)].category
      claimed == {i \in Ids(t) : IsDir(t.nodes[i]) /\
                    Claim(t.nodes[i].name, PathOf(t, i), TRUE, inherited(i)) = "Development"}
      anywhere == {i \in claimed : ~UnderHome(t.nodes[i].name, PathOf(t, i), DeveloperHomeDirectories)}
      git == {i \in anywhere : t.nodes[i].name = ".git"}
      shown == DeveloperItems(t)
      repository == {item \in shown : item.kind = "GitRepository"}
  IN  /\ Developer(t).total = Cardinality(shown)
      /\ \A item \in shown : item.bytes = t.nodes[item.id].total
      /\ {item.id : item \in repository} = {ParentOf(t, i) : i \in git}
      /\ {item.id : item \in shown \ repository} = anywhere \ git
      /\ \A i \in claimed : claims[i] = [category |-> "Development", owner |-> i]
=============================================================================
