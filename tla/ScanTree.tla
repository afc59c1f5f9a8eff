------------------------------ MODULE ScanTree ------------------------------
(***************************************************************************)
(* The arena a finished scan is kept in: crates/core/src/tree.rs and       *)
(* node.rs, and the page of rows the window reads from it (page of         *)
(* crates/app/src/dto.rs).                                                 *)
(*                                                                         *)
(* A tree is the path of its root and its nodes in the order they were     *)
(* pushed.  A node names its parent by index, 0 for the root's; the code   *)
(* counts from 0 and keeps the children beside the parents.  A path is the *)
(* sequence of its components; sizes are the disk usage everything sorts   *)
(* and rolls up by (the apparent size follows own_bytes and is left out).  *)
(***************************************************************************)
EXTENDS Integers, Sequences, FiniteSets, FiniteSetsExt, SequencesExt

CONSTANTS
  Largest,    \* u64::MAX
  NameRank,   \* name -> its place in the order of strings
  MaxRows     \* MAX_ROWS: rows of one page

ASSUME TreeBounds == Largest \in Nat \ {0} /\ MaxRows \in Nat \ {0}
ASSUME RankAssumption == NameRank \in [DOMAIN NameRank -> Int]

NoNode == 0
Root == 1
Sorts == {"LargestFirst", "SmallestFirst", "NameAscending", "NameDescending"}

Saturating(a, b) == IF a + b > Largest THEN Largest ELSE a + b

EmptyTree(path) == [root_path |-> path, nodes |-> <<>>]
Push(t, node) == [t EXCEPT !.nodes = Append(@, node)]

Ids(t) == DOMAIN t.nodes
ParentOf(t, id) == t.nodes[id].parent
ChildrenOf(t, id) == {c \in Ids(t) : ParentOf(t, c) = id}
IsDir(node) == node.kind = "Directory"
SizeIsPartial(node) == node.read_error \/ node.excluded

(* Every directory from the root down to the parent.                       *)
AncestorsOf(t, id) ==
  LET chain[i \in Ids(t)] ==
        IF ParentOf(t, i) = NoNode THEN <<>> ELSE Append(chain[ParentOf(t, i)], ParentOf(t, i))
  IN  chain[id]

(* A node and all that lies in it.                                         *)
Below(t, id) == {i \in Ids(t) : i = id \/ id \in ToSet(AncestorsOf(t, i))}

(* The root's own name is the whole scan root, so it is left out and the   *)
(* other names follow the root's path.                                     *)
PathOf(t, id) ==
  LET line == Append(AncestorsOf(t, id), id)
  IN  t.root_path \o [k \in 1..(Len(line) - 1) |-> t.nodes[line[k + 1]].name]

(* rollup(): children have the larger index, so one pass from the end.     *)
Rolled(t) ==
  LET total[i \in Ids(t)] ==
        FoldSet(LAMBDA c, sum : Saturating(sum, total[c]), t.nodes[i].own, ChildrenOf(t, i))
  IN  [t EXCEPT !.nodes = [i \in Ids(t) |-> [t.nodes[i] EXCEPT !.total = total[i]]]]

(* The key of the sort, then the name, then the id.                        *)
Before(t, sort, a, b) ==
  LET size == [x \in {a, b} |-> t.nodes[x].total]
      name == [x \in {a, b} |-> NameRank[t.nodes[x].name]]
      key  == CASE sort = "LargestFirst"   -> size[b] - size[a]
                [] sort = "SmallestFirst"  -> size[a] - size[b]
                [] sort = "NameAscending"  -> name[a] - name[b]
                [] sort = "NameDescending" -> name[b] - name[a]
  IN  \/ key < 0
      \/ key = 0 /\ name[a] < name[b]
      \/ key = 0 /\ name[a] = name[b] /\ a < b

(* A child comes after as many as go before it.                            *)
ChildrenSorted(t, id, sort) ==
  LET place(c) == 1 + Cardinality({b \in ChildrenOf(t, id) : Before(t, sort, b, c)})
  IN  [k \in 1..Cardinality(ChildrenOf(t, id)) |-> CHOOSE c \in ChildrenOf(t, id) : place(c) = k]

(* One window of one directory: at most MaxRows rows from the offset on,   *)
(* and how many there are in all.                                          *)
Page(t, id, sort, offset, limit) ==
  LET sorted == ChildrenSorted(t, id, sort)
  IN  [total |-> Len(sorted),
       rows  |-> SubSeq(sorted, offset + 1, Min({offset + Min({limit, MaxRows}), Len(sorted)}))]
=============================================================================
