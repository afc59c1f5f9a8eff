---------------------------- MODULE StorageProofs ----------------------------
(***************************************************************************)
(* Proofs about the storage scan and what is read off it (ScanTree,        *)
(* TreeSink, Categories, Footprint): a finished scan shows the disk it     *)
(* looked at, the categories divide its bytes, and what an application is  *)
(* said to cost is honest. The model adds up bytes over sets and walks     *)
(* trees from a node to its parent; the first parts prove what the         *)
(* library's sums and such recursions compute, by least elements of finite *)
(* families of sets and of sets of numbers. The middle is one inductive    *)
(* invariant of the sink (WholeInv): its types and shape, the entry every  *)
(* node came from, the devices and files seen so far, and what was         *)
(* counted. The last part is one of a measurement (FootInv): what was      *)
(* planned, what a walk has still ahead of it, and every size so far.      *)
(***************************************************************************)
EXTENDS Storage, FiniteSetTheorems, WellFoundedInduction, TLAPS

-----------------------------------------------------------------------------
(* Recursion over finite data.                                             *)

(* Of a family of subsets of a finite set one has no other below it.       *)
LEMMA SmallestOf ==
  ASSUME NEW S, IsFiniteSet(S), NEW T \in SUBSET SUBSET S, T # {}
  PROVE  \E s \in T : \A u \in T : u \subseteq s => u = s
<1>1. T \subseteq FiniteSubsetsOf(S)
  BY FS_FiniteSubsetsOfFinite
<1>2. \E s \in T : \A u \in T : <<u, s>> \notin StrictSubsetOrdering(S)
  <2>1. IsWellFoundedOn(StrictSubsetOrdering(S), FiniteSubsetsOf(S))
    BY FS_StrictSubsetOrderingWellFounded
  <2> QED BY <1>1, <2>1, WFMin
<1>3. \A u, s \in SUBSET S : u \subseteq s /\ u # s => <<u, s>> \in StrictSubsetOrdering(S)
  BY DEF StrictSubsetOrdering
<1> QED BY <1>2, <1>3

(* So what holds of no elements, and of one more than it holds of, holds.  *)
LEMMA OneByOne ==
  ASSUME NEW S, IsFiniteSet(S), NEW Good, {} \in Good,
         \A u \in SUBSET S : \A x \in S : u \in Good /\ x \notin u => u \cup {x} \in Good
  PROVE  S \in Good
<1> DEFINE Bad == (SUBSET S) \ Good
<1> SUFFICES ASSUME Bad # {} PROVE FALSE
  OBVIOUS
<1>1. PICK s \in Bad : \A u \in Bad : u \subseteq s => u = s
  <2>1. Bad \in SUBSET SUBSET S
    OBVIOUS
  <2> HIDE DEF Bad
  <2> QED BY <2>1, SmallestOf
<1>2. PICK x \in s : TRUE
  BY <1>1
<1>3. s \ {x} \in Good /\ s \ {x} \in SUBSET S /\ x \in S
  <2>1. s \ {x} \subseteq s /\ s \ {x} # s
    BY <1>2
  <2> QED BY <1>1, <2>1
<1>4. (s \ {x}) \cup {x} = s
  BY <1>2
<1>5. (s \ {x}) \cup {x} \in Good
  BY <1>3
<1> QED BY <1>1, <1>4, <1>5

(* Of numbers that are not too large one is the least, one the greatest.   *)
LEMMA LeastOf ==
  ASSUME NEW n \in Nat, NEW T \in SUBSET (1..n), T # {}
  PROVE  /\ \E x \in T : \A y \in T : x <= y
         /\ \E x \in T : \A y \in T : y <= x
<1>1. IsFiniteSet(1..n)
  BY FS_Interval
<1> DEFINE Upto == {1..x : x \in T}
           From == {x..n : x \in T}
<1>2. Upto \in SUBSET SUBSET (1..n) /\ From \in SUBSET SUBSET (1..n)
  OBVIOUS
<1>3. PICK s \in Upto : \A u \in Upto : u \subseteq s => u = s
  <2> DEFINE N == 1..n
  <2>1. IsFiniteSet(N) /\ Upto \in SUBSET SUBSET N /\ Upto # {}
    BY <1>1, <1>2
  <2> HIDE DEF Upto, N
  <2>2. \E s \in Upto : \A u \in Upto : u \subseteq s => u = s
    BY <2>1, SmallestOf
  <2> QED BY <2>2
<1>4. PICK r \in From : \A u \in From : u \subseteq r => u = r
  <2> DEFINE N == 1..n
  <2>1. IsFiniteSet(N) /\ From \in SUBSET SUBSET N /\ From # {}
    BY <1>1, <1>2
  <2> HIDE DEF From, N
  <2>2. \E r \in From : \A u \in From : u \subseteq r => u = r
    BY <2>1, SmallestOf
  <2> QED BY <2>2
<1>5. PICK x \in T : s = 1..x
  BY <1>3
<1>6. PICK z \in T : r = z..n
  BY <1>4
<1>7. \A y \in T : x <= y
  <2> SUFFICES ASSUME NEW y \in T, y < x PROVE FALSE
    OBVIOUS
  <2>1. 1..y \subseteq 1..x /\ x \in 1..x /\ x \notin 1..y
    OBVIOUS
  <2> QED BY <1>3, <1>5, <2>1
<1>8. \A y \in T : y <= z
  <2> SUFFICES ASSUME NEW y \in T, z < y PROVE FALSE
    OBVIOUS
  <2>1. y..n \subseteq z..n /\ z \in z..n /\ z \notin y..n
    OBVIOUS
  <2> QED BY <1>4, <1>6, <2>1
<1> QED BY <1>7, <1>8

(* f is the fold of h over the subsets of S, from base, in the order in    *)
(* which CHOOSE picks the elements of a set.                               *)
Picked(s) == CHOOSE x \in s : TRUE
FoldOf(f, h, base, S) ==
  /\ f = [s \in SUBSET S |-> f[s]]
  /\ f[{}] = base
  /\ \A s \in SUBSET S : s # {} => f[s] = h[Picked(s)][f[s \ {Picked(s)}]]

(* Two folds with one operator agree on the subsets they share.            *)
LEMMA FoldsAgree ==
  ASSUME NEW S, NEW T, IsFiniteSet(S), NEW h, NEW base, NEW f, NEW g,
         FoldOf(f, h, base, S), FoldOf(g, h, base, T)
  PROVE  \A s \in SUBSET S : s \subseteq T => f[s] = g[s]
<1> DEFINE Bad == {s \in SUBSET S : s \subseteq T /\ f[s] # g[s]}
<1> SUFFICES ASSUME Bad # {} PROVE FALSE
  OBVIOUS
<1>1. PICK s \in Bad : \A u \in Bad : u \subseteq s => u = s
  <2>1. Bad \in SUBSET SUBSET S
    OBVIOUS
  <2> HIDE DEF Bad
  <2> QED BY <2>1, SmallestOf
<1>2. s \in SUBSET S /\ s \in SUBSET T /\ f[s] # g[s]
  BY <1>1
<1>3. s # {}
  BY <1>2 DEF FoldOf
<1> DEFINE p == Picked(s)
<1>4. p \in s
  BY <1>3 DEF Picked
<1> HIDE DEF p
<1>5. s \ {p} \in SUBSET S /\ s \ {p} \in SUBSET T /\ s \ {p} \notin Bad
  <2>1. s \ {p} \subseteq s /\ s \ {p} # s
    BY <1>4
  <2> QED BY <1>1, <1>2, <2>1
<1>6. f[s \ {p}] = g[s \ {p}]
  BY <1>5
<1>7. f[s] = h[p][f[s \ {p}]] /\ g[s] = h[p][g[s \ {p}]]
  BY <1>2, <1>3 DEF FoldOf, p
<1> QED BY <1>2, <1>6, <1>7

(* Over a finite set there is such a fold.                                 *)
LEMMA FoldExists ==
  ASSUME NEW S, IsFiniteSet(S), NEW h, NEW base
  PROVE  \E f : FoldOf(f, h, base, S)
<1> DEFINE Bad == {s \in SUBSET S : ~\E f : FoldOf(f, h, base, s)}
<1> SUFFICES ASSUME Bad # {} PROVE FALSE
  BY DEF FoldOf
<1>1. PICK s \in Bad : \A u \in Bad : u \subseteq s => u = s
  <2>1. Bad \in SUBSET SUBSET S
    OBVIOUS
  <2> HIDE DEF Bad
  <2> QED BY <2>1, SmallestOf
<1> DEFINE fold(u) == CHOOSE f : FoldOf(f, h, base, u)
<1>2. \A u \in SUBSET s : u # s => FoldOf(fold(u), h, base, u)
  <2>1. \A u \in SUBSET s : u # s => \E f : FoldOf(f, h, base, u)
    BY <1>1
  <2> QED BY <2>1
<1> DEFINE g == [u \in SUBSET s |-> IF u = {} THEN base ELSE h[Picked(u)][fold(u \ {Picked(u)})[u \ {Picked(u)}]]]
<1>3. \A u \in SUBSET s : u # {} => Picked(u) \in u
  BY DEF Picked
<1>4. ASSUME NEW u \in SUBSET s, u # s PROVE g[u] = fold(u)[u]
  <2>0. FoldOf(fold(u), h, base, u)
    BY <1>2, <1>4
  <2> DEFINE v == u \ {Picked(u)}
  <2>1. CASE u = {}
    BY <2>0, <2>1 DEF FoldOf
  <2>2. CASE u # {}
    <3>1. v \in SUBSET s /\ v \in SUBSET u /\ v # s
      BY <1>3, <2>2
    <3>2. FoldOf(fold(v), h, base, v)
      BY <1>2, <3>1
    <3>3. IsFiniteSet(v)
      BY <3>1, <1>1, FS_Subset
    <3> HIDE DEF v, fold
    <3>4. fold(v)[v] = fold(u)[v]
      BY <2>0, <3>1, <3>2, <3>3, FoldsAgree
    <3>5. fold(u)[u] = h[Picked(u)][fold(u)[v]]
      BY <2>0, <2>2 DEF FoldOf, v
    <3>6. g[u] = h[Picked(u)][fold(v)[v]]
      BY <2>2 DEF v
    <3> QED BY <3>4, <3>5, <3>6
  <2> QED BY <2>1, <2>2
<1>5. FoldOf(g, h, base, s)
  <2>1. g = [u \in SUBSET s |-> g[u]] /\ g[{}] = base
    OBVIOUS
  <2>2. ASSUME NEW u \in SUBSET s, u # {} PROVE g[u] = h[Picked(u)][g[u \ {Picked(u)}]]
    <3> DEFINE v == u \ {Picked(u)}
    <3>1. v \in SUBSET s /\ v # s
      BY <1>3, <2>2
    <3>2. g[v] = fold(v)[v]
      BY <1>4, <3>1
    <3>3. g[u] = h[Picked(u)][fold(v)[v]]
      BY <2>2
    <3> HIDE DEF g, v, fold
    <3>4. g[u] = h[Picked(u)][g[v]]
      BY <3>2, <3>3
    <3> QED BY <3>4 DEF v
  <2> HIDE DEF g
  <2> QED BY <2>1, <2>2 DEF FoldOf
<1> QED BY <1>1, <1>5

(* A fold stays among the values its operator stays among.                 *)
LEMMA FoldTyped ==
  ASSUME NEW D, NEW S \in SUBSET D, IsFiniteSet(S), NEW V, NEW base \in V, NEW h \in [D -> [V -> V]],
         NEW f, FoldOf(f, h, base, S)
  PROVE  f \in [SUBSET S -> V]
<1> DEFINE Bad == {s \in SUBSET S : f[s] \notin V}
<1>1. SUFFICES Bad = {}
  <2>1. f = [s \in SUBSET S |-> f[s]]
    BY DEF FoldOf
  <2> QED BY <2>1
<1> SUFFICES ASSUME Bad # {} PROVE FALSE
  OBVIOUS
<1>2. PICK s \in Bad : \A u \in Bad : u \subseteq s => u = s
  <2>1. Bad \in SUBSET SUBSET S
    OBVIOUS
  <2> HIDE DEF Bad
  <2> QED BY <2>1, SmallestOf
<1>3. s # {}
  BY <1>2 DEF FoldOf
<1> DEFINE p == Picked(s)
<1>4. p \in s
  BY <1>3 DEF Picked
<1>5. f[s] = h[p][f[s \ {p}]]
  BY <1>2, <1>3 DEF FoldOf
<1> HIDE DEF p
<1>6. f[s \ {p}] \in V
  <2>1. s \ {p} \subseteq s /\ s \ {p} # s
    BY <1>4
  <2> QED BY <1>2, <2>1
<1>7. p \in D
  BY <1>2, <1>4
<1> QED BY <1>2, <1>5, <1>6, <1>7

-----------------------------------------------------------------------------
(* Sums over finite sets.                                                  *)
SumOver(w, S) == MapThenSumSet(LAMBDA k : w[k], S)
Weighs(w, S) == IsFiniteSet(S) /\ \A x \in S : w[x] \in Int

(* What adds up w over every subset of S, one element at a time.           *)
AddsUp(f, w, S) ==
  /\ f[{}] = 0
  /\ \A s \in SUBSET S : s # {} => f[s] = w[Picked(s)] + f[s \ {Picked(s)}]
AddsUpInt(f, w, S) == f \in [SUBSET S -> Int] /\ AddsUp(f, w, S)

(* Over a finite set there is a table of all the sums.                     *)
LEMMA SumExists ==
  ASSUME NEW S, NEW w, Weighs(w, S)
  PROVE  \E f : AddsUpInt(f, w, S)
<1> DEFINE h == [x \in S |-> [n \in Int |-> w[x] + n]]
           V == Int
<1>0. IsFiniteSet(S)
  BY DEF Weighs
<1>1. PICK f : FoldOf(f, h, 0, S)
  <2> HIDE DEF h
  <2> QED BY <1>0, FoldExists
<1>2. h \in [S -> [V -> V]] /\ 0 \in V /\ \A x \in S, n \in V : h[x][n] = w[x] + n
  BY DEF Weighs
<1> HIDE DEF h
<1>3. f \in [SUBSET S -> V]
  <2> HIDE DEF V
  <2> QED BY <1>0, <1>1, <1>2, FoldTyped
<1>4. \A s \in SUBSET S : s # {} => Picked(s) \in S /\ s \ {Picked(s)} \in SUBSET S
  BY DEF Picked
<1>5. \A s \in SUBSET S : s # {} => f[s] = w[Picked(s)] + f[s \ {Picked(s)}]
  BY <1>1, <1>2, <1>3, <1>4 DEF FoldOf
<1> QED BY <1>1, <1>3, <1>5 DEF AddsUp, AddsUpInt, FoldOf

(* Whatever does so comes to the same.                                     *)
LEMMA SumAgrees ==
  ASSUME NEW S, IsFiniteSet(S), NEW w, NEW f, NEW g, AddsUp(f, w, S), AddsUp(g, w, S)
  PROVE  g[S] = f[S]
<1> DEFINE Bad == {s \in SUBSET S : g[s] # f[s]}
<1> SUFFICES ASSUME Bad # {} PROVE FALSE
  OBVIOUS
<1>2. PICK s \in Bad : \A u \in Bad : u \subseteq s => u = s
  <2>1. Bad \in SUBSET SUBSET S
    OBVIOUS
  <2> HIDE DEF Bad
  <2> QED BY <2>1, SmallestOf
<1>3. s # {}
  BY <1>2 DEF AddsUp
<1> DEFINE p == Picked(s)
<1>4. p \in s
  BY <1>3 DEF Picked
<1>5. f[s] = w[p] + f[s \ {p}] /\ g[s] = w[p] + g[s \ {p}]
  BY <1>2, <1>3 DEF AddsUp
<1> HIDE DEF p
<1>6. f[s \ {p}] = g[s \ {p}]
  <2>1. s \ {p} \subseteq s /\ s \ {p} # s
    BY <1>4
  <2> QED BY <1>2, <2>1
<1> QED BY <1>2, <1>5, <1>6

(* SumOver is what that table holds for the whole set.                     *)
LEMMA SumIs ==
  ASSUME NEW S, NEW w, Weighs(w, S), NEW f, AddsUp(f, w, S)
  PROVE  SumOver(w, S) = f[S]
<1>1. PICK e : AddsUpInt(e, w, S)
  BY SumExists
<1> DEFINE g == CHOOSE iter : iter = [s \in SUBSET S |-> IF s = {} THEN 0
                  ELSE w[CHOOSE x \in s : TRUE] + iter[s \ {CHOOSE x \in s : TRUE}]]
<1>2. e = [s \in SUBSET S |-> IF s = {} THEN 0 ELSE w[CHOOSE x \in s : TRUE] + e[s \ {CHOOSE x \in s : TRUE}]]
  BY <1>1 DEF AddsUp, AddsUpInt, Picked
<1>3. g = [s \in SUBSET S |-> IF s = {} THEN 0 ELSE w[CHOOSE x \in s : TRUE] + g[s \ {CHOOSE x \in s : TRUE}]]
  BY <1>2
<1>4. SumOver(w, S) = g[S]
  BY DEF SumOver, MapThenSumSet, MapThenFoldSet
<1> HIDE DEF g
<1>5. AddsUp(g, w, S)
  BY <1>3 DEF AddsUp, Picked
<1>6. g[S] = f[S]
  BY <1>5, SumAgrees DEF Weighs
<1> QED BY <1>4, <1>6

(* A part of what can be weighed can be weighed.                           *)
LEMMA Part ==
  ASSUME NEW S, NEW w, Weighs(w, S), NEW T \in SUBSET S
  PROVE  Weighs(w, T)
BY FS_Subset DEF Weighs

(* One table holds the sums of all subsets.                                *)
SumTable(f, w, S) == AddsUpInt(f, w, S) /\ \A T \in SUBSET S : f[T] = SumOver(w, T)

(* The library's sum of every subset, in one function.                     *)
LEMMA SumTables ==
  ASSUME NEW S, NEW w, Weighs(w, S)
  PROVE  \E f : SumTable(f, w, S)
<1>1. PICK f : AddsUpInt(f, w, S)
  BY SumExists
<1>2. ASSUME NEW T \in SUBSET S PROVE f[T] = SumOver(w, T)
  <2>1. AddsUp(f, w, T)
    BY <1>1 DEF AddsUpInt, AddsUp
  <2> QED BY <2>1, Part, SumIs
<1> QED BY <1>1, <1>2 DEF SumTable

(* A sum of integers is one, and the empty sum is zero.                    *)
LEMMA SumType ==
  ASSUME NEW S, NEW w, Weighs(w, S)
  PROVE  SumOver(w, S) \in Int /\ (S = {} => SumOver(w, S) = 0)
<1>1. PICK f : SumTable(f, w, S)
  BY SumTables
<1> QED BY <1>1 DEF SumTable, AddsUpInt, AddsUp

(* Any element may be added last.                                          *)
LEMMA SumSplit ==
  ASSUME NEW S, NEW w, Weighs(w, S), NEW y \in S
  PROVE  SumOver(w, S) = w[y] + SumOver(w, S \ {y})
<1>1. PICK f : SumTable(f, w, S)
  BY SumTables
<1>0. f \in [SUBSET S -> Int] /\ IsFiniteSet(S) /\ \A x \in S : w[x] \in Int
  BY <1>1 DEF SumTable, AddsUpInt, Weighs
<1> DEFINE Bad == {s \in SUBSET S : \E x \in s : f[s] # w[x] + f[s \ {x}]}
<1>2. SUFFICES ASSUME Bad # {} PROVE FALSE
  BY <1>1 DEF SumTable
<1>3. PICK s \in Bad : \A u \in Bad : u \subseteq s => u = s
  <2>1. Bad \in SUBSET SUBSET S
    OBVIOUS
  <2> HIDE DEF Bad
  <2> QED BY <1>0, <1>2, <2>1, SmallestOf
<1>4. PICK x \in s : f[s] # w[x] + f[s \ {x}]
  BY <1>3
<1> DEFINE p == Picked(s)
<1>5. p \in s
  BY <1>4 DEF Picked
<1>6. f[s] = w[p] + f[s \ {p}]
  BY <1>1, <1>3, <1>4 DEF SumTable, AddsUpInt, AddsUp
<1> HIDE DEF p
<1>7. x # p
  BY <1>4, <1>6
<1>8. s \ {p} \in SUBSET S /\ s \ {x} \in SUBSET S /\ s \ {p} # s /\ s \ {x} # s /\ (s \ {p}) \ {x} = (s \ {x}) \ {p}
  BY <1>3, <1>4, <1>5
<1>9. s \ {p} \notin Bad /\ s \ {x} \notin Bad
  BY <1>3, <1>8
<1>10. /\ f[s \ {p}] = w[x] + f[(s \ {p}) \ {x}]
       /\ f[s \ {x}] = w[p] + f[(s \ {x}) \ {p}]
  BY <1>4, <1>5, <1>7, <1>8, <1>9
<1>11. w[x] \in Int /\ w[p] \in Int /\ f[(s \ {p}) \ {x}] \in Int
  <2>1. (s \ {p}) \ {x} \in SUBSET S /\ x \in S /\ p \in S
    BY <1>3, <1>4, <1>5
  <2> QED BY <1>0, <2>1
<1> DEFINE rest == f[(s \ {p}) \ {x}]
<1>12. f[s] = w[p] + (w[x] + rest) /\ f[s] # w[x] + (w[p] + rest) /\ rest \in Int
  BY <1>4, <1>6, <1>8, <1>10, <1>11
<1> HIDE DEF rest
<1> QED BY <1>11, <1>12

(* The sum of a part and of the rest.                                      *)
LEMMA SumUnion ==
  ASSUME NEW S, NEW w, Weighs(w, S), NEW T \in SUBSET S
  PROVE  SumOver(w, S) = SumOver(w, T) + SumOver(w, S \ T)
<1> DEFINE R == S \ T
           Bad == {u \in SUBSET T : SumOver(w, R \cup u) # SumOver(w, u) + SumOver(w, R)}
<1>1. Weighs(w, R) /\ Weighs(w, T)
  BY Part
<1> SUFFICES ASSUME Bad # {} PROVE FALSE
  <2>1. R \cup T = S
    OBVIOUS
  <2> QED BY <2>1
<1>3. PICK u \in Bad : \A v \in Bad : v \subseteq u => v = u
  <2>1. Bad \in SUBSET SUBSET T /\ IsFiniteSet(T)
    BY <1>1 DEF Weighs
  <2> HIDE DEF Bad
  <2> QED BY <2>1, SmallestOf
<1>30. u \in SUBSET T /\ SumOver(w, R \cup u) # SumOver(w, u) + SumOver(w, R)
  BY <1>3
<1>4. u # {}
  <2>1. SumOver(w, R) \in Int /\ SumOver(w, {}) = 0
    <3>1. Weighs(w, {})
      BY <1>1, Part
    <3> QED BY <1>1, <3>1, SumType
  <2>2. SUFFICES ASSUME u = {} PROVE FALSE
    OBVIOUS
  <2>3. R \cup u = R
    BY <2>2
  <2>4. SumOver(w, R \cup u) = SumOver(w, R) /\ SumOver(w, u) = SumOver(w, {})
    BY <2>2, <2>3, Zenon
  <2> QED BY <1>30, <2>1, <2>4
<1>5. PICK x \in u : TRUE
  BY <1>4
<1> DEFINE v == u \ {x}
           B == R \cup u
<1>6. v \in SUBSET T /\ v # u /\ v \subseteq u /\ B \in SUBSET S /\ u \in SUBSET S /\ v \in SUBSET S /\ B \ {x} = R \cup v
      /\ x \in B /\ x \in S
  BY <1>30, <1>5
<1>7. Weighs(w, B) /\ Weighs(w, u) /\ Weighs(w, v)
  BY <1>6, Part
<1>8. SumOver(w, R \cup v) = SumOver(w, v) + SumOver(w, R)
  <2>1. v \notin Bad
    BY <1>3, <1>6
  <2> QED BY <1>6, <2>1
<1>9. SumOver(w, B) = w[x] + SumOver(w, B \ {x}) /\ SumOver(w, u) = w[x] + SumOver(w, v)
  BY <1>5, <1>6, <1>7, SumSplit
<1>10. SumOver(w, v) \in Int /\ SumOver(w, R) \in Int /\ w[x] \in Int
  BY <1>1, <1>6, <1>7, SumType DEF Weighs
<1>11. SumOver(w, B) # SumOver(w, u) + SumOver(w, R)
  BY <1>30
<1>12. SumOver(w, B \ {x}) = SumOver(w, R \cup v)
  <2>1. B \ {x} = R \cup v
    BY <1>6
  <2> QED BY <2>1, Zenon
<1> HIDE DEF v, B, R
<1>13. \A a, b, c \in Int : (a + (b + c)) = (a + b) + c
  OBVIOUS
<1>14. SumOver(w, B) = w[x] + (SumOver(w, v) + SumOver(w, R))
  BY <1>8, <1>9, <1>12
<1> QED BY <1>9, <1>10, <1>11, <1>13, <1>14

(* One element more adds its weight.                                       *)
LEMMA SumAdd ==
  ASSUME NEW S, NEW w, Weighs(w, S), NEW u \in SUBSET S, NEW x \in S, x \notin u
  PROVE  SumOver(w, u \cup {x}) = w[x] + SumOver(w, u)
<1> DEFINE v == u \cup {x}
<1>1. Weighs(w, v) /\ x \in v
  BY Part
<1>2. v \ {x} = u
  OBVIOUS
<1> HIDE DEF v
<1>3. SumOver(w, v) = w[x] + SumOver(w, v \ {x})
  BY <1>1, SumSplit
<1>4. SumOver(w, v \ {x}) = SumOver(w, u)
  BY <1>2, Zenon
<1> QED BY <1>3, <1>4 DEF v

(* The sum over nothing is zero, whatever the weights.                     *)
LEMMA SumNone ==
  ASSUME NEW w PROVE SumOver(w, {}) = 0
BY SumType, FS_EmptySet DEF Weighs

(* Equal weights give equal sums.                                          *)
LEMMA SumSame ==
  ASSUME NEW S, NEW w, NEW v, Weighs(w, S), \A x \in S : w[x] = v[x]
  PROVE  SumOver(w, S) = SumOver(v, S)
<1>1. Weighs(v, S)
  BY DEF Weighs
<1>2. PICK f : SumTable(f, w, S)
  BY SumTables
<1>3. AddsUp(f, v, S)
  BY <1>2 DEF SumTable, AddsUpInt, AddsUp, Picked
<1> QED BY <1>1, <1>2, <1>3, SumIs DEF SumTable

(* Smaller weights give no larger sum.                                     *)
LEMMA SumLeq ==
  ASSUME NEW S, NEW w, NEW v, Weighs(w, S), Weighs(v, S), \A x \in S : w[x] <= v[x]
  PROVE  SumOver(w, S) <= SumOver(v, S)
<1> DEFINE Good == {u \in SUBSET S : SumOver(w, u) <= SumOver(v, u)}
<1>1. {} \in Good
  BY SumNone
<1>2. ASSUME NEW u \in SUBSET S, NEW x \in S, u \in Good, x \notin u PROVE u \cup {x} \in Good
  <2>1. SumOver(w, u \cup {x}) = w[x] + SumOver(w, u) /\ SumOver(v, u \cup {x}) = v[x] + SumOver(v, u)
    BY <1>2, SumAdd
  <2>2. SumOver(w, u) \in Int /\ SumOver(v, u) \in Int /\ w[x] \in Int /\ v[x] \in Int
    BY Part, SumType DEF Weighs
  <2>3. SumOver(w, u \cup {x}) <= SumOver(v, u \cup {x})
    BY <1>2, <2>1, <2>2
  <2> QED BY <2>3
<1>3. S \in Good
  <2> HIDE DEF Good
  <2> QED BY <1>1, <1>2, OneByOne DEF Weighs
<1> QED BY <1>3

(* Of weights that are not negative a part weighs at most as much as the   *)
(* whole.                                                                  *)
LEMMA SumNat ==
  ASSUME NEW S, NEW w, Weighs(w, S), \A x \in S : w[x] >= 0
  PROVE  SumOver(w, S) \in Nat /\ \A T \in SUBSET S : SumOver(w, T) <= SumOver(w, S)
<1> DEFINE Good == {u \in SUBSET S : SumOver(w, u) >= 0}
<1>1. {} \in Good
  BY SumNone
<1>2. ASSUME NEW u \in SUBSET S, NEW x \in S, u \in Good, x \notin u PROVE u \cup {x} \in Good
  <2>1. SumOver(w, u \cup {x}) = w[x] + SumOver(w, u)
    BY <1>2, SumAdd
  <2>2. SumOver(w, u) \in Int /\ w[x] \in Int
    BY Part, SumType DEF Weighs
  <2>3. SumOver(w, u \cup {x}) >= 0
    BY <1>2, <2>1, <2>2
  <2> QED BY <2>3
<1>3. \A T \in SUBSET S : T \in Good
  <2> TAKE T \in SUBSET S
  <2>1. \A u \in SUBSET T : \A x \in T : u \in Good /\ x \notin u => u \cup {x} \in Good
    <3>1. \A u \in SUBSET T : \A x \in T : u \in SUBSET S /\ x \in S
      OBVIOUS
    <3> HIDE DEF Good
    <3> QED BY <1>2, <3>1
  <2>2. IsFiniteSet(T)
    BY Part DEF Weighs
  <2> HIDE DEF Good
  <2> QED BY <1>1, <2>1, <2>2, OneByOne
<1>4. ASSUME NEW T \in SUBSET S PROVE SumOver(w, T) <= SumOver(w, S)
  <2>1. SumOver(w, S) = SumOver(w, T) + SumOver(w, S \ T)
    BY SumUnion
  <2>2. S \ T \in SUBSET S
    OBVIOUS
  <2>3. SumOver(w, S \ T) >= 0 /\ SumOver(w, S \ T) \in Int /\ SumOver(w, T) \in Int
    BY <1>3, <2>2, Part, SumType
  <2> QED BY <2>1, <2>3
<1> QED BY <1>3, <1>4, SumType

(* The sum of two weights is the sum of their sums.                        *)
LEMMA SumPlus ==
  ASSUME NEW S, NEW w, NEW v, NEW z, Weighs(w, S), Weighs(v, S), \A x \in S : z[x] = w[x] + v[x]
  PROVE  SumOver(z, S) = SumOver(w, S) + SumOver(v, S)
<1>0. Weighs(z, S)
  BY DEF Weighs
<1> DEFINE Good == {u \in SUBSET S : SumOver(z, u) = SumOver(w, u) + SumOver(v, u)}
<1>1. {} \in Good
  BY SumNone
<1>2. ASSUME NEW u \in SUBSET S, NEW x \in S, u \in Good, x \notin u PROVE u \cup {x} \in Good
  <2>1. /\ SumOver(w, u \cup {x}) = w[x] + SumOver(w, u) /\ SumOver(v, u \cup {x}) = v[x] + SumOver(v, u)
        /\ SumOver(z, u \cup {x}) = z[x] + SumOver(z, u)
    BY <1>0, <1>2, SumAdd
  <2>2. SumOver(w, u) \in Int /\ SumOver(v, u) \in Int /\ w[x] \in Int /\ v[x] \in Int
    BY Part, SumType DEF Weighs
  <2>3. SumOver(z, u \cup {x}) = SumOver(w, u \cup {x}) + SumOver(v, u \cup {x})
    BY <1>2, <2>1, <2>2
  <2> QED BY <2>3
<1>3. S \in Good
  <2> HIDE DEF Good
  <2> QED BY <1>1, <1>2, OneByOne DEF Weighs
<1> QED BY <1>3

(* The sum over disjoint parts is the sum of theirs.                       *)
LEMMA SumParts ==
  ASSUME NEW S, NEW w, Weighs(w, S), NEW C, IsFiniteSet(C), NEW P \in [C -> SUBSET S],
         \A c, d \in C : c # d => P[c] \cap P[d] = {}
  PROVE  SumOver(w, UNION {P[c] : c \in C}) = SumOver([c \in C |-> SumOver(w, P[c])], C)
<1> DEFINE v == [c \in C |-> SumOver(w, P[c])]
           Of(u) == UNION {P[c] : c \in u}
           Good == {u \in SUBSET C : SumOver(w, Of(u)) = SumOver(v, u)}
<1>0. Weighs(v, C)
  BY Part, SumType DEF Weighs
<1>1. {} \in Good
  <2>1. Of({}) = {}
    OBVIOUS
  <2>2. SumOver(w, Of({})) = SumOver(w, {})
    BY <2>1, Zenon
  <2> QED BY <2>2, SumNone
<1>2. ASSUME NEW u \in SUBSET C, NEW x \in C, u \in Good, x \notin u PROVE u \cup {x} \in Good
  <2> DEFINE B == Of(u \cup {x})
  <2>1. B \in SUBSET S /\ Of(u) \in SUBSET B /\ B \ Of(u) = P[x]
    BY <1>2
  <2>2. Weighs(w, B)
    BY <2>1, Part
  <2>3. SumOver(w, B) = SumOver(w, Of(u)) + SumOver(w, B \ Of(u))
    <3> HIDE DEF B, Of
    <3> QED BY <2>1, <2>2, SumUnion
  <2>4. SumOver(w, B \ Of(u)) = SumOver(w, P[x])
    BY <2>1, Zenon
  <2>5. SumOver(v, u \cup {x}) = v[x] + SumOver(v, u)
    <3> HIDE DEF v
    <3> QED BY <1>0, <1>2, SumAdd
  <2>6. SumOver(w, P[x]) \in Int /\ SumOver(v, u) \in Int
    <3>1. P[x] \in SUBSET S
      OBVIOUS
    <3> HIDE DEF v
    <3> QED BY <1>0, <3>1, Part, SumType
  <2>7. SumOver(w, Of(u)) = SumOver(v, u) /\ v[x] = SumOver(w, P[x])
    BY <1>2
  <2>8. SumOver(w, B) = SumOver(v, u \cup {x})
    <3> HIDE DEF v, B, Of
    <3> QED BY <2>3, <2>4, <2>5, <2>6, <2>7
  <2> QED BY <2>8
<1>3. C \in Good
  <2> HIDE DEF Good
  <2> QED BY <1>1, <1>2, OneByOne
<1> QED BY <1>3

(* What is renamed one to one adds up to the same.                         *)
LEMMA SumRenamed ==
  ASSUME NEW S, NEW w, Weighs(w, S), NEW C, NEW g \in [C -> S], \A c, d \in C : c # d => g[c] # g[d],
         \A x \in S : \E c \in C : g[c] = x
  PROVE  IsFiniteSet(C) /\ SumOver(w, S) = SumOver([c \in C |-> w[g[c]]], C)
<1>1. IsFiniteSet(C)
  <2>1. IsFiniteSet(S) /\ g \in Injection(C, S)
    BY DEF Weighs, Injection, IsInjective
  <2> QED BY <2>1, FS_Injection
<1> DEFINE P == [c \in C |-> {g[c]}]
<1>2. P \in [C -> SUBSET S] /\ \A c, d \in C : c # d => P[c] \cap P[d] = {}
  OBVIOUS
<1>3. UNION {P[c] : c \in C} = S
  OBVIOUS
<1>4. SumOver(w, UNION {P[c] : c \in C}) = SumOver([c \in C |-> SumOver(w, P[c])], C)
  <2> HIDE DEF P
  <2> QED BY <1>1, <1>2, SumParts
<1>5. \A c \in C : SumOver(w, P[c]) = w[g[c]] /\ w[g[c]] \in Int
  <2> TAKE c \in C
  <2>1. SumOver(w, {} \cup {g[c]}) = w[g[c]] + SumOver(w, {})
    BY SumAdd
  <2>2. {} \cup {g[c]} = P[c]
    OBVIOUS
  <2>3. SumOver(w, {} \cup {g[c]}) = SumOver(w, P[c])
    BY <2>2, Zenon
  <2>4. w[g[c]] \in Int
    BY DEF Weighs
  <2> QED BY <2>1, <2>3, <2>4, SumNone
<1>6. [c \in C |-> SumOver(w, P[c])] = [c \in C |-> w[g[c]]]
  BY <1>5
<1>7. SumOver(w, UNION {P[c] : c \in C}) = SumOver(w, S)
  BY <1>3, Zenon
<1> QED BY <1>1, <1>4, <1>6, <1>7, Zenon

-----------------------------------------------------------------------------
(* Numbers from 1 on, and what is computed along them.                     *)

(* Induction from 1 up to n.                                               *)
LEMMA Upwards ==
  ASSUME NEW n \in Nat, NEW Good,
         \A i \in 1..n : (\A j \in 1..n : j < i => j \in Good) => i \in Good
  PROVE  1..n \subseteq Good
<1> DEFINE Bad == {i \in 1..n : i \notin Good}
<1> SUFFICES ASSUME Bad # {} PROVE FALSE
  OBVIOUS
<1>1. PICK x \in Bad : \A y \in Bad : x <= y
  <2>1. Bad \in SUBSET (1..n)
    OBVIOUS
  <2> HIDE DEF Bad
  <2> QED BY <2>1, LeastOf
<1> QED BY <1>1

(* Induction from n down to 1.                                             *)
LEMMA Downwards ==
  ASSUME NEW n \in Nat, NEW Good,
         \A i \in 1..n : (\A j \in 1..n : i < j => j \in Good) => i \in Good
  PROVE  1..n \subseteq Good
<1> DEFINE Bad == {i \in 1..n : i \notin Good}
<1> SUFFICES ASSUME Bad # {} PROVE FALSE
  OBVIOUS
<1>1. PICK x \in Bad : \A y \in Bad : y <= x
  <2>1. Bad \in SUBSET (1..n)
    OBVIOUS
  <2> HIDE DEF Bad
  <2> QED BY <2>1, LeastOf
<1> QED BY <1>1

(* A function whose value depends on that of one smaller number, or none.  *)
FromUp(f, n, up, first, next) ==
  /\ f = [i \in 1..n |-> f[i]]
  /\ \A i \in 1..n : f[i] = IF up[i] = 0 THEN first[i] ELSE next[i][f[up[i]]]

(* Such a function exists, whatever is computed.                           *)
LEMMA FromUpExists ==
  ASSUME NEW n \in Nat, NEW up, \A i \in 1..n : up[i] \in Nat /\ up[i] < i, NEW first, NEW next
  PROVE  \E f : FromUp(f, n, up, first, next)
<1> DEFINE Good == {m \in 0..n : \E f : FromUp(f, m, up, first, next)}
           Bad == {m \in 1..n : m \notin Good}
<1>1. 0 \in Good
  <2>1. FromUp([i \in 1..0 |-> 0], 0, up, first, next)
    BY DEF FromUp
  <2> QED BY <2>1
<1>2. ASSUME Bad # {} PROVE FALSE
  <2>1. PICK m \in Bad : \A y \in Bad : m <= y
    <3>1. Bad \in SUBSET (1..n)
      OBVIOUS
    <3> HIDE DEF Bad
    <3> QED BY <1>2, <3>1, LeastOf
  <2>2. m \in 1..n /\ m - 1 \in Good
    BY <1>1, <2>1
  <2>3. PICK f : FromUp(f, m - 1, up, first, next)
    BY <2>2
  <2> DEFINE g == [i \in 1..m |-> IF i < m THEN f[i] ELSE IF up[m] = 0 THEN first[m] ELSE next[m][f[up[m]]]]
  <2>4. ASSUME NEW i \in 1..m PROVE g[i] = IF up[i] = 0 THEN first[i] ELSE next[i][g[up[i]]]
    <3>1. i \in 1..n /\ up[i] \in Nat /\ up[i] < i
      BY <2>2
    <3>2. up[i] # 0 => up[i] \in 1..(m - 1) /\ g[up[i]] = f[up[i]]
      BY <2>2, <3>1
    <3>3. CASE i = m
      BY <3>1, <3>2, <3>3
    <3>4. CASE i < m
      <4>1. i \in 1..(m - 1)
        BY <2>2, <3>4
      <4>2. f[i] = IF up[i] = 0 THEN first[i] ELSE next[i][f[up[i]]]
        BY <2>3, <4>1 DEF FromUp
      <4> QED BY <3>2, <3>4, <4>2
    <3> QED BY <2>2, <3>3, <3>4
  <2>5. FromUp(g, m, up, first, next)
    <3>1. g = [i \in 1..m |-> g[i]]
      OBVIOUS
    <3> HIDE DEF g
    <3> QED BY <2>4, <3>1 DEF FromUp
  <2> QED BY <2>1, <2>2, <2>5
<1> QED BY <1>1, <1>2

(* It takes its values where its steps do.                                 *)
LEMMA FromUpTyped ==
  ASSUME NEW n \in Nat, NEW up, \A i \in 1..n : up[i] \in Nat /\ up[i] < i, NEW V,
         NEW first \in [1..n -> V], NEW next \in [1..n -> [V -> V]], NEW f, FromUp(f, n, up, first, next)
  PROVE  \A i \in 1..n : f[i] \in V
<1> DEFINE Good == {i \in 1..n : f[i] \in V}
<1>1. ASSUME NEW i \in 1..n, \A k \in 1..n : k < i => k \in Good PROVE i \in Good
  <2>1. f[i] = IF up[i] = 0 THEN first[i] ELSE next[i][f[up[i]]]
    BY DEF FromUp
  <2>2. up[i] # 0 => up[i] \in Good
    BY <1>1
  <2> QED BY <2>1, <2>2
<1>2. 1..n \subseteq Good
  <2> HIDE DEF Good
  <2> QED BY <1>1, Upwards
<1> QED BY <1>2

-----------------------------------------------------------------------------
(* Trees.                                                                  *)

(* Every node but the first has a parent with a smaller index.             *)
IsNode(n) ==
  n = [name |-> n.name, kind |-> n.kind, parent |-> n.parent, own |-> n.own, total |-> n.total,
       read_error |-> n.read_error, hardlink |-> n.hardlink, excluded |-> n.excluded]
IsTree(t) ==
  /\ t = [root_path |-> t.root_path, nodes |-> t.nodes] /\ \A i \in Ids(t) : IsNode(t.nodes[i])
  /\ Len(t.nodes) \in Nat /\ Ids(t) = 1..Len(t.nodes)
  /\ \A i \in Ids(t) : ParentOf(t, i) \in Nat /\ ParentOf(t, i) < i /\ (ParentOf(t, i) = NoNode => i = Root)

(* The ancestors of a node are those of its parent, and its parent.        *)
LEMMA AncestorsRec ==
  ASSUME NEW t, IsTree(t), NEW i \in Ids(t)
  PROVE  AncestorsOf(t, i) = IF ParentOf(t, i) = NoNode THEN <<>>
                             ELSE Append(AncestorsOf(t, ParentOf(t, i)), ParentOf(t, i))
<1> DEFINE n == Len(t.nodes)
           up == [j \in 1..n |-> ParentOf(t, j)]
           V == Seq(Nat)
           first == [j \in 1..n |-> <<>>]
           next == [j \in 1..n |-> [v \in V |-> Append(v, up[j])]]
<1>1. n \in Nat /\ Ids(t) = 1..n /\ \A j \in 1..n : up[j] \in Nat /\ up[j] < j
  BY DEF IsTree
<1>2. PICK f : FromUp(f, n, up, first, next)
  <2> HIDE DEF n, up, first, next
  <2> QED BY <1>1, FromUpExists
<1>3. \A j \in 1..n : f[j] \in V
  <2>1. first \in [1..n -> V] /\ next \in [1..n -> [V -> V]]
    BY <1>1
  <2> HIDE DEF n, up, first, next, V
  <2> QED BY <1>1, <1>2, <2>1, FromUpTyped
<1>4. f = [j \in Ids(t) |-> IF ParentOf(t, j) = NoNode THEN <<>> ELSE Append(f[ParentOf(t, j)], ParentOf(t, j))]
  <2>1. \A j \in 1..n : f[j] = IF ParentOf(t, j) = NoNode THEN <<>> ELSE Append(f[ParentOf(t, j)], ParentOf(t, j))
    <3> TAKE j \in 1..n
    <3>1. f[j] = IF up[j] = 0 THEN first[j] ELSE next[j][f[up[j]]]
      BY <1>2 DEF FromUp
    <3>2. up[j] # 0 => f[up[j]] \in V
      <4> HIDE DEF n, up, V
      <4>1. up[j] # 0 => up[j] \in 1..n
        BY <1>1
      <4> QED BY <1>3, <4>1
    <3>3. up[j] = ParentOf(t, j) /\ first[j] = <<>> /\ (f[up[j]] \in V => next[j][f[up[j]]] = Append(f[up[j]], up[j]))
      OBVIOUS
    <3> HIDE DEF n, up, V, first, next
    <3> QED BY <3>1, <3>2, <3>3 DEF NoNode
  <2>2. f = [j \in 1..n |-> f[j]]
    BY <1>2 DEF FromUp
  <2> QED BY <1>1, <2>1, <2>2
<1> DEFINE chain == CHOOSE c : c = [j \in Ids(t) |-> IF ParentOf(t, j) = NoNode THEN <<>> ELSE Append(c[ParentOf(t, j)], ParentOf(t, j))]
<1>5. chain = [j \in Ids(t) |-> IF ParentOf(t, j) = NoNode THEN <<>> ELSE Append(chain[ParentOf(t, j)], ParentOf(t, j))]
  BY <1>4
<1>6. \A j : AncestorsOf(t, j) = chain[j]
  BY DEF AncestorsOf
<1> HIDE DEF chain
<1> QED BY <1>5, <1>6

(* A node lies below those on the line from the root to its parent.        *)
Above(t, i) == ToSet(AncestorsOf(t, i))

(* They are a sequence of numbers.                                         *)
LEMMA AncestorsType ==
  ASSUME NEW t, IsTree(t)
  PROVE  \A i \in Ids(t) : AncestorsOf(t, i) \in Seq(Nat)
<1> DEFINE n == Len(t.nodes)
           Good == {i \in 1..n : AncestorsOf(t, i) \in Seq(Nat)}
<1>1. ASSUME NEW i \in 1..n, \A j \in 1..n : j < i => j \in Good PROVE i \in Good
  <2>1. i \in Ids(t) /\ ParentOf(t, i) \in Nat /\ ParentOf(t, i) < i
    BY DEF IsTree
  <2>2. AncestorsOf(t, i) = IF ParentOf(t, i) = NoNode THEN <<>> ELSE Append(AncestorsOf(t, ParentOf(t, i)), ParentOf(t, i))
    BY <2>1, AncestorsRec
  <2>3. ParentOf(t, i) # NoNode => AncestorsOf(t, ParentOf(t, i)) \in Seq(Nat)
    BY <1>1, <2>1 DEF NoNode
  <2>4. AncestorsOf(t, i) \in Seq(Nat)
    BY <2>1, <2>2, <2>3
  <2> QED BY <2>4
<1>2. n \in Nat /\ Ids(t) = 1..n
  BY DEF IsTree
<1>3. 1..n \subseteq Good
  <2> HIDE DEF Good, n
  <2> QED BY <1>1, <1>2, Upwards
<1> QED BY <1>2, <1>3

(* The same, of the set of them.                                           *)
LEMMA AboveRec ==
  ASSUME NEW t, IsTree(t), NEW i \in Ids(t)
  PROVE  /\ ParentOf(t, i) = NoNode => Above(t, i) = {}
         /\ ParentOf(t, i) # NoNode => /\ ParentOf(t, i) \in Ids(t)
                                       /\ Above(t, i) = Above(t, ParentOf(t, i)) \cup {ParentOf(t, i)}
<1>1. AncestorsOf(t, i) = IF ParentOf(t, i) = NoNode THEN <<>> ELSE Append(AncestorsOf(t, ParentOf(t, i)), ParentOf(t, i))
  BY AncestorsRec
<1>2. ParentOf(t, i) # NoNode => ParentOf(t, i) \in Ids(t)
  BY DEF IsTree, NoNode
<1>3. ParentOf(t, i) # NoNode => AncestorsOf(t, ParentOf(t, i)) \in Seq(Nat)
  BY <1>2, AncestorsType
<1>4. ASSUME NEW s \in Seq(Nat), NEW x \in Nat PROVE ToSet(Append(s, x)) = ToSet(s) \cup {x}
  <2>1. /\ DOMAIN Append(s, x) = DOMAIN s \cup {Len(s) + 1} /\ Append(s, x)[Len(s) + 1] = x
        /\ \A k \in DOMAIN s : Append(s, x)[k] = s[k]
    OBVIOUS
  <2> QED BY <2>1 DEF ToSet
<1>5. ToSet(<<>>) = {}
  BY DEF ToSet
<1>6. ASSUME ParentOf(t, i) = NoNode PROVE Above(t, i) = {}
  BY <1>1, <1>5, <1>6 DEF Above
<1>7. ASSUME ParentOf(t, i) # NoNode PROVE Above(t, i) = Above(t, ParentOf(t, i)) \cup {ParentOf(t, i)}
  <2>1. ParentOf(t, i) \in Nat
    BY DEF IsTree
  <2>2. AncestorsOf(t, i) = Append(AncestorsOf(t, ParentOf(t, i)), ParentOf(t, i))
    BY <1>1, <1>7
  <2>3. ToSet(AncestorsOf(t, i)) = ToSet(Append(AncestorsOf(t, ParentOf(t, i)), ParentOf(t, i)))
    BY <2>2, Zenon
  <2> QED BY <1>3, <1>4, <1>7, <2>1, <2>3 DEF Above
<1> QED BY <1>2, <1>6, <1>7

(* Those above a node come before it, and those above them are above it.   *)
LEMMA AboveOrder ==
  ASSUME NEW t, IsTree(t)
  PROVE  \A i \in Ids(t) : /\ Above(t, i) \subseteq Ids(t)
                           /\ \A j \in Above(t, i) : j < i /\ Above(t, j) \subseteq Above(t, i)
                           /\ i # Root => Root \in Above(t, i)
<1> DEFINE n == Len(t.nodes)
           Fine(i) == /\ Above(t, i) \subseteq Ids(t)
                      /\ \A j \in Above(t, i) : j < i /\ Above(t, j) \subseteq Above(t, i)
                      /\ i # Root => Root \in Above(t, i)
           Good == {i \in 1..n : Fine(i)}
<1>2. n \in Nat /\ Ids(t) = 1..n
  BY DEF IsTree
<1>1. ASSUME NEW i \in 1..n, \A j \in 1..n : j < i => j \in Good PROVE i \in Good
  <2> DEFINE p == ParentOf(t, i)
  <2>1. i \in Ids(t) /\ p \in Nat /\ p < i /\ (p = NoNode => i = Root)
    BY DEF IsTree
  <2>2. CASE p = NoNode
    <3>1. Above(t, i) = {}
      BY <2>1, <2>2, AboveRec
    <3>2. Fine(i)
      BY <2>1, <2>2, <3>1
    <3> QED BY <3>2
  <2>3. CASE p # NoNode
    <3>1. p \in Ids(t) /\ Above(t, i) = Above(t, p) \cup {p}
      BY <2>1, <2>3, AboveRec
    <3>2. Fine(p)
      BY <1>1, <1>2, <2>1, <3>1
    <3>3. \A j \in Above(t, i) : j \in Nat
      BY <1>2, <3>1, <3>2
    <3> HIDE DEF p
    <3>4. Fine(i)
      BY <1>2, <2>1, <3>1, <3>2, <3>3
    <3> QED BY <3>4
  <2> QED BY <2>2, <2>3
<1>3. 1..n \subseteq Good
  <2> HIDE DEF Good, n
  <2> QED BY <1>1, <1>2, Upwards
<1> QED BY <1>2, <1>3

(* Whoever is below a node is one of its children or below one of them,    *)
(* and of one only.                                                        *)
LEMMA OneChild ==
  ASSUME NEW t, IsTree(t), NEW i \in Ids(t)
  PROVE  \A j \in Ids(t) :
           /\ i \in Above(t, j) <=> \E c \in ChildrenOf(t, i) : j = c \/ c \in Above(t, j)
           /\ \A c, d \in ChildrenOf(t, i) : (j = c \/ c \in Above(t, j)) /\ (j = d \/ d \in Above(t, j)) => c = d
<1> DEFINE n == Len(t.nodes)
           Kids == ChildrenOf(t, i)
           In(c, j) == j = c \/ c \in Above(t, j)
           Good == {j \in 1..n : /\ i \in Above(t, j) <=> \E c \in Kids : In(c, j)
                                 /\ \A c, d \in Kids : In(c, j) /\ In(d, j) => c = d}
<1>2. n \in Nat /\ Ids(t) = 1..n
  BY DEF IsTree
<1>3. \A c \in Kids : c \in Ids(t) /\ ParentOf(t, c) = i /\ i < c /\ i # NoNode /\ Above(t, c) = Above(t, i) \cup {i}
  <2> TAKE c \in Kids
  <2>1. c \in Ids(t) /\ ParentOf(t, c) = i /\ i # NoNode
    BY <1>2 DEF ChildrenOf, NoNode
  <2> QED BY <2>1, AboveRec DEF IsTree
<1>4. \A c \in Kids : c \notin Above(t, i)
  BY <1>2, <1>3, AboveOrder
<1>1. ASSUME NEW j \in 1..n, \A k \in 1..n : k < j => k \in Good PROVE j \in Good
  <2> DEFINE p == ParentOf(t, j)
  <2>1. j \in Ids(t) /\ p \in Nat /\ p < j
    BY <1>2 DEF IsTree
  <2>2. CASE p = NoNode
    <3>1. Above(t, j) = {}
      BY <2>1, <2>2, AboveRec
    <3>2. j \notin Kids
      BY <1>3, <2>2
    <3> HIDE DEF p, Kids, n
    <3> QED BY <3>1, <3>2
  <2>3. CASE p # NoNode
    <3>1. p \in 1..n /\ Above(t, j) = Above(t, p) \cup {p}
      BY <1>2, <2>1, <2>3, AboveRec
    <3>2. p \in Good
      BY <1>1, <2>1, <3>1
    <3>3. j \in Kids <=> p = i
      BY <2>1 DEF ChildrenOf
    <3>4. \A c \in Kids : c \in Above(t, j) <=> In(c, p)
      BY <3>1
    <3>5. p = i => \A c \in Kids : ~In(c, p)
      BY <1>3, <1>4
    <3> HIDE DEF p, Kids, n
    <3>6. i \in Above(t, j) <=> \E c \in Kids : In(c, j)
      BY <3>1, <3>2, <3>3, <3>4
    <3>7. ASSUME NEW c \in Kids, NEW d \in Kids, In(c, j), In(d, j) PROVE c = d
      BY <3>2, <3>3, <3>4, <3>5, <3>7
    <3> QED BY <3>6, <3>7
  <2> QED BY <2>2, <2>3
<1>5. 1..n \subseteq Good
  <2> HIDE DEF Good, n
  <2> QED BY <1>1, <1>2, Upwards
<1> QED BY <1>2, <1>5

-----------------------------------------------------------------------------
(* The roll-up of a tree.                                                  *)
Capped(x) == IF x > Largest THEN Largest ELSE x

(* A saturating sum is the sum, cut once.                                  *)
LEMMA SaturatingFold ==
  ASSUME NEW S, NEW v, Weighs(v, S), \A x \in S : v[x] >= 0, NEW base \in 0..Largest
  PROVE  FoldSet(LAMBDA c, sum : Saturating(sum, v[c]), base, S) = Capped(base + SumOver(v, S))
<1> DEFINE h == [x \in S |-> [n \in Nat |-> Saturating(n, v[x])]]
           V == Nat
           op(c, sum) == Saturating(sum, v[c])
<1>0. IsFiniteSet(S) /\ Largest \in Nat /\ base \in V
  BY TreeBounds DEF Weighs
<1>1. PICK f : FoldOf(f, h, base, S)
  <2> HIDE DEF h
  <2> QED BY <1>0, FoldExists
<1>2. h \in [S -> [V -> V]] /\ \A x \in S, n \in V : h[x][n] = Saturating(n, v[x])
  BY <1>0 DEF Weighs, Saturating
<1> HIDE DEF h
<1>3. f \in [SUBSET S -> V]
  <2> HIDE DEF V
  <2> QED BY <1>0, <1>1, <1>2, FoldTyped
<1>4. \A s \in SUBSET S : s # {} => Picked(s) \in s /\ s \ {Picked(s)} \in SUBSET S
  BY DEF Picked
<1>5. f = [s \in SUBSET S |-> IF s = {} THEN base ELSE Saturating(f[s \ {Picked(s)}], v[Picked(s)])]
  BY <1>1, <1>2, <1>3, <1>4 DEF FoldOf
<1>6. f = [s \in SUBSET S |-> IF s = {} THEN base ELSE Saturating(f[s \ {CHOOSE x \in s : TRUE}], v[CHOOSE x \in s : TRUE])]
  BY <1>5 DEF Picked
<1> DEFINE g == CHOOSE iter : iter = [s \in SUBSET S |-> IF s = {} THEN base
                  ELSE Saturating(iter[s \ {CHOOSE x \in s : TRUE}], v[CHOOSE x \in s : TRUE])]
<1>7. g = [s \in SUBSET S |-> IF s = {} THEN base ELSE Saturating(g[s \ {CHOOSE x \in s : TRUE}], v[CHOOSE x \in s : TRUE])]
  BY <1>6
<1>8. FoldSet(LAMBDA c, sum : Saturating(sum, v[c]), base, S) = g[S]
  BY DEF FoldSet, MapThenFoldSet
<1> HIDE DEF g
<1>9. /\ g[{}] = base
      /\ \A s \in SUBSET S : s # {} => g[s] = Saturating(g[s \ {Picked(s)}], v[Picked(s)])
  BY <1>7 DEF Picked
<1> DEFINE Bad == {s \in SUBSET S : g[s] # Capped(base + SumOver(v, s))}
<1>10. SUFFICES ASSUME Bad # {} PROVE FALSE
  BY <1>8
<1>11. PICK s \in Bad : \A u \in Bad : u \subseteq s => u = s
  <2>1. Bad \in SUBSET SUBSET S
    OBVIOUS
  <2> HIDE DEF Bad
  <2> QED BY <1>0, <1>10, <2>1, SmallestOf
<1>12. s \in SUBSET S /\ g[s] # Capped(base + SumOver(v, s))
  BY <1>11
<1>13. s # {}
  <2>1. base + 0 = base /\ Capped(base) = base
    BY <1>0 DEF Capped
  <2>2. SUFFICES ASSUME s = {} PROVE FALSE
    OBVIOUS
  <2>3. SumOver(v, s) = SumOver(v, {})
    BY <2>2, Zenon
  <2> QED BY <1>9, <1>12, <2>1, <2>2, <2>3, SumNone
<1> DEFINE p == Picked(s)
           r == s \ {p}
<1>14. p \in s /\ p \in S /\ r \in SUBSET S /\ r # s /\ r \subseteq s
  BY <1>4, <1>12, <1>13
<1>15. g[r] = Capped(base + SumOver(v, r))
  <2>1. r \notin Bad
    BY <1>11, <1>14
  <2> HIDE DEF r
  <2> QED BY <1>14, <2>1
<1>16. SumOver(v, s) = v[p] + SumOver(v, r)
  <2>1. Weighs(v, s)
    BY <1>12, Part
  <2> QED BY <1>14, <2>1, SumSplit
<1>17. SumOver(v, r) \in Int /\ SumOver(v, r) >= 0 /\ v[p] \in Int /\ v[p] >= 0
  <2>1. Weighs(v, r)
    BY <1>14, Part
  <2>2. \A x \in r : v[x] >= 0
    BY <1>14
  <2> HIDE DEF r, p
  <2> QED BY <1>14, <2>1, <2>2, SumNat DEF Weighs
<1>18. g[s] = Saturating(g[r], v[p])
  BY <1>9, <1>12, <1>13
<1> HIDE DEF r, p
<1>19. Saturating(Capped(base + SumOver(v, r)), v[p]) = Capped(base + (v[p] + SumOver(v, r)))
  BY <1>0, <1>17 DEF Saturating, Capped
<1> QED BY <1>12, <1>15, <1>16, <1>18, <1>19

(* Cutting what is added changes nothing but what is cut anyway.           *)
LEMMA CappedParts ==
  ASSUME NEW S, NEW w, NEW v, Weighs(w, S), \A x \in S : w[x] >= 0, \A x \in S : v[x] = Capped(w[x]), NEW base \in Nat
  PROVE  /\ Weighs(v, S) /\ \A x \in S : v[x] >= 0
         /\ Capped(base + SumOver(v, S)) = Capped(base + SumOver(w, S))
<1>0. Largest \in Nat
  BY TreeBounds
<1>1. Weighs(v, S) /\ \A x \in S : v[x] >= 0 /\ v[x] \in Int
  BY <1>0 DEF Weighs, Capped
<1> DEFINE Good == {u \in SUBSET S : SumOver(v, u) <= SumOver(w, u) /\ (SumOver(v, u) < SumOver(w, u) => SumOver(v, u) >= Largest)}
<1>2. {} \in Good
  BY SumNone
<1>3. ASSUME NEW u \in SUBSET S, NEW x \in S, u \in Good, x \notin u PROVE u \cup {x} \in Good
  <2>1. SumOver(w, u \cup {x}) = w[x] + SumOver(w, u) /\ SumOver(v, u \cup {x}) = v[x] + SumOver(v, u)
    BY <1>1, <1>3, SumAdd
  <2>2. Weighs(w, u) /\ Weighs(v, u) /\ (\A y \in u : w[y] >= 0) /\ \A y \in u : v[y] >= 0
    BY <1>1, Part
  <2>3. SumOver(w, u) \in Nat /\ SumOver(v, u) \in Nat /\ w[x] \in Int /\ v[x] \in Int
    BY <1>1, <2>2, SumNat DEF Weighs
  <2>4. v[x] = Capped(w[x]) /\ w[x] >= 0
    OBVIOUS
  <2>5. SumOver(v, u) <= SumOver(w, u) /\ (SumOver(v, u) < SumOver(w, u) => SumOver(v, u) >= Largest)
    BY <1>3
  <2> DEFINE a == SumOver(w, u) b == SumOver(v, u) A == SumOver(w, u \cup {x}) B == SumOver(v, u \cup {x})
  <2>6. a \in Nat /\ b \in Nat /\ A = w[x] + a /\ B = v[x] + b /\ b <= a /\ (b < a => b >= Largest)
    BY <2>1, <2>3, <2>5
  <2>7. B <= A /\ (B < A => B >= Largest)
    <3> HIDE DEF a, b, A, B
    <3> QED BY <1>0, <2>3, <2>4, <2>6 DEF Capped
  <2> QED BY <2>7
<1>4. S \in Good
  <2> HIDE DEF Good
  <2> QED BY <1>2, <1>3, OneByOne DEF Weighs
<1>5. SumOver(w, S) \in Nat /\ SumOver(v, S) \in Nat
  BY <1>1, SumNat
<1>6. Capped(base + SumOver(v, S)) = Capped(base + SumOver(w, S))
  BY <1>0, <1>4, <1>5 DEF Capped
<1> QED BY <1>1, <1>6

Own(t) == [i \in Ids(t) |-> t.nodes[i].own]
Sized(t) == IsTree(t) /\ \A i \in Ids(t) : t.nodes[i].own \in 0..Largest

(* The bytes of the nodes of a tree can be added up.                       *)
LEMMA OwnWeighs ==
  ASSUME NEW t, Sized(t)
  PROVE  Weighs(Own(t), Ids(t)) /\ \A i \in Ids(t) : Own(t)[i] >= 0
<1>1. Ids(t) = 1..Len(t.nodes) /\ Len(t.nodes) \in Nat /\ \A i \in Ids(t) : t.nodes[i].own \in 0..Largest
  BY DEF Sized, IsTree
<1>2. IsFiniteSet(Ids(t))
  BY <1>1, FS_Interval
<1>3. \A i \in Ids(t) : Own(t)[i] \in Nat
  BY <1>1, TreeBounds DEF Own
<1> QED BY <1>2, <1>3 DEF Weighs

(* What lies below a node: itself, and what lies below its children.       *)
LEMMA BelowSum ==
  ASSUME NEW t, Sized(t), NEW i \in Ids(t)
  PROVE  /\ ChildrenOf(t, i) \subseteq Ids(t) /\ IsFiniteSet(ChildrenOf(t, i))
         /\ \A c \in ChildrenOf(t, i) : i < c
         /\ \A j \in Ids(t) : Weighs(Own(t), Below(t, j)) /\ SumOver(Own(t), Below(t, j)) \in Nat
         /\ SumOver(Own(t), Below(t, i))
              = t.nodes[i].own + SumOver([c \in ChildrenOf(t, i) |-> SumOver(Own(t), Below(t, c))], ChildrenOf(t, i))
<1> DEFINE C == ChildrenOf(t, i)
           S == Ids(t)
           w == Own(t)
           P == [c \in C |-> Below(t, c)]
           U == UNION {P[c] : c \in C}
           B == Below(t, i)
<1>0. IsTree(t) /\ S = 1..Len(t.nodes) /\ Len(t.nodes) \in Nat /\ i \in S
  BY DEF Sized, IsTree
<1>1. Weighs(w, S) /\ (\A x \in S : w[x] >= 0) /\ IsFiniteSet(S)
  BY OwnWeighs DEF Weighs
<1>2. C \in SUBSET S /\ IsFiniteSet(C)
  <2>1. C \in SUBSET S
    BY DEF ChildrenOf
  <2> HIDE DEF C, S
  <2> QED BY <1>1, <2>1, FS_Subset
<1>3. \A j \in S : Below(t, j) \in SUBSET S
  BY DEF Below
<1>4. \A j \in S : Weighs(w, Below(t, j)) /\ SumOver(w, Below(t, j)) \in Nat
  <2> TAKE j \in S
  <2>1. Weighs(w, Below(t, j)) /\ \A x \in Below(t, j) : w[x] >= 0
    <3> HIDE DEF w, S
    <3> QED BY <1>1, <1>3, Part
  <2> HIDE DEF w, S
  <2> QED BY <2>1, SumNat
<1>5. P \in [C -> SUBSET S]
  BY <1>2, <1>3
<1>6. \A j \in S : /\ j \in B <=> j = i \/ \E c \in C : j \in P[c]
                   /\ \A c, d \in C : j \in P[c] /\ j \in P[d] => c = d
  <2> TAKE j \in S
  <2>1. /\ i \in Above(t, j) <=> \E c \in C : j = c \/ c \in Above(t, j)
        /\ \A c, d \in C : (j = c \/ c \in Above(t, j)) /\ (j = d \/ d \in Above(t, j)) => c = d
    BY <1>0, OneChild
  <2>2. \A k \in S : j \in Below(t, k) <=> j = k \/ k \in Above(t, j)
    BY DEF Below, Above
  <2>3. \A c \in C : j \in P[c] <=> j = c \/ c \in Above(t, j)
    BY <1>2, <2>2
  <2>4. j \in B <=> j = i \/ i \in Above(t, j)
    BY <2>2
  <2> HIDE DEF P, C, S, B
  <2> QED BY <2>1, <2>3, <2>4
<1>7. \A c \in C : i < c /\ i \notin P[c]
  <2> TAKE c \in C
  <2>1. c \in S /\ ParentOf(t, c) = i /\ i < c
    BY <1>0 DEF ChildrenOf, IsTree
  <2>2. c \notin Above(t, i)
    BY <1>0, <2>1, AboveOrder
  <2>3. i \in P[c] <=> i = c \/ c \in Above(t, i)
    BY <2>1 DEF Below, Above
  <2> QED BY <1>0, <2>1, <2>2, <2>3
<1>8. \A c, d \in C : c # d => P[c] \cap P[d] = {}
  <2> HIDE DEF P, C, S
  <2> QED BY <1>5, <1>6
<1>9. U \in SUBSET S /\ i \notin U /\ B = U \cup {i}
  <2>1. U \in SUBSET S
    BY <1>5
  <2>2. i \notin U
    BY <1>7
  <2>3. B \in SUBSET S
    BY <1>0, <1>3
  <2>4. \A j \in S : j \in U <=> \E c \in C : j \in P[c]
    OBVIOUS
  <2> HIDE DEF U
  <2>5. \A j : j \in B <=> j \in U \cup {i}
    BY <1>0, <1>6, <2>1, <2>3, <2>4
  <2> QED BY <2>1, <2>2, <2>5
<1>10. SumOver(w, U \cup {i}) = w[i] + SumOver(w, U)
  <2> HIDE DEF w, U, S, B
  <2>1. Weighs(w, S) /\ U \in SUBSET S /\ i \in S /\ i \notin U
    BY <1>0, <1>1, <1>9
  <2> QED BY <2>1, SumAdd
<1>11. SumOver(w, U) = SumOver([c \in C |-> SumOver(w, P[c])], C)
  <2> HIDE DEF w, P, C, S
  <2> QED BY <1>1, <1>2, <1>5, <1>8, SumParts
<1>12. [c \in C |-> SumOver(w, P[c])] = [c \in C |-> SumOver(w, Below(t, c))]
  OBVIOUS
<1>13. SumOver(w, B) = SumOver(w, U \cup {i})
  BY <1>9, Zenon
<1>14. w[i] = t.nodes[i].own
  BY DEF Own
<1>15. SumOver(w, B) = t.nodes[i].own + SumOver([c \in C |-> SumOver(w, Below(t, c))], C)
  <2> HIDE DEF w, B, U, P, C
  <2>1. SumOver(w, U) = SumOver([c \in C |-> SumOver(w, Below(t, c))], C)
    BY <1>11, <1>12, Zenon
  <2> QED BY <1>10, <1>13, <1>14, <2>1
<1> QED BY <1>2, <1>4, <1>7, <1>15

(* rollup() gives every node what lies below it, cut at the largest        *)
(* number, and changes nothing else.                                       *)
LEMMA RolledUp ==
  ASSUME NEW t, Sized(t)
  PROVE  LET r == Rolled(t)
         IN  /\ r.root_path = t.root_path /\ Ids(r) = Ids(t) /\ r = [root_path |-> r.root_path, nodes |-> r.nodes]
             /\ r.nodes = [i \in Ids(t) |-> r.nodes[i]]
             /\ \A i \in Ids(t) : r.nodes[i] = [t.nodes[i] EXCEPT !.total = Capped(SumOver(Own(t), Below(t, i)))]
<1> DEFINE w == Own(t)
           sum(i) == SumOver(w, Below(t, i))
           Kids(i) == ChildrenOf(t, i)
           f == [i \in Ids(t) |-> Capped(sum(i))]
           n == Len(t.nodes)
           Fold(v, i) == FoldSet(LAMBDA c, total : Saturating(total, v[c]), t.nodes[i].own, ChildrenOf(t, i))
<1>0. n \in Nat /\ Ids(t) = 1..n /\ Largest \in Nat /\ \A i \in Ids(t) : t.nodes[i].own \in 0..Largest
  BY TreeBounds DEF Sized, IsTree
<1>1. \A i \in Ids(t) : sum(i) \in Nat
  BY BelowSum
<1>2. ASSUME NEW i \in Ids(t), NEW g, \A c \in Kids(i) : g[c] = f[c]
      PROVE  Fold(g, i) = f[i]
  <2> DEFINE S == Kids(i)
             parts == [c \in S |-> sum(c)]
             b == t.nodes[i].own
  <2>1. S \subseteq Ids(t) /\ IsFiniteSet(S) /\ sum(i) = b + SumOver(parts, S)
    BY BelowSum
  <2>2. b \in 0..Largest /\ b \in Nat
    BY <1>0
  <2>3. Weighs(parts, S) /\ \A x \in S : parts[x] >= 0
    <3>1. \A x \in S : parts[x] \in Nat
      <4> HIDE DEF sum
      <4> QED BY <1>1, <2>1
    <3> HIDE DEF parts, S
    <3> QED BY <2>1, <3>1 DEF Weighs
  <2>4. \A x \in S : g[x] = Capped(parts[x])
    <3> HIDE DEF sum
    <3> QED BY <1>2, <2>1
  <2>5. Weighs(g, S) /\ (\A x \in S : g[x] >= 0) /\ Capped(b + SumOver(g, S)) = Capped(b + SumOver(parts, S))
    <3> HIDE DEF parts, S, b
    <3> QED BY <2>2, <2>3, <2>4, CappedParts
  <2>6. Fold(g, i) = Capped(b + SumOver(g, S))
    <3>1. FoldSet(LAMBDA c, total : Saturating(total, g[c]), b, S) = Capped(b + SumOver(g, S))
      <4> HIDE DEF S, b
      <4> QED BY <2>2, <2>5, SaturatingFold
    <3> QED BY <3>1, Zenon
  <2>7. f[i] = Capped(b + SumOver(parts, S))
    <3>1. f[i] = Capped(sum(i))
      OBVIOUS
    <3> HIDE DEF f, sum, parts, S, b
    <3> QED BY <2>1, <3>1
  <2> HIDE DEF f, parts, Fold
  <2> QED BY <2>5, <2>6, <2>7
<1> DEFINE g == CHOOSE total : total = [i \in Ids(t) |-> Fold(total, i)]
<1>3. g = [i \in Ids(t) |-> Fold(g, i)]
  <2>1. \A i \in Ids(t) : f[i] = Fold(f, i)
    <3> HIDE DEF f, Fold
    <3> QED BY <1>2, Zenon
  <2>2. f = [i \in Ids(t) |-> f[i]]
    OBVIOUS
  <2> HIDE DEF f, Fold
  <2>3. f = [i \in Ids(t) |-> Fold(f, i)]
    BY <2>1, <2>2, Zenon
  <2> QED BY <2>3, Zenon
<1>4. Rolled(t) = [t EXCEPT !.nodes = [i \in Ids(t) |-> [t.nodes[i] EXCEPT !.total = g[i]]]]
  BY Zenon DEF Rolled
<1> HIDE DEF g
<1> HIDE DEF Fold
<1>5. \A i \in Ids(t) : g[i] = Fold(g, i)
  BY <1>3, Zenon
<1> DEFINE Good == {i \in 1..n : g[i] = f[i]}
<1>6. ASSUME NEW i \in 1..n, \A j \in 1..n : i < j => j \in Good PROVE i \in Good
  <2>1. \A c \in Kids(i) : c \in 1..n /\ i < c
    BY <1>0, BelowSum
  <2>2. \A c \in Kids(i) : g[c] = f[c]
    <3> HIDE DEF f, Kids, n
    <3> QED BY <1>6, <2>1
  <2>3. Fold(g, i) = f[i]
    <3> HIDE DEF f
    <3> QED BY <1>0, <1>2, <2>2
  <2> HIDE DEF f
  <2>4. g[i] = f[i]
    BY <1>0, <1>5, <2>3, Zenon
  <2> QED BY <2>4
<1>7. 1..n \subseteq Good
  <2> HIDE DEF Good, n
  <2> QED BY <1>0, <1>6, Downwards
<1>8. \A i \in Ids(t) : g[i] = Capped(sum(i))
  <2> HIDE DEF sum
  <2> QED BY <1>0, <1>7
<1>9. /\ Rolled(t).root_path = t.root_path
      /\ Rolled(t).nodes = [i \in Ids(t) |-> [t.nodes[i] EXCEPT !.total = g[i]]]
      /\ Rolled(t) = [root_path |-> Rolled(t).root_path, nodes |-> Rolled(t).nodes]
  BY <1>4 DEF Sized, IsTree
<1>10. \A i \in Ids(t) : [t.nodes[i] EXCEPT !.total = g[i]] = [t.nodes[i] EXCEPT !.total = Capped(SumOver(Own(t), Below(t, i)))]
  BY <1>8
<1>11. /\ DOMAIN Rolled(t).nodes = Ids(t) /\ \A i \in Ids(t) : Rolled(t).nodes[i] = [t.nodes[i] EXCEPT !.total = g[i]]
       /\ Rolled(t).nodes = [i \in Ids(t) |-> Rolled(t).nodes[i]]
  BY <1>9
<1> QED BY <1>9, <1>10, <1>11, Zenon DEF Ids

-----------------------------------------------------------------------------
(* Categories.                                                             *)
Nobody == [category |-> "Other", owner |-> NoNode]
Claiming(t, i, above) ==
  LET here == Claim(t.nodes[i].name, PathOf(t, i), IsDir(t.nodes[i]), above.category)
  IN  [category |-> IF here = Unclaimed THEN above.category ELSE here,
       owner    |-> IF here # Unclaimed \/ ParentOf(t, i) = Root THEN i ELSE above.owner]
ClaimAbove(t, claims, i) == IF ParentOf(t, i) = NoNode THEN Nobody ELSE claims[ParentOf(t, i)]

(* The claim on a node is made from the one on its parent: categories.rs   *)
(* hands the inherited claim down, parents before children.                *)
LEMMA ClaimsRec ==
  ASSUME NEW t, IsTree(t)
  PROVE  /\ Claims(t) = [i \in Ids(t) |-> Claims(t)[i]]
         /\ \A i \in Ids(t) : Claims(t)[i] = Claiming(t, i, ClaimAbove(t, Claims(t), i))
<1> DEFINE n == Len(t.nodes)
           up == [j \in 1..n |-> ParentOf(t, j)]
           V == [category : StorageCategory, owner : Int]
           first == [j \in 1..n |-> Claiming(t, j, Nobody)]
           next == [j \in 1..n |-> [v \in V |-> Claiming(t, j, v)]]
<1>1. n \in Nat /\ Ids(t) = 1..n /\ \A j \in 1..n : up[j] \in Nat /\ up[j] < j
  BY DEF IsTree
<1>2. PICK f : FromUp(f, n, up, first, next)
  <2> HIDE DEF n, up, first, next
  <2> QED BY <1>1, FromUpExists
<1>3. \A j \in 1..n : f[j] \in V
  <2>1. \A name, path, isDir, inherited : Claim(name, path, isDir, inherited) \in StorageCategory \cup {Unclaimed}
    BY DEF Claim, StorageCategory, Unclaimed
  <2>2. Nobody \in V
    BY DEF Nobody, StorageCategory, NoNode
  <2>3. \A j \in 1..n : \A v \in V : Claiming(t, j, v) \in V
    BY <2>1 DEF Claiming
  <2>4. first \in [1..n -> V] /\ next \in [1..n -> [V -> V]]
    <3> HIDE DEF n, V
    <3> QED BY <2>2, <2>3
  <2> HIDE DEF n, up, first, next, V
  <2> QED BY <1>1, <1>2, <2>4, FromUpTyped
<1>4. f = [j \in Ids(t) |-> Claiming(t, j, ClaimAbove(t, f, j))]
  <2>1. \A j \in 1..n : f[j] = Claiming(t, j, ClaimAbove(t, f, j))
    <3> TAKE j \in 1..n
    <3>1. f[j] = IF up[j] = 0 THEN first[j] ELSE next[j][f[up[j]]]
      BY <1>2 DEF FromUp
    <3>2. up[j] # 0 => f[up[j]] \in V
      <4> HIDE DEF n, up, V
      <4>1. up[j] # 0 => up[j] \in 1..n
        BY <1>1
      <4> QED BY <1>3, <4>1
    <3>3. up[j] = ParentOf(t, j) /\ first[j] = Claiming(t, j, Nobody)
          /\ (f[up[j]] \in V => next[j][f[up[j]]] = Claiming(t, j, f[up[j]]))
      OBVIOUS
    <3> HIDE DEF n, up, V, first, next
    <3>4. ClaimAbove(t, f, j) = IF up[j] = 0 THEN Nobody ELSE f[up[j]]
      BY <3>3 DEF ClaimAbove, NoNode
    <3> QED BY <3>1, <3>2, <3>3, <3>4
  <2>2. f = [j \in 1..n |-> f[j]]
    BY <1>2 DEF FromUp
  <2> QED BY <1>1, <2>1, <2>2
<1> DEFINE chain == CHOOSE c : c = [j \in Ids(t) |-> Claiming(t, j, ClaimAbove(t, c, j))]
<1>5. chain = [j \in Ids(t) |-> Claiming(t, j, ClaimAbove(t, chain, j))]
  BY <1>4
<1>6. Claims(t) = chain
  BY Zenon DEF Claims, Claiming, ClaimAbove, Nobody
<1> HIDE DEF chain
<1> QED BY <1>5, <1>6

(* The owner of a node owns itself and is of its category; only the root   *)
(* may have none.                                                          *)
LEMMA ClaimsAgree ==
  ASSUME NEW t, IsTree(t)
  PROVE  \A i \in Ids(t) :
           /\ Claims(t)[i].category \in StorageCategory
           /\ Claims(t)[i].owner = NoNode => i = Root
           /\ Claims(t)[i].owner # NoNode =>
                LET o == Claims(t)[i].owner
                IN  o \in Ids(t) /\ Claims(t)[o].owner = o /\ Claims(t)[o].category = Claims(t)[i].category
<1> DEFINE n == Len(t.nodes)
           C == Claims(t)
           Fine(i) == /\ C[i].category \in StorageCategory
                      /\ C[i].owner = NoNode => i = Root
                      /\ C[i].owner # NoNode =>
                           /\ C[i].owner \in 1..n
                           /\ C[C[i].owner].owner = C[i].owner /\ C[C[i].owner].category = C[i].category
           Good == {i \in 1..n : Fine(i)}
<1>2. n \in Nat /\ Ids(t) = 1..n
  BY DEF IsTree
<1>1. ASSUME NEW i \in 1..n, \A j \in 1..n : j < i => j \in Good PROVE i \in Good
  <2> DEFINE p == ParentOf(t, i)
             above == ClaimAbove(t, C, i)
             here == Claim(t.nodes[i].name, PathOf(t, i), IsDir(t.nodes[i]), above.category)
  <2>1. p \in Nat /\ p < i /\ (p = NoNode => i = Root)
    BY <1>2 DEF IsTree
  <2>2. C[i] = Claiming(t, i, above)
    BY <1>2, ClaimsRec
  <2>3. here \in StorageCategory \cup {Unclaimed}
    BY DEF Claim, StorageCategory, Unclaimed
  <2>4. /\ C[i].category = IF here = Unclaimed THEN above.category ELSE here
        /\ C[i].owner = IF here # Unclaimed \/ p = Root THEN i ELSE above.owner
    BY <2>2 DEF Claiming
  <2>5. above = IF p = NoNode THEN Nobody ELSE C[p]
    BY DEF ClaimAbove
  <2>6. CASE p = NoNode
    <3>1. above.category \in StorageCategory /\ above.owner = NoNode
      BY <2>5, <2>6 DEF Nobody, StorageCategory
    <3> HIDE DEF p, above, here, C
    <3>2. Fine(i)
      BY <2>1, <2>3, <2>4, <2>6, <3>1 DEF NoNode, Root
    <3> QED BY <3>2
  <2>7. CASE p # NoNode
    <3>1. p \in 1..n /\ Fine(p)
      BY <1>1, <1>2, <2>1, <2>7 DEF NoNode
    <3>2. above = C[p]
      BY <2>5, <2>7
    <3> HIDE DEF p, above, here, C
    <3>3. Fine(i)
      BY <2>1, <2>3, <2>4, <3>1, <3>2 DEF NoNode, Root
    <3> QED BY <3>3
  <2> QED BY <2>6, <2>7
<1>3. 1..n \subseteq Good
  <2> HIDE DEF Good, n
  <2> QED BY <1>1, <1>2, Upwards
<1> QED BY <1>2, <1>3

(* What a row accounts for, seen from the tree, is what the walk gave it:  *)
(* an owner is handed down until the next node that owns itself.           *)
LEMMA AccountedIsOwned ==
  ASSUME NEW t, IsTree(t), NEW h \in Ids(t), Claims(t)[h].owner = h
  PROVE  Accounted(t, Claims(t), h) = {i \in Ids(t) : Claims(t)[i].owner = h}
<1> DEFINE n == Len(t.nodes)
           C == Claims(t)
           A == Accounted(t, C, h)
           Good == {i \in 1..n : i \in A <=> C[i].owner = h}
<1>1. n \in Nat /\ Ids(t) = 1..n /\ h \in 1..n /\ C[h].owner = h
  BY DEF IsTree
<1>2. \A i : i \in A <=>
        /\ i \in 1..n /\ (i = h \/ h \in Above(t, i))
        /\ \A own \in 1..n : own # h /\ h \in Above(t, own) /\ C[own].owner = own => i # own /\ own \notin Above(t, i)
  <2>1. \A j : Below(t, j) = {i \in Ids(t) : i = j \/ j \in Above(t, i)}
    BY DEF Below, Above
  <2>2. \A own : own \in Below(t, h) \ {h} <=> own \in 1..n /\ own # h /\ h \in Above(t, own)
    BY <1>1, <2>1
  <2>3. \A i : i \in A <=>
          /\ i \in Below(t, h)
          /\ \A own \in Below(t, h) \ {h} : C[own].owner = own => i \notin Below(t, own)
    BY Zenon DEF Accounted
  <2> HIDE DEF A, C, n
  <2> QED BY <1>1, <2>1, <2>2, <2>3
<1>3. ASSUME NEW i \in 1..n, \A j \in 1..n : j < i => j \in Good PROVE i \in Good
  <2> DEFINE p == ParentOf(t, i)
  <2>1. i \in Ids(t) /\ p \in Nat /\ p < i
    BY <1>1 DEF IsTree
  <2>2. \/ C[i].owner = i
        \/ C[i].owner = IF p = NoNode THEN NoNode ELSE C[p].owner
    <3> DEFINE above == ClaimAbove(t, C, i)
    <3>1. C[i] = Claiming(t, i, above)
      BY <2>1, ClaimsRec
    <3>2. above.owner = IF p = NoNode THEN NoNode ELSE C[p].owner
      BY DEF ClaimAbove, Nobody
    <3> HIDE DEF above, C, p
    <3> QED BY <3>1, <3>2 DEF Claiming
  <2>3. /\ p = NoNode => Above(t, i) = {}
        /\ p # NoNode => p \in 1..n /\ Above(t, i) = Above(t, p) \cup {p}
    BY <1>1, <2>1, AboveRec
  <2>4. \A own \in 1..n : own \in Above(t, h) => own < h /\ h \notin Above(t, own)
    BY <1>1, AboveOrder
  <2>5. \A own \in 1..n : h \in Above(t, own) => h < own
    BY <1>1, AboveOrder
  <2> HIDE DEF C, A, p
  <2>6. CASE C[i].owner = i
    <3>1. CASE i = h
      <4>1. i \in A
        BY <1>1, <1>2, <2>4, <3>1
      <4> QED BY <2>6, <3>1, <4>1
    <3>2. CASE i # h
      <4>1. i \notin A
        BY <1>2, <2>6, <3>2
      <4> QED BY <2>6, <3>2, <4>1
    <3> QED BY <3>1, <3>2
  <2>7. CASE C[i].owner # i /\ p = NoNode
    <3>1. C[i].owner = NoNode /\ NoNode # h /\ i # h
      BY <1>1, <2>2, <2>7 DEF NoNode
    <3>2. i \notin A
      BY <1>2, <2>3, <2>7, <3>1
    <3> QED BY <3>1, <3>2
  <2>8. CASE C[i].owner # i /\ p # NoNode
    <3>1. C[i].owner = C[p].owner /\ i # h
      BY <1>1, <2>2, <2>8
    <3>2. p \in 1..n /\ p \in Good /\ Above(t, i) = Above(t, p) \cup {p}
      BY <1>3, <2>1, <2>3, <2>8
    <3>3. \A own \in 1..n : C[own].owner = own => (i # own /\ own \notin Above(t, i) <=> own # p /\ own \notin Above(t, p))
      BY <2>8, <3>2
    <3>4. i \in A <=> p \in A
      BY <1>2, <3>1, <3>2, <3>3
    <3> QED BY <3>1, <3>2, <3>4
  <2> QED BY <2>6, <2>7, <2>8
<1>4. 1..n \subseteq Good
  <2> HIDE DEF Good, n
  <2> QED BY <1>1, <1>3, Upwards
<1>5. \A i \in A : i \in 1..n
  BY <1>2
<1> HIDE DEF C, A
<1>6. A = {i \in 1..n : C[i].owner = h}
  BY <1>4, <1>5
<1> QED BY <1>1, <1>6 DEF A, C

(* The model's sum of own bytes, as a sum over a weight.                   *)
LEMMA OwnSum ==
  ASSUME NEW t, Sized(t), NEW S \in SUBSET Ids(t)
  PROVE  MapThenSumSet(LAMBDA i : t.nodes[i].own, S) = SumOver(Own(t), S)
<1> DEFINE w == Own(t)
<1>0. Weighs(w, S)
  <2> DEFINE I == Ids(t)
  <2>1. Weighs(w, I)
    BY OwnWeighs
  <2> HIDE DEF w, I
  <2> QED BY <2>1, Part DEF I
<1>1. PICK e : AddsUpInt(e, w, S)
  BY <1>0, SumExists
<1>2. \A s \in SUBSET S : s # {} => (CHOOSE x \in s : TRUE) \in s /\ w[CHOOSE x \in s : TRUE] = t.nodes[CHOOSE x \in s : TRUE].own
  BY DEF Own
<1>3. e = [s \in SUBSET S |-> IF s = {} THEN 0 ELSE t.nodes[CHOOSE x \in s : TRUE].own + e[s \ {CHOOSE x \in s : TRUE}]]
  BY <1>1, <1>2 DEF AddsUp, AddsUpInt, Picked
<1> DEFINE g == CHOOSE iter : iter = [s \in SUBSET S |-> IF s = {} THEN 0
                  ELSE t.nodes[CHOOSE x \in s : TRUE].own + iter[s \ {CHOOSE x \in s : TRUE}]]
<1>4. g = [s \in SUBSET S |-> IF s = {} THEN 0 ELSE t.nodes[CHOOSE x \in s : TRUE].own + g[s \ {CHOOSE x \in s : TRUE}]]
  BY <1>3
<1>5. MapThenSumSet(LAMBDA i : t.nodes[i].own, S) = g[S]
  BY DEF MapThenSumSet, MapThenFoldSet
<1> HIDE DEF g
<1>6. AddsUp(g, w, S)
  BY <1>2, <1>4 DEF AddsUp, Picked
<1> QED BY <1>0, <1>5, <1>6, SumIs

(* The same of the rows of a category.                                     *)
LEMMA BytesSum ==
  ASSUME NEW S, NEW w, Weighs(w, S), \A row \in S : w[row] = row.bytes
  PROVE  MapThenSumSet(LAMBDA row : row.bytes, S) = SumOver(w, S)
<1>1. PICK e : AddsUpInt(e, w, S)
  BY SumExists
<1>2. \A s \in SUBSET S : s # {} => (CHOOSE x \in s : TRUE) \in s /\ w[CHOOSE x \in s : TRUE] = (CHOOSE x \in s : TRUE).bytes
  OBVIOUS
<1>3. e = [s \in SUBSET S |-> IF s = {} THEN 0 ELSE (CHOOSE x \in s : TRUE).bytes + e[s \ {CHOOSE x \in s : TRUE}]]
  BY <1>1, <1>2 DEF AddsUp, AddsUpInt, Picked
<1> DEFINE g == CHOOSE iter : iter = [s \in SUBSET S |-> IF s = {} THEN 0
                  ELSE (CHOOSE x \in s : TRUE).bytes + iter[s \ {CHOOSE x \in s : TRUE}]]
<1>4. g = [s \in SUBSET S |-> IF s = {} THEN 0 ELSE (CHOOSE x \in s : TRUE).bytes + g[s \ {CHOOSE x \in s : TRUE}]]
  BY <1>3
<1>5. MapThenSumSet(LAMBDA row : row.bytes, S) = g[S]
  BY DEF MapThenSumSet, MapThenFoldSet
<1> HIDE DEF g
<1>6. AddsUp(g, w, S)
  BY <1>2, <1>4 DEF AddsUp, Picked
<1> QED BY <1>5, <1>6, SumIs

(* What is exact does not wrap.                                            *)
LEMMA WrappedExact ==
  ASSUME NEW t, Sized(t), Exact(t), NEW S \in SUBSET Ids(t)
  PROVE  Wrapped(t, S) = SumOver(Own(t), S) /\ Wrapped(t, S) \in 0..Largest
<1> DEFINE I == Ids(t)
<1>1. Weighs(Own(t), I) /\ \A x \in I : Own(t)[x] >= 0
  BY OwnWeighs
<1>2. SumOver(Own(t), S) <= SumOver(Own(t), I)
  <2> HIDE DEF I
  <2> QED BY <1>1, SumNat DEF I
<1>3. SumOver(Own(t), S) \in Nat
  <2>1. Weighs(Own(t), S) /\ \A x \in S : Own(t)[x] >= 0
    <3> HIDE DEF I
    <3> QED BY <1>1, Part DEF I
  <2> QED BY <2>1, SumNat
<1>4. SumOver(Own(t), I) <= Largest
  <2>1. MapThenSumSet(LAMBDA i : t.nodes[i].own, Ids(t)) = SumOver(Own(t), I)
    BY OwnSum
  <2> QED BY <2>1, Zenon DEF Exact
<1>5. Wrapped(t, S) = SumOver(Own(t), S) % (Largest + 1)
  <2>1. MapThenSumSet(LAMBDA i : t.nodes[i].own, S) = SumOver(Own(t), S)
    BY OwnSum
  <2> QED BY <2>1, Zenon DEF Wrapped
<1>6. SumOver(Own(t), I) \in Nat
  <2> HIDE DEF I
  <2> QED BY <1>1, SumNat
<1> DEFINE s == SumOver(Own(t), S)
<1>7. s \in Nat /\ s <= Largest /\ Largest \in Nat
  BY <1>2, <1>3, <1>4, <1>6, TreeBounds
<1>8. s % (Largest + 1) = s
  <2> HIDE DEF s
  <2>1. \A a, b \in Nat : a < b => a % b = a
    OBVIOUS
  <2> QED BY <1>7, <2>1
<1> QED BY <1>5, <1>7, <1>8

(* The categories of an exact tree together hold all its bytes.            *)
LEMMA CategoriesSum ==
  ASSUME NEW t, Sized(t), Exact(t)
  PROVE  LET totals == [c \in StorageCategory |-> Wrapped(t, {i \in Ids(t) : Claims(t)[i].category = c})]
         IN  FoldSet(LAMBDA c, sum : Saturating(sum, totals[c]), 0, StorageCategory) = SumOver(Own(t), Ids(t))
<1> DEFINE C == StorageCategory
           S == Ids(t)
           w == Own(t)
           P == [c \in C |-> {i \in S : Claims(t)[i].category = c}]
           totals == [c \in C |-> Wrapped(t, {i \in Ids(t) : Claims(t)[i].category = c})]
           all == SumOver(w, S)
<1>0. IsTree(t) /\ Weighs(w, S) /\ IsFiniteSet(C)
  <2>1. \A x : IsFiniteSet({x})
    BY FS_Singleton
  <2>2. IsFiniteSet((({"Apps"} \cup {"PersonalFiles"}) \cup ({"Development"} \cup {"System"})) \cup {"Other"})
    BY <2>1, FS_Union
  <2>3. C = (({"Apps"} \cup {"PersonalFiles"}) \cup ({"Development"} \cup {"System"})) \cup {"Other"}
    BY DEF StorageCategory
  <2>4. IsFiniteSet(C)
    BY <2>2, <2>3, Zenon
  <2> QED BY <2>4, OwnWeighs DEF Sized
<1>1. P \in [C -> SUBSET S] /\ \A c, d \in C : c # d => P[c] \cap P[d] = {}
  OBVIOUS
<1>2. UNION {P[c] : c \in C} = S
  <2>1. \A i \in S : Claims(t)[i].category \in C
    BY <1>0, ClaimsAgree
  <2>2. \A i \in S : i \in P[Claims(t)[i].category]
    BY <2>1
  <2> HIDE DEF C, P
  <2>3. S \subseteq UNION {P[c] : c \in C}
    BY <2>1, <2>2
  <2>4. UNION {P[c] : c \in C} \subseteq S
    BY <1>1
  <2> QED BY <2>3, <2>4
<1>3. SumOver(w, UNION {P[c] : c \in C}) = SumOver([c \in C |-> SumOver(w, P[c])], C)
  <2> HIDE DEF C, P, S, w
  <2> QED BY <1>0, <1>1, SumParts
<1>4. \A c \in C : totals[c] = SumOver(w, P[c]) /\ totals[c] \in 0..Largest
  <2> TAKE c \in C
  <2> DEFINE Q == {i \in Ids(t) : Claims(t)[i].category = c}
  <2>1. totals[c] = Wrapped(t, Q) /\ P[c] = Q /\ Q \in SUBSET Ids(t)
    OBVIOUS
  <2> HIDE DEF C, P, totals, Q
  <2>2. Wrapped(t, Q) = SumOver(Own(t), Q) /\ Wrapped(t, Q) \in 0..Largest
    BY <2>1, WrappedExact
  <2>3. SumOver(w, P[c]) = SumOver(Own(t), Q)
    BY <2>1, Zenon
  <2> QED BY <2>1, <2>2, <2>3
<1>5. [c \in C |-> SumOver(w, P[c])] = totals
  <2>1. totals = [c \in C |-> totals[c]]
    OBVIOUS
  <2> HIDE DEF C, P, totals, w
  <2> QED BY <1>4, <2>1
<1>6. SumOver(totals, C) = all
  <2>1. SumOver(w, UNION {P[c] : c \in C}) = all
    BY <1>2, Zenon
  <2>2. SumOver([c \in C |-> SumOver(w, P[c])], C) = SumOver(totals, C)
    BY <1>5, Zenon
  <2> QED BY <1>3, <2>1, <2>2
<1>7. Weighs(totals, C) /\ (\A c \in C : totals[c] >= 0) /\ 0 \in 0..Largest
  <2>1. \A c \in C : totals[c] \in 0..Largest
    BY <1>4
  <2> HIDE DEF C, totals
  <2> QED BY <1>0, <2>1, TreeBounds DEF Weighs
<1>8. FoldSet(LAMBDA c, sum : Saturating(sum, totals[c]), 0, C) = Capped(0 + SumOver(totals, C))
  <2> HIDE DEF C, totals
  <2> QED BY <1>7, SaturatingFold
<1>9. all \in 0..Largest
  <2>1. Wrapped(t, Ids(t)) = SumOver(Own(t), Ids(t)) /\ Wrapped(t, Ids(t)) \in 0..Largest
    BY WrappedExact
  <2> QED BY <2>1
<1>10. Capped(0 + SumOver(totals, C)) = all
  <2> HIDE DEF totals, C, all
  <2> QED BY <1>6, <1>9, TreeBounds DEF Capped
<1> QED BY <1>8, <1>10, Zenon

(* What one category holds: what its consumers do, and what nobody owns.   *)
LEMMA ConsumersSum ==
  ASSUME NEW t, Sized(t), Exact(t), NEW c \in StorageCategory
  PROVE  LET claims == Claims(t)
             loose == {Root} \cap {i \in Ids(t) : claims[i].owner = NoNode}
         IN  Wrapped(t, {i \in Ids(t) : claims[i].category = c}) =
               MapThenSumSet(LAMBDA row : row.bytes, Consumers(t, claims, c))
                 + IF claims[Root].category = c THEN MapThenSumSet(LAMBDA i : t.nodes[i].own, loose) ELSE 0
<1> DEFINE S == Ids(t)
           w == Own(t)
           claims == Claims(t)
           loose == {Root} \cap {i \in S : claims[i].owner = NoNode}
           rest == IF claims[Root].category = c THEN loose ELSE {}
           heads == {i \in S : claims[i].owner = i /\ claims[i].category = c}
           Q == [h \in heads |-> {i \in S : claims[i].owner = h}]
           U == UNION {Q[h] : h \in heads}
           P == {i \in S : claims[i].category = c}
           rows == Consumers(t, claims, c)
           row == [h \in heads |-> Consumer(t, claims, h)]
           b == [r \in rows |-> r.bytes]
<1>0. IsTree(t) /\ Weighs(w, S) /\ NoNode \notin S /\ IsFiniteSet(S)
  BY OwnWeighs DEF Sized, IsTree, NoNode, Weighs
<1>1. \A i \in S : /\ claims[i].owner = NoNode => i = Root
                   /\ claims[i].owner # NoNode =>
                        /\ claims[i].owner \in S /\ claims[claims[i].owner].owner = claims[i].owner
                        /\ claims[claims[i].owner].category = claims[i].category
  BY <1>0, ClaimsAgree
<1>2. heads \in SUBSET S /\ IsFiniteSet(heads)
  <2>1. heads \in SUBSET S
    OBVIOUS
  <2> HIDE DEF heads, S
  <2> QED BY <1>0, <2>1, FS_Subset
<1>3. Q \in [heads -> SUBSET S] /\ \A h, k \in heads : h # k => Q[h] \cap Q[k] = {}
  OBVIOUS
<1>4. U \in SUBSET P /\ rest \in SUBSET P /\ P \in SUBSET S /\ P \ U = rest
  <2> HIDE DEF claims, S
  <2>1. U \in SUBSET P
    <3> SUFFICES ASSUME NEW h \in heads, NEW i \in Q[h] PROVE i \in P
      OBVIOUS
    <3>1. i \in S /\ claims[i].owner = h /\ h \in S /\ claims[h].category = c
      OBVIOUS
    <3> QED BY <1>0, <1>1, <3>1
  <2>2. rest \in SUBSET P
    OBVIOUS
  <2>3. ASSUME NEW i \in P PROVE i \in U <=> claims[i].owner # NoNode
    <3>1. CASE claims[i].owner # NoNode
      <4>1. claims[i].owner \in heads
        BY <1>1, <3>1
      <4>2. i \in Q[claims[i].owner]
        BY <4>1
      <4> QED BY <3>1, <4>1, <4>2
    <3>2. CASE claims[i].owner = NoNode
      <4>1. \A h \in heads : i \notin Q[h]
        BY <1>0, <3>2
      <4> QED BY <3>2, <4>1
    <3> QED BY <3>1, <3>2
  <2>4. ASSUME NEW i \in P PROVE i \in rest <=> claims[i].owner = NoNode
    BY <1>1
  <2> HIDE DEF U, P, rest
  <2>5. P \ U = rest
    BY <2>1, <2>2, <2>3, <2>4
  <2> QED BY <2>1, <2>2, <2>5 DEF P
<1>5. SumOver(w, P) = SumOver(w, U) + SumOver(w, rest)
  <2>1. Weighs(w, P)
    <3> HIDE DEF w, S, P
    <3> QED BY <1>0, <1>4, Part
  <2>2. SumOver(w, P) = SumOver(w, U) + SumOver(w, P \ U)
    <3> HIDE DEF w, P, U
    <3> QED BY <1>4, <2>1, SumUnion
  <2>3. SumOver(w, P \ U) = SumOver(w, rest)
    BY <1>4, Zenon
  <2> QED BY <2>2, <2>3
<1>6. SumOver(w, U) = SumOver([h \in heads |-> SumOver(w, Q[h])], heads)
  <2> HIDE DEF w, Q, heads, S
  <2> QED BY <1>0, <1>2, <1>3, SumParts
<1>7. \A h \in heads : row[h].bytes = SumOver(w, Q[h]) /\ row[h].id = h /\ row[h].bytes \in 0..Largest
  <2> TAKE h \in heads
  <2>1. row[h].id = h /\ row[h].bytes = Wrapped(t, {i \in Ids(t) : claims[i].owner = h})
    BY DEF Consumer
  <2>2. Q[h] = {i \in Ids(t) : claims[i].owner = h} /\ Q[h] \in SUBSET Ids(t)
    OBVIOUS
  <2>3. row[h].bytes = Wrapped(t, Q[h])
    BY <2>1, <2>2, Zenon
  <2> HIDE DEF Q, row
  <2> QED BY <2>1, <2>2, <2>3, WrappedExact
<1>8. row \in [heads -> rows] /\ (\A h, k \in heads : h # k => row[h] # row[k]) /\ \A r \in rows : \E h \in heads : row[h] = r
  <2>1. rows = {Consumer(t, claims, h) : h \in heads}
    BY DEF Consumers
  <2>2. \A h \in heads : row[h] = Consumer(t, claims, h)
    OBVIOUS
  <2>3. row \in [heads -> rows]
    <3>1. \A h \in heads : Consumer(t, claims, h) \in rows
      BY <2>1
    <3> HIDE DEF rows, heads
    <3> QED BY <3>1
  <2>4. \A h \in heads : row[h].id = h
    BY <1>7
  <2> HIDE DEF row, rows, heads
  <2>5. \A h, k \in heads : h # k => row[h] # row[k]
    BY <2>4
  <2>6. \A r \in rows : \E h \in heads : row[h] = r
    BY <2>1, <2>2
  <2> QED BY <2>3, <2>5, <2>6
<1>9. Weighs(b, rows)
  <2>1. IsFiniteSet(rows)
    <3>1. row \in Surjection(heads, rows)
      <4> HIDE DEF row, rows, heads
      <4> QED BY <1>8 DEF Surjection
    <3> HIDE DEF row, rows, heads
    <3> QED BY <1>2, <3>1, FS_Surjection
  <2>2. \A r \in rows : b[r] = r.bytes
    OBVIOUS
  <2>3. \A r \in rows : r.bytes \in Int
    <3>1. \A h \in heads : row[h].bytes \in 0..Largest
      BY <1>7
    <3> HIDE DEF row, rows, heads
    <3> QED BY <1>8, <3>1, TreeBounds
  <2> HIDE DEF b, rows
  <2> QED BY <2>1, <2>2, <2>3 DEF Weighs
<1>10. MapThenSumSet(LAMBDA r : r.bytes, rows) = SumOver(b, rows)
  <2>1. \A r \in rows : b[r] = r.bytes
    OBVIOUS
  <2> HIDE DEF b, rows
  <2> QED BY <1>9, <2>1, BytesSum
<1>11. SumOver(b, rows) = SumOver([h \in heads |-> b[row[h]]], heads)
  <2> HIDE DEF b, rows, row, heads
  <2> QED BY <1>8, <1>9, SumRenamed
<1>12. [h \in heads |-> b[row[h]]] = [h \in heads |-> SumOver(w, Q[h])]
  <2>1. \A h \in heads : b[row[h]] = row[h].bytes
    <3>1. \A r \in rows : b[r] = r.bytes
      OBVIOUS
    <3> HIDE DEF b, rows, row, heads
    <3> QED BY <1>8, <3>1
  <2> HIDE DEF b, rows, row, heads, Q, w
  <2> QED BY <1>7, <2>1
<1>13. SumOver(b, rows) = SumOver(w, U)
  <2>1. SumOver([h \in heads |-> b[row[h]]], heads) = SumOver([h \in heads |-> SumOver(w, Q[h])], heads)
    BY <1>12, Zenon
  <2> QED BY <1>6, <1>11, <2>1
<1>14. SumOver(w, rest) = IF claims[Root].category = c THEN MapThenSumSet(LAMBDA i : t.nodes[i].own, loose) ELSE 0
  <2>1. CASE claims[Root].category = c
    <3>1. rest = loose /\ loose \in SUBSET Ids(t)
      BY <2>1
    <3>2. MapThenSumSet(LAMBDA i : t.nodes[i].own, loose) = SumOver(w, loose)
      <4> HIDE DEF loose
      <4> QED BY <3>1, OwnSum
    <3>3. SumOver(w, rest) = SumOver(w, loose)
      BY <3>1, Zenon
    <3> QED BY <2>1, <3>2, <3>3, Zenon
  <2>2. CASE claims[Root].category # c
    <3>1. rest = {}
      BY <2>2
    <3>2. SumOver(w, rest) = SumOver(w, {})
      BY <3>1, Zenon
    <3>3. SumOver(w, {}) = 0
      BY SumNone
    <3> QED BY <2>2, <3>2, <3>3, Zenon
  <2> QED BY <2>1, <2>2
<1>15. Wrapped(t, P) = SumOver(w, P)
  <2>1. P \in SUBSET Ids(t)
    OBVIOUS
  <2> HIDE DEF P
  <2> QED BY <2>1, WrappedExact
<1>16. Wrapped(t, P) = SumOver(b, rows) + SumOver(w, rest)
  <2> HIDE DEF w, b, rows, rest, P, U
  <2> QED BY <1>5, <1>13, <1>15
<1> HIDE DEF b, w
<1> QED BY <1>10, <1>14, <1>16, Zenon

(* A tree in which totals are what rollup() makes them.                    *)
IsRolled(t) == \A i \in Ids(t) : t.nodes[i].total = Capped(SumOver(Own(t), Below(t, i)))

(* Trees with the same parents have the same ancestors.                    *)
LEMMA SameLines ==
  ASSUME NEW t, NEW r, IsTree(t), IsTree(r), Ids(r) = Ids(t), \A i \in Ids(t) : ParentOf(r, i) = ParentOf(t, i)
  PROVE  \A i \in Ids(t) : AncestorsOf(r, i) = AncestorsOf(t, i)
<1> DEFINE n == Len(t.nodes)
           Good == {i \in 1..n : AncestorsOf(r, i) = AncestorsOf(t, i)}
<1>1. ASSUME NEW i \in 1..n, \A j \in 1..n : j < i => j \in Good PROVE i \in Good
  <2>1. i \in Ids(t) /\ ParentOf(t, i) \in Nat /\ ParentOf(t, i) < i /\ ParentOf(r, i) = ParentOf(t, i)
    BY DEF IsTree
  <2> DEFINE p == ParentOf(t, i)
  <2>2. /\ AncestorsOf(t, i) = IF p = NoNode THEN <<>> ELSE Append(AncestorsOf(t, p), p)
        /\ AncestorsOf(r, i) = IF p = NoNode THEN <<>> ELSE Append(AncestorsOf(r, p), p)
    BY <2>1, AncestorsRec
  <2>3. p # NoNode => AncestorsOf(r, p) = AncestorsOf(t, p)
    BY <1>1, <2>1 DEF NoNode
  <2> HIDE DEF p
  <2>4. AncestorsOf(r, i) = AncestorsOf(t, i)
    BY <2>2, <2>3
  <2> QED BY <2>4
<1>2. n \in Nat /\ Ids(t) = 1..n
  BY DEF IsTree
<1>3. 1..n \subseteq Good
  <2> HIDE DEF Good, n
  <2> QED BY <1>1, <1>2, Upwards
<1> QED BY <1>2, <1>3

(* What rollup() leaves is such a tree, with the totals it should have.    *)
LEMMA RolledTree ==
  ASSUME NEW t, Sized(t)
  PROVE  LET r == Rolled(t)
         IN  /\ Sized(r) /\ IsRolled(r) /\ r.root_path = t.root_path /\ Ids(r) = Ids(t) /\ Len(r.nodes) = Len(t.nodes)
             /\ \A i \in Ids(t) : /\ r.nodes[i] = [t.nodes[i] EXCEPT !.total = Capped(SumOver(Own(t), Below(t, i)))]
                                  /\ AncestorsOf(r, i) = AncestorsOf(t, i)
<1> DEFINE r == Rolled(t)
<1>1. /\ r.root_path = t.root_path /\ Ids(r) = Ids(t) /\ r = [root_path |-> r.root_path, nodes |-> r.nodes]
      /\ r.nodes = [i \in Ids(t) |-> r.nodes[i]]
      /\ \A i \in Ids(t) : r.nodes[i] = [t.nodes[i] EXCEPT !.total = Capped(SumOver(Own(t), Below(t, i)))]
  BY RolledUp
<1>2. IsTree(t) /\ Len(t.nodes) \in Nat /\ Ids(t) = 1..Len(t.nodes)
  BY DEF Sized, IsTree
<1>0. \A i \in Ids(t) : IsNode(t.nodes[i])
  BY <1>2 DEF IsTree
<1> HIDE DEF r
<1>3. \A i \in Ids(t) : /\ r.nodes[i].own = t.nodes[i].own /\ r.nodes[i].parent = t.nodes[i].parent
                        /\ r.nodes[i].total = Capped(SumOver(Own(t), Below(t, i))) /\ IsNode(r.nodes[i])
  BY <1>0, <1>1 DEF IsNode
<1>4. Len(r.nodes) = Len(t.nodes)
  <2>1. r.nodes \in Seq({r.nodes[i] : i \in 1..Len(t.nodes)})
    <3>1. DOMAIN r.nodes = 1..Len(t.nodes) /\ r.nodes = [i \in 1..Len(t.nodes) |-> r.nodes[i]]
      BY <1>1, <1>2 DEF Ids
    <3> QED BY <1>2, <3>1
  <2>2. DOMAIN r.nodes = 1..Len(t.nodes)
    BY <1>1, <1>2 DEF Ids
  <2> QED BY <1>2, <2>1, <2>2
<1>5. IsTree(r)
  BY <1>1, <1>2, <1>3, <1>4 DEF IsTree, ParentOf
<1>6. Sized(r)
  BY <1>1, <1>3, <1>5 DEF Sized
<1>7. \A i \in Ids(t) : AncestorsOf(r, i) = AncestorsOf(t, i)
  BY <1>1, <1>2, <1>3, <1>5, SameLines DEF ParentOf
<1>8. Own(r) = Own(t)
  BY <1>1, <1>3 DEF Own
<1>9. \A i \in Ids(t) : Below(r, i) = Below(t, i)
  BY <1>1, <1>7 DEF Below
<1>10. IsRolled(r)
  BY <1>1, <1>3, <1>8, <1>9, Zenon DEF IsRolled
<1> QED BY <1>1, <1>4, <1>6, <1>7, <1>10 DEF r

(* The bytes and the flag of a row are those of what it accounts for.      *)
LEMMA RowsAccount ==
  ASSUME NEW t, Sized(t), Exact(t), NEW c \in StorageCategory, NEW row \in Consumers(t, Claims(t), c)
  PROVE  LET below == Accounted(t, Claims(t), row.id)
         IN  /\ row.bytes = MapThenSumSet(LAMBDA i : t.nodes[i].own, below)
             /\ row.complete <=> \A i \in below : ~SizeIsPartial(t.nodes[i])
<1>1. PICK h \in Ids(t) : Claims(t)[h].owner = h /\ row = Consumer(t, Claims(t), h)
  BY DEF Consumers
<1> DEFINE below == Accounted(t, Claims(t), h)
           owned == {i \in Ids(t) : Claims(t)[i].owner = h}
<1>2. below = owned
  BY <1>1, AccountedIsOwned DEF Sized
<1>3. row.id = h /\ row.bytes = Wrapped(t, owned) /\ row.complete = \A i \in owned : ~SizeIsPartial(t.nodes[i])
  BY <1>1, Zenon DEF Consumer
<1>4. owned \in SUBSET Ids(t)
  OBVIOUS
<1>5. row.bytes = MapThenSumSet(LAMBDA i : t.nodes[i].own, owned)
  <2> HIDE DEF owned
  <2>1. Wrapped(t, owned) = SumOver(Own(t), owned)
    BY <1>4, WrappedExact
  <2>2. MapThenSumSet(LAMBDA i : t.nodes[i].own, owned) = SumOver(Own(t), owned)
    BY <1>4, OwnSum
  <2> QED BY <1>3, <2>1, <2>2, Zenon
<1>6. row.bytes = MapThenSumSet(LAMBDA i : t.nodes[i].own, below)
  BY <1>2, <1>5, Zenon
<1>7. row.complete <=> \A i \in below : ~SizeIsPartial(t.nodes[i])
  BY <1>2, <1>3, Zenon
<1> QED BY <1>3, <1>6, <1>7, Zenon

(* The categories of a finished tree partition it.                         *)
LEMMA TreePartitions ==
  ASSUME NEW t, Sized(t), IsRolled(t), Root \in Ids(t)
  PROVE  Partitions(t)
<1> SUFFICES ASSUME Exact(t) PROVE Partitions(t)
  BY DEF Partitions
<1> DEFINE claims == Claims(t)
           totals == [c \in StorageCategory |-> Wrapped(t, {i \in Ids(t) : claims[i].category = c})]
           loose == {Root} \cap {i \in Ids(t) : claims[i].owner = NoNode}
           scanned == FoldSet(LAMBDA c, sum : Saturating(sum, totals[c]), 0, StorageCategory)
           spent(c) == MapThenSumSet(LAMBDA row : row.bytes, Consumers(t, claims, c))
           unowned(c) == IF claims[Root].category = c THEN MapThenSumSet(LAMBDA i : t.nodes[i].own, loose) ELSE 0
<1>1. scanned = SumOver(Own(t), Ids(t))
  BY CategoriesSum, Zenon
<1>2. t.nodes[Root].total = SumOver(Own(t), Ids(t))
  <2>1. Below(t, Root) = Ids(t)
    BY AboveOrder DEF Below, Above, Sized
  <2>2. SumOver(Own(t), Below(t, Root)) = SumOver(Own(t), Ids(t))
    BY <2>1, Zenon
  <2>3. Wrapped(t, Ids(t)) = SumOver(Own(t), Ids(t)) /\ Wrapped(t, Ids(t)) \in 0..Largest
    BY WrappedExact
  <2>4. Capped(SumOver(Own(t), Ids(t))) = SumOver(Own(t), Ids(t))
    BY <2>3, TreeBounds DEF Capped
  <2>5. t.nodes[Root].total = Capped(SumOver(Own(t), Below(t, Root)))
    BY DEF IsRolled
  <2> QED BY <2>2, <2>4, <2>5
<1>3. Breakdown(t).scanned = scanned /\ \A c \in StorageCategory : Breakdown(t).categories[c].total = totals[c]
  BY Zenon DEF Breakdown
<1>4. \A c \in StorageCategory : totals[c] = spent(c) + unowned(c)
  <2> TAKE c \in StorageCategory
  <2>1. Wrapped(t, {i \in Ids(t) : claims[i].category = c}) = spent(c) + unowned(c)
    BY ConsumersSum, Zenon
  <2>2. totals[c] = Wrapped(t, {i \in Ids(t) : claims[i].category = c})
    OBVIOUS
  <2> QED BY <2>1, <2>2, Zenon
<1>5. \A i \in Ids(t) : claims[i].owner # NoNode => claims[claims[i].owner].category = claims[i].category
  BY ClaimsAgree DEF Sized
<1>6. Breakdown(t).scanned = t.nodes[Root].total
  BY <1>1, <1>2, <1>3, Zenon
<1>7. \A c \in StorageCategory : Breakdown(t).categories[c].total = spent(c) + unowned(c)
  BY <1>3, <1>4, Zenon
<1>8. ASSUME NEW c \in StorageCategory, NEW row \in Consumers(t, claims, c)
      PROVE  LET below == Accounted(t, claims, row.id)
             IN  /\ row.bytes = MapThenSumSet(LAMBDA i : t.nodes[i].own, below)
                 /\ row.complete <=> \A i \in below : ~SizeIsPartial(t.nodes[i])
  BY <1>8, RowsAccount
<1> QED BY <1>5, <1>6, <1>7, <1>8, Zenon DEF Partitions

-----------------------------------------------------------------------------
(* The disk.                                                               *)

(* Every entry but the first lies in a directory that comes before it.     *)
LEMMA EntriesAre ==
  /\ Len(Shape) \in Nat /\ Entries = 1..Len(Shape) /\ NoEntry \notin Entries /\ IsFiniteSet(Entries)
  /\ \A e \in Entries : /\ Shape[e] \in [up : Nat, name : DOMAIN NameRank, dir : BOOLEAN, size : 0..Largest, ino : Nat, links : BOOLEAN]
                        /\ Shape[e].up \in Nat /\ Shape[e].up < e
                        /\ Shape[e].up # NoEntry => Shape[e].up \in Entries /\ Shape[Shape[e].up].dir
<1>1. Len(Shape) \in Nat /\ Entries = 1..Len(Shape) /\ NoEntry \notin Entries
  BY ShapeAssumption DEF Entries, NoEntry
<1>2. \A e \in Entries : /\ Shape[e] \in [up : Nat, name : DOMAIN NameRank, dir : BOOLEAN, size : 0..Largest, ino : Nat, links : BOOLEAN]
                         /\ Shape[e].up \in Nat /\ Shape[e].up < e
                         /\ Shape[e].up # NoEntry => Shape[Shape[e].up].dir
  <2> DEFINE R == [up : Nat, name : DOMAIN NameRank, dir : BOOLEAN, size : 0..Largest, ino : Nat, links : BOOLEAN]
  <2>1. \A r \in R : r.up \in Nat
    OBVIOUS
  <2>2. Shape \in Seq(R)
    BY ShapeAssumption
  <2> HIDE DEF R
  <2>3. \A e \in Entries : Shape[e] \in R
    BY <2>2 DEF Entries
  <2> QED BY <2>1, <2>3, ShapeAssumption DEF R
<1>3. \A e \in Entries : Shape[e].up # NoEntry => Shape[e].up \in Entries
  BY <1>1, <1>2 DEF NoEntry
<1>4. IsFiniteSet(Entries)
  BY <1>1, FS_Interval
<1> QED BY <1>1, <1>2, <1>3, <1>4

(* The path of an entry is that of its directory, and its name.            *)
LEMMA TrailRec ==
  \A e \in Entries : /\ Trail(e) = IF Shape[e].up = NoEntry THEN <<>> ELSE Append(Trail(Shape[e].up), Shape[e].name)
                     /\ Trail(e) \in Seq(DOMAIN NameRank)
<1> DEFINE n == Len(Shape)
           up == [j \in 1..n |-> Shape[j].up]
           V == Seq(DOMAIN NameRank)
           first == [j \in 1..n |-> <<>>]
           next == [j \in 1..n |-> [v \in V |-> Append(v, Shape[j].name)]]
<1>1. n \in Nat /\ Entries = 1..n /\ \A j \in 1..n : up[j] \in Nat /\ up[j] < j
  BY EntriesAre
<1>0. \A j \in 1..n : Shape[j].name \in DOMAIN NameRank
  BY EntriesAre
<1>2. PICK f : FromUp(f, n, up, first, next)
  <2> HIDE DEF n, up, first, next
  <2> QED BY <1>1, FromUpExists
<1>3. \A j \in 1..n : f[j] \in V
  <2>1. first \in [1..n -> V] /\ next \in [1..n -> [V -> V]]
    BY <1>0
  <2> HIDE DEF n, up, first, next, V
  <2> QED BY <1>1, <1>2, <2>1, FromUpTyped
<1> DEFINE Step(p, j) == IF Shape[j].up = NoEntry THEN <<>> ELSE Append(p[Shape[j].up], Shape[j].name)
           path == CHOOSE p : p = [x \in Entries |-> Step(p, x)]
<1>4. f = [j \in Entries |-> Step(f, j)]
  <2>1. \A j \in 1..n : f[j] = Step(f, j)
    <3> TAKE j \in 1..n
    <3>1. f[j] = IF up[j] = 0 THEN first[j] ELSE next[j][f[up[j]]]
      BY <1>2 DEF FromUp
    <3>2. up[j] # 0 => f[up[j]] \in V
      <4> HIDE DEF n, up, V
      <4>1. up[j] # 0 => up[j] \in 1..n
        BY <1>1
      <4> QED BY <1>3, <4>1
    <3>3. up[j] = Shape[j].up /\ first[j] = <<>> /\ (f[up[j]] \in V => next[j][f[up[j]]] = Append(f[up[j]], Shape[j].name))
      OBVIOUS
    <3> HIDE DEF n, up, V, first, next
    <3> QED BY <3>1, <3>2, <3>3 DEF NoEntry
  <2>2. f = [j \in 1..n |-> f[j]]
    BY <1>2 DEF FromUp
  <2> HIDE DEF Step
  <2> QED BY <1>1, <2>1, <2>2
<1>5. path = [x \in Entries |-> Step(path, x)]
  <2> HIDE DEF Step
  <2> QED BY <1>4
<1>6. \A e : Trail(e) = path[e]
  BY Zenon DEF Trail
<1>7. \A e \in Entries : path[e] = Step(path, e)
  <2> HIDE DEF path, Step
  <2> QED BY <1>5
<1>8. \A e \in Entries : Trail(e) = IF Shape[e].up = NoEntry THEN <<>> ELSE Append(Trail(Shape[e].up), Shape[e].name)
  <2> HIDE DEF path
  <2> QED BY <1>6, <1>7
<1> DEFINE Good == {e \in 1..n : Trail(e) \in V}
<1>9. ASSUME NEW e \in 1..n, \A j \in 1..n : j < e => j \in Good PROVE e \in Good
  <2>1. Shape[e].up # NoEntry => Trail(Shape[e].up) \in V
    BY <1>9, EntriesAre
  <2>2. Trail(e) = IF Shape[e].up = NoEntry THEN <<>> ELSE Append(Trail(Shape[e].up), Shape[e].name)
    BY <1>1, <1>8
  <2>3. Shape[e].name \in DOMAIN NameRank
    BY <1>0
  <2>4. \A v \in V, x \in DOMAIN NameRank : Append(v, x) \in V
    OBVIOUS
  <2>5. <<>> \in V
    OBVIOUS
  <2> HIDE DEF V
  <2>6. Trail(e) \in V
    BY <2>1, <2>2, <2>3, <2>4, <2>5
  <2> QED BY <2>6
<1>10. 1..n \subseteq Good
  <2> HIDE DEF Good, n
  <2> QED BY <1>1, <1>9, Upwards
<1> QED BY <1>1, <1>8, <1>10

(* A mounted entry begins a device; any other is on its directory's.       *)
LEMMA DeviceRec ==
  \A e \in Entries : /\ DeviceOf(e) = IF e \in disk.mounted \/ Shape[e].up = NoEntry THEN e ELSE DeviceOf(Shape[e].up)
                     /\ DeviceOf(e) \in Entries
<1> DEFINE n == Len(Shape)
           up == [j \in 1..n |-> Shape[j].up]
           V == Entries
           first == [j \in 1..n |-> j]
           next == [j \in 1..n |-> [v \in V |-> IF j \in disk.mounted THEN j ELSE v]]
<1>1. n \in Nat /\ Entries = 1..n /\ \A j \in 1..n : up[j] \in Nat /\ up[j] < j
  BY EntriesAre
<1>2. PICK f : FromUp(f, n, up, first, next)
  <2> HIDE DEF n, up, first, next
  <2> QED BY <1>1, FromUpExists
<1>3. \A j \in 1..n : f[j] \in V
  <2>1. first \in [1..n -> V] /\ next \in [1..n -> [V -> V]]
    BY <1>1
  <2> HIDE DEF n, up, first, next, V
  <2> QED BY <1>1, <1>2, <2>1, FromUpTyped
<1> DEFINE Step(p, j) == IF j \in disk.mounted \/ Shape[j].up = NoEntry THEN j ELSE p[Shape[j].up]
           device == CHOOSE p : p = [x \in Entries |-> Step(p, x)]
<1>4. f = [j \in Entries |-> Step(f, j)]
  <2>1. \A j \in 1..n : f[j] = Step(f, j)
    <3> TAKE j \in 1..n
    <3>1. f[j] = IF up[j] = 0 THEN first[j] ELSE next[j][f[up[j]]]
      BY <1>2 DEF FromUp
    <3>2. up[j] # 0 => f[up[j]] \in V
      <4> HIDE DEF n, up, V
      <4>1. up[j] # 0 => up[j] \in 1..n
        BY <1>1
      <4> QED BY <1>3, <4>1
    <3>3. up[j] = Shape[j].up /\ first[j] = j /\ (f[up[j]] \in V => next[j][f[up[j]]] = IF j \in disk.mounted THEN j ELSE f[up[j]])
      OBVIOUS
    <3> HIDE DEF n, up, V, first, next
    <3> QED BY <3>1, <3>2, <3>3 DEF NoEntry
  <2>2. f = [j \in 1..n |-> f[j]]
    BY <1>2 DEF FromUp
  <2> HIDE DEF Step
  <2> QED BY <1>1, <2>1, <2>2
<1>5. device = [x \in Entries |-> Step(device, x)]
  <2> HIDE DEF Step
  <2> QED BY <1>4
<1>6. \A e : DeviceOf(e) = device[e]
  BY Zenon DEF DeviceOf
<1>7. \A e \in Entries : device[e] = Step(device, e)
  <2> HIDE DEF device, Step
  <2> QED BY <1>5
<1>8. \A e \in Entries : DeviceOf(e) = IF e \in disk.mounted \/ Shape[e].up = NoEntry THEN e ELSE DeviceOf(Shape[e].up)
  <2> HIDE DEF device
  <2> QED BY <1>6, <1>7
<1> DEFINE Good == {e \in 1..n : DeviceOf(e) \in Entries}
<1>9. ASSUME NEW e \in 1..n, \A j \in 1..n : j < e => j \in Good PROVE e \in Good
  BY <1>1, <1>8, <1>9, EntriesAre
<1>10. 1..n \subseteq Good
  <2> HIDE DEF Good, n
  <2> QED BY <1>1, <1>9, Upwards
<1> QED BY <1>1, <1>8, <1>10

-----------------------------------------------------------------------------
(* The parse: types, and the shape of the tree while it grows.             *)

Node == [name : DOMAIN NameRank, kind : {"Directory", "File", "Other"}, parent : Nat, own : 0..Largest, total : Nat,
         read_error : BOOLEAN, hardlink : BOOLEAN, excluded : BOOLEAN]
Failures == {"none", "RefusedPath", "TooDeep", "Truncated", "Malformed", "Io", "Empty", "UnsupportedFormat", "BackendFailed"}
Stats == [read_errors : Nat, excluded : Nat, deduplicated : Nat, saved : Nat]

SinkTypes ==
  /\ disk \in DiskState
  /\ scan \in [phase : Phases, failure : Failures, root : Asked \cup {NoEntry}, backend : {"ncdu", "gdu"},
               confined : BOOLEAN, depth : Nat, items : Nat, directories : Nat]
  /\ sink \in [tree : [root_path : Seq(DOMAIN NameRank), nodes : Seq(Node)], stack : Seq(Nat), devices : Seq(Nat),
               seen : SUBSET (Nat \X Nat), stats : Stats]
  /\ origin \in Seq(Entries)

(* The stack holds nodes that exist, so a parent comes before its child,   *)
(* and it is empty before the first node and after the last.               *)
SinkShape ==
  /\ scan.phase \in {"idle", "header", "root", "failed"} => sink = NewSink /\ origin = <<>>
  /\ scan.phase = "idle" => scan = NoScan
  /\ scan.phase \in {"header", "root", "tree", "tail", "done"} => scan.root # NoEntry
  /\ scan.root # NoEntry => Shape[scan.root].dir /\ scan.root \in disk.present
  /\ scan.phase = "tree" => scan.depth # 0
  /\ scan.phase \in {"tree", "tail", "done"} => Ids(Tree) # {}
  /\ scan.phase \in {"header", "root", "tail", "done"} => scan.depth = 0
  /\ scan.phase # "failed" => Len(sink.stack) = scan.depth /\ Len(sink.devices) = scan.depth
  /\ Len(origin) = Len(Tree.nodes)
  /\ \A k \in DOMAIN sink.stack : sink.stack[k] \in Ids(Tree)
  /\ \A i \in Ids(Tree) : ParentOf(Tree, i) < i /\ (ParentOf(Tree, i) = NoNode => i = Root)
  /\ Done => IsRolled(Tree)

SinkInv == SinkTypes /\ SinkShape

(* The sink always holds a tree, whatever came in so far.                  *)
LEMMA TreeIsSized ==
  ASSUME SinkInv PROVE Sized(Tree)
<1>1. Tree \in [root_path : Seq(DOMAIN NameRank), nodes : Seq(Node)]
  BY DEF SinkInv, SinkTypes, Tree
<1>2. Tree = [root_path |-> Tree.root_path, nodes |-> Tree.nodes] /\ Tree.nodes \in Seq(Node)
  BY <1>1
<1>3. Len(Tree.nodes) \in Nat /\ Ids(Tree) = 1..Len(Tree.nodes) /\ \A i \in Ids(Tree) : Tree.nodes[i] \in Node
  BY <1>2 DEF Ids
<1>4. \A x \in Node : IsNode(x) /\ x.own \in 0..Largest /\ x.parent \in Nat
  BY DEF Node, IsNode
<1>5. \A i \in Ids(Tree) : IsNode(Tree.nodes[i]) /\ Tree.nodes[i].own \in 0..Largest /\ ParentOf(Tree, i) \in Nat
  BY <1>3, <1>4 DEF ParentOf
<1>6. \A i \in Ids(Tree) : ParentOf(Tree, i) < i /\ (ParentOf(Tree, i) = NoNode => i = Root)
  BY DEF SinkInv, SinkShape
<1> HIDE DEF Tree
<1>7. IsTree(Tree)
  BY <1>2, <1>3, <1>5, <1>6 DEF IsTree
<1> QED BY <1>5, <1>7 DEF Sized

(* A line of the wire has the fields of its kind.                          *)
LEMMA ItemTypes ==
  ASSUME SinkInv, NEW e \in Entries, scan.root # NoEntry
  PROVE  LET item == Item(e)
         IN  item \in [name : DOMAIN NameRank, size : 0..Largest, dev : Nat, ino : Nat, hlnkc : BOOLEAN,
                       notreg : {FALSE}, read_error : BOOLEAN, excluded : BOOLEAN]
<1>1. Shape[e] \in [up : Nat, name : DOMAIN NameRank, dir : BOOLEAN, size : 0..Largest, ino : Nat, links : BOOLEAN]
  BY EntriesAre
<1>2. DeviceOf(e) \in Nat
  BY DeviceRec, EntriesAre
<1>3. scan.root \in Asked
  BY DEF SinkInv, SinkTypes
<1>4. FullName[scan.root] \in DOMAIN NameRank
  BY <1>3, AskedAssumption
<1>5. Excluded(e) \in BOOLEAN
  BY DEF Excluded
<1>6. 0 \in 0..Largest
  BY TreeBounds
<1> HIDE DEF Excluded
<1>7. (IF e = scan.root THEN FullName[e] ELSE Shape[e].name) \in DOMAIN NameRank
  BY <1>1, <1>4
<1>8. (IF Excluded(e) THEN 0 ELSE Shape[e].size) \in 0..Largest
  BY <1>1, <1>6
<1>9. (Shape[e].links /\ ~Excluded(e)) \in BOOLEAN /\ (e \in disk.locked /\ ~Excluded(e)) \in BOOLEAN
  OBVIOUS
<1>10. Shape[e].ino \in Nat
  BY <1>1
<1> QED BY <1>2, <1>5, <1>7, <1>8, <1>9, <1>10 DEF Item, NoDev

(* What a record changes, whatever it is a record of.                      *)
LEMMA TookIs ==
  ASSUME SinkInv, NEW e \in Entries, scan.root # NoEntry, NEW kind \in {"Directory", "File", "Other"}
  PROVE  LET item == Item(e)
             new == Took(item, kind)
             node == NodeFrom(item, kind)
         IN  /\ new = [tree |-> [root_path |-> Tree.root_path, nodes |-> Append(Tree.nodes, node)], stack |-> sink.stack,
                       devices |-> sink.devices, seen |-> new.seen, stats |-> Counted(item)]
             /\ node \in Node /\ Counted(item) \in Stats /\ new.seen \in SUBSET (Nat \X Nat)
             /\ new.seen = IF item.hlnkc THEN sink.seen \cup {<<DeviceIn(item), item.ino>>} ELSE sink.seen
<1> DEFINE item == Item(e)
<1>1. item \in [name : DOMAIN NameRank, size : 0..Largest, dev : Nat, ino : Nat, hlnkc : BOOLEAN,
                notreg : {FALSE}, read_error : BOOLEAN, excluded : BOOLEAN]
  BY ItemTypes
<1> HIDE DEF item
<1>2. sink = [tree |-> Tree, stack |-> sink.stack, devices |-> sink.devices, seen |-> sink.seen, stats |-> sink.stats]
      /\ Tree = [root_path |-> Tree.root_path, nodes |-> Tree.nodes] /\ sink.stack \in Seq(Nat) /\ sink.devices \in Seq(Nat)
      /\ sink.seen \in SUBSET (Nat \X Nat) /\ sink.stats \in Stats
  BY DEF SinkInv, SinkTypes, Tree
<1>3. DeviceIn(item) \in Nat
  <2>1. sink.devices # <<>> => Last(sink.devices) \in Nat
    BY <1>2 DEF Last
  <2> QED BY <1>1, <2>1 DEF DeviceIn, CurrentDevice, NoDev
<1>4. Repeated(item) \in BOOLEAN
  BY <1>1 DEF Repeated
<1>5. sink.stack # <<>> => Last(sink.stack) \in Nat
  BY <1>2 DEF Last
<1>6. 0 \in 0..Largest /\ Largest \in Nat
  BY TreeBounds
<1>7. NodeFrom(item, kind) \in Node
  <2>1. (IF sink.stack = <<>> THEN NoNode ELSE Last(sink.stack)) \in Nat
    BY <1>5 DEF NoNode
  <2>2. (IF Repeated(item) THEN 0 ELSE item.size) \in 0..Largest
    BY <1>1, <1>6
  <2>3. 0 \in Nat
    OBVIOUS
  <2> HIDE DEF Repeated
  <2> QED BY <1>1, <1>4, <2>1, <2>2, <2>3 DEF NodeFrom, Node
<1>8. Counted(item) \in Stats
  <2>1. \A b \in BOOLEAN : Flag(b) \in Nat
    BY DEF Flag
  <2>2. (IF Repeated(item) THEN item.size ELSE 0) \in Nat
    BY <1>1, <1>6
  <2>3. \A a, b \in Nat : Saturating(a, b) \in Nat
    BY <1>6 DEF Saturating
  <2>4. item.read_error \in BOOLEAN /\ item.excluded \in BOOLEAN
    BY <1>1
  <2>5. Flag(item.read_error) \in Nat /\ Flag(item.excluded) \in Nat /\ Flag(Repeated(item)) \in Nat
    BY <1>4, <2>1, <2>4
  <2>6. /\ sink.stats.read_errors \in Nat /\ sink.stats.excluded \in Nat
        /\ sink.stats.deduplicated \in Nat /\ sink.stats.saved \in Nat
    BY <1>2 DEF Stats
  <2>7. Saturating(sink.stats.saved, IF Repeated(item) THEN item.size ELSE 0) \in Nat
    BY <2>2, <2>3, <2>6
  <2>8. \A a, b \in Nat : a + b \in Nat
    OBVIOUS
  <2> QED BY <2>5, <2>6, <2>7, <2>8 DEF Counted, Stats
<1>9. Took(item, kind).seen = IF item.hlnkc THEN sink.seen \cup {<<DeviceIn(item), item.ino>>} ELSE sink.seen
  BY <1>2 DEF Took
<1>10. Took(item, kind).seen \in SUBSET (Nat \X Nat)
  BY <1>1, <1>2, <1>3, <1>9
<1>11. Took(item, kind) = [tree |-> [root_path |-> Tree.root_path, nodes |-> Append(Tree.nodes, NodeFrom(item, kind))], stack |-> sink.stack,
                       devices |-> sink.devices, seen |-> Took(item, kind).seen, stats |-> Counted(item)]
  <2> DEFINE node == NodeFrom(item, kind)
             more == IF item.hlnkc THEN sink.seen \cup {<<DeviceIn(item), item.ino>>} ELSE sink.seen
             stats == Counted(item)
  <2>1. Push(Tree, node) = [root_path |-> Tree.root_path, nodes |-> Append(Tree.nodes, node)]
    <3> DEFINE A == Seq(DOMAIN NameRank) B == Seq(Node)
    <3>1. Tree \in [root_path : A, nodes : B]
      BY DEF SinkInv, SinkTypes, Tree
    <3> HIDE DEF A, B, node
    <3> QED BY <3>1 DEF Push
  <2>2. Took(item, kind) = [sink EXCEPT !.tree = Push(sink.tree, node), !.seen = more, !.stats = stats]
    BY DEF Took
  <2> HIDE DEF node, more, stats
  <2>3. Took(item, kind) = [tree |-> Push(Tree, node), stack |-> sink.stack, devices |-> sink.devices, seen |-> more, stats |-> stats]
    BY <1>2, <2>2 DEF Tree
  <2> QED BY <1>9, <2>1, <2>3 DEF node, more, stats
<1> QED BY <1>7, <1>8, <1>9, <1>10, <1>11 DEF item

(* A record taken in, of a directory that is entered or of anything else.  *)
Enters(e) == Shape[e].dir /\ ~Excluded(e)
NewNode(e) == NodeFrom(Item(e), IF Enters(e) THEN "Directory" ELSE "File")
NewSeen(e) == IF Item(e).hlnkc THEN sink.seen \cup {<<DeviceIn(Item(e)), Item(e).ino>>} ELSE sink.seen
Taken(e) ==
  /\ disk' = disk /\ origin' = Append(origin, e)
  /\ sink' = [tree    |-> [root_path |-> IF e = scan.root THEN Trail(e) ELSE Tree.root_path,
                           nodes     |-> Append(Tree.nodes, NewNode(e))],
              stack   |-> IF Enters(e) THEN Append(sink.stack, Len(Tree.nodes) + 1) ELSE sink.stack,
              devices |-> IF Enters(e) THEN Append(sink.devices, DeviceIn(Item(e))) ELSE sink.devices,
              seen    |-> NewSeen(e),
              stats   |-> Counted(Item(e))]
  /\ scan' = [scan EXCEPT !.phase = "tree", !.items = @ + 1,
                          !.depth = IF Enters(e) THEN @ + 1 ELSE @,
                          !.directories = IF Enters(e) THEN @ + 1 ELSE @]

(* OpenDir and Leaf both take one record in, and differ in whether the     *)
(* entry is entered.                                                       *)
LEMMA TakenIs ==
  ASSUME SinkInv, NEW e \in Entries, OpenDir(e) \/ Leaf(e)
  PROVE  /\ Taken(e) /\ IsNext(e) /\ scan.root # NoEntry
         /\ scan.phase = "root" => e = scan.root /\ Enters(e)
         /\ NewNode(e) \in Node /\ Counted(Item(e)) \in Stats /\ NewSeen(e) \in SUBSET (Nat \X Nat)
<1>0. IsNext(e) /\ scan.phase \in {"root", "tree"} /\ scan.root # NoEntry /\ (scan.phase = "root" => e = scan.root)
  BY DEF OpenDir, Leaf, IsNext, SinkInv, SinkShape
<1>1. e = scan.root => Enters(e)
  BY <1>0 DEF Enters, Excluded, SinkInv, SinkShape
<1> DEFINE item == Item(e)
<1>2. item \in [name : DOMAIN NameRank, size : 0..Largest, dev : Nat, ino : Nat, hlnkc : BOOLEAN,
                notreg : {FALSE}, read_error : BOOLEAN, excluded : BOOLEAN]
  BY <1>0, ItemTypes
<1>3. ASSUME NEW kind \in {"Directory", "File", "Other"}
      PROVE  /\ Took(item, kind) = [tree |-> [root_path |-> Tree.root_path, nodes |-> Append(Tree.nodes, NodeFrom(item, kind))],
                                    stack |-> sink.stack, devices |-> sink.devices, seen |-> NewSeen(e), stats |-> Counted(item)]
             /\ NodeFrom(item, kind) \in Node /\ Counted(item) \in Stats /\ NewSeen(e) \in SUBSET (Nat \X Nat)
  BY <1>0, TookIs DEF NewSeen
<1>4. NewNode(e) \in Node /\ Counted(item) \in Stats /\ NewSeen(e) \in SUBSET (Nat \X Nat)
  <2>1. \A kind \in {"Directory", "File", "Other"} : NodeFrom(item, kind) \in Node /\ Counted(item) \in Stats /\ NewSeen(e) \in SUBSET (Nat \X Nat)
    BY <1>3
  <2> HIDE DEF item
  <2> QED BY <2>1 DEF NewNode, item
<1>5. Tree.nodes \in Seq(Node) /\ Len(Append(Tree.nodes, NewNode(e))) = Len(Tree.nodes) + 1
  <2>1. Tree.nodes \in Seq(Node)
    BY DEF SinkInv, SinkTypes, Tree
  <2> QED BY <1>4, <2>1
<1>6. scan \in [phase : Phases, failure : Failures, root : Asked \cup {NoEntry}, backend : {"ncdu", "gdu"},
               confined : BOOLEAN, depth : Nat, items : Nat, directories : Nat]
  BY DEF SinkInv, SinkTypes
<1>7. CASE OpenDir(e)
  <2>1. Enters(e)
    BY <1>7 DEF OpenDir, Enters
  <2> DEFINE new == Took(item, "Directory")
  <2>2. new = [tree |-> [root_path |-> Tree.root_path, nodes |-> Append(Tree.nodes, NewNode(e))],
               stack |-> sink.stack, devices |-> sink.devices, seen |-> NewSeen(e), stats |-> Counted(item)]
    <3>1. NewNode(e) = NodeFrom(item, "Directory")
      BY <2>1 DEF NewNode
    <3> HIDE DEF item
    <3> QED BY <1>3, <3>1
  <2>3. sink' = [new EXCEPT !.tree.root_path = IF e = scan.root THEN Trail(e) ELSE @,
                            !.stack = Append(@, Len(new.tree.nodes)), !.devices = Append(@, DeviceIn(Item(e)))]
    BY <1>7 DEF OpenDir
  <2>4. scan' = [scan EXCEPT !.phase = "tree", !.depth = @ + 1, !.items = @ + 1, !.directories = @ + 1]
        /\ origin' = Append(origin, e) /\ disk' = disk
    BY <1>7 DEF OpenDir
  <2> HIDE DEF new, item
  <2>5. sink' = [tree |-> [root_path |-> IF e = scan.root THEN Trail(e) ELSE Tree.root_path,
                           nodes |-> Append(Tree.nodes, NewNode(e))],
                 stack |-> Append(sink.stack, Len(Tree.nodes) + 1), devices |-> Append(sink.devices, DeviceIn(Item(e))),
                 seen |-> NewSeen(e), stats |-> Counted(item)]
    BY <1>5, <2>2, <2>3
  <2>6. Taken(e)
    BY <1>6, <2>1, <2>4, <2>5 DEF Taken, item
  <2> QED BY <1>0, <1>1, <1>4, <2>6 DEF item
<1>8. CASE Leaf(e)
  <2>1. ~Enters(e) /\ e # scan.root
    BY <1>1, <1>8 DEF Leaf, Enters
  <2>2. KindOf(item) = "File" /\ NewNode(e) = NodeFrom(item, "File")
    <3> HIDE DEF item
    <3> QED BY <1>2, <2>1 DEF KindOf, NewNode, item
  <2>3. sink' = Took(item, "File")
    BY <1>8, <2>2 DEF Leaf
  <2>4. scan' = [scan EXCEPT !.items = @ + 1] /\ origin' = Append(origin, e) /\ disk' = disk /\ scan.phase = "tree"
    BY <1>0, <1>8, <2>1 DEF Leaf
  <2> HIDE DEF item
  <2>5. sink' = [tree |-> [root_path |-> Tree.root_path, nodes |-> Append(Tree.nodes, NewNode(e))],
                 stack |-> sink.stack, devices |-> sink.devices, seen |-> NewSeen(e), stats |-> Counted(item)]
    BY <1>3, <2>2, <2>3
  <2>6. Taken(e)
    BY <1>6, <2>1, <2>4, <2>5 DEF Taken, item
  <2> QED BY <1>0, <1>1, <1>4, <2>6 DEF item
<1> QED BY <1>7, <1>8

(* Every step there is, by what it does to the sink.                       *)
Started(e, source) ==
  /\ scan.phase = "idle" /\ e \in disk.present /\ Shape[e].dir
  /\ scan' = [scan EXCEPT !.phase = "header", !.root = e, !.backend = source[1], !.confined = source[2]]
  /\ UNCHANGED <<disk, sink, origin>>
Failed == \E why \in Failures : Fail(why)

(* Only these steps touch the scan: all others leave it as it was.         *)
LEMMA SinkSteps ==
  ASSUME [FootprintNext]_allVars
  PROVE  \/ UNCHANGED sinkVars
         \/ \E e \in Asked, source \in Sources : Started(e, source)
         \/ Failed \/ Header \/ CloseDir \/ Finish
         \/ \E e \in Entries : OpenDir(e) \/ Leaf(e)
<1>1. CASE UNCHANGED allVars
  BY <1>1 DEF allVars
<1>2. CASE SinkNext
  <2>1. ASSUME NEW e \in Asked, NEW source \in Sources, Begin(e, source) PROVE Started(e, source) \/ Failed
    BY <2>1 DEF Begin, Started, Failed, Failures
  <2>2. ASSUME NEW e \in Entries, TooDeep(e) PROVE Failed
    BY <2>2 DEF TooDeep, Failed, Failures
  <2>3. ASSUME Break PROVE Failed
    <3>1. PICK why \in {"Truncated", "Malformed", "Io"}
                \cup (IF scan.phase = "header" THEN {"Empty", "UnsupportedFormat"} ELSE {})
                \cup (IF scan.phase = "tail" THEN {"BackendFailed"} ELSE {}) : Fail(why)
      BY <2>3 DEF Break
    <3>2. why \in Failures
      BY DEF Failures
    <3> QED BY <3>1, <3>2 DEF Failed
  <2> QED BY <1>2, <2>1, <2>2, <2>3 DEF SinkNext
<1>3. CASE \/ \E id \in 1..Cardinality(Entries) : Plan(id)
           \/ \E e \in Inspected : PlanInstalled(e)
  BY <1>3 DEF Plan, PlanInstalled
<1>4. CASE TakeFromScan \/ BeginWalk \/ Resolve \/ Change
  BY <1>4 DEF TakeFromScan, BeginWalk, Resolve, Change
<1>5. CASE Walking
  BY <1>5 DEF Walking, Vanished, Exhausted, Visit, EndWalk
<1> QED BY <1>1, <1>2, <1>3, <1>4, <1>5 DEF FootprintNext

(* A new sink is empty.                                                    *)
LEMMA SinkInitially ==
  ASSUME FootprintInit PROVE SinkInv
<1>1. disk \in DiskState
  BY DiskAssumption DEF FootprintInit, SinkInit
<1>2. scan = NoScan /\ sink = NewSink /\ origin = <<>>
  BY DEF FootprintInit, SinkInit
<1>3. SinkTypes
  BY <1>1, <1>2 DEF SinkTypes, NoScan, NewSink, NewStats, Stats, EmptyTree, Phases, NoEntry, Failures
<1>4. SinkShape
  BY <1>2 DEF SinkShape, NoScan, NewSink, EmptyTree, Tree, Ids, Done, NoEntry, IsRolled
<1> QED BY <1>3, <1>4 DEF SinkInv

(* All but the last of a sequence, place by place.                         *)
LEMMA FrontIs ==
  ASSUME NEW V, NEW s \in Seq(V), Len(s) # 0
  PROVE  /\ Front(s) \in Seq(V) /\ Len(Front(s)) = Len(s) - 1
         /\ \A k \in DOMAIN Front(s) : k \in DOMAIN s /\ Front(s)[k] = s[k]
<1>1. Len(s) - 1 \in Nat /\ Len(s) - 1 <= Len(s)
  OBVIOUS
<1>2. Front(s) = [k \in 1..(Len(s) - 1) |-> s[k]]
  BY <1>1 DEF Front
<1>3. \A k \in 1..(Len(s) - 1) : k \in DOMAIN s /\ s[k] \in V
  OBVIOUS
<1> QED BY <1>1, <1>2, <1>3

(* No step spoils the types or the shape.                                  *)
LEMMA SinkKept ==
  ASSUME SinkInv, [FootprintNext]_allVars
  PROVE  SinkInv'
<1> DEFINE Scans == [phase : Phases, failure : Failures, root : Asked \cup {NoEntry}, backend : {"ncdu", "gdu"},
                     confined : BOOLEAN, depth : Nat, items : Nat, directories : Nat]
           Sinks == [tree : [root_path : Seq(DOMAIN NameRank), nodes : Seq(Node)], stack : Seq(Nat), devices : Seq(Nat),
                     seen : SUBSET (Nat \X Nat), stats : Stats]
<1>1. disk \in DiskState /\ scan \in Scans /\ sink \in Sinks /\ origin \in Seq(Entries) /\ SinkShape
  BY DEF SinkInv, SinkTypes
<1>2. ASSUME UNCHANGED sinkVars PROVE SinkInv'
  BY <1>2 DEF sinkVars, SinkInv, SinkTypes, SinkShape, Tree, Done
<1>3. ASSUME NEW e \in Asked, NEW source \in Sources, Started(e, source) PROVE SinkInv'
  <2>1. source[1] \in {"ncdu", "gdu"} /\ source[2] \in BOOLEAN /\ e # NoEntry
    BY AskedAssumption, EntriesAre
  <2>2. scan' = [NoScan EXCEPT !.phase = "header", !.root = e, !.backend = source[1], !.confined = source[2]]
    BY <1>1, <1>3 DEF SinkShape, Started
  <2>3. SinkTypes'
    BY <1>1, <1>3, <2>1, <2>2 DEF SinkTypes, Started, NoScan, Phases
  <2>4. SinkShape'
    BY <1>1, <1>3, <2>1, <2>2 DEF SinkShape, Started, NoScan, NewSink, EmptyTree, Tree, Ids, Done
  <2> QED BY <2>3, <2>4 DEF SinkInv
<1>4. ASSUME Failed PROVE SinkInv'
  <2>1. PICK why \in Failures : Fail(why)
    BY <1>4 DEF Failed
  <2>2. SinkTypes'
    <3>1. scan' \in Scans
      <4>1. scan' = [scan EXCEPT !.phase = "failed", !.failure = why] /\ "failed" \in Phases
        BY <2>1 DEF Fail, Phases
      <4> QED BY <1>1, <4>1
    <3>2. sink' \in Sinks
      BY <2>1 DEF Fail, NewSink, NewStats, Stats, EmptyTree
    <3> QED BY <1>1, <2>1, <3>1, <3>2 DEF SinkTypes, Fail
  <2>3. SinkShape'
    BY <1>1, <2>1 DEF SinkShape, Fail, NewSink, EmptyTree, Tree, Ids, Done, IsRolled
  <2> QED BY <2>2, <2>3 DEF SinkInv
<1>5. ASSUME Header PROVE SinkInv'
  <2>2. SinkTypes'
    BY <1>1, <1>5 DEF SinkTypes, Header, Phases
  <2>3. SinkShape'
    BY <1>1, <1>5 DEF SinkShape, Header, NewSink, EmptyTree, Tree, Ids, Done, IsRolled
  <2> QED BY <2>2, <2>3 DEF SinkInv
<1>6. ASSUME CloseDir PROVE SinkInv'
  <2>1. /\ scan.phase = "tree" /\ scan.depth # 0
        /\ sink' = [sink EXCEPT !.stack = Front(@), !.devices = Front(@)]
        /\ scan' = [scan EXCEPT !.depth = @ - 1, !.phase = IF scan.depth = 1 THEN "tail" ELSE "tree"]
        /\ disk' = disk /\ origin' = origin
    BY <1>1, <1>6 DEF CloseDir, SinkShape
  <2>2. Len(sink.stack) = scan.depth /\ Len(sink.devices) = scan.depth /\ sink.stack \in Seq(Nat) /\ sink.devices \in Seq(Nat)
    BY <1>1, <2>1 DEF SinkShape
  <2>3. \A s \in Seq(Nat) : Len(s) # 0 => /\ Front(s) \in Seq(Nat) /\ Len(Front(s)) = Len(s) - 1
                                          /\ \A k \in DOMAIN Front(s) : k \in DOMAIN s /\ Front(s)[k] = s[k]
    BY FrontIs
  <2>4. /\ Front(sink.stack) \in Seq(Nat) /\ Front(sink.devices) \in Seq(Nat)
        /\ Len(Front(sink.stack)) = scan.depth - 1 /\ Len(Front(sink.devices)) = scan.depth - 1
        /\ \A k \in DOMAIN Front(sink.stack) : Front(sink.stack)[k] \in Ids(Tree)
    BY <1>1, <2>1, <2>2, <2>3 DEF SinkShape
  <2>5. SinkTypes'
    <3>1. scan' \in Scans
      <4>1. (IF scan.depth = 1 THEN "tail" ELSE "tree") \in Phases /\ scan.depth - 1 \in Nat
        BY <1>1, <2>1 DEF Phases
      <4> QED BY <1>1, <2>1, <4>1
    <3>2. sink' \in Sinks
      <4> HIDE DEF Node, Stats
      <4> QED BY <1>1, <2>1, <2>4
    <3> QED BY <1>1, <2>1, <3>1, <3>2 DEF SinkTypes
  <2>6. sink'.tree = sink.tree /\ sink'.stack = Front(sink.stack) /\ sink'.devices = Front(sink.devices)
    BY <1>1, <2>1
  <2>7. scan'.depth = scan.depth - 1 /\ scan'.phase = (IF scan.depth = 1 THEN "tail" ELSE "tree") /\ scan'.root = scan.root /\ scan.depth \in Nat
    BY <1>1, <2>1
  <2>8. SinkShape'
    BY <1>1, <2>1, <2>4, <2>6, <2>7 DEF SinkShape, Tree, Done
  <2> QED BY <2>5, <2>8 DEF SinkInv
<1>7. ASSUME Finish PROVE SinkInv'
  <2> DEFINE r == Rolled(Tree)
  <2>1. /\ scan.phase = "tail" /\ scan' = [scan EXCEPT !.phase = "done"] /\ sink' = [sink EXCEPT !.tree = r]
        /\ disk' = disk /\ origin' = origin
    BY <1>7 DEF Finish, Tree
  <2>2. Sized(Tree) /\ IsTree(Tree)
    BY TreeIsSized DEF Sized
  <2>3. /\ Sized(r) /\ IsRolled(r) /\ r.root_path = Tree.root_path /\ Ids(r) = Ids(Tree) /\ Len(r.nodes) = Len(Tree.nodes)
        /\ \A i \in Ids(Tree) : r.nodes[i] = [Tree.nodes[i] EXCEPT !.total = Capped(SumOver(Own(Tree), Below(Tree, i)))]
    BY <2>2, RolledTree
  <2> HIDE DEF r
  <2>4. Tree.nodes \in Seq(Node) /\ Tree.root_path \in Seq(DOMAIN NameRank)
    BY <1>1 DEF Tree
  <2>5. \A i \in Ids(Tree) : Capped(SumOver(Own(Tree), Below(Tree, i))) \in Nat
    <3>1. \A i \in Ids(Tree) : SumOver(Own(Tree), Below(Tree, i)) \in Nat
      BY <2>2, BelowSum
    <3> QED BY <3>1, TreeBounds DEF Capped
  <2>6. \A i \in Ids(Tree) : r.nodes[i] \in Node
    <3>1. \A x \in Node, n \in Nat : [x EXCEPT !.total = n] \in Node
      BY DEF Node
    <3>2. \A i \in Ids(Tree) : Tree.nodes[i] \in Node
      BY <2>4 DEF Ids
    <3> DEFINE total(i) == Capped(SumOver(Own(Tree), Below(Tree, i)))
    <3>3. \A i \in Ids(Tree) : r.nodes[i] = [Tree.nodes[i] EXCEPT !.total = total(i)] /\ total(i) \in Nat
      BY <2>3, <2>5, Zenon
    <3> HIDE DEF total, Node
    <3>4. \A i \in Ids(Tree) : [Tree.nodes[i] EXCEPT !.total = total(i)] \in Node
      BY <3>1, <3>2, <3>3
    <3> QED BY <3>3, <3>4, Zenon
  <2>7. r = [root_path |-> r.root_path, nodes |-> r.nodes] /\ Ids(r) = 1..Len(r.nodes) /\ Len(r.nodes) \in Nat
    BY <2>3 DEF Sized, IsTree
  <2>8. r.nodes \in Seq(Node)
    <3>1. r.nodes = [i \in Ids(Tree) |-> r.nodes[i]]
      BY <2>2, RolledUp DEF r
    <3>2. r.nodes = [i \in 1..Len(r.nodes) |-> r.nodes[i]] /\ \A i \in 1..Len(r.nodes) : r.nodes[i] \in Node
      BY <2>3, <2>6, <2>7, <3>1
    <3> HIDE DEF Node
    <3> QED BY <2>7, <3>2
  <2>9. r \in [root_path : Seq(DOMAIN NameRank), nodes : Seq(Node)]
    BY <2>3, <2>4, <2>7, <2>8
  <2>10. SinkTypes'
    BY <1>1, <2>1, <2>9 DEF SinkTypes, Phases
  <2>11. Tree' = r /\ sink'.stack = sink.stack /\ sink'.devices = sink.devices
    BY <1>1, <2>1 DEF Tree
  <2>12. \A i \in Ids(r) : ParentOf(r, i) < i /\ (ParentOf(r, i) = NoNode => i = Root)
    BY <2>3 DEF Sized, IsTree
  <2>13. scan'.phase = "done" /\ scan'.root = scan.root /\ scan'.depth = scan.depth
    BY <1>1, <2>1
  <2>14. (Ids(Tree))' = Ids(Tree) /\ (\A i \in Ids(Tree) : ParentOf(Tree, i) < i /\ (ParentOf(Tree, i) = NoNode => i = Root))'
        /\ IsRolled(Tree)' /\ Len(Tree.nodes)' = Len(Tree.nodes)
    BY <2>3, <2>11, <2>12
  <2>15. SinkShape'
    BY <1>1, <2>1, <2>11, <2>13, <2>14 DEF SinkShape, Done
  <2> QED BY <2>10, <2>15 DEF SinkInv
<1>8. ASSUME NEW e \in Entries, OpenDir(e) \/ Leaf(e) PROVE SinkInv'
  <2>1. /\ Taken(e) /\ IsNext(e) /\ scan.root # NoEntry
        /\ scan.phase = "root" => e = scan.root /\ Enters(e)
        /\ NewNode(e) \in Node /\ Counted(Item(e)) \in Stats /\ NewSeen(e) \in SUBSET (Nat \X Nat)
    BY <1>8, TakenIs
  <2> DEFINE nodes == Append(Tree.nodes, NewNode(e))
             path == IF e = scan.root THEN Trail(e) ELSE Tree.root_path
             stack == IF Enters(e) THEN Append(sink.stack, Len(Tree.nodes) + 1) ELSE sink.stack
             devices == IF Enters(e) THEN Append(sink.devices, DeviceIn(Item(e))) ELSE sink.devices
             depth == IF Enters(e) THEN scan.depth + 1 ELSE scan.depth
  <2>2. Tree.nodes \in Seq(Node) /\ Tree.root_path \in Seq(DOMAIN NameRank) /\ Len(Tree.nodes) \in Nat
        /\ sink.stack \in Seq(Nat) /\ sink.devices \in Seq(Nat)
    BY <1>1 DEF Tree
  <2>3. nodes \in Seq(Node) /\ path \in Seq(DOMAIN NameRank) /\ Len(nodes) = Len(Tree.nodes) + 1
        /\ DOMAIN nodes = Ids(Tree) \cup {Len(Tree.nodes) + 1} /\ nodes[Len(Tree.nodes) + 1] = NewNode(e)
        /\ \A i \in Ids(Tree) : nodes[i] = Tree.nodes[i]
    BY <2>1, <2>2, TrailRec DEF Ids
  <2>4. DeviceIn(Item(e)) \in Nat
    <3>1. Item(e).dev \in Nat
      BY <2>1, ItemTypes
    <3>2. sink.devices # <<>> => Last(sink.devices) \in Nat
      BY <2>2 DEF Last
    <3> QED BY <3>1, <3>2 DEF DeviceIn, CurrentDevice, NoDev
  <2>5. scan.depth \in Nat /\ scan.phase \in {"root", "tree"} /\ Len(sink.stack) = scan.depth /\ Len(sink.devices) = scan.depth
        /\ scan.depth \in Nat /\ (scan.phase = "root" => scan.depth = 0) /\ (scan.phase = "tree" => scan.depth # 0)
    BY <1>1, <2>1 DEF SinkShape, IsNext
  <2>6. stack \in Seq(Nat) /\ devices \in Seq(Nat) /\ Len(stack) = depth /\ Len(devices) = depth /\ depth \in Nat /\ depth # 0
    <3> HIDE DEF Enters
    <3> QED BY <2>1, <2>2, <2>4, <2>5
  <2>7. \A k \in DOMAIN stack : stack[k] \in Ids(Tree) \cup {Len(Tree.nodes) + 1}
    <3>1. \A k \in DOMAIN sink.stack : sink.stack[k] \in Ids(Tree)
      BY <1>1 DEF SinkShape
    <3> QED BY <2>2, <3>1
  <2>8. /\ sink' = [tree |-> [root_path |-> path, nodes |-> nodes], stack |-> stack, devices |-> devices,
                    seen |-> NewSeen(e), stats |-> Counted(Item(e))]
        /\ disk' = disk /\ origin' = Append(origin, e)
        /\ scan' = [scan EXCEPT !.phase = "tree", !.items = @ + 1,
                                !.depth = IF Enters(e) THEN @ + 1 ELSE @,
                                !.directories = IF Enters(e) THEN @ + 1 ELSE @]
    BY <2>1 DEF Taken
  <2>9. NewNode(e).parent < Len(Tree.nodes) + 1 /\ (NewNode(e).parent = NoNode => Len(Tree.nodes) + 1 = Root)
    <3>1. NewNode(e).parent = IF sink.stack = <<>> THEN NoNode ELSE Last(sink.stack)
      BY DEF NewNode, NodeFrom
    <3>2. CASE scan.phase = "root"
      <4>1. sink.stack = <<>> /\ Len(Tree.nodes) = 0
        BY <1>1, <3>2 DEF SinkShape, NewSink, EmptyTree, Tree
      <4> QED BY <3>1, <4>1 DEF NoNode, Root
    <3>3. CASE scan.phase = "tree"
      <4>1. sink.stack # <<>> /\ Last(sink.stack) \in Ids(Tree)
        BY <1>1, <2>2, <2>5, <3>3 DEF SinkShape, Last
      <4>2. Ids(Tree) = 1..Len(Tree.nodes)
        BY <2>2 DEF Ids
      <4> QED BY <2>2, <3>1, <4>1, <4>2 DEF NoNode
    <3> QED BY <2>5, <3>2, <3>3
  <2> HIDE DEF nodes, path, stack, devices
  <2>10. SinkTypes'
    <3>1. scan' \in Scans
      <4>1. (IF Enters(e) THEN scan.depth + 1 ELSE scan.depth) \in Nat /\ scan.items + 1 \in Nat
            /\ (IF Enters(e) THEN scan.directories + 1 ELSE scan.directories) \in Nat
        BY <1>1
      <4>2. "tree" \in Phases
        BY DEF Phases
      <4> HIDE DEF Enters
      <4> QED BY <1>1, <2>8, <4>1, <4>2
    <3>2. sink' \in Sinks
      <4> HIDE DEF Node, Stats
      <4> QED BY <2>1, <2>3, <2>6, <2>8
    <3>3. origin' \in Seq(Entries) /\ disk' \in DiskState
      BY <1>1, <2>8
    <3> QED BY <3>1, <3>2, <3>3 DEF SinkTypes
  <2>11. /\ Tree' = [root_path |-> path, nodes |-> nodes] /\ sink'.stack = stack /\ sink'.devices = devices
         /\ scan'.phase = "tree" /\ scan'.depth = depth /\ scan'.root = scan.root
    BY <1>1, <2>8 DEF Tree
  <2>12. Len(origin') = Len(origin) + 1 /\ Len(origin) = Len(Tree.nodes) /\ (scan.root # NoEntry => Shape[scan.root].dir /\ scan.root \in disk.present)
    BY <1>1, <2>8 DEF SinkShape
  <2>13. Tree'.nodes = nodes /\ Ids(Tree)' = Ids(Tree) \cup {Len(Tree.nodes) + 1}
    BY <2>3, <2>11 DEF Ids
  <2>14. \A i \in Ids(Tree)' : nodes[i].parent < i /\ (nodes[i].parent = NoNode => i = Root)
    <3>1. \A i \in Ids(Tree) : Tree.nodes[i].parent < i /\ (Tree.nodes[i].parent = NoNode => i = Root)
      BY <1>1 DEF SinkShape, ParentOf
    <3> QED BY <2>3, <2>9, <2>13, <3>1
  <2>15. SinkShape'
    <3>1. \A k \in DOMAIN sink'.stack : sink'.stack[k] \in Ids(Tree)'
      BY <2>7, <2>11, <2>13
    <3>2. Len(Tree'.nodes) = Len(origin')
      BY <2>3, <2>12, <2>13
    <3>3. \A i \in Ids(Tree)' : ParentOf(Tree', i) < i /\ (ParentOf(Tree', i) = NoNode => i = Root)
      BY <2>13, <2>14 DEF ParentOf
    <3> HIDE DEF depth
    <3> QED BY <2>1, <2>6, <2>8, <2>11, <2>12, <2>13, <3>1, <3>2, <3>3 DEF SinkShape, Done
  <2> QED BY <2>10, <2>15 DEF SinkInv
<1> QED BY <1>2, <1>3, <1>4, <1>5, <1>6, <1>7, <1>8, SinkSteps

(* Whatever records come, and wherever they end or break off, the tree     *)
(* keeps its shape: a parent is pushed before its children, the stack      *)
(* names open nodes only, and totals are the sums of what lies below once  *)
(* the scan is done (tree_sink.rs, wire parser).                           *)
THEOREM SinkStays == StorageSpec => []SinkInv
BY SinkInitially, SinkKept, PTL DEF StorageSpec

(* BytesArePartitioned: in every finished tree the categories divide the   *)
(* bytes, each byte in one of them and its consumers accounting for it     *)
(* (categories.rs).                                                        *)
THEOREM StoragePartitioned == StorageSpec => []BytesArePartitioned
<1>1. ASSUME SinkInv PROVE BytesArePartitioned
  <2> SUFFICES ASSUME Fresh PROVE Partitions(Tree)
    BY DEF BytesArePartitioned
  <2>1. Sized(Tree) /\ IsRolled(Tree) /\ Ids(Tree) # {}
    BY <1>1, TreeIsSized DEF Fresh, Done, SinkInv, SinkShape
  <2>2. Ids(Tree) = 1..Len(Tree.nodes) /\ Len(Tree.nodes) \in Nat
    BY <2>1 DEF Sized, IsTree
  <2>3. Root \in Ids(Tree)
    BY <2>1, <2>2 DEF Root
  <2> QED BY <2>1, <2>3, TreePartitions
<1> QED BY <1>1, SinkStays, PTL

-----------------------------------------------------------------------------
(* Where every node comes from.                                            *)
Named(e) == IF e = scan.root THEN FullName[e] ELSE Shape[e].name

NodeIs(i) ==
  LET e == origin[i]
      n == Tree.nodes[i]
  IN  /\ e \in disk.present
      /\ n.name = Named(e)
      /\ n.kind = IF Enters(e) THEN "Directory" ELSE "File"
      /\ n.read_error <=> e \in disk.locked /\ ~Excluded(e)
      /\ n.excluded <=> Excluded(e)
      /\ i # Root => /\ e # scan.root /\ origin[n.parent] = Shape[e].up
                     /\ Enters(Shape[e].up) /\ Shape[e].up \notin disk.locked

(* Every entry is taken once; a directory that was left has been read to   *)
(* its end.                                                                *)
SinkHistory ==
  /\ \A i, j \in DOMAIN origin : origin[i] = origin[j] => i = j
  /\ Ids(Tree) # {} => origin[Root] = scan.root /\ Tree.root_path = Trail(scan.root)
  /\ \A i \in Ids(Tree) : NodeIs(i)
  /\ \A k \in DOMAIN sink.stack : Enters(origin[sink.stack[k]])
  /\ \A i \in Ids(Tree) : Enters(origin[i]) => i \in ToSet(sink.stack) \/ Listed(origin[i]) \subseteq ToSet(origin)

(* The disk and what was asked for are as they were.                       *)
SameScan == disk' = disk /\ scan'.root = scan.root /\ scan'.backend = scan.backend /\ scan'.confined = scan.confined

(* As long as the scan and the disk are the same, every entry is what it   *)
(* was.                                                                    *)
LEMMA WorldStays ==
  ASSUME SameScan
  PROVE  /\ \A e : DeviceOf(e)' = DeviceOf(e) /\ Excluded(e)' = Excluded(e) /\ Enters(e)' = Enters(e) /\ Listed(e)' = Listed(e)
         /\ \A e : Item(e)' = Item(e) /\ Named(e)' = Named(e)
<1>1. \A e : DeviceOf(e)' = DeviceOf(e)
  BY Zenon DEF DeviceOf, SameScan
<1>2. \A e : Excluded(e)' = Excluded(e)
  BY <1>1, Zenon DEF Excluded, SameScan
<1>3. \A e : Enters(e)' = Enters(e)
  BY <1>2, Zenon DEF Enters
<1>4. \A e : Listed(e)' = Listed(e)
  BY Zenon DEF Listed, Under, SameScan
<1>5. \A e : Item(e)' = Item(e)
  BY <1>1, <1>2, Zenon DEF Item, SameScan
<1>6. \A e : Named(e)' = Named(e)
  BY Zenon DEF Named, SameScan
<1> QED BY <1>1, <1>2, <1>3, <1>4, <1>5, <1>6

(* What every step but the first does to what was asked.                   *)
LEMMA SameScanIf ==
  ASSUME SinkInv, UNCHANGED sinkVars \/ Header \/ CloseDir \/ Finish \/ \E e \in Entries : Taken(e)
  PROVE  SameScan
<1>1. scan \in [phase : Phases, failure : Failures, root : Asked \cup {NoEntry}, backend : {"ncdu", "gdu"},
               confined : BOOLEAN, depth : Nat, items : Nat, directories : Nat]
  BY DEF SinkInv, SinkTypes
<1>2. CASE UNCHANGED sinkVars
  BY <1>2 DEF sinkVars, SameScan
<1>3. CASE Header
  BY <1>1, <1>3 DEF Header, SameScan
<1>4. CASE CloseDir
  BY <1>1, <1>4 DEF CloseDir, SameScan
<1>5. CASE Finish
  BY <1>1, <1>5 DEF Finish, SameScan
<1>6. ASSUME NEW e \in Entries, Taken(e) PROVE SameScan
  <2>1. scan' = [scan EXCEPT !.phase = "tree", !.items = @ + 1,
                          !.depth = IF Enters(e) THEN @ + 1 ELSE @,
                          !.directories = IF Enters(e) THEN @ + 1 ELSE @] /\ disk' = disk
    BY <1>6 DEF Taken
  <2> QED BY <1>1, <2>1 DEF SameScan
<1> QED BY <1>2, <1>3, <1>4, <1>5, <1>6

(* What is the same in the tree of every state but for totals.             *)
LEMMA FinishIs ==
  ASSUME SinkInv, Finish
  PROVE  /\ Tree' = Rolled(Tree) /\ Ids(Tree)' = Ids(Tree) /\ Tree'.root_path = Tree.root_path
         /\ sink'.stack = sink.stack /\ sink'.devices = sink.devices /\ sink'.seen = sink.seen /\ sink'.stats = sink.stats
         /\ origin' = origin /\ SameScan /\ scan'.items = scan.items /\ scan'.directories = scan.directories
         /\ \A i \in Ids(Tree) : LET m == Tree'.nodes[i] n == Tree.nodes[i]
                                 IN  /\ m.name = n.name /\ m.kind = n.kind /\ m.parent = n.parent /\ m.own = n.own
                                     /\ m.read_error = n.read_error /\ m.hardlink = n.hardlink /\ m.excluded = n.excluded
                                     /\ AncestorsOf(Tree', i) = AncestorsOf(Tree, i)
<1> DEFINE r == Rolled(Tree)
<1>1. /\ scan.phase = "tail" /\ scan' = [scan EXCEPT !.phase = "done"] /\ sink' = [sink EXCEPT !.tree = r]
      /\ disk' = disk /\ origin' = origin
  BY DEF Finish, Tree
<1>2. sink = [tree |-> Tree, stack |-> sink.stack, devices |-> sink.devices, seen |-> sink.seen, stats |-> sink.stats]
  BY DEF SinkInv, SinkTypes, Tree
<1>3. scan \in [phase : Phases, failure : Failures, root : Asked \cup {NoEntry}, backend : {"ncdu", "gdu"},
               confined : BOOLEAN, depth : Nat, items : Nat, directories : Nat]
  BY DEF SinkInv, SinkTypes
<1>4. Sized(Tree) /\ IsTree(Tree)
  BY TreeIsSized DEF Sized
<1>5. /\ r.root_path = Tree.root_path /\ Ids(r) = Ids(Tree)
      /\ \A i \in Ids(Tree) : /\ r.nodes[i] = [Tree.nodes[i] EXCEPT !.total = Capped(SumOver(Own(Tree), Below(Tree, i)))]
                              /\ AncestorsOf(r, i) = AncestorsOf(Tree, i)
  BY <1>4, RolledTree
<1>6. \A i \in Ids(Tree) : IsNode(Tree.nodes[i])
  BY <1>4 DEF IsTree
<1> HIDE DEF r
<1>7. \A i \in Ids(Tree) : LET m == r.nodes[i] n == Tree.nodes[i]
                           IN  /\ m.name = n.name /\ m.kind = n.kind /\ m.parent = n.parent /\ m.own = n.own
                               /\ m.read_error = n.read_error /\ m.hardlink = n.hardlink /\ m.excluded = n.excluded
  BY <1>5, <1>6 DEF IsNode
<1>8. Tree' = r /\ sink'.stack = sink.stack /\ sink'.devices = sink.devices /\ sink'.seen = sink.seen /\ sink'.stats = sink.stats
  BY <1>1, <1>2 DEF Tree
<1>9. SameScan
  BY SameScanIf
<1>10. scan'.items = scan.items /\ scan'.directories = scan.directories
  BY <1>1, <1>3
<1>11. /\ Ids(Tree)' = Ids(Tree) /\ Tree'.root_path = Tree.root_path
       /\ \A i \in Ids(Tree) : AncestorsOf(Tree', i) = AncestorsOf(Tree, i)
  BY <1>5, <1>8
<1>12. \A i \in Ids(Tree) : LET m == Tree'.nodes[i] n == Tree.nodes[i]
                           IN  /\ m.name = n.name /\ m.kind = n.kind /\ m.parent = n.parent /\ m.own = n.own
                               /\ m.read_error = n.read_error /\ m.hardlink = n.hardlink /\ m.excluded = n.excluded
  BY <1>7, <1>8
<1> QED BY <1>1, <1>8, <1>9, <1>10, <1>11, <1>12 DEF r

(* What a longer sequence holds.                                           *)
LEMMA ToSetAppend ==
  ASSUME NEW V, NEW s \in Seq(V), NEW x \in V
  PROVE  ToSet(Append(s, x)) = ToSet(s) \cup {x}
<1>1. /\ DOMAIN Append(s, x) = DOMAIN s \cup {Len(s) + 1} /\ Append(s, x)[Len(s) + 1] = x
      /\ \A k \in DOMAIN s : Append(s, x)[k] = s[k]
  OBVIOUS
<1> QED BY <1>1 DEF ToSet

(* What a sequence holds, by its front and its last element.               *)
LEMMA ToSetFront ==
  ASSUME NEW V, NEW s \in Seq(V), s # <<>>
  PROVE  ToSet(s) = ToSet(Front(s)) \cup {Last(s)} /\ Last(s) \in ToSet(s) /\ Last(s) \in V
<1>1. Len(s) # 0 /\ Len(s) \in Nat /\ DOMAIN s = 1..Len(s)
  OBVIOUS
<1>2. DOMAIN Front(s) = 1..(Len(s) - 1) /\ Last(s) = s[Len(s)] /\ \A k \in DOMAIN Front(s) : Front(s)[k] = s[k]
  <2>1. Front(s) \in Seq(V) /\ Len(Front(s)) = Len(s) - 1
    BY <1>1, FrontIs
  <2> QED BY <1>1, <2>1, FrontIs DEF Last
<1>3. \A x : x \in ToSet(s) <=> x \in ToSet(Front(s)) \/ x = Last(s)
  BY <1>1, <1>2 DEF ToSet
<1> QED BY <1>1, <1>2, <1>3 DEF ToSet

(* A record taken in, in full.                                             *)
Latest == Len(Tree.nodes) + 1

(* What TakenIs says, place by place.                                      *)
LEMMA TakenFacts ==
  ASSUME SinkInv, NEW e \in Entries, OpenDir(e) \/ Leaf(e)
  PROVE  /\ Taken(e) /\ SameScan /\ scan'.phase = "tree" /\ scan.phase \in {"root", "tree"} /\ scan.root # NoEntry
         /\ Latest \in Nat /\ Ids(Tree) = 1..(Latest - 1) /\ Ids(Tree)' = Ids(Tree) \cup {Latest} /\ Latest \notin Ids(Tree)
         /\ DOMAIN origin = Ids(Tree) /\ DOMAIN origin' = Ids(Tree) \cup {Latest}
         /\ origin'[Latest] = e /\ \A i \in Ids(Tree) : origin'[i] = origin[i]
         /\ ToSet(origin') = ToSet(origin) \cup {e}
         /\ Tree'.nodes[Latest] = NewNode(e) /\ \A i \in Ids(Tree) : Tree'.nodes[i] = Tree.nodes[i]
         /\ Tree'.root_path = IF e = scan.root THEN Trail(e) ELSE Tree.root_path
         /\ sink'.stack = IF Enters(e) THEN Append(sink.stack, Latest) ELSE sink.stack
         /\ ToSet(sink'.stack) = ToSet(sink.stack) \cup (IF Enters(e) THEN {Latest} ELSE {})
         /\ scan.phase = "root" => /\ e = scan.root /\ Enters(e) /\ Latest = Root
                                   /\ sink = NewSink /\ NewNode(e).parent = NoNode
         /\ scan.phase = "tree" => /\ Latest # Root /\ sink.stack # <<>> /\ Last(sink.stack) \in Ids(Tree)
                                   /\ Last(sink.stack) \in ToSet(sink.stack) /\ NewNode(e).parent = Last(sink.stack)
                                   /\ e \in Remaining
<1>1. /\ Taken(e) /\ IsNext(e) /\ scan.root # NoEntry
      /\ scan.phase = "root" => e = scan.root /\ Enters(e)
      /\ NewNode(e) \in Node
  BY TakenIs
<1>2. SameScan
  BY <1>1, SameScanIf
<1>3. /\ disk' = disk /\ origin' = Append(origin, e)
      /\ sink' = [tree    |-> [root_path |-> IF e = scan.root THEN Trail(e) ELSE Tree.root_path,
                               nodes     |-> Append(Tree.nodes, NewNode(e))],
                  stack   |-> IF Enters(e) THEN Append(sink.stack, Len(Tree.nodes) + 1) ELSE sink.stack,
                  devices |-> IF Enters(e) THEN Append(sink.devices, DeviceIn(Item(e))) ELSE sink.devices,
                  seen    |-> NewSeen(e),
                  stats   |-> Counted(Item(e))]
      /\ scan' = [scan EXCEPT !.phase = "tree", !.items = @ + 1,
                              !.depth = IF Enters(e) THEN @ + 1 ELSE @,
                              !.directories = IF Enters(e) THEN @ + 1 ELSE @]
  BY <1>1 DEF Taken
<1>4. Tree.nodes \in Seq(Node) /\ sink.stack \in Seq(Nat) /\ origin \in Seq(Entries) /\ Len(origin) = Len(Tree.nodes)
  BY DEF SinkInv, SinkTypes, SinkShape, Tree
<1>5. scan'.phase = "tree"
  <2>1. scan \in [phase : Phases, failure : Failures, root : Asked \cup {NoEntry}, backend : {"ncdu", "gdu"},
               confined : BOOLEAN, depth : Nat, items : Nat, directories : Nat]
    BY DEF SinkInv, SinkTypes
  <2> HIDE DEF Enters
  <2> QED BY <1>3, <2>1
<1>6. scan.phase \in {"root", "tree"}
  BY <1>1 DEF IsNext
<1>7. Latest \in Nat /\ Ids(Tree) = 1..(Latest - 1) /\ Latest \notin Ids(Tree) /\ DOMAIN origin = Ids(Tree)
  BY <1>4 DEF Latest, Ids
<1>8. /\ Tree' = [root_path |-> IF e = scan.root THEN Trail(e) ELSE Tree.root_path, nodes |-> Append(Tree.nodes, NewNode(e))]
      /\ sink'.stack = IF Enters(e) THEN Append(sink.stack, Latest) ELSE sink.stack
  BY <1>3 DEF Tree, Latest
<1>9. /\ DOMAIN Append(Tree.nodes, NewNode(e)) = Ids(Tree) \cup {Latest}
      /\ Append(Tree.nodes, NewNode(e))[Latest] = NewNode(e)
      /\ \A i \in Ids(Tree) : Append(Tree.nodes, NewNode(e))[i] = Tree.nodes[i]
  <2> HIDE DEF Node
  <2> QED BY <1>1, <1>4 DEF Ids, Latest
<1>10. Ids(Tree)' = Ids(Tree) \cup {Latest} /\ Tree'.nodes[Latest] = NewNode(e) /\ \A i \in Ids(Tree) : Tree'.nodes[i] = Tree.nodes[i]
  <2>1. Tree'.nodes = Append(Tree.nodes, NewNode(e))
    BY <1>8
  <2>2. Ids(Tree)' = DOMAIN Tree'.nodes
    BY DEF Ids
  <2> QED BY <1>9, <2>1, <2>2
<1>11. /\ DOMAIN origin' = Ids(Tree) \cup {Latest} /\ origin'[Latest] = e /\ \A i \in Ids(Tree) : origin'[i] = origin[i]
  <2>1. /\ DOMAIN Append(origin, e) = DOMAIN origin \cup {Len(origin) + 1} /\ Append(origin, e)[Len(origin) + 1] = e
        /\ \A i \in DOMAIN origin : Append(origin, e)[i] = origin[i]
    BY <1>4
  <2> QED BY <1>3, <1>4, <1>7, <2>1 DEF Latest
<1>12. ToSet(origin') = ToSet(origin) \cup {e}
  BY <1>3, <1>4, ToSetAppend
<1>13. ToSet(sink'.stack) = ToSet(sink.stack) \cup (IF Enters(e) THEN {Latest} ELSE {})
  <2>1. CASE Enters(e)
    <3>1. sink'.stack = Append(sink.stack, Latest)
      BY <1>8, <2>1
    <3>2. ToSet(Append(sink.stack, Latest)) = ToSet(sink.stack) \cup {Latest}
      BY <1>4, <1>7, ToSetAppend
    <3>3. ToSet(sink'.stack) = ToSet(sink.stack) \cup {Latest}
      BY <3>1, <3>2, Zenon
    <3> QED BY <2>1, <3>3
  <2>2. CASE ~Enters(e)
    <3>1. sink'.stack = sink.stack
      BY <1>8, <2>2
    <3>2. ToSet(sink'.stack) = ToSet(sink.stack)
      BY <3>1, Zenon
    <3> QED BY <2>2, <3>2
  <2> QED BY <2>1, <2>2
<1>14. NewNode(e).parent = IF sink.stack = <<>> THEN NoNode ELSE Last(sink.stack)
  BY DEF NewNode, NodeFrom
<1>15. ASSUME scan.phase = "root"
       PROVE  e = scan.root /\ Enters(e) /\ Latest = Root /\ sink = NewSink /\ NewNode(e).parent = NoNode
  <2>1. sink = NewSink
    BY <1>15 DEF SinkInv, SinkShape
  <2>2. sink.stack = <<>> /\ Len(Tree.nodes) = 0
    BY <2>1 DEF NewSink, EmptyTree, Tree
  <2> QED BY <1>1, <1>14, <1>15, <2>1, <2>2 DEF Latest, Root
<1>16. ASSUME scan.phase = "tree"
       PROVE  /\ Latest # Root /\ sink.stack # <<>> /\ Last(sink.stack) \in Ids(Tree)
              /\ Last(sink.stack) \in ToSet(sink.stack) /\ NewNode(e).parent = Last(sink.stack) /\ e \in Remaining
  <2>1. sink.stack # <<>> /\ Ids(Tree) # {}
    BY <1>4, <1>16 DEF SinkInv, SinkShape
  <2>2. Last(sink.stack) \in ToSet(sink.stack)
    BY <1>4, <2>1, ToSetFront
  <2>3. \A x \in ToSet(sink.stack) : x \in Ids(Tree)
    BY DEF SinkInv, SinkShape, ToSet
  <2>4. Latest # Root
    BY <1>7, <2>1 DEF Root
  <2>5. e \in Remaining
    BY <1>1, <1>16 DEF IsNext
  <2> QED BY <1>14, <2>1, <2>2, <2>3, <2>4, <2>5
<1>17. Tree'.root_path = IF e = scan.root THEN Trail(e) ELSE Tree.root_path
  BY <1>8
<1> HIDE DEF Enters
<1> QED BY <1>1, <1>2, <1>5, <1>6, <1>7, <1>8, <1>10, <1>11, <1>12, <1>13, <1>15, <1>16, <1>17

(* A scan that took nothing in has no history to keep.                     *)
LEMMA EmptyHistory ==
  ASSUME sink = NewSink, origin = <<>> PROVE SinkHistory
<1>1. Ids(Tree) = {} /\ DOMAIN origin = {} /\ DOMAIN sink.stack = {}
  BY DEF NewSink, EmptyTree, Tree, Ids
<1> QED BY <1>1 DEF SinkHistory

(* Every step keeps the history. A directory leaves the stack only when    *)
(* nothing listed in it remains.                                           *)
LEMMA HistoryKept ==
  ASSUME SinkInv, SinkHistory, [FootprintNext]_allVars
  PROVE  SinkHistory'
<1>0. Len(origin) = Len(Tree.nodes) /\ DOMAIN origin = Ids(Tree) /\ origin \in Seq(Entries) /\ sink.stack \in Seq(Nat)
  BY DEF SinkInv, SinkTypes, SinkShape, Ids, Tree
<1>1. ASSUME SameScan, origin' = origin, Ids(Tree)' = Ids(Tree), Tree'.root_path = Tree.root_path,
             \A i \in Ids(Tree) : LET m == Tree'.nodes[i] n == Tree.nodes[i]
                                  IN  /\ m.name = n.name /\ m.kind = n.kind /\ m.parent = n.parent
                                      /\ m.read_error = n.read_error /\ m.excluded = n.excluded,
             \A k \in DOMAIN sink'.stack : k \in DOMAIN sink.stack /\ sink'.stack[k] = sink.stack[k],
             \A i \in ToSet(sink.stack) : i \in ToSet(sink'.stack) \/ Listed(origin[i]) \subseteq ToSet(origin)
      PROVE  SinkHistory'
  <2>1. \A i : Listed(origin[i])' = Listed(origin[i]) /\ Enters(origin[i])' = Enters(origin[i])
    BY <1>1, WorldStays
  <2>3. \A i \in Ids(Tree) : NodeIs(i)' <=> NodeIs(i)
    <3> HIDE DEF Tree
    <3> QED BY <1>1, WorldStays DEF NodeIs, SameScan
  <2>4. ToSet(origin') = ToSet(origin)
    BY <1>1
  <2> HIDE DEF Enters, Listed, NodeIs, Tree
  <2>5. \A i, j \in DOMAIN origin' : origin'[i] = origin'[j] => i = j
    BY <1>1 DEF SinkHistory
  <2>6. Ids(Tree)' # {} => origin'[Root] = scan'.root /\ Tree'.root_path = Trail(scan'.root)
    BY <1>1 DEF SinkHistory, SameScan
  <2>7. \A i \in Ids(Tree)' : NodeIs(i)'
    BY <1>1, <2>3 DEF SinkHistory
  <2>8. \A k \in DOMAIN sink'.stack : Enters(origin[sink.stack[k]])'
    BY <1>1, WorldStays DEF SinkHistory
  <2>9. \A i \in Ids(Tree)' : Enters(origin[i])' => i \in ToSet(sink'.stack) \/ Listed(origin[i])' \subseteq ToSet(origin')
    BY <1>1, <2>1, <2>4 DEF SinkHistory
  <2> QED BY <2>5, <2>6, <2>7, <2>8, <2>9 DEF SinkHistory
<1>2. ASSUME sink' = NewSink, origin' = <<>> PROVE SinkHistory'
  <2>1. Ids(Tree)' = {} /\ DOMAIN origin' = {} /\ DOMAIN sink'.stack = {}
    BY <1>2 DEF NewSink, EmptyTree, Tree, Ids
  <2> QED BY <2>1 DEF SinkHistory
<1>3. ASSUME NEW e \in Asked, NEW source \in Sources, Started(e, source) PROVE SinkHistory'
  BY <1>2, <1>3 DEF Started, SinkInv, SinkShape
<1>4. ASSUME Failed PROVE SinkHistory'
  BY <1>2, <1>4 DEF Failed, Fail
<1>5. ASSUME Header PROVE SinkHistory'
  BY <1>2, <1>5 DEF Header, SinkInv, SinkShape
<1>6. ASSUME UNCHANGED sinkVars PROVE SinkHistory'
  <2>1. SameScan
    BY <1>6, SameScanIf
  <2>2. Tree' = Tree /\ sink' = sink /\ origin' = origin
    BY <1>6 DEF sinkVars, Tree
  <2>3. Ids(Tree)' = Ids(Tree)
    BY <2>2 DEF Ids
  <2>4. \A i \in ToSet(sink.stack) : i \in ToSet(sink'.stack)
    BY <2>2
  <2> HIDE DEF Tree
  <2> QED BY <1>1, <2>1, <2>2, <2>3, <2>4
<1>7. ASSUME CloseDir PROVE SinkHistory'
  <2>1. SameScan
    BY <1>7, SameScanIf
  <2>2. sink' = [sink EXCEPT !.stack = Front(@), !.devices = Front(@)] /\ origin' = origin /\ Remaining = {}
    BY <1>7 DEF CloseDir
  <2>3. sink.stack # <<>> /\ Len(sink.stack) # 0
    BY <1>0, <1>7 DEF CloseDir, SinkInv, SinkShape
  <2>4. Tree' = Tree /\ sink'.stack = Front(sink.stack)
    <3>1. sink = [tree |-> Tree, stack |-> sink.stack, devices |-> sink.devices, seen |-> sink.seen, stats |-> sink.stats]
      BY DEF SinkInv, SinkTypes, Tree
    <3> QED BY <2>2, <3>1 DEF Tree
  <2>5. \A k \in DOMAIN sink'.stack : k \in DOMAIN sink.stack /\ sink'.stack[k] = sink.stack[k]
    BY <1>0, <2>3, <2>4, FrontIs
  <2>6. ToSet(sink.stack) = ToSet(sink'.stack) \cup {Last(sink.stack)}
    <3>1. ToSet(sink.stack) = ToSet(Front(sink.stack)) \cup {Last(sink.stack)}
      BY <1>0, <2>3, ToSetFront
    <3>2. ToSet(sink'.stack) = ToSet(Front(sink.stack))
      BY <2>4, Zenon
    <3> QED BY <3>1, <3>2
  <2>7. Listed(origin[Last(sink.stack)]) \subseteq ToSet(origin)
    BY <2>2 DEF Remaining, OpenDirectory
  <2>8. Ids(Tree)' = Ids(Tree)
    BY <2>4 DEF Ids
  <2> HIDE DEF Tree, Listed
  <2> QED BY <1>1, <2>1, <2>2, <2>4, <2>5, <2>6, <2>7, <2>8
<1>8. ASSUME Finish PROVE SinkHistory'
  <2>1. /\ Ids(Tree)' = Ids(Tree) /\ Tree'.root_path = Tree.root_path /\ sink'.stack = sink.stack
        /\ origin' = origin /\ SameScan
        /\ \A i \in Ids(Tree) : LET m == Tree'.nodes[i] n == Tree.nodes[i]
                                IN  /\ m.name = n.name /\ m.kind = n.kind /\ m.parent = n.parent
                                    /\ m.read_error = n.read_error /\ m.excluded = n.excluded
    BY <1>8, FinishIs
  <2>2. \A i \in ToSet(sink.stack) : i \in ToSet(sink'.stack)
    BY <2>1
  <2> HIDE DEF Tree
  <2> QED BY <1>1, <2>1, <2>2
<1>9. ASSUME NEW e \in Entries, OpenDir(e) \/ Leaf(e) PROVE SinkHistory'
  <2>1. /\ SameScan /\ scan.phase \in {"root", "tree"} /\ scan.root # NoEntry
        /\ Latest \in Nat /\ Ids(Tree) = 1..(Latest - 1) /\ Ids(Tree)' = Ids(Tree) \cup {Latest} /\ Latest \notin Ids(Tree)
        /\ DOMAIN origin' = Ids(Tree) \cup {Latest} /\ origin'[Latest] = e /\ \A i \in Ids(Tree) : origin'[i] = origin[i]
        /\ ToSet(origin') = ToSet(origin) \cup {e}
        /\ Tree'.nodes[Latest] = NewNode(e) /\ \A i \in Ids(Tree) : Tree'.nodes[i] = Tree.nodes[i]
        /\ Tree'.root_path = IF e = scan.root THEN Trail(e) ELSE Tree.root_path
        /\ ToSet(sink'.stack) = ToSet(sink.stack) \cup (IF Enters(e) THEN {Latest} ELSE {})
        /\ scan.phase = "root" => e = scan.root /\ Enters(e) /\ Latest = Root /\ sink = NewSink
        /\ scan.phase = "tree" => /\ Latest # Root /\ sink.stack # <<>> /\ Last(sink.stack) \in Ids(Tree)
                                  /\ Last(sink.stack) \in ToSet(sink.stack) /\ NewNode(e).parent = Last(sink.stack)
                                  /\ e \in Remaining
    BY <1>9, TakenFacts
  <2>2. e \notin ToSet(origin) /\ e \in disk.present
    <3>1. CASE scan.phase = "root"
      BY <2>1, <3>1 DEF SinkInv, SinkShape, ToSet
    <3>2. CASE scan.phase = "tree"
      <4>1. e \in Listed(OpenDirectory) /\ e \notin ToSet(origin)
        BY <2>1, <3>2 DEF Remaining
      <4> QED BY <4>1 DEF Listed, Under
    <3> QED BY <2>1, <3>1, <3>2
  <2>3. ToSet(origin) = {origin[i] : i \in Ids(Tree)}
    BY <1>0 DEF ToSet
  <2>4. \A i, j \in DOMAIN origin' : origin'[i] = origin'[j] => i = j
    <3>1. \A i \in Ids(Tree) : origin[i] # e
      BY <2>2, <2>3
    <3>2. \A i, j \in Ids(Tree) : origin[i] = origin[j] => i = j
      BY <1>0 DEF SinkHistory
    <3> QED BY <2>1, <3>1, <3>2
  <2>5. (Root \in Ids(Tree) /\ e # scan.root) \/ (Latest = Root /\ e = scan.root)
    <3>1. CASE scan.phase = "tree"
      <4>1. Root \in Ids(Tree)
        BY <2>1, <3>1 DEF Root
      <4>2. origin[Root] = scan.root
        BY <4>1 DEF SinkHistory
      <4> QED BY <2>2, <2>3, <4>1, <4>2
    <3> QED BY <2>1, <3>1
  <2>6. origin'[Root] = scan'.root /\ Tree'.root_path = Trail(scan'.root)
    BY <2>1, <2>5 DEF SinkHistory, SameScan
  <2>7. ASSUME NEW i \in Ids(Tree) PROVE NodeIs(i)'
    <3>1. NodeIs(i)
      BY <2>7 DEF SinkHistory
    <3>2. origin'[i] = origin[i] /\ Tree'.nodes[i] = Tree.nodes[i]
      BY <2>1
    <3>3. i # Root => Tree.nodes[i].parent \in Ids(Tree)
      <4>1. Sized(Tree) /\ ParentOf(Tree, i) < i /\ (ParentOf(Tree, i) = NoNode => i = Root)
        BY TreeIsSized DEF SinkInv, SinkShape
      <4>2. Tree.nodes[i].parent \in Nat /\ Tree.nodes[i].parent < i /\ (Tree.nodes[i].parent = 0 => i = Root)
        BY <4>1 DEF Sized, IsTree, ParentOf, NoNode
      <4> QED BY <2>1, <4>2
    <3>4. i # Root => origin'[Tree.nodes[i].parent] = origin[Tree.nodes[i].parent]
      BY <2>1, <3>3
    <3> HIDE DEF Tree
    <3> QED BY <2>1, <3>1, <3>2, <3>4, WorldStays DEF NodeIs, SameScan
  <2>8. ASSUME NEW i \in Ids(Tree)', i = Latest PROVE NodeIs(i)'
    <3>1. /\ NewNode(e).name = Named(e) /\ NewNode(e).kind = IF Enters(e) THEN "Directory" ELSE "File"
          /\ NewNode(e).read_error <=> e \in disk.locked /\ ~Excluded(e)
          /\ NewNode(e).excluded <=> Excluded(e)
      <4> HIDE DEF Enters, Excluded
      <4> QED BY DEF NewNode, NodeFrom, Item, Named
    <3>2. Latest # Root => /\ e # scan.root /\ origin'[NewNode(e).parent] = Shape[e].up
                           /\ Enters(Shape[e].up) /\ Shape[e].up \notin disk.locked
      <4> SUFFICES ASSUME Latest # Root PROVE scan.phase = "tree" /\ origin'[NewNode(e).parent] = Shape[e].up
                           /\ Enters(Shape[e].up) /\ Shape[e].up \notin disk.locked
        BY <2>5
      <4>1. scan.phase = "tree"
        BY <2>1
      <4>2. e \in Listed(OpenDirectory)
        BY <2>1, <4>1 DEF Remaining
      <4>3. Shape[e].up = OpenDirectory /\ OpenDirectory \notin disk.locked
        BY <4>2 DEF Listed, Under
      <4>4. OpenDirectory = origin[Last(sink.stack)]
        BY DEF OpenDirectory
      <4>5. \A x \in ToSet(sink.stack) : Enters(origin[x])
        BY DEF SinkHistory, ToSet
      <4> HIDE DEF Enters
      <4> QED BY <2>1, <4>1, <4>3, <4>4, <4>5
    <3> HIDE DEF Tree, Latest
    <3> QED BY <2>1, <2>2, <2>8, <3>1, <3>2, WorldStays DEF NodeIs, SameScan
  <2>9. \A i \in Ids(Tree)' : NodeIs(i)'
    BY <2>1, <2>7, <2>8
  <2>10. ASSUME NEW k \in DOMAIN sink'.stack PROVE Enters(origin[sink.stack[k]])'
    <3>1. \A x \in ToSet(sink.stack) : Enters(origin[x]) /\ x \in Ids(Tree)
      BY DEF SinkHistory, ToSet, SinkInv, SinkShape
    <3>2. sink'.stack[k] \in ToSet(sink'.stack)
      BY DEF ToSet
    <3>3. \A x \in ToSet(sink'.stack) : Enters(origin'[x])
      <4> HIDE DEF Enters
      <4> QED BY <2>1, <3>1
    <3> HIDE DEF Enters
    <3> QED BY <2>1, <3>2, <3>3, WorldStays
  <2>11. ASSUME NEW i \in Ids(Tree)', Enters(origin[i])'
         PROVE  i \in ToSet(sink'.stack) \/ Listed(origin[i])' \subseteq ToSet(origin')
    <3>1. Enters(origin'[i])
      BY <2>1, <2>11, WorldStays
    <3>2. Listed(origin[i])' = Listed(origin'[i])
      BY <2>1, WorldStays
    <3> HIDE DEF Enters, Listed
    <3> QED BY <2>1, <3>1, <3>2 DEF SinkHistory
  <2> HIDE DEF Enters, Listed, NodeIs, Tree
  <2> QED BY <2>4, <2>6, <2>9, <2>10, <2>11 DEF SinkHistory
<1> QED BY <1>3, <1>4, <1>5, <1>6, <1>7, <1>8, <1>9, SinkSteps

(* How many things a sequence without repetitions lists.                   *)
LEMMA CountOf ==
  ASSUME NEW n \in Nat, NEW s, \A i, j \in 1..n : s[i] = s[j] => i = j,
         NEW T, \A x : x \in T <=> \E i \in 1..n : s[i] = x
  PROVE  IsFiniteSet(T) /\ Cardinality(T) = n
<1> DEFINE N == 1..n
           f == [i \in N |-> s[i]]
<1>1. f \in Surjection(N, T) /\ f \in Injection(N, T)
  BY DEF Surjection, Injection, IsInjective
<1>2. IsFiniteSet(N) /\ Cardinality(N) = n
  BY FS_Interval
<1> HIDE DEF N, f
<1>3. IsFiniteSet(T) /\ Cardinality(T) = Cardinality(N)
  BY <1>1, <1>2, FS_Surjection
<1> QED BY <1>2, <1>3

(* An entry is reached from the root of the scan through entered           *)
(* directories.                                                            *)
LEMMA ReachableRec ==
  /\ Reachable \subseteq Entries
  /\ \A e \in Entries :
       e \in Reachable <=>
         \/ e = scan.root
         \/ /\ e \in disk.present /\ Shape[e].up # NoEntry
            /\ Shape[e].up \in Reachable /\ ~Excluded(Shape[e].up) /\ Shape[e].up \notin disk.locked
<1> DEFINE n == Len(Shape)
           up == [j \in 1..n |-> Shape[j].up]
           Free(j) == j \in disk.present /\ ~Excluded(Shape[j].up) /\ Shape[j].up \notin disk.locked
           V == BOOLEAN
           first == [j \in 1..n |-> j = scan.root]
           next == [j \in 1..n |-> [v \in V |-> j = scan.root \/ (v /\ Free(j))]]
<1>1. n \in Nat /\ Entries = 1..n /\ \A j \in 1..n : up[j] \in Nat /\ up[j] < j
  BY EntriesAre
<1>2. PICK f : FromUp(f, n, up, first, next)
  <2> HIDE DEF n, up, first, next
  <2> QED BY <1>1, FromUpExists
<1>3. \A j \in 1..n : f[j] \in V
  <2>1. first \in [1..n -> V] /\ next \in [1..n -> [V -> V]]
    <3> HIDE DEF n, Free
    <3> QED OBVIOUS
  <2> HIDE DEF n, up, first, next, V
  <2> QED BY <1>1, <1>2, <2>1, FromUpTyped
<1> DEFINE Step(p, j) == \/ j = scan.root
                         \/ /\ j \in disk.present /\ Shape[j].up # NoEntry
                            /\ p[Shape[j].up] /\ ~Excluded(Shape[j].up) /\ Shape[j].up \notin disk.locked
           reached == CHOOSE p : p = [x \in Entries |-> Step(p, x)]
<1>4. f = [j \in Entries |-> Step(f, j)]
  <2>1. \A j \in 1..n : f[j] = Step(f, j)
    <3> TAKE j \in 1..n
    <3>1. f[j] = IF up[j] = 0 THEN first[j] ELSE next[j][f[up[j]]]
      BY <1>2 DEF FromUp
    <3>2. up[j] # 0 => f[up[j]] \in V
      <4> HIDE DEF n, up, V
      <4>1. up[j] # 0 => up[j] \in 1..n
        BY <1>1
      <4> QED BY <1>3, <4>1
    <3>3. up[j] = Shape[j].up /\ first[j] = (j = scan.root)
          /\ (f[up[j]] \in V => next[j][f[up[j]]] = (j = scan.root \/ (f[up[j]] /\ Free(j))))
      <4> HIDE DEF Free
      <4> QED OBVIOUS
    <3>4. CASE up[j] = 0
      <4>1. f[j] = (j = scan.root) /\ Shape[j].up = NoEntry
        BY <3>1, <3>3, <3>4 DEF NoEntry
      <4>2. Step(f, j) = (j = scan.root)
        BY <4>1, Zenon
      <4> QED BY <4>1, <4>2, Zenon
    <3>5. CASE up[j] # 0
      <4>1. f[j] = (j = scan.root \/ (f[Shape[j].up] /\ Free(j))) /\ Shape[j].up # NoEntry
        <5> HIDE DEF up, first, next, V, Free, n
        <5> QED BY <3>1, <3>2, <3>3, <3>5, Zenon DEF NoEntry
      <4>2. Step(f, j) = (j = scan.root \/ (f[Shape[j].up] /\ Free(j)))
        BY <4>1, Zenon
      <4> QED BY <4>1, <4>2, Zenon
    <3> QED BY <3>4, <3>5
  <2>2. f = [j \in 1..n |-> f[j]]
    BY <1>2 DEF FromUp
  <2> HIDE DEF Step
  <2> QED BY <1>1, <2>1, <2>2
<1>5. reached = [x \in Entries |-> Step(reached, x)]
  <2> HIDE DEF Step
  <2> QED BY <1>4
<1>6. Reachable = {e \in Entries : reached[e]}
  BY Zenon DEF Reachable
<1>7. \A e \in Entries : reached[e] <=> Step(reached, e)
  <2> HIDE DEF reached, Step
  <2> QED BY <1>5, Zenon
<1>8. ASSUME NEW e \in Entries PROVE Shape[e].up # NoEntry => (reached[Shape[e].up] <=> Shape[e].up \in Reachable)
  <2>1. Shape[e].up # NoEntry => Shape[e].up \in Entries
    BY EntriesAre
  <2> HIDE DEF reached
  <2> QED BY <1>6, <2>1
<1> HIDE DEF reached
<1>9. ASSUME NEW e \in Entries PROVE e \in Reachable <=> Step(reached, e)
  <2> HIDE DEF Step
  <2> QED BY <1>6, <1>7, Zenon
<1> QED BY <1>6, <1>8, <1>9, Zenon

(* A finished scan lists every entry it could reach, once.                 *)
LEMMA ListsTheDisk ==
  ASSUME SinkInv, SinkHistory, Done
  PROVE  /\ Len(origin) = Len(Tree.nodes) /\ Len(origin) = Cardinality(Reachable)
         /\ ToSet(origin) = Reachable
<1> DEFINE n == Len(Tree.nodes)
           m == Len(Shape)
<1>1. Sized(Tree) /\ IsTree(Tree) /\ n \in Nat /\ Ids(Tree) = 1..n /\ Ids(Tree) # {}
  BY TreeIsSized DEF Sized, IsTree, SinkInv, SinkShape, Done
<1>2. Len(origin) = n /\ DOMAIN origin = 1..n /\ (\A i \in 1..n : origin[i] \in Entries) /\ ToSet(origin) = {origin[i] : i \in 1..n}
  <2>1. origin \in Seq(Entries) /\ Len(origin) = n
    BY DEF SinkInv, SinkTypes, SinkShape
  <2> QED BY <2>1 DEF ToSet
<1>3. sink.stack = <<>> /\ ToSet(sink.stack) = {}
  <2>1. sink.stack \in Seq(Nat) /\ Len(sink.stack) = 0
    BY DEF SinkInv, SinkTypes, SinkShape, Done
  <2> QED BY <2>1 DEF ToSet
<1>4. origin[Root] = scan.root /\ Root \in 1..n
  BY <1>1 DEF SinkHistory, Root
<1> DEFINE Good == {i \in 1..n : origin[i] \in Reachable}
           Seen == {e \in 1..m : e \in Reachable => e \in ToSet(origin)}
<1>5. ASSUME NEW i \in 1..n, \A j \in 1..n : j < i => j \in Good PROVE i \in Good
  <2>1. CASE i = Root
    BY <1>2, <1>4, <2>1, ReachableRec
  <2>2. CASE i # Root
    <3>1. /\ origin[i] \in disk.present /\ origin[Tree.nodes[i].parent] = Shape[origin[i]].up
          /\ Enters(Shape[origin[i]].up) /\ Shape[origin[i]].up \notin disk.locked
      BY <1>1, <2>2 DEF SinkHistory, NodeIs
    <3>2. Tree.nodes[i].parent \in 1..n /\ Tree.nodes[i].parent < i
      BY <1>1, <2>2 DEF IsTree, ParentOf, NoNode
    <3>3. Shape[origin[i]].up \in Reachable /\ Shape[origin[i]].up # NoEntry
      BY <1>2, <1>5, <3>1, <3>2, EntriesAre
    <3>4. ~Excluded(Shape[origin[i]].up)
      BY <3>1 DEF Enters
    <3> HIDE DEF Tree, n, m
    <3> QED BY <1>2, <3>1, <3>3, <3>4, ReachableRec
  <2> QED BY <2>1, <2>2
<1>6. 1..n \subseteq Good
  <2> HIDE DEF Good, n
  <2> QED BY <1>1, <1>5, Upwards
<1>7. m \in Nat /\ Entries = 1..m
  BY EntriesAre
<1>8. ASSUME NEW e \in 1..m, \A j \in 1..m : j < e => j \in Seen PROVE e \in Seen
  <2> SUFFICES ASSUME e \in Reachable PROVE e \in ToSet(origin)
    OBVIOUS
  <2>1. CASE e = scan.root
    BY <1>2, <1>4, <2>1
  <2>2. CASE e # scan.root
    <3> DEFINE u == Shape[e].up
    <3>1. e \in disk.present /\ u # NoEntry /\ u \in Reachable /\ ~Excluded(u) /\ u \notin disk.locked
      BY <1>7, <2>2, ReachableRec
    <3>2. u \in 1..m /\ u < e /\ Shape[u].dir
      BY <1>7, <3>1, EntriesAre
    <3>3. u \in ToSet(origin)
      BY <1>8, <3>1, <3>2
    <3>4. PICK i \in 1..n : origin[i] = u
      BY <1>2, <3>3
    <3>5. Enters(u)
      BY <3>1, <3>2 DEF Enters
    <3>6. Listed(u) \subseteq ToSet(origin)
      <4> HIDE DEF Enters, Listed, n, m, u, Tree
      <4> QED BY <1>1, <1>3, <3>4, <3>5 DEF SinkHistory
    <3>7. e \in Listed(u)
      BY <3>1 DEF Listed, Under
    <3> QED BY <3>6, <3>7
  <2> QED BY <2>1, <2>2
<1>9. 1..m \subseteq Seen
  <2> HIDE DEF Seen, m
  <2> QED BY <1>7, <1>8, Upwards
<1>10. ToSet(origin) = Reachable
  <2> HIDE DEF n, m, Tree
  <2>1. ToSet(origin) \subseteq Reachable
    BY <1>2, <1>6
  <2>2. Reachable \subseteq ToSet(origin)
    BY <1>7, <1>9, ReachableRec
  <2> QED BY <2>1, <2>2
<1>11. Cardinality(Reachable) = n
  <2>1. \A i, j \in 1..n : origin[i] = origin[j] => i = j
    BY <1>2 DEF SinkHistory
  <2> HIDE DEF n
  <2>2. \A e : e \in Reachable <=> \E i \in 1..n : origin[i] = e
    BY <1>2, <1>10
  <2> QED BY <1>1, <2>1, <2>2, CountOf
<1> QED BY <1>2, <1>10, <1>11

(* The path of a node is that of its parent and its own name.              *)
LEMMA PathRec ==
  ASSUME NEW t, IsTree(t), NEW V, t.root_path \in Seq(V), \A i \in Ids(t) : t.nodes[i].name \in V
  PROVE  \A i \in Ids(t) : PathOf(t, i) = IF ParentOf(t, i) = NoNode THEN t.root_path
                                          ELSE Append(PathOf(t, ParentOf(t, i)), t.nodes[i].name)
<1> DEFINE Line(i) == Append(AncestorsOf(t, i), i)
           Names(i) == [k \in 1..(Len(Line(i)) - 1) |-> t.nodes[Line(i)[k + 1]].name]
<1>1. \A i : PathOf(t, i) = t.root_path \o Names(i)
  BY Zenon DEF PathOf
<1>2. ASSUME NEW i \in Ids(t)
      PROVE  /\ Line(i) \in Seq(Nat) /\ Len(Line(i)) \in Nat /\ Len(Line(i)) > 0 /\ Line(i)[Len(Line(i))] = i
             /\ Line(i) = IF ParentOf(t, i) = NoNode THEN <<i>> ELSE Append(Line(ParentOf(t, i)), i)
             /\ ParentOf(t, i) # NoNode => ParentOf(t, i) \in Ids(t)
             /\ \A k \in 1..Len(Line(i)) : Line(i)[k] \in Ids(t)
  <2>1. i \in Nat /\ AncestorsOf(t, i) \in Seq(Nat)
    BY AncestorsType DEF IsTree
  <2>2. AncestorsOf(t, i) = IF ParentOf(t, i) = NoNode THEN <<>> ELSE Line(ParentOf(t, i))
    BY AncestorsRec
  <2>3. ParentOf(t, i) # NoNode => ParentOf(t, i) \in Ids(t)
    BY AboveRec
  <2>4. Above(t, i) \subseteq Ids(t)
    BY AboveOrder
  <2>5. \A k \in 1..Len(Line(i)) : Line(i)[k] \in Ids(t)
    BY <2>1, <2>4 DEF Above, ToSet
  <2> DEFINE a == AncestorsOf(t, i)
  <2>6. Line(i) \in Seq(Nat) /\ Len(Line(i)) \in Nat /\ Len(Line(i)) > 0 /\ Line(i)[Len(Line(i))] = i
    <3> HIDE DEF a
    <3> QED BY <2>1
  <2>7. Line(i) = IF ParentOf(t, i) = NoNode THEN <<i>> ELSE Append(Line(ParentOf(t, i)), i)
    <3>1. CASE ParentOf(t, i) = NoNode
      <4>1. a = <<>>
        BY <2>2, <3>1
      <4>2. Line(i) = Append(<<>>, i)
        BY <4>1, Zenon
      <4>3. Append(<<>>, i) = <<i>>
        OBVIOUS
      <4> QED BY <3>1, <4>2, <4>3, Zenon
    <3>2. CASE ParentOf(t, i) # NoNode
      <4>1. a = Line(ParentOf(t, i))
        BY <2>2, <3>2, Zenon
      <4> QED BY <3>2, <4>1, Zenon
    <3> QED BY <3>1, <3>2
  <2> HIDE DEF Line
  <2> QED BY <2>3, <2>5, <2>6, <2>7
<1>3. ASSUME NEW i \in Ids(t) PROVE Names(i) \in Seq(V)
  <2>1. \A k \in 1..(Len(Line(i)) - 1) : k + 1 \in 1..Len(Line(i))
    BY <1>2
  <2>2. \A k \in 1..(Len(Line(i)) - 1) : t.nodes[Line(i)[k + 1]].name \in V
    BY <1>2, <2>1
  <2>3. Len(Line(i)) - 1 \in Nat
    BY <1>2
  <2> HIDE DEF Line
  <2> QED BY <2>2, <2>3
<1>4. ASSUME NEW i \in Ids(t), ParentOf(t, i) = NoNode PROVE Names(i) = <<>>
  <2>1. Line(i) = <<i>>
    BY <1>2, <1>4
  <2>2. Len(Line(i)) = 1
    BY <2>1
  <2> HIDE DEF Line
  <2> QED BY <2>2
<1>5. ASSUME NEW i \in Ids(t), ParentOf(t, i) # NoNode
      PROVE  Names(i) = Append(Names(ParentOf(t, i)), t.nodes[i].name)
  <2> DEFINE p == ParentOf(t, i)
             s == Line(p)
  <2>1. Line(i) = Append(s, i) /\ p \in Ids(t) /\ s \in Seq(Nat) /\ Len(s) > 0 /\ i \in Nat
    BY <1>2, <1>5 DEF IsTree
  <2>2. Len(Line(i)) = Len(s) + 1 /\ Line(i)[Len(s) + 1] = i /\ \A k \in 1..Len(s) : Line(i)[k] = s[k]
    <3> HIDE DEF Line, p
    <3> QED BY <2>1
  <2>3. Names(p) \in Seq(V) /\ Len(Names(p)) = Len(s) - 1
    <3>1. Len(s) - 1 \in Nat
      BY <2>1
    <3> HIDE DEF Line, p
    <3> QED BY <1>3, <2>1, <3>1
  <2>4. Names(i) = [k \in 1..Len(s) |-> t.nodes[Line(i)[k + 1]].name]
    BY <2>1, <2>2
  <2>5. \A k \in 1..(Len(s) - 1) : Names(p)[k] = t.nodes[s[k + 1]].name
    OBVIOUS
  <2>6. t.nodes[i].name \in V
    OBVIOUS
  <2> HIDE DEF Line, s, Names, p
  <2>7. \A k \in 1..Len(s) : Names(i)[k] = Append(Names(p), t.nodes[i].name)[k]
    <3> TAKE k \in 1..Len(s)
    <3>1. CASE k = Len(s)
      BY <2>1, <2>2, <2>3, <2>4, <2>6, <3>1
    <3>2. CASE k # Len(s)
      <4>1. k \in 1..(Len(s) - 1) /\ k + 1 \in 1..Len(s)
        BY <2>1, <3>2
      <4>2. Names(i)[k] = t.nodes[s[k + 1]].name
        BY <2>1, <2>2, <2>4, <4>1
      <4> QED BY <2>3, <2>5, <2>6, <4>1, <4>2
    <3> QED BY <3>1, <3>2
  <2>8. Append(Names(p), t.nodes[i].name) = [k \in 1..Len(s) |-> Append(Names(p), t.nodes[i].name)[k]]
    BY <2>1, <2>3, <2>6
  <2>9. Names(i) = Append(Names(p), t.nodes[i].name)
    BY <2>4, <2>7, <2>8
  <2> QED BY <2>9 DEF p
<1> HIDE DEF Names
<1>6. ASSUME NEW i \in Ids(t), ParentOf(t, i) # NoNode
      PROVE  PathOf(t, i) = Append(PathOf(t, ParentOf(t, i)), t.nodes[i].name)
  <2>1. Names(ParentOf(t, i)) \in Seq(V) /\ t.nodes[i].name \in V
    BY <1>2, <1>3, <1>6
  <2>2. t.root_path \o Append(Names(ParentOf(t, i)), t.nodes[i].name) = Append(t.root_path \o Names(ParentOf(t, i)), t.nodes[i].name)
    <3> DEFINE a == t.root_path b == Names(ParentOf(t, i)) x == t.nodes[i].name
    <3>1. a \in Seq(V) /\ b \in Seq(V) /\ x \in V
      BY <2>1
    <3> HIDE DEF a, b, x
    <3>2. a \o Append(b, x) = Append(a \o b, x)
      BY <3>1
    <3> QED BY <3>2 DEF a, b, x
  <2> QED BY <1>1, <1>5, <1>6, <2>2
<1>7. ASSUME NEW i \in Ids(t), ParentOf(t, i) = NoNode PROVE PathOf(t, i) = t.root_path
  BY <1>1, <1>4, <1>7
<1> QED BY <1>6, <1>7

(* So a node's path is that of the entry it came from.                     *)
LEMMA PathsName ==
  ASSUME SinkInv, SinkHistory PROVE PathsNameTheirEntry
<1> SUFFICES \A i \in Ids(Tree) : PathOf(Tree, i) = Trail(origin[i])
  BY DEF PathsNameTheirEntry
<1> DEFINE n == Len(Tree.nodes)
           Good == {i \in 1..n : PathOf(Tree, i) = Trail(origin[i])}
<1>1. Sized(Tree) /\ IsTree(Tree) /\ n \in Nat /\ Ids(Tree) = 1..n
  BY TreeIsSized DEF Sized, IsTree
<1>2. Tree.root_path \in Seq(DOMAIN NameRank) /\ \A i \in Ids(Tree) : Tree.nodes[i].name \in DOMAIN NameRank
  <2> DEFINE P == Seq(DOMAIN NameRank)
  <2>1. Tree \in [root_path : P, nodes : Seq(Node)]
    BY DEF SinkInv, SinkTypes, Tree
  <2>2. \A x \in Node : x.name \in DOMAIN NameRank
    BY DEF Node
  <2> HIDE DEF P, Node, Tree
  <2>3. Tree.root_path \in P /\ Tree.nodes \in Seq(Node)
    BY <2>1
  <2> QED BY <1>1, <2>2, <2>3 DEF P
<1>3. \A i \in 1..n : origin[i] \in Entries
  <2>1. origin \in Seq(Entries) /\ Len(origin) = n
    BY DEF SinkInv, SinkTypes, SinkShape
  <2> QED BY <2>1
<1>4. ASSUME NEW i \in 1..n, \A j \in 1..n : j < i => j \in Good PROVE i \in Good
  <2>1. PathOf(Tree, i) = IF ParentOf(Tree, i) = NoNode THEN Tree.root_path
                          ELSE Append(PathOf(Tree, ParentOf(Tree, i)), Tree.nodes[i].name)
    <3> HIDE DEF Tree
    <3> QED BY <1>1, <1>2, PathRec
  <2>2. ParentOf(Tree, i) # NoNode => ParentOf(Tree, i) \in 1..n /\ ParentOf(Tree, i) < i /\ i # Root
    BY <1>1 DEF IsTree, NoNode, Root
  <2>3. ParentOf(Tree, i) = NoNode => i = Root
    BY <1>1 DEF IsTree
  <2>4. CASE ParentOf(Tree, i) = NoNode
    <3>1. origin[i] = scan.root /\ Tree.root_path = Trail(scan.root)
      BY <1>1, <2>3, <2>4 DEF SinkHistory
    <3> QED BY <2>1, <2>4, <3>1
  <2>5. CASE ParentOf(Tree, i) # NoNode
    <3> DEFINE p == ParentOf(Tree, i)
    <3>1. /\ origin[i] # scan.root /\ origin[p] = Shape[origin[i]].up
          /\ Tree.nodes[i].name = Shape[origin[i]].name
      BY <1>1, <2>2, <2>5 DEF SinkHistory, NodeIs, Named, ParentOf
    <3>2. PathOf(Tree, p) = Trail(origin[p]) /\ origin[p] \in Entries
      BY <1>3, <1>4, <2>2, <2>5
    <3>3. Trail(origin[i]) = Append(Trail(Shape[origin[i]].up), Shape[origin[i]].name)
      <4>1. Shape[origin[i]].up # NoEntry /\ origin[i] \in Entries
        BY <1>3, <3>1, <3>2, EntriesAre
      <4> QED BY <4>1, TrailRec, Zenon
    <3> QED BY <2>1, <2>5, <3>1, <3>2, <3>3
  <2> QED BY <2>4, <2>5
<1>5. 1..n \subseteq Good
  <2> HIDE DEF Good, n
  <2> QED BY <1>1, <1>4, Upwards
<1> QED BY <1>1, <1>5

-----------------------------------------------------------------------------
(* What is counted once.                                                   *)

(* What an export says of the device of an entry; another name of a file.  *)
DeviceSeen(e) == IF scan.backend = "ncdu" THEN DeviceOf(e) ELSE NoDev
Linked(e) == Shape[e].links /\ ~Excluded(e)
SameFile(e, f) == Linked(f) /\ Shape[f].ino = Shape[e].ino /\ DeviceSeen(f) = DeviceSeen(e)
Again(i) == Linked(origin[i]) /\ \E j \in 1..(i - 1) : SameFile(origin[i], origin[j])

(* The devices on the stack are those of the open directories, a file is   *)
(* seen under its device and inode, and only a later name of a seen file   *)
(* counts nothing.                                                         *)
SinkDevices ==
  /\ \A k \in DOMAIN sink.devices : sink.devices[k] = DeviceSeen(origin[sink.stack[k]])
  /\ \A p \in sink.seen : \E i \in Ids(Tree) : Linked(origin[i]) /\ p = <<DeviceSeen(origin[i]), Shape[origin[i]].ino>>
  /\ \A i \in Ids(Tree) : Linked(origin[i]) => <<DeviceSeen(origin[i]), Shape[origin[i]].ino>> \in sink.seen
  /\ \A i \in Ids(Tree) : /\ Tree.nodes[i].hardlink <=> Again(i)
                          /\ Tree.nodes[i].own = IF Excluded(origin[i]) \/ Again(i) THEN 0 ELSE Shape[origin[i]].size

(* The same of the devices and of the names of files.                      *)
LEMMA DevicesStay ==
  ASSUME SameScan
  PROVE  \A e, f : DeviceSeen(e)' = DeviceSeen(e) /\ Linked(e)' = Linked(e) /\ SameFile(e, f)' = SameFile(e, f)
<1>1. \A e : DeviceSeen(e)' = DeviceSeen(e)
  BY WorldStays, Zenon DEF DeviceSeen, SameScan
<1>2. \A e : Linked(e)' = Linked(e)
  BY WorldStays, Zenon DEF Linked
<1>3. \A e, f : SameFile(e, f)' = SameFile(e, f)
  BY <1>1, <1>2, Zenon DEF SameFile
<1> QED BY <1>1, <1>2, <1>3

(* The device the sink takes an entry to be on, and whether it takes it    *)
(* for another name of a file it has.                                      *)
LEMMA DeviceFacts ==
  ASSUME SinkInv, SinkHistory, SinkDevices, NEW e \in Entries, OpenDir(e) \/ Leaf(e)
  PROVE  /\ DeviceIn(Item(e)) = DeviceSeen(e) /\ Item(e).ino = Shape[e].ino /\ (Item(e).hlnkc <=> Linked(e))
         /\ Item(e).size = IF Excluded(e) THEN 0 ELSE Shape[e].size
         /\ Repeated(Item(e)) <=> Linked(e) /\ \E i \in Ids(Tree) : SameFile(e, origin[i])
<1>1. /\ scan.phase \in {"root", "tree"} /\ scan.root # NoEntry
      /\ scan.phase = "root" => e = scan.root /\ sink = NewSink
      /\ scan.phase = "tree" => Last(sink.stack) \in Ids(Tree) /\ sink.stack # <<>> /\ e \in Remaining
  BY TakenFacts
<1>2. scan.backend \in {"ncdu", "gdu"} /\ Len(sink.stack) = Len(sink.devices) /\ sink.stack \in Seq(Nat) /\ sink.devices \in Seq(Nat)
  BY <1>1 DEF SinkInv, SinkTypes, SinkShape
<1> DEFINE changes == e = scan.root \/ DeviceOf(e) # DeviceOf(Shape[e].up)
<1>3. /\ Item(e).dev = IF scan.backend = "ncdu" /\ changes THEN DeviceOf(e) ELSE NoDev
      /\ Item(e).ino = Shape[e].ino /\ Item(e).hlnkc = (Shape[e].links /\ ~Excluded(e))
      /\ Item(e).size = IF Excluded(e) THEN 0 ELSE Shape[e].size
  <2> HIDE DEF Excluded
  <2> QED BY DEF Item
<1>4. DeviceOf(e) # NoDev
  BY DeviceRec, EntriesAre DEF NoDev, NoEntry
<1>5. scan.phase = "root" => CurrentDevice = NoDev
  BY <1>1 DEF NewSink, CurrentDevice
<1>6. scan.phase = "tree" => CurrentDevice = DeviceSeen(Shape[e].up)
  <2> SUFFICES ASSUME scan.phase = "tree" PROVE CurrentDevice = DeviceSeen(Shape[e].up)
    OBVIOUS
  <2>1. sink.devices # <<>> /\ Len(sink.stack) \in DOMAIN sink.devices
    BY <1>1, <1>2
  <2>2. Last(sink.devices) = DeviceSeen(origin[Last(sink.stack)])
    <3> HIDE DEF DeviceSeen
    <3> QED BY <1>2, <2>1 DEF SinkDevices, Last
  <2>3. Shape[e].up = origin[Last(sink.stack)]
    BY <1>1 DEF Remaining, OpenDirectory, Listed, Under
  <2> HIDE DEF DeviceSeen
  <2> QED BY <2>1, <2>2, <2>3 DEF CurrentDevice
<1>7. DeviceIn(Item(e)) = DeviceSeen(e)
  BY <1>1, <1>2, <1>3, <1>4, <1>5, <1>6 DEF DeviceIn, DeviceSeen, NoDev
<1>8. Item(e).hlnkc <=> Linked(e)
  BY <1>3 DEF Linked
<1>9. <<DeviceSeen(e), Shape[e].ino>> \in sink.seen <=> \E i \in Ids(Tree) : SameFile(e, origin[i])
  <2>1. ASSUME <<DeviceSeen(e), Shape[e].ino>> \in sink.seen PROVE \E i \in Ids(Tree) : SameFile(e, origin[i])
    <3>1. PICK i \in Ids(Tree) : Linked(origin[i]) /\ <<DeviceSeen(e), Shape[e].ino>> = <<DeviceSeen(origin[i]), Shape[origin[i]].ino>>
      <4> HIDE DEF DeviceSeen, Linked
      <4> QED BY <2>1 DEF SinkDevices
    <3> QED BY <3>1 DEF SameFile
  <2>2. ASSUME NEW i \in Ids(Tree), SameFile(e, origin[i]) PROVE <<DeviceSeen(e), Shape[e].ino>> \in sink.seen
    <3> HIDE DEF DeviceSeen, Linked
    <3> QED BY <2>2 DEF SinkDevices, SameFile
  <2> QED BY <2>1, <2>2
<1>10. Repeated(Item(e)) <=> Linked(e) /\ \E i \in Ids(Tree) : SameFile(e, origin[i])
  <2> HIDE DEF DeviceSeen, Linked, SameFile
  <2> QED BY <1>3, <1>7, <1>8, <1>9 DEF Repeated
<1> QED BY <1>3, <1>7, <1>8, <1>10

(* Every step keeps what the sink knows of devices and hard links.         *)
LEMMA DevicesKept ==
  ASSUME SinkInv, SinkHistory, SinkDevices, [FootprintNext]_allVars
  PROVE  SinkDevices'
<1>0. /\ DOMAIN origin = Ids(Tree) /\ sink.stack \in Seq(Nat) /\ sink.devices \in Seq(Nat) /\ origin \in Seq(Entries)
      /\ Ids(Tree) = 1..Len(Tree.nodes) /\ Len(Tree.nodes) \in Nat /\ \A k \in DOMAIN sink.stack : sink.stack[k] \in Ids(Tree)
  BY TreeIsSized DEF SinkInv, SinkTypes, SinkShape, Ids, Tree, Sized, IsTree
<1>1. ASSUME SameScan, origin' = origin, Ids(Tree)' = Ids(Tree), sink'.seen = sink.seen,
             \A i \in Ids(Tree) : Tree'.nodes[i].own = Tree.nodes[i].own /\ Tree'.nodes[i].hardlink = Tree.nodes[i].hardlink,
             \A k \in DOMAIN sink'.devices : k \in DOMAIN sink.devices /\ sink'.devices[k] = sink.devices[k] /\ sink'.stack[k] = sink.stack[k]
      PROVE  SinkDevices'
  <2>1. \A i, j : /\ DeviceSeen(origin[i])' = DeviceSeen(origin[i]) /\ Linked(origin[i])' = Linked(origin[i])
                  /\ Excluded(origin[i])' = Excluded(origin[i]) /\ SameFile(origin[i], origin[j])' = SameFile(origin[i], origin[j])
    BY <1>1, DevicesStay, WorldStays
  <2>2. \A i : Again(i)' = Again(i)
    <3> HIDE DEF Linked, SameFile
    <3> QED BY <1>1, <2>1, Zenon DEF Again
  <2> HIDE DEF DeviceSeen, Linked, SameFile, Again, Excluded, Tree
  <2>3. \A k \in DOMAIN sink'.devices : sink'.devices[k] = DeviceSeen(origin[sink.stack[k]])'
    <3> TAKE k \in DOMAIN sink'.devices
    <3>1. sink'.devices[k] = DeviceSeen(origin[sink'.stack[k]])
      BY <1>1 DEF SinkDevices
    <3> QED BY <1>1, <3>1, DevicesStay
  <2>4. \A p \in sink'.seen : \E i \in Ids(Tree)' : Linked(origin[i])' /\ p = <<DeviceSeen(origin[i])', Shape[origin'[i]].ino>>
    <3> TAKE p \in sink'.seen
    <3>1. PICK i \in Ids(Tree) : Linked(origin[i]) /\ p = <<DeviceSeen(origin[i]), Shape[origin[i]].ino>>
      BY <1>1 DEF SinkDevices
    <3>2. Linked(origin[i])' /\ p = <<DeviceSeen(origin[i])', Shape[origin'[i]].ino>> /\ i \in Ids(Tree)'
      BY <1>1, <2>1, <3>1
    <3> QED BY <3>2
  <2>5. \A i \in Ids(Tree)' : Linked(origin[i])' => <<DeviceSeen(origin[i])', Shape[origin'[i]].ino>> \in sink'.seen
    BY <1>1, <2>1, Zenon DEF SinkDevices
  <2>6. \A i \in Ids(Tree)' : /\ Tree'.nodes[i].hardlink <=> Again(i)'
                              /\ Tree'.nodes[i].own = IF Excluded(origin[i])' \/ Again(i)' THEN 0 ELSE Shape[origin'[i]].size
    <3> TAKE i \in Ids(Tree)'
    <3>1. /\ Tree.nodes[i].hardlink <=> Again(i)
          /\ Tree.nodes[i].own = IF Excluded(origin[i]) \/ Again(i) THEN 0 ELSE Shape[origin[i]].size
      BY <1>1 DEF SinkDevices
    <3> QED BY <1>1, <2>1, <2>2, <3>1
  <2> QED BY <2>3, <2>4, <2>5, <2>6 DEF SinkDevices
<1>2. ASSUME sink' = NewSink PROVE SinkDevices'
  <2>1. Ids(Tree)' = {} /\ DOMAIN sink'.devices = {} /\ sink'.seen = {}
    BY <1>2 DEF NewSink, EmptyTree, Tree, Ids
  <2> QED BY <2>1 DEF SinkDevices
<1>3. ASSUME NEW e \in Asked, NEW source \in Sources, Started(e, source) PROVE SinkDevices'
  BY <1>2, <1>3 DEF Started, SinkInv, SinkShape
<1>4. ASSUME Failed PROVE SinkDevices'
  BY <1>2, <1>4 DEF Failed, Fail
<1>5. ASSUME Header PROVE SinkDevices'
  BY <1>2, <1>5 DEF Header, SinkInv, SinkShape
<1>6. ASSUME UNCHANGED sinkVars PROVE SinkDevices'
  <2>1. SameScan
    BY <1>6, SameScanIf
  <2>2. Tree' = Tree /\ sink' = sink /\ origin' = origin
    BY <1>6 DEF sinkVars, Tree
  <2>3. Ids(Tree)' = Ids(Tree)
    BY <2>2 DEF Ids
  <2> HIDE DEF Tree
  <2> QED BY <1>1, <2>1, <2>2, <2>3
<1>7. ASSUME CloseDir PROVE SinkDevices'
  <2>1. SameScan
    BY <1>7, SameScanIf
  <2>2. sink' = [sink EXCEPT !.stack = Front(@), !.devices = Front(@)] /\ origin' = origin
    BY <1>7 DEF CloseDir
  <2>3. Len(sink.stack) # 0 /\ Len(sink.devices) = Len(sink.stack)
    BY <1>7 DEF CloseDir, SinkInv, SinkShape
  <2>4. Tree' = Tree /\ sink'.stack = Front(sink.stack) /\ sink'.devices = Front(sink.devices) /\ sink'.seen = sink.seen
    <3>1. sink = [tree |-> Tree, stack |-> sink.stack, devices |-> sink.devices, seen |-> sink.seen, stats |-> sink.stats]
      BY DEF SinkInv, SinkTypes, Tree
    <3> QED BY <2>2, <3>1 DEF Tree
  <2>5. \A k \in DOMAIN sink'.devices : k \in DOMAIN sink.devices /\ sink'.devices[k] = sink.devices[k] /\ sink'.stack[k] = sink.stack[k]
    <3>1. Len(Front(sink.stack)) = Len(sink.stack) - 1 /\ \A k \in DOMAIN Front(sink.stack) : Front(sink.stack)[k] = sink.stack[k]
      BY <1>0, <2>3, FrontIs
    <3>2. /\ Len(Front(sink.devices)) = Len(sink.devices) - 1
          /\ \A k \in DOMAIN Front(sink.devices) : k \in DOMAIN sink.devices /\ Front(sink.devices)[k] = sink.devices[k]
      BY <1>0, <2>3, FrontIs
    <3>3. Front(sink.stack) \in Seq(Nat) /\ Front(sink.devices) \in Seq(Nat)
      BY <1>0, <2>3, FrontIs
    <3>4. DOMAIN Front(sink.stack) = DOMAIN Front(sink.devices)
      BY <2>3, <3>1, <3>2, <3>3
    <3> QED BY <2>4, <3>1, <3>2, <3>4
  <2>6. Ids(Tree)' = Ids(Tree)
    BY <2>4 DEF Ids
  <2> HIDE DEF Tree
  <2> QED BY <1>1, <2>1, <2>2, <2>4, <2>5, <2>6
<1>8. ASSUME Finish PROVE SinkDevices'
  <2>1. /\ Ids(Tree)' = Ids(Tree) /\ sink'.stack = sink.stack /\ sink'.devices = sink.devices /\ sink'.seen = sink.seen
        /\ origin' = origin /\ SameScan
        /\ \A i \in Ids(Tree) : Tree'.nodes[i].own = Tree.nodes[i].own /\ Tree'.nodes[i].hardlink = Tree.nodes[i].hardlink
    BY <1>8, FinishIs
  <2> HIDE DEF Tree
  <2> QED BY <1>1, <2>1
<1>9. ASSUME NEW e \in Entries, OpenDir(e) \/ Leaf(e) PROVE SinkDevices'
  <2>1. /\ SameScan /\ Taken(e)
        /\ Latest \in Nat /\ Ids(Tree) = 1..(Latest - 1) /\ Ids(Tree)' = Ids(Tree) \cup {Latest} /\ Latest \notin Ids(Tree)
        /\ origin'[Latest] = e /\ \A i \in Ids(Tree) : origin'[i] = origin[i]
        /\ Tree'.nodes[Latest] = NewNode(e) /\ \A i \in Ids(Tree) : Tree'.nodes[i] = Tree.nodes[i]
        /\ sink'.stack = IF Enters(e) THEN Append(sink.stack, Latest) ELSE sink.stack
    BY <1>9, TakenFacts
  <2>2. /\ DeviceIn(Item(e)) = DeviceSeen(e) /\ Item(e).ino = Shape[e].ino /\ (Item(e).hlnkc <=> Linked(e))
        /\ Item(e).size = IF Excluded(e) THEN 0 ELSE Shape[e].size
        /\ Repeated(Item(e)) <=> Linked(e) /\ \E i \in Ids(Tree) : SameFile(e, origin[i])
    BY <1>9, DeviceFacts
  <2>3. /\ sink'.devices = IF Enters(e) THEN Append(sink.devices, DeviceSeen(e)) ELSE sink.devices
        /\ sink'.seen = IF Linked(e) THEN sink.seen \cup {<<DeviceSeen(e), Shape[e].ino>>} ELSE sink.seen
    <3> HIDE DEF DeviceSeen, Linked, Enters
    <3> QED BY <2>1, <2>2 DEF Taken, NewSeen
  <2>4. DeviceSeen(e) \in Nat /\ Len(sink.devices) = Len(sink.stack)
    <3>1. DeviceOf(e) \in Nat
      BY DeviceRec, EntriesAre
    <3>2. scan.phase # "failed"
      BY <1>9, TakenFacts
    <3> QED BY <3>1, <3>2 DEF DeviceSeen, NoDev, SinkInv, SinkShape
  <2>5. ASSUME NEW k \in DOMAIN sink'.devices PROVE sink'.devices[k] = DeviceSeen(origin[sink.stack[k]])'
    <3>0. DeviceSeen(origin[sink.stack[k]])' = DeviceSeen(origin'[sink'.stack[k]])
      BY <2>1, DevicesStay
    <3> HIDE DEF DeviceSeen, Enters
    <3>1. CASE k \in DOMAIN sink.devices
      <4>1. sink'.devices[k] = sink.devices[k] /\ sink'.stack[k] = sink.stack[k] /\ sink.stack[k] \in Ids(Tree)
        BY <1>0, <2>1, <2>3, <2>4, <3>1
      <4> QED BY <2>1, <3>0, <3>1, <4>1 DEF SinkDevices
    <3>2. CASE k \notin DOMAIN sink.devices
      <4>1. Enters(e) /\ k = Len(sink.devices) + 1
        BY <1>0, <2>3, <2>4, <3>2
      <4>2. sink'.devices[k] = DeviceSeen(e) /\ sink'.stack[k] = Latest
        BY <1>0, <2>1, <2>3, <2>4, <4>1
      <4> QED BY <2>1, <3>0, <4>2
    <3> QED BY <3>1, <3>2
  <2>6. \A i \in Ids(Tree)' : /\ Linked(origin[i])' <=> Linked(origin'[i])
                              /\ DeviceSeen(origin[i])' = DeviceSeen(origin'[i])
                              /\ Excluded(origin[i])' = Excluded(origin'[i])
    BY <2>1, DevicesStay, WorldStays
  <2>7. ASSUME NEW p \in sink'.seen
        PROVE  \E i \in Ids(Tree)' : Linked(origin[i])' /\ p = <<DeviceSeen(origin[i])', Shape[origin'[i]].ino>>
    <3> HIDE DEF DeviceSeen, Linked
    <3>1. CASE p \in sink.seen
      <4>1. PICK i \in Ids(Tree) : Linked(origin[i]) /\ p = <<DeviceSeen(origin[i]), Shape[origin[i]].ino>>
        BY <3>1 DEF SinkDevices
      <4>2. i \in Ids(Tree)' /\ origin'[i] = origin[i]
        BY <2>1
      <4> QED BY <2>6, <4>1, <4>2
    <3>2. CASE p \notin sink.seen
      <4>1. p = <<DeviceSeen(e), Shape[e].ino>> /\ Linked(e)
        BY <2>3, <3>2
      <4>2. PICK i \in Ids(Tree)' : i = Latest
        BY <2>1
      <4>3. origin'[i] = e
        BY <2>1, <4>2
      <4>4. Linked(origin[i])' /\ DeviceSeen(origin[i])' = DeviceSeen(e)
        BY <2>6, <4>1, <4>3
      <4> QED BY <4>1, <4>3, <4>4
    <3> QED BY <3>1, <3>2
  <2>8. ASSUME NEW i \in Ids(Tree)', Linked(origin[i])'
        PROVE  <<DeviceSeen(origin[i])', Shape[origin'[i]].ino>> \in sink'.seen
    <3>1. Linked(origin'[i]) /\ DeviceSeen(origin[i])' = DeviceSeen(origin'[i])
      BY <2>6, <2>8
    <3> HIDE DEF DeviceSeen, Linked
    <3> QED BY <2>1, <2>3, <3>1 DEF SinkDevices
  <2>9. ASSUME NEW i \in Ids(Tree)
        PROVE  /\ Tree'.nodes[i].hardlink <=> Again(i)'
               /\ Tree'.nodes[i].own = IF Excluded(origin[i])' \/ Again(i)' THEN 0 ELSE Shape[origin'[i]].size
    <3>1. /\ Tree.nodes[i].hardlink <=> Again(i)
          /\ Tree.nodes[i].own = IF Excluded(origin[i]) \/ Again(i) THEN 0 ELSE Shape[origin[i]].size
      BY DEF SinkDevices
    <3>2. origin'[i] = origin[i] /\ Tree'.nodes[i] = Tree.nodes[i] /\ i \in Ids(Tree)' /\ \A j \in 1..(i - 1) : origin'[j] = origin[j]
      BY <2>1
    <3>3. \A j \in 1..(i - 1) : SameFile(origin[i], origin[j])' = SameFile(origin[i], origin[j])
      BY <2>1, <3>2, DevicesStay
    <3>4. Linked(origin[i])' <=> Linked(origin[i])
      BY <2>6, <3>2
    <3>5. Again(i)' <=> Again(i)
      <4> HIDE DEF Linked, SameFile
      <4> QED BY <3>3, <3>4, Zenon DEF Again
    <3>6. Excluded(origin[i])' = Excluded(origin[i])
      BY <2>6, <3>2
    <3> HIDE DEF Again, Excluded, Tree
    <3> QED BY <3>1, <3>2, <3>5, <3>6
  <2>10. ASSUME NEW i \in Ids(Tree)', i = Latest
         PROVE  /\ Tree'.nodes[i].hardlink <=> Again(i)'
                /\ Tree'.nodes[i].own = IF Excluded(origin[i])' \/ Again(i)' THEN 0 ELSE Shape[origin'[i]].size
    <3>1. origin'[i] = e /\ Tree'.nodes[i] = NewNode(e) /\ 1..(i - 1) = Ids(Tree)
      BY <2>1, <2>10
    <3>2. NewNode(e).hardlink = Repeated(Item(e)) /\ NewNode(e).own = IF Repeated(Item(e)) THEN 0 ELSE Item(e).size
      <4> HIDE DEF Repeated, Item
      <4> QED BY DEF NewNode, NodeFrom
    <3>3. Linked(origin[i])' <=> Linked(e)
      BY <2>6, <3>1
    <3>4. \A j \in 1..(i - 1) : SameFile(origin[i], origin[j])' = SameFile(e, origin[j])
      BY <2>1, <3>1, DevicesStay
    <3>5. Again(i)' <=> Linked(e) /\ \E j \in Ids(Tree) : SameFile(e, origin[j])
      <4> HIDE DEF Linked, SameFile
      <4> QED BY <3>1, <3>3, <3>4, Zenon DEF Again
    <3>6. Excluded(origin[i])' = Excluded(e)
      BY <2>6, <3>1
    <3>7. Again(i)' <=> Repeated(Item(e))
      BY <2>2, <3>5, Zenon
    <3> HIDE DEF Again, Excluded, Tree, Repeated, Item
    <3> QED BY <2>2, <3>1, <3>2, <3>6, <3>7
  <2>11. \A i \in Ids(Tree)' : /\ Tree'.nodes[i].hardlink <=> Again(i)'
                               /\ Tree'.nodes[i].own = IF Excluded(origin[i])' \/ Again(i)' THEN 0 ELSE Shape[origin'[i]].size
    <3> HIDE DEF Again, Excluded, Tree
    <3> QED BY <2>1, <2>9, <2>10
  <2> HIDE DEF DeviceSeen, Linked, Again, Excluded, Tree
  <2> QED BY <2>5, <2>7, <2>8, <2>11 DEF SinkDevices
<1> QED BY <1>3, <1>4, <1>5, <1>6, <1>7, <1>8, <1>9, SinkSteps

FileBytes == [i \in Ids(Tree) |-> Bytes(i)]

(* The model's sum of file bytes, as a sum over a weight.                  *)
LEMMA FileBytesSum ==
  ASSUME NEW S, Weighs(FileBytes, S), S \subseteq Ids(Tree)
  PROVE  MapThenSumSet(Bytes, S) = SumOver(FileBytes, S)
<1> DEFINE w == FileBytes
<1>1. PICK e : AddsUpInt(e, w, S)
  BY SumExists
<1>2. \A s \in SUBSET S : s # {} => (CHOOSE x \in s : TRUE) \in s /\ w[CHOOSE x \in s : TRUE] = Bytes(CHOOSE x \in s : TRUE)
  <2> HIDE DEF Bytes, Tree
  <2> QED BY DEF FileBytes
<1> HIDE DEF Bytes
<1>3. e = [s \in SUBSET S |-> IF s = {} THEN 0 ELSE Bytes(CHOOSE x \in s : TRUE) + e[s \ {CHOOSE x \in s : TRUE}]]
  BY <1>1, <1>2 DEF AddsUp, AddsUpInt, Picked
<1> DEFINE g == CHOOSE iter : iter = [s \in SUBSET S |-> IF s = {} THEN 0
                  ELSE Bytes(CHOOSE x \in s : TRUE) + iter[s \ {CHOOSE x \in s : TRUE}]]
<1>4. g = [s \in SUBSET S |-> IF s = {} THEN 0 ELSE Bytes(CHOOSE x \in s : TRUE) + g[s \ {CHOOSE x \in s : TRUE}]]
  BY <1>3
<1>5. MapThenSumSet(Bytes, S) = g[S]
  BY DEF MapThenSumSet, MapThenFoldSet
<1> HIDE DEF g
<1>6. AddsUp(g, w, S)
  BY <1>2, <1>4 DEF AddsUp, Picked
<1> QED BY <1>5, <1>6, SumIs

(* Of two numbers the minimum is one or the other.                         *)
LEMMA LeastOfTwo ==
  ASSUME NEW a \in Int, NEW b \in Int
  PROVE  Min({a, b}) = IF b > a THEN a ELSE b
<1>1. \E x \in {a, b} : \A y \in {a, b} : x <= y
  OBVIOUS
<1>2. Min({a, b}) \in {a, b} /\ \A y \in {a, b} : Min({a, b}) <= y
  BY <1>1, Zenon DEF Min
<1> QED BY <1>2

(* Two names are told to be of one file where they are, and only there if  *)
(* the device is known.                                                    *)
LEMMA AgainIsEarlier ==
  ASSUME SinkInv, SinkHistory, NEW i \in Ids(Tree)
  PROVE  /\ Earlier(i) => Again(i)
         /\ DeviceIsKnown => (Again(i) => Earlier(i))
<1>1. Earlier(i) <=> Linked(origin[i]) /\ \E j \in 1..(i - 1) :
                       /\ Linked(origin[j]) /\ Shape[origin[j]].ino = Shape[origin[i]].ino
                       /\ DeviceOf(origin[j]) = DeviceOf(origin[i])
  <2> HIDE DEF Excluded
  <2> QED BY DEF Earlier, Linked
<1>2. \A e, f : DeviceOf(f) = DeviceOf(e) => DeviceSeen(f) = DeviceSeen(e)
  BY DEF DeviceSeen
<1>3. ASSUME DeviceIsKnown, NEW e, NEW f, Linked(e), Linked(f), DeviceSeen(f) = DeviceSeen(e)
      PROVE  DeviceOf(f) = DeviceOf(e)
  <2>1. CASE scan.backend = "ncdu"
    BY <1>3, <2>1 DEF DeviceSeen
  <2>2. CASE scan.confined
    <3>1. \A x : ~Excluded(x) => DeviceOf(x) = DeviceOf(scan.root)
      <4> SUFFICES ASSUME NEW x, ~Excluded(x) PROVE DeviceOf(x) = DeviceOf(scan.root)
        OBVIOUS
      <4>1. CASE x = scan.root
        BY <4>1
      <4>2. CASE x # scan.root
        BY <2>2, <4>2 DEF Excluded
      <4> QED BY <4>1, <4>2
    <3> QED BY <1>3, <3>1 DEF Linked
  <2> QED BY <1>3, <2>1, <2>2 DEF DeviceIsKnown
<1> HIDE DEF Linked, DeviceSeen
<1> QED BY <1>1, <1>2, <1>3 DEF Again, SameFile

(* A finished total is what deleting the subtree would free, or less where *)
(* the device is not known.                                                *)
LEMMA TotalsAreFree ==
  ASSUME SinkInv, SinkHistory, SinkDevices, Done, NEW i \in Ids(Tree)
  PROVE  LET free == Min({Largest, MapThenSumSet(Bytes, Below(Tree, i))})
         IN  Tree.nodes[i].total <= free /\ (DeviceIsKnown => Tree.nodes[i].total = free)
<1> DEFINE B == Below(Tree, i)
           w == Own(Tree)
           v == FileBytes
<1>0. Largest \in Nat /\ Sized(Tree) /\ Weighs(w, Ids(Tree)) /\ B \subseteq Ids(Tree)
  BY TreeBounds, TreeIsSized, OwnWeighs DEF Below
<1>1. \A j \in Ids(Tree) : Shape[origin[j]].size \in 0..Largest
  <2>1. origin \in Seq(Entries) /\ Len(origin) = Len(Tree.nodes) /\ Ids(Tree) = 1..Len(Tree.nodes)
    BY <1>0 DEF SinkInv, SinkTypes, SinkShape, Sized, IsTree
  <2>2. \A j \in Ids(Tree) : origin[j] \in Entries
    BY <2>1
  <2> HIDE DEF Tree
  <2> QED BY <2>2, EntriesAre
<1>2. ASSUME NEW j \in Ids(Tree)
      PROVE  /\ w[j] \in Int /\ v[j] \in Nat /\ w[j] <= v[j]
             /\ DeviceIsKnown => w[j] = v[j]
  <2>1. w[j] = IF Excluded(origin[j]) \/ Again(j) THEN 0 ELSE Shape[origin[j]].size
    <3> HIDE DEF Tree, Excluded, Again
    <3> QED BY DEF Own, SinkDevices
  <2>2. v[j] = IF Excluded(origin[j]) \/ Earlier(j) THEN 0 ELSE Shape[origin[j]].size
    <3> HIDE DEF Tree, Excluded, Earlier
    <3> QED BY DEF FileBytes, Bytes
  <2>3. (Earlier(j) => Again(j)) /\ (DeviceIsKnown => (Again(j) => Earlier(j)))
    BY AgainIsEarlier
  <2>4. Shape[origin[j]].size \in Nat
    BY <1>0, <1>1
  <2> HIDE DEF w, v, Tree, Excluded, Again, Earlier
  <2> QED BY <2>1, <2>2, <2>3, <2>4
<1>3. IsFiniteSet(Ids(Tree))
  BY <1>0 DEF Weighs
<1>4. Weighs(v, Ids(Tree)) /\ Weighs(v, B) /\ Weighs(w, B)
  <2>1. Weighs(v, Ids(Tree))
    BY <1>2, <1>3 DEF Weighs
  <2>2. IsFiniteSet(B)
    BY <1>0, <1>3, FS_Subset
  <2> QED BY <1>0, <1>2, <2>1, <2>2 DEF Weighs
<1>5. MapThenSumSet(Bytes, B) = SumOver(v, B)
  BY <1>0, <1>4, FileBytesSum
<1>6. SumOver(w, B) <= SumOver(v, B) /\ SumOver(w, B) \in Int /\ SumOver(v, B) \in Int
  <2> HIDE DEF w, v, B
  <2> QED BY <1>0, <1>2, <1>4, SumLeq, SumType
<1>7. DeviceIsKnown => SumOver(w, B) = SumOver(v, B)
  <2> HIDE DEF w, v, B
  <2> QED BY <1>0, <1>2, <1>4, SumSame
<1>8. Tree.nodes[i].total = Capped(SumOver(w, B))
  BY DEF SinkInv, SinkShape, IsRolled
<1> DEFINE x == MapThenSumSet(Bytes, B)
<1>9. x = SumOver(v, B)
  BY <1>5
<1> HIDE DEF w, v, B, x
<1>10. Min({Largest, x}) = Capped(x)
  BY <1>0, <1>6, <1>9, LeastOfTwo DEF Capped
<1>11. Tree.nodes[i].total <= Min({Largest, x}) /\ (DeviceIsKnown => Tree.nodes[i].total = Min({Largest, x}))
  <2> HIDE DEF Tree, DeviceIsKnown
  <2> QED BY <1>0, <1>6, <1>7, <1>8, <1>9, <1>10 DEF Capped
<1> QED BY <1>11 DEF x, B

(* So the finished tree is the disk's, entry by entry and byte by byte.    *)
LEMMA TreeIsWhole ==
  ASSUME SinkInv, SinkHistory, SinkDevices PROVE TreeIsTheDisk
<1> SUFFICES ASSUME Done
             PROVE  /\ Len(origin) = Len(Tree.nodes) /\ Len(origin) = Cardinality(Reachable) /\ ToSet(origin) = Reachable
                    /\ \A i \in Ids(Tree) :
                         LET free == Min({Largest, MapThenSumSet(Bytes, Below(Tree, i))})
                         IN  Tree.nodes[i].total <= free /\ (DeviceIsKnown => Tree.nodes[i].total = free)
  BY DEF TreeIsTheDisk
<1>1. Len(origin) = Len(Tree.nodes) /\ Len(origin) = Cardinality(Reachable) /\ ToSet(origin) = Reachable
  BY ListsTheDisk
<1>2. \A i \in Ids(Tree) :
        LET free == Min({Largest, MapThenSumSet(Bytes, Below(Tree, i))})
        IN  Tree.nodes[i].total <= free /\ (DeviceIsKnown => Tree.nodes[i].total = free)
  BY TotalsAreFree
<1> QED BY <1>1, <1>2

-----------------------------------------------------------------------------
(* What is counted along the way.                                          *)
Directories == {i \in Ids(Tree) : Tree.nodes[i].kind = "Directory"}
Unread == {i \in Ids(Tree) : Tree.nodes[i].read_error}
Skipped == {i \in Ids(Tree) : Tree.nodes[i].excluded}
Doubles == {i \in Ids(Tree) : Tree.nodes[i].hardlink}
Saved == [i \in Ids(Tree) |-> IF Again(i) THEN Shape[origin[i]].size ELSE 0]

(* The counters of the scan and of its statistics count the nodes they     *)
(* say.                                                                    *)
SinkCounts ==
  /\ scan.phase # "failed" => scan.items = Len(Tree.nodes) /\ scan.directories = Cardinality(Directories)
  /\ sink.stats.read_errors = Cardinality(Unread)
  /\ sink.stats.excluded = Cardinality(Skipped)
  /\ sink.stats.deduplicated = Cardinality(Doubles)
  /\ sink.stats.saved = Capped(SumOver(Saved, Ids(Tree)))

(* Counting one more, or none.                                             *)
LEMMA OneMore ==
  ASSUME NEW A, IsFiniteSet(A), NEW x, x \notin A, NEW b \in BOOLEAN,
         NEW B, \A y : y \in B <=> y \in A \/ (b /\ y = x)
  PROVE  Cardinality(B) = Cardinality(A) + Flag(b)
<1>1. CASE b
  <2>1. B = A \cup {x}
    BY <1>1
  <2>2. Cardinality(A \cup {x}) = Cardinality(A) + 1
    BY FS_AddElement
  <2>3. Cardinality(B) = Cardinality(A) + 1
    BY <2>1, <2>2, Zenon
  <2> QED BY <1>1, <2>3 DEF Flag
<1>2. CASE ~b
  <2>1. B = A
    BY <1>2
  <2>2. Cardinality(A) \in Nat
    BY FS_CardinalityType
  <2> QED BY <1>2, <2>1, <2>2 DEF Flag
<1> QED BY <1>1, <1>2

(* What deduplication saved can be added up.                               *)
LEMMA SavedWeighs ==
  ASSUME SinkInv PROVE Weighs(Saved, Ids(Tree)) /\ IsFiniteSet(Ids(Tree)) /\ \A i \in Ids(Tree) : Saved[i] \in Nat
<1>1. Ids(Tree) = 1..Len(Tree.nodes) /\ Len(Tree.nodes) \in Nat
  BY TreeIsSized DEF Sized, IsTree
<1>2. IsFiniteSet(Ids(Tree))
  BY <1>1, FS_Interval
<1>3. \A j \in Ids(Tree) : Shape[origin[j]].size \in Nat
  <2>1. origin \in Seq(Entries) /\ Len(origin) = Len(Tree.nodes)
    BY DEF SinkInv, SinkTypes, SinkShape
  <2>2. \A j \in Ids(Tree) : origin[j] \in Entries
    BY <1>1, <2>1
  <2> HIDE DEF Tree
  <2> QED BY <2>2, EntriesAre, TreeBounds
<1>4. \A i \in Ids(Tree) : Saved[i] \in Nat
  <2> HIDE DEF Again, Tree
  <2> QED BY <1>3 DEF Saved
<1> QED BY <1>2, <1>4 DEF Weighs

(* Every step counts what it takes in.                                     *)
LEMMA CountsKept ==
  ASSUME SinkInv, SinkHistory, SinkDevices, SinkCounts, [FootprintNext]_allVars
  PROVE  SinkCounts'
<1>0. Ids(Tree) = 1..Len(Tree.nodes) /\ Len(Tree.nodes) \in Nat /\ IsFiniteSet(Ids(Tree)) /\ Weighs(Saved, Ids(Tree))
      /\ \A i \in Ids(Tree) : Saved[i] \in Nat
  BY TreeIsSized, SavedWeighs DEF Sized, IsTree
<1>1. ASSUME SameScan, origin' = origin, Len(Tree'.nodes) = Len(Tree.nodes), Ids(Tree)' = Ids(Tree), sink'.stats = sink.stats,
             scan'.phase = scan.phase \/ scan.phase # "failed",
             scan'.items = scan.items, scan'.directories = scan.directories,
             \A i \in Ids(Tree) : LET m == Tree'.nodes[i] n == Tree.nodes[i]
                                  IN  /\ m.kind = n.kind /\ m.read_error = n.read_error
                                      /\ m.hardlink = n.hardlink /\ m.excluded = n.excluded
      PROVE  SinkCounts'
  <2>1. Directories' = Directories
    <3> HIDE DEF Tree
    <3> QED BY <1>1 DEF Directories
  <2>2. Unread' = Unread /\ Skipped' = Skipped /\ Doubles' = Doubles
    <3> HIDE DEF Tree
    <3> QED BY <1>1 DEF Unread, Skipped, Doubles
  <2>3. \A i : Again(i)' = Again(i)
    <3>1. \A i, j : Linked(origin[i])' = Linked(origin[i]) /\ SameFile(origin[i], origin[j])' = SameFile(origin[i], origin[j])
      BY <1>1, DevicesStay
    <3> HIDE DEF Linked, SameFile
    <3> QED BY <1>1, <3>1, Zenon DEF Again
  <2>4. Saved' = Saved
    <3> HIDE DEF Again, Tree
    <3> QED BY <1>1, <2>3, Zenon DEF Saved
  <2>5. SumOver(Saved, Ids(Tree))' = SumOver(Saved, Ids(Tree))
    <3> HIDE DEF Tree, Saved
    <3> QED BY <1>1, <2>4, Zenon
  <2> HIDE DEF Tree, Saved, Directories, Unread, Skipped, Doubles
  <2> QED BY <1>1, <2>1, <2>2, <2>5 DEF SinkCounts, Capped
<1>2. ASSUME sink' = NewSink, scan'.phase = "failed" \/ (scan'.items = 0 /\ scan'.directories = 0) PROVE SinkCounts'
  <2>1. Ids(Tree)' = {} /\ Len(Tree'.nodes) = 0 /\ sink'.stats = NewStats
    BY <1>2 DEF NewSink, EmptyTree, Tree, Ids
  <2>2. Directories' = {} /\ Unread' = {} /\ Skipped' = {} /\ Doubles' = {}
    BY <2>1 DEF Directories, Unread, Skipped, Doubles
  <2>3. Cardinality({}) = 0
    BY FS_EmptySet
  <2>4. Cardinality(Directories') = 0 /\ Cardinality(Unread') = 0 /\ Cardinality(Skipped') = 0 /\ Cardinality(Doubles') = 0
    BY <2>2, <2>3, Zenon
  <2>5. SumOver(Saved, Ids(Tree))' = 0
    <3>1. SumOver(Saved', {}) = 0
      BY SumNone
    <3> HIDE DEF Saved, Tree
    <3> QED BY <2>1, <3>1, Zenon
  <2>6. Capped(0) = 0
    BY TreeBounds DEF Capped
  <2> HIDE DEF Saved, Tree, Directories, Unread, Skipped, Doubles, Capped
  <2> QED BY <1>2, <2>1, <2>4, <2>5, <2>6 DEF SinkCounts, NewStats
<1>3. ASSUME NEW e \in Asked, NEW source \in Sources, Started(e, source) PROVE SinkCounts'
  <2>1. scan = NoScan /\ sink' = NewSink
    BY <1>3 DEF Started, SinkInv, SinkShape
  <2>2. scan' = [NoScan EXCEPT !.phase = "header", !.root = e, !.backend = source[1], !.confined = source[2]]
    BY <1>3, <2>1 DEF Started
  <2>3. scan'.items = 0 /\ scan'.directories = 0
    BY <2>2 DEF NoScan
  <2> QED BY <1>2, <2>1, <2>3
<1>4. ASSUME Failed PROVE SinkCounts'
  <2>1. PICK why \in Failures : Fail(why)
    BY <1>4 DEF Failed
  <2>2. sink' = NewSink /\ scan' = [scan EXCEPT !.phase = "failed", !.failure = why]
    BY <2>1 DEF Fail
  <2>3. scan'.phase = "failed"
    BY <2>2 DEF SinkInv, SinkTypes
  <2> QED BY <1>2, <2>2, <2>3
<1> DEFINE Scans == [phase : Phases, failure : Failures, root : Asked \cup {NoEntry}, backend : {"ncdu", "gdu"},
                     confined : BOOLEAN, depth : Nat, items : Nat, directories : Nat]
<1>5. scan \in Scans
  BY DEF SinkInv, SinkTypes
<1>6. ASSUME Header \/ CloseDir \/ UNCHANGED sinkVars PROVE SinkCounts'
  <2>1. SameScan
    BY <1>6, SameScanIf
  <2>2. scan'.items = scan.items /\ scan'.directories = scan.directories /\ (scan'.phase = scan.phase \/ scan.phase # "failed") /\ origin' = origin
    BY <1>5, <1>6 DEF Header, CloseDir, sinkVars
  <2>3. Tree' = Tree /\ sink'.stats = sink.stats
    <3>1. sink = [tree |-> Tree, stack |-> sink.stack, devices |-> sink.devices, seen |-> sink.seen, stats |-> sink.stats]
      BY DEF SinkInv, SinkTypes, Tree
    <3> QED BY <1>6, <3>1 DEF Tree, Header, CloseDir, sinkVars
  <2>4. Ids(Tree)' = Ids(Tree)
    BY <2>3 DEF Ids
  <2> HIDE DEF Tree, Scans
  <2> QED BY <1>1, <2>1, <2>2, <2>3, <2>4
<1>7. ASSUME Finish PROVE SinkCounts'
  <2>1. /\ Ids(Tree)' = Ids(Tree) /\ sink'.stats = sink.stats
        /\ origin' = origin /\ SameScan /\ scan'.items = scan.items /\ scan'.directories = scan.directories
        /\ \A i \in Ids(Tree) : LET m == Tree'.nodes[i] n == Tree.nodes[i]
                                IN  /\ m.kind = n.kind /\ m.read_error = n.read_error
                                    /\ m.hardlink = n.hardlink /\ m.excluded = n.excluded
    BY <1>7, FinishIs
  <2>2. scan.phase # "failed"
    BY <1>7 DEF Finish
  <2>3. Len(Tree'.nodes) = Len(Tree.nodes)
    <3>1. Tree' = Rolled(Tree) /\ Len(Rolled(Tree).nodes) = Len(Tree.nodes)
      BY <1>7, FinishIs, TreeIsSized, RolledTree
    <3> HIDE DEF Tree
    <3> QED BY <3>1
  <2> HIDE DEF Tree, Scans
  <2> QED BY <1>1, <2>1, <2>2, <2>3
<1>8. ASSUME NEW e \in Entries, OpenDir(e) \/ Leaf(e) PROVE SinkCounts'
  <2>1. /\ SameScan /\ Taken(e) /\ scan.phase \in {"root", "tree"}
        /\ Latest \in Nat /\ Ids(Tree) = 1..(Latest - 1) /\ Ids(Tree)' = Ids(Tree) \cup {Latest} /\ Latest \notin Ids(Tree)
        /\ origin'[Latest] = e /\ \A i \in Ids(Tree) : origin'[i] = origin[i]
        /\ Tree'.nodes[Latest] = NewNode(e) /\ \A i \in Ids(Tree) : Tree'.nodes[i] = Tree.nodes[i]
    BY <1>8, TakenFacts
  <2>2. /\ Item(e).size = IF Excluded(e) THEN 0 ELSE Shape[e].size
        /\ Repeated(Item(e)) <=> Linked(e) /\ \E i \in Ids(Tree) : SameFile(e, origin[i])
    BY <1>8, DeviceFacts
  <2>3. Item(e).read_error \in BOOLEAN /\ Item(e).excluded \in BOOLEAN /\ Repeated(Item(e)) \in BOOLEAN /\ Item(e).size \in 0..Largest
    <3>1. scan.root # NoEntry
      BY <1>8, TakenFacts
    <3>2. Item(e) \in [name : DOMAIN NameRank, size : 0..Largest, dev : Nat, ino : Nat, hlnkc : BOOLEAN,
                       notreg : {FALSE}, read_error : BOOLEAN, excluded : BOOLEAN]
      BY <3>1, ItemTypes
    <3>3. Item(e).read_error \in BOOLEAN /\ Item(e).excluded \in BOOLEAN /\ Item(e).size \in 0..Largest
      <4> HIDE DEF Item
      <4> QED BY <3>2
    <3>4. Repeated(Item(e)) \in BOOLEAN
      <4>1. Item(e).hlnkc \in BOOLEAN
        <5> HIDE DEF Item
        <5> QED BY <3>2
      <4> HIDE DEF Item
      <4> QED BY <4>1 DEF Repeated
    <3> QED BY <3>3, <3>4
  <2>4. /\ NewNode(e).kind = IF Enters(e) THEN "Directory" ELSE "File"
        /\ NewNode(e).read_error = Item(e).read_error /\ NewNode(e).excluded = Item(e).excluded
        /\ NewNode(e).hardlink = Repeated(Item(e))
    <3> HIDE DEF Item, Repeated, Enters
    <3> QED BY DEF NewNode, NodeFrom
  <2>5. scan'.items = scan.items + 1 /\ scan'.directories = IF Enters(e) THEN scan.directories + 1 ELSE scan.directories
    <3>1. scan' = [scan EXCEPT !.phase = "tree", !.items = @ + 1,
                          !.depth = IF Enters(e) THEN @ + 1 ELSE @,
                          !.directories = IF Enters(e) THEN @ + 1 ELSE @]
      BY <2>1 DEF Taken
    <3> HIDE DEF Enters
    <3> QED BY <1>5, <3>1
  <2>6. /\ sink'.stats = Counted(Item(e)) /\ Len(Tree'.nodes) = Len(Tree.nodes) + 1
    <3>1. sink'.stats = Counted(Item(e)) /\ Tree'.nodes = Append(Tree.nodes, NewNode(e))
      <4> HIDE DEF NewNode
      <4> QED BY <2>1 DEF Taken, Tree
    <3>2. Tree.nodes \in Seq(Node) /\ NewNode(e) \in Node
      BY <1>8, TakenIs DEF SinkInv, SinkTypes, Tree
    <3> HIDE DEF Node, NewNode, Counted, Tree
    <3> QED BY <3>1, <3>2
  <2> HIDE DEF Tree, NewNode, Item, Repeated, Enters, Latest
  <2>7. Cardinality(Directories)' = Cardinality(Directories) + (IF Enters(e) THEN 1 ELSE 0)
    <3> DEFINE A == Directories B == Directories'
    <3>1. IsFiniteSet(A) /\ Latest \notin A
      BY <1>0, <2>1, FS_Subset DEF Directories
    <3>2. Enters(e) \in BOOLEAN
      BY DEF Enters, Excluded
    <3>3. \A y : y \in B <=> y \in A \/ (Enters(e) /\ y = Latest)
      BY <2>1, <2>4 DEF Directories
    <3> HIDE DEF A, B
    <3>4. Cardinality(B) = Cardinality(A) + Flag(Enters(e))
      BY <3>1, <3>2, <3>3, OneMore
    <3> QED BY <3>4 DEF A, B, Flag
  <2>8. Cardinality(Unread)' = Cardinality(Unread) + Flag(Item(e).read_error)
    <3> DEFINE A == Unread B == Unread'
    <3>1. IsFiniteSet(A) /\ Latest \notin A
      BY <1>0, <2>1, FS_Subset DEF Unread
    <3>2. \A y : y \in B <=> y \in A \/ (Item(e).read_error /\ y = Latest)
      BY <2>1, <2>4, Zenon DEF Unread
    <3> HIDE DEF A, B
    <3>3. Cardinality(B) = Cardinality(A) + Flag(Item(e).read_error)
      BY <2>3, <3>1, <3>2, OneMore
    <3> QED BY <3>3 DEF A, B
  <2>9. Cardinality(Skipped)' = Cardinality(Skipped) + Flag(Item(e).excluded)
    <3> DEFINE A == Skipped B == Skipped'
    <3>1. IsFiniteSet(A) /\ Latest \notin A
      BY <1>0, <2>1, FS_Subset DEF Skipped
    <3>2. \A y : y \in B <=> y \in A \/ (Item(e).excluded /\ y = Latest)
      BY <2>1, <2>4, Zenon DEF Skipped
    <3> HIDE DEF A, B
    <3>3. Cardinality(B) = Cardinality(A) + Flag(Item(e).excluded)
      BY <2>3, <3>1, <3>2, OneMore
    <3> QED BY <3>3 DEF A, B
  <2>10. Cardinality(Doubles)' = Cardinality(Doubles) + Flag(Repeated(Item(e)))
    <3> DEFINE A == Doubles B == Doubles'
    <3>1. IsFiniteSet(A) /\ Latest \notin A
      BY <1>0, <2>1, FS_Subset DEF Doubles
    <3>2. \A y : y \in B <=> y \in A \/ (Repeated(Item(e)) /\ y = Latest)
      BY <2>1, <2>4, Zenon DEF Doubles
    <3> HIDE DEF A, B
    <3>3. Cardinality(B) = Cardinality(A) + Flag(Repeated(Item(e)))
      BY <2>3, <3>1, <3>2, OneMore
    <3> QED BY <3>3 DEF A, B
  <2> DEFINE more == IF Repeated(Item(e)) THEN Item(e).size ELSE 0
  <2>11. \A i \in Ids(Tree) : Saved'[i] = Saved[i]
    <3> SUFFICES ASSUME NEW i \in Ids(Tree) PROVE Saved'[i] = Saved[i]
      OBVIOUS
    <3>1. origin'[i] = origin[i] /\ \A j \in 1..(i - 1) : origin'[j] = origin[j]
      BY <2>1
    <3>2. Linked(origin[i])' = Linked(origin[i]) /\ \A j \in 1..(i - 1) : SameFile(origin[i], origin[j])' = SameFile(origin[i], origin[j])
      BY <2>1, <3>1, DevicesStay
    <3>3. Again(i)' <=> Again(i)
      <4> HIDE DEF Linked, SameFile
      <4> QED BY <3>2, Zenon DEF Again
    <3> HIDE DEF Again
    <3> QED BY <2>1, <3>1, <3>3 DEF Saved
  <2>12. ASSUME NEW i \in Ids(Tree)', i = Latest PROVE Saved'[i] = more
    <3>1. origin'[i] = e /\ 1..(i - 1) = Ids(Tree)
      BY <2>1, <2>12
    <3>2. Linked(origin[i])' <=> Linked(e)
      BY <2>1, <3>1, DevicesStay
    <3>3. \A j \in 1..(i - 1) : SameFile(origin[i], origin[j])' = SameFile(e, origin[j])
      BY <2>1, <3>1, DevicesStay
    <3>4. Again(i)' <=> Linked(e) /\ \E j \in Ids(Tree) : SameFile(e, origin[j])
      <4> HIDE DEF Linked, SameFile
      <4> QED BY <3>1, <3>2, <3>3, Zenon DEF Again
    <3>5. Again(i)' <=> Repeated(Item(e))
      BY <2>2, <3>4, Zenon
    <3>6. Repeated(Item(e)) => ~Excluded(e)
      BY <2>2 DEF Linked
    <3> HIDE DEF Again, Excluded
    <3> QED BY <2>2, <3>1, <3>5, <3>6 DEF Saved
  <2>13. SumOver(Saved, Ids(Tree))' = more + SumOver(Saved, Ids(Tree))
    <3> DEFINE S == Ids(Tree) \cup {Latest}
               v == Saved'
               w == Saved
    <3>1. IsFiniteSet(S)
      BY <1>0, FS_AddElement
    <3>2. more \in Nat /\ Latest \in Ids(Tree)'
      BY <2>1, <2>3, TreeBounds
    <3>3. v[Latest] = more /\ \A i \in Ids(Tree) : v[i] = w[i]
      <4>1. PICK i \in Ids(Tree)' : i = Latest
        BY <3>2
      <4>2. Saved'[i] = more
        BY <2>12, <4>1
      <4> HIDE DEF Saved
      <4> QED BY <2>11, <4>1, <4>2
    <3>4. \A i \in Ids(Tree) : w[i] \in Nat
      BY <1>0
    <3>5. Ids(Tree)' = S
      BY <2>1
    <3> HIDE DEF v, w, more
    <3>6. Weighs(v, S) /\ Weighs(w, Ids(Tree)) /\ Ids(Tree) \in SUBSET S /\ Latest \in S
      BY <1>0, <3>1, <3>2, <3>3, <3>4 DEF Weighs
    <3> DEFINE I == Ids(Tree) l == Latest
    <3>7. SumOver(v, I \cup {l}) = v[l] + SumOver(v, I)
      <4>1. Weighs(v, S) /\ I \in SUBSET S /\ l \in S /\ l \notin I
        BY <2>1, <3>6
      <4> HIDE DEF S, I, l
      <4> QED BY <4>1, SumAdd
    <3>8. SumOver(w, I) = SumOver(v, I)
      <4>1. Weighs(w, I) /\ \A i \in I : w[i] = v[i]
        BY <3>3, <3>6
      <4> HIDE DEF S, I, l
      <4> QED BY <4>1, SumSame
    <3>9. SumOver(v, S) = more + SumOver(w, I)
      BY <3>3, <3>7, <3>8
    <3>10. SumOver(Saved, Ids(Tree))' = SumOver(v, S)
      <4> HIDE DEF S
      <4> QED BY <3>5, Zenon DEF v
    <3> QED BY <3>9, <3>10 DEF w
  <2>14. SumOver(Saved, Ids(Tree)) \in Nat
    <3> DEFINE w == Saved I == Ids(Tree)
    <3>1. Weighs(w, I) /\ \A i \in I : w[i] >= 0
      BY <1>0
    <3> HIDE DEF w, I
    <3>2. SumOver(w, I) \in Nat
      BY <3>1, SumNat
    <3> QED BY <3>2 DEF w, I
  <2>15. Saturating(sink.stats.saved, more) = Capped(SumOver(Saved, Ids(Tree)))'
    <3> DEFINE x == SumOver(Saved, Ids(Tree)) y == SumOver(Saved, Ids(Tree))'
    <3>1. x \in Nat /\ y = more + x /\ more \in Nat /\ Largest \in Nat
      BY <2>3, <2>13, <2>14, TreeBounds
    <3>2. sink.stats.saved = Capped(x)
      BY DEF SinkCounts
    <3>3. Capped(SumOver(Saved, Ids(Tree)))' = Capped(y)
      BY DEF Capped
    <3> HIDE DEF x, y, more
    <3> QED BY <3>1, <3>2, <3>3 DEF Saturating, Capped
  <2>16. /\ sink'.stats.read_errors = sink.stats.read_errors + Flag(Item(e).read_error)
         /\ sink'.stats.excluded = sink.stats.excluded + Flag(Item(e).excluded)
         /\ sink'.stats.deduplicated = sink.stats.deduplicated + Flag(Repeated(Item(e)))
         /\ sink'.stats.saved = Saturating(sink.stats.saved, more)
    <3> HIDE DEF Flag, Saturating
    <3> QED BY <2>6 DEF Counted
  <2>17. scan'.items = Len(Tree'.nodes) /\ scan'.directories = Cardinality(Directories)'
    <3>1. scan.items = Len(Tree.nodes) /\ scan.directories = Cardinality(Directories)
      BY <2>1 DEF SinkCounts
    <3>2. scan.directories \in Nat
      BY <1>5
    <3> HIDE DEF Directories
    <3> QED BY <2>5, <2>6, <2>7, <3>1, <3>2
  <2> HIDE DEF more, Directories, Unread, Skipped, Doubles, Saved, Capped, Flag, Saturating
  <2> QED BY <2>8, <2>9, <2>10, <2>15, <2>16, <2>17 DEF SinkCounts
<1> QED BY <1>3, <1>4, <1>6, <1>7, <1>8, SinkSteps

(* What is told of an entry, however often its bytes are counted.          *)
Told == [i \in Ids(Tree) |-> IF Excluded(origin[i]) THEN 0 ELSE Shape[origin[i]].size]

(* The model's sum of the sizes the disk has, as a sum over a weight.      *)
LEMMA ToldSum ==
  ASSUME NEW S, Weighs(Told, S), S \subseteq Ids(Tree)
  PROVE  MapThenSumSet(LAMBDA i : IF Excluded(origin[i]) THEN 0 ELSE Shape[origin[i]].size, S) = SumOver(Told, S)
<1> DEFINE w == Told
           Size(i) == IF Excluded(origin[i]) THEN 0 ELSE Shape[origin[i]].size
<1>1. PICK e : AddsUpInt(e, w, S)
  BY SumExists
<1>2. \A s \in SUBSET S : s # {} => (CHOOSE x \in s : TRUE) \in s /\ w[CHOOSE x \in s : TRUE] = Size(CHOOSE x \in s : TRUE)
  <2> HIDE DEF Excluded, Tree
  <2> QED BY DEF Told
<1> DEFINE g == CHOOSE iter : iter = [s \in SUBSET S |-> IF s = {} THEN 0
                  ELSE Size(CHOOSE x \in s : TRUE) + iter[s \ {CHOOSE x \in s : TRUE}]]
<1>5. MapThenSumSet(LAMBDA i : IF Excluded(origin[i]) THEN 0 ELSE Shape[origin[i]].size, S) = g[S]
  BY DEF MapThenSumSet, MapThenFoldSet
<1> HIDE DEF Size
<1>3. e = [s \in SUBSET S |-> IF s = {} THEN 0 ELSE Size(CHOOSE x \in s : TRUE) + e[s \ {CHOOSE x \in s : TRUE}]]
  BY <1>1, <1>2 DEF AddsUp, AddsUpInt, Picked
<1>4. g = [s \in SUBSET S |-> IF s = {} THEN 0 ELSE Size(CHOOSE x \in s : TRUE) + g[s \ {CHOOSE x \in s : TRUE}]]
  BY <1>3
<1> HIDE DEF g
<1>6. AddsUp(g, w, S)
  BY <1>2, <1>4 DEF AddsUp, Picked
<1> QED BY <1>5, <1>6, SumIs

(* So the summary's numbers are those of the tree, and what it shows and   *)
(* what it saved come to all the bytes.                                    *)
LEMMA SummaryAdds ==
  ASSUME SinkInv, SinkHistory, SinkDevices, SinkCounts PROVE SummaryAddsUp
<1> DEFINE I == Ids(Tree)
           all == MapThenSumSet(LAMBDA i : IF Excluded(origin[i]) THEN 0 ELSE Shape[origin[i]].size, I)
           w == Own(Tree)
           v == Saved
<1> SUFFICES ASSUME Done
             PROVE  /\ all < Largest => Summary.total + Summary.stats.saved = all
                    /\ Summary.entries = Len(Tree.nodes)
                    /\ Summary.directories = Cardinality({i \in I : IsDir(Tree.nodes[i])})
                    /\ Summary.stats.read_errors = Cardinality({i \in I : Tree.nodes[i].read_error})
                    /\ Summary.stats.excluded = Cardinality({i \in I : Tree.nodes[i].excluded})
                    /\ Summary.stats.deduplicated = Cardinality({i \in I : Tree.nodes[i].hardlink})
  BY Zenon DEF SummaryAddsUp
<1>1. /\ Summary.total = Tree.nodes[Root].total /\ Summary.entries = scan.items
      /\ Summary.directories = scan.directories /\ Summary.stats = sink.stats
  <2> HIDE DEF Tree
  <2> QED BY DEF Summary
<1>2. Sized(Tree) /\ IsTree(Tree) /\ I = 1..Len(Tree.nodes) /\ I # {} /\ Len(Tree.nodes) \in Nat /\ Root \in I
  BY TreeIsSized DEF Sized, IsTree, SinkInv, SinkShape, Done, Root
<1>3. Weighs(w, I) /\ (\A i \in I : w[i] >= 0) /\ Weighs(v, I) /\ (\A i \in I : v[i] \in Nat) /\ IsFiniteSet(I)
  BY <1>2, OwnWeighs, SavedWeighs
<1>4. \A j \in I : Shape[origin[j]].size \in Nat
  <2>1. origin \in Seq(Entries) /\ Len(origin) = Len(Tree.nodes)
    BY DEF SinkInv, SinkTypes, SinkShape
  <2>2. \A j \in I : origin[j] \in Entries
    BY <1>2, <2>1
  <2> HIDE DEF I
  <2> QED BY <2>2, EntriesAre, TreeBounds
<1>5. ASSUME NEW i \in I PROVE Told[i] = w[i] + v[i] /\ Told[i] \in Nat /\ w[i] \in Nat
  <2>1. w[i] = IF Excluded(origin[i]) \/ Again(i) THEN 0 ELSE Shape[origin[i]].size
    <3> HIDE DEF Tree, Excluded, Again
    <3> QED BY DEF Own, SinkDevices
  <2>2. v[i] = IF Again(i) THEN Shape[origin[i]].size ELSE 0
    <3> HIDE DEF Tree, Again
    <3> QED BY DEF Saved
  <2>3. Told[i] = IF Excluded(origin[i]) THEN 0 ELSE Shape[origin[i]].size
    <3> HIDE DEF Tree, Excluded
    <3> QED BY DEF Told
  <2>4. Again(i) => ~Excluded(origin[i])
    BY DEF Again, Linked
  <2> HIDE DEF I, w, v, Again, Excluded
  <2> QED BY <1>4, <2>1, <2>2, <2>3, <2>4
<1>6. Weighs(Told, I)
  BY <1>3, <1>5 DEF Weighs
<1>7. all = SumOver(Told, I)
  BY <1>6, ToldSum
<1>8. SumOver(Told, I) = SumOver(w, I) + SumOver(v, I) /\ SumOver(w, I) \in Nat /\ SumOver(v, I) \in Nat
  <2>1. \A i \in I : Told[i] = w[i] + v[i] /\ w[i] >= 0 /\ v[i] >= 0
    BY <1>3, <1>5
  <2> HIDE DEF I, w, v
  <2> QED BY <1>3, <1>6, <2>1, SumPlus, SumNat
<1>9. Summary.total = Capped(SumOver(w, I))
  <2>1. Tree.nodes[Root].total = Capped(SumOver(w, Below(Tree, Root)))
    BY <1>2 DEF SinkInv, SinkShape, IsRolled
  <2>2. Below(Tree, Root) = I
    <3>1. \A i \in I : i # Root => Root \in Above(Tree, i)
      BY <1>2, AboveOrder
    <3> QED BY <3>1 DEF Below, Above
  <2> HIDE DEF I
  <2> QED BY <1>1, <2>1, <2>2
<1>10. Summary.stats.saved = Capped(SumOver(v, I))
  BY <1>1 DEF SinkCounts
<1>11. all < Largest => Summary.total + Summary.stats.saved = all
  <2> HIDE DEF all, I, w, v
  <2> QED BY <1>7, <1>8, <1>9, <1>10, TreeBounds DEF Capped
<1>12. Summary.entries = Len(Tree.nodes) /\ Summary.directories = Cardinality(Directories)
  BY <1>1 DEF SinkCounts, Done
<1>13. /\ Summary.stats.read_errors = Cardinality(Unread) /\ Summary.stats.excluded = Cardinality(Skipped)
       /\ Summary.stats.deduplicated = Cardinality(Doubles)
  BY <1>1 DEF SinkCounts
<1>14. Directories = {i \in I : IsDir(Tree.nodes[i])}
  BY DEF Directories, IsDir
<1>15. Unread = {i \in I : Tree.nodes[i].read_error} /\ Skipped = {i \in I : Tree.nodes[i].excluded} /\ Doubles = {i \in I : Tree.nodes[i].hardlink}
  BY DEF Unread, Skipped, Doubles
<1> HIDE DEF I, all, Tree
<1>16. Summary.directories = Cardinality({i \in I : IsDir(Tree.nodes[i])})
  BY <1>12, <1>14, Zenon
<1>17. /\ Summary.stats.read_errors = Cardinality({i \in I : Tree.nodes[i].read_error})
       /\ Summary.stats.excluded = Cardinality({i \in I : Tree.nodes[i].excluded})
       /\ Summary.stats.deduplicated = Cardinality({i \in I : Tree.nodes[i].hardlink})
  BY <1>13, <1>15, Zenon
<1> QED BY <1>11, <1>12, <1>16, <1>17

-----------------------------------------------------------------------------
(* The order of a directory's children.                                    *)
NameOf(t, x) == NameRank[t.nodes[x].name]
KeyOf(t, sort, x) ==
  CASE sort = "LargestFirst"   -> 0 - t.nodes[x].total
    [] sort = "SmallestFirst"  -> t.nodes[x].total
    [] sort = "NameAscending"  -> NameOf(t, x)
    [] sort = "NameDescending" -> 0 - NameOf(t, x)

(* The comparison of two children, as the order of two keys.               *)
LEMMA BeforeIs ==
  ASSUME NEW t, NEW sort \in Sorts, NEW a, NEW b,
         \A x \in {a, b} : t.nodes[x].total \in Int /\ NameOf(t, x) \in Int /\ x \in Int
  PROVE  /\ KeyOf(t, sort, a) \in Int /\ KeyOf(t, sort, b) \in Int
         /\ Before(t, sort, a, b) <=>
              \/ KeyOf(t, sort, a) < KeyOf(t, sort, b)
              \/ /\ KeyOf(t, sort, a) = KeyOf(t, sort, b)
                 /\ NameOf(t, a) < NameOf(t, b) \/ (NameOf(t, a) = NameOf(t, b) /\ a < b)
<1> DEFINE size == [x \in {a, b} |-> t.nodes[x].total]
           name == [x \in {a, b} |-> NameRank[t.nodes[x].name]]
           key  == CASE sort = "LargestFirst"   -> size[b] - size[a]
                     [] sort = "SmallestFirst"  -> size[a] - size[b]
                     [] sort = "NameAscending"  -> name[a] - name[b]
                     [] sort = "NameDescending" -> name[b] - name[a]
<1>1. /\ size[a] = t.nodes[a].total /\ size[b] = t.nodes[b].total
      /\ name[a] = NameOf(t, a) /\ name[b] = NameOf(t, b)
  BY DEF NameOf
<1>2. Before(t, sort, a, b) <=> key < 0 \/ (key = 0 /\ name[a] < name[b]) \/ (key = 0 /\ name[a] = name[b] /\ a < b)
  BY DEF Before
<1>3. t.nodes[a].total \in Int /\ t.nodes[b].total \in Int /\ NameOf(t, a) \in Int /\ NameOf(t, b) \in Int /\ a \in Int /\ b \in Int
  OBVIOUS
<1> HIDE DEF size, name, NameOf
<1>4. key = KeyOf(t, sort, a) - KeyOf(t, sort, b) /\ KeyOf(t, sort, a) \in Int /\ KeyOf(t, sort, b) \in Int
  BY <1>1, <1>3 DEF KeyOf, Sorts
<1> HIDE DEF key
<1> QED BY <1>1, <1>2, <1>3, <1>4

(* It is a strict total order, whatever is sorted by.                      *)
LEMMA BeforeOrders ==
  ASSUME NEW t, NEW sort \in Sorts, NEW C,
         \A x \in C : t.nodes[x].total \in Int /\ NameOf(t, x) \in Int /\ x \in Int
  PROVE  /\ \A a \in C : ~Before(t, sort, a, a)
         /\ \A a, b \in C : a # b => Before(t, sort, a, b) \/ Before(t, sort, b, a)
         /\ \A a, b, c \in C : Before(t, sort, a, b) /\ Before(t, sort, b, c) => Before(t, sort, a, c)
<1> DEFINE K(x) == KeyOf(t, sort, x)
           N(x) == NameOf(t, x)
           Less(a, b) == K(a) < K(b) \/ (K(a) = K(b) /\ (N(a) < N(b) \/ (N(a) = N(b) /\ a < b)))
<1>1. \A a, b \in C : K(a) \in Int /\ K(b) \in Int /\ (Before(t, sort, a, b) <=> Less(a, b))
  BY BeforeIs
<1>2. \A x \in C : K(x) \in Int /\ N(x) \in Int /\ x \in Int
  BY <1>1
<1> HIDE DEF K, N
<1>3. \A a \in C : ~Less(a, a)
  BY <1>2
<1>4. \A a, b \in C : a # b => Less(a, b) \/ Less(b, a)
  BY <1>2
<1>5. \A a, b, c \in C : Less(a, b) /\ Less(b, c) => Less(a, c)
  BY <1>2
<1> HIDE DEF Less
<1> QED BY <1>1, <1>3, <1>4, <1>5

(* Every child has a place of its own, and the order of the places is that *)
(* of the children.                                                        *)
LEMMA SortedChildren ==
  ASSUME NEW t, NEW id, NEW sort \in Sorts, IsFiniteSet(ChildrenOf(t, id)),
         \A x \in ChildrenOf(t, id) : t.nodes[x].total \in Int /\ NameOf(t, x) \in Int /\ x \in Int
  PROVE  LET sorted == ChildrenSorted(t, id, sort)
         IN  /\ Len(sorted) = Cardinality(ChildrenOf(t, id)) /\ ToSet(sorted) = ChildrenOf(t, id)
             /\ \A j, k \in DOMAIN sorted : j < k => Before(t, sort, sorted[j], sorted[k])
<1> DEFINE C == ChildrenOf(t, id)
           n == Cardinality(C)
           Smaller(c) == {b \in C : Before(t, sort, b, c)}
           Place(c) == 1 + Cardinality(Smaller(c))
           sorted == ChildrenSorted(t, id, sort)
           N == 1..n
           f == [c \in C |-> Place(c)]
<1>1. sorted = [k \in 1..n |-> CHOOSE c \in C : Place(c) = k]
  BY DEF ChildrenSorted
<1>2. /\ \A a \in C : ~Before(t, sort, a, a)
      /\ \A a, b \in C : a # b => Before(t, sort, a, b) \/ Before(t, sort, b, a)
      /\ \A a, b, c \in C : Before(t, sort, a, b) /\ Before(t, sort, b, c) => Before(t, sort, a, c)
  <2> HIDE DEF C
  <2>1. \A x \in C : t.nodes[x].total \in Int /\ NameOf(t, x) \in Int /\ x \in Int
    BY DEF C
  <2> QED BY <2>1, BeforeOrders
<1>3. IsFiniteSet(C) /\ n \in Nat
  BY FS_CardinalityType
<1> HIDE DEF C, n, sorted
<1>4. ASSUME NEW c \in C PROVE IsFiniteSet(Smaller(c)) /\ Cardinality(Smaller(c)) \in Nat /\ Place(c) \in N
  <2> DEFINE S == Smaller(c) R == C \ {c}
  <2>1. S \subseteq R /\ S \subseteq C
    BY <1>2
  <2>2. IsFiniteSet(R) /\ Cardinality(R) = n - 1
    BY <1>3, FS_RemoveElement DEF n
  <2> HIDE DEF S, R
  <2>3. IsFiniteSet(S) /\ Cardinality(S) <= n - 1
    BY <2>1, <2>2, FS_Subset
  <2>4. Cardinality(S) \in Nat
    BY <2>3, FS_CardinalityType
  <2>5. 1 + Cardinality(S) \in N
    BY <1>3, <2>3, <2>4
  <2> QED BY <2>3, <2>4, <2>5 DEF S
<1>5. ASSUME NEW a \in C, NEW b \in C, Before(t, sort, a, b) PROVE Place(a) < Place(b)
  <2> DEFINE S == Smaller(a) R == Smaller(b)
  <2>1. S \cup {a} \subseteq R /\ a \notin S
    BY <1>2, <1>5
  <2>2. IsFiniteSet(S) /\ IsFiniteSet(R) /\ Cardinality(S) \in Nat /\ Cardinality(R) \in Nat
    BY <1>4
  <2> HIDE DEF S, R
  <2>3. Cardinality(S \cup {a}) = Cardinality(S) + 1
    BY <2>1, <2>2, FS_AddElement
  <2>4. Cardinality(S \cup {a}) <= Cardinality(R)
    BY <2>1, <2>2, FS_Subset
  <2>5. 1 + Cardinality(S) < 1 + Cardinality(R)
    BY <2>2, <2>3, <2>4
  <2> QED BY <2>5 DEF S, R
<1> HIDE DEF Smaller, Place
<1>6. \A a, b \in C : Place(a) = Place(b) => a = b
  <2>1. \A a \in C : Place(a) \in Int
    BY <1>4
  <2> QED BY <1>2, <1>5, <2>1
<1>7. \A k \in N : \E c \in C : Place(c) = k
  <2>1. f \in Injection(C, N)
    BY <1>4, <1>6 DEF Injection, IsInjective
  <2>2. IsFiniteSet(N) /\ Cardinality(N) = Cardinality(C)
    BY <1>3, FS_Interval DEF n
  <2>3. f \in Surjection(C, N)
    <3> HIDE DEF N, f
    <3> QED BY <2>1, <2>2, FS_Injection
  <2>4. \A k \in N : \E c \in C : f[c] = k
    <3> HIDE DEF N, f
    <3> QED BY <2>3 DEF Surjection
  <2> HIDE DEF N
  <2> QED BY <2>4
<1>8. \A k \in N : sorted[k] \in C /\ Place(sorted[k]) = k
  <2>1. \A k \in N : sorted[k] = CHOOSE c \in C : Place(c) = k
    BY <1>1
  <2> HIDE DEF N
  <2> QED BY <1>7, <2>1
<1>9. DOMAIN sorted = N /\ Len(sorted) = n
  <2>1. sorted = [k \in N |-> sorted[k]]
    BY <1>1
  <2> HIDE DEF sorted
  <2>2. sorted \in [N -> C]
    BY <1>8, <2>1
  <2> QED BY <1>3, <2>2
<1>10. ToSet(sorted) = C
  <2>1. ASSUME NEW c \in C PROVE \E k \in N : sorted[k] = c
    <3>1. Place(c) \in N
      BY <1>4
    <3>2. sorted[Place(c)] \in C /\ Place(sorted[Place(c)]) = Place(c)
      <4> HIDE DEF N
      <4> QED BY <1>8, <3>1
    <3> QED BY <1>6, <3>1, <3>2
  <2> HIDE DEF N
  <2> QED BY <1>8, <1>9, <2>1 DEF ToSet
<1>11. ASSUME NEW j \in DOMAIN sorted, NEW k \in DOMAIN sorted, j < k PROVE Before(t, sort, sorted[j], sorted[k])
  <2>1. sorted[j] \in C /\ sorted[k] \in C /\ Place(sorted[j]) = j /\ Place(sorted[k]) = k /\ j \in Int /\ k \in Int
    BY <1>3, <1>8, <1>9
  <2>2. ~Before(t, sort, sorted[k], sorted[j]) /\ sorted[j] # sorted[k]
    BY <1>5, <1>11, <2>1
  <2> QED BY <1>2, <2>1, <2>2
<1> QED BY <1>9, <1>10, <1>11 DEF C, n, sorted

(* So the pages of a directory, one after another, show each of its        *)
(* children once and in order.                                             *)
LEMMA PagesAreWhole ==
  ASSUME SinkInv PROVE PagesTile
<1> SUFFICES ASSUME NEW id \in Ids(Tree), NEW sort \in Sorts
    PROVE  LET sorted == ChildrenSorted(Tree, id, sort)
               page(offset) == Page(Tree, id, sort, offset, MaxRows + 1).rows
           IN  /\ ToSet(sorted) = ChildrenOf(Tree, id) /\ Len(sorted) = Cardinality(ChildrenOf(Tree, id))
               /\ \A j, k \in DOMAIN sorted : j < k => Before(Tree, sort, sorted[j], sorted[k])
               /\ \A k \in 0..Len(sorted) : page(k) = SubSeq(sorted, k + 1, Min({k + MaxRows, Len(sorted)}))
  BY DEF PagesTile
<1> DEFINE sorted == ChildrenSorted(Tree, id, sort)
           C == ChildrenOf(Tree, id)
<1>1. Sized(Tree) /\ IsTree(Tree) /\ Ids(Tree) = 1..Len(Tree.nodes) /\ Len(Tree.nodes) \in Nat
  BY TreeIsSized DEF Sized, IsTree
<1>2. ASSUME NEW x \in C PROVE Tree.nodes[x].total \in Int /\ NameOf(Tree, x) \in Int /\ x \in Int
  <2>1. x \in Ids(Tree) /\ x \in Int
    BY <1>1 DEF ChildrenOf
  <2>2. Tree.nodes \in Seq(Node)
    BY DEF SinkInv, SinkTypes, Tree
  <2>3. Tree.nodes[x] \in Node
    <3> HIDE DEF Node, Tree
    <3> QED BY <2>1, <2>2 DEF Ids
  <2>4. Tree.nodes[x].name \in DOMAIN NameRank /\ Tree.nodes[x].total \in Nat
    BY <2>3 DEF Node
  <2> HIDE DEF Tree
  <2> QED BY <2>1, <2>4, RankAssumption DEF NameOf
<1>3. IsFiniteSet(C)
  BY <1>1, BelowSum
<1>4. /\ Len(sorted) = Cardinality(C) /\ ToSet(sorted) = C
      /\ \A j, k \in DOMAIN sorted : j < k => Before(Tree, sort, sorted[j], sorted[k])
  <2> HIDE DEF Tree
  <2> QED BY <1>2, <1>3, SortedChildren
<1>5. Min({MaxRows + 1, MaxRows}) = MaxRows
  <2>1. MaxRows \in Int /\ MaxRows + 1 \in Int
    BY TreeBounds
  <2>2. Min({MaxRows + 1, MaxRows}) = IF MaxRows > MaxRows + 1 THEN MaxRows + 1 ELSE MaxRows
    BY <2>1, LeastOfTwo
  <2> QED BY <2>1, <2>2
<1>6. \A k : Page(Tree, id, sort, k, MaxRows + 1).rows = SubSeq(sorted, k + 1, Min({k + MaxRows, Len(sorted)}))
  <2>1. \A k : Page(Tree, id, sort, k, MaxRows + 1).rows
                 = SubSeq(sorted, k + 1, Min({k + Min({MaxRows + 1, MaxRows}), Len(sorted)}))
    <3> HIDE DEF Tree
    <3> QED BY DEF Page
  <2> HIDE DEF sorted
  <2> QED BY <1>5, <2>1, Zenon
<1> HIDE DEF sorted, C
<1>7. /\ ToSet(sorted) = C /\ Len(sorted) = Cardinality(C)
      /\ \A j, k \in DOMAIN sorted : j < k => Before(Tree, sort, sorted[j], sorted[k])
      /\ \A k \in 0..Len(sorted) : Page(Tree, id, sort, k, MaxRows + 1).rows = SubSeq(sorted, k + 1, Min({k + MaxRows, Len(sorted)}))
  BY <1>4, <1>6
<1> QED BY <1>7 DEF sorted, C

(* Together: the inductive invariant of the scan.                          *)
WholeInv == SinkInv /\ SinkHistory /\ SinkDevices /\ SinkCounts

(* It holds of an empty sink.                                              *)
LEMMA WholeInitially ==
  ASSUME FootprintInit PROVE WholeInv
<1>1. scan = NoScan /\ sink = NewSink /\ origin = <<>>
  BY DEF FootprintInit, SinkInit
<1>2. Ids(Tree) = {} /\ Len(Tree.nodes) = 0 /\ DOMAIN sink.devices = {} /\ sink.seen = {} /\ sink.stats = NewStats
  BY <1>1 DEF NewSink, EmptyTree, Tree, Ids
<1>3. SinkDevices
  BY <1>2 DEF SinkDevices
<1>4. Directories = {} /\ Unread = {} /\ Skipped = {} /\ Doubles = {}
  BY <1>2 DEF Directories, Unread, Skipped, Doubles
<1>5. Cardinality({}) = 0 /\ SumOver(Saved, {}) = 0 /\ Capped(0) = 0
  BY FS_EmptySet, SumNone, TreeBounds DEF Capped
<1>6. Cardinality(Directories) = 0 /\ Cardinality(Unread) = 0 /\ Cardinality(Skipped) = 0 /\ Cardinality(Doubles) = 0
      /\ SumOver(Saved, Ids(Tree)) = 0
  <2> HIDE DEF Tree, Saved, Directories, Unread, Skipped, Doubles
  <2> QED BY <1>2, <1>4, <1>5, Zenon
<1>7. scan.items = 0 /\ scan.directories = 0
  BY <1>1 DEF NoScan
<1>8. SinkCounts
  <2> HIDE DEF Tree, Saved, Directories, Unread, Skipped, Doubles, Capped
  <2> QED BY <1>2, <1>5, <1>6, <1>7 DEF SinkCounts, NewStats
<1> QED BY <1>1, <1>3, <1>8, SinkInitially, EmptyHistory DEF WholeInv

(* And every step keeps it.                                                *)
LEMMA WholeKept ==
  ASSUME WholeInv, [FootprintNext]_allVars PROVE WholeInv'
BY SinkKept, HistoryKept, DevicesKept, CountsKept DEF WholeInv

(* The inductive invariant holds in every state of the composed system.    *)
THEOREM WholeStays == StorageSpec => []WholeInv
BY WholeInitially, WholeKept, PTL DEF StorageSpec

(* ScanIsWhole: a finished scan is the disk it looked at. Every entry it   *)
(* could reach is there once, under its path, with the bytes it would      *)
(* free; the summary adds up and the pages tile (tree_sink.rs, scan tree). *)
THEOREM StorageWhole == StorageSpec => []ScanIsWhole
<1>1. ASSUME WholeInv PROVE ScanIsWhole
  BY <1>1, TreeIsWhole, SummaryAdds, PathsName, PagesAreWhole DEF ScanIsWhole, WholeInv
<1> QED BY <1>1, WholeStays, PTL

-----------------------------------------------------------------------------
(* Entries are found by name.                                              *)

(* What a prefix of a longer sequence is.                                  *)
LEMMA PrefixAppend ==
  ASSUME NEW V, NEW s \in Seq(V), NEW t \in Seq(V), NEW x \in V
  PROVE  /\ IsPrefix(s, Append(t, x)) <=> s = Append(t, x) \/ IsPrefix(s, t)
         /\ IsPrefix(s, <<>>) <=> s = <<>>
<1> DEFINE u == Append(t, x)
<1>1. /\ u \in Seq(V) /\ Len(u) = Len(t) + 1 /\ Len(s) \in Nat /\ Len(t) \in Nat
      /\ \A k \in 1..Len(t) : u[k] = t[k]
  OBVIOUS
<1>2. \A q \in Seq(V) : Len(s) <= Len(q) => (SubSeq(s, 1, Len(s)) = SubSeq(q, 1, Len(s)) <=> \A k \in 1..Len(s) : s[k] = q[k])
  <2> TAKE q \in Seq(V)
  <2> HAVE Len(s) <= Len(q)
  <2>1. SubSeq(s, 1, Len(s)) = s
    OBVIOUS
  <2>2. /\ SubSeq(q, 1, Len(s)) \in Seq(V) /\ Len(SubSeq(q, 1, Len(s))) = Len(s)
        /\ \A k \in 1..Len(s) : SubSeq(q, 1, Len(s))[k] = q[k]
    OBVIOUS
  <2>3. \A r \in Seq(V) : Len(r) = Len(s) /\ (\A k \in 1..Len(s) : r[k] = s[k]) => r = s
    OBVIOUS
  <2> QED BY <2>1, <2>2, <2>3
<1>3. IsPrefix(s, u) <=> Len(s) <= Len(u) /\ \A k \in 1..Len(s) : s[k] = u[k]
  BY <1>1, <1>2 DEF IsPrefix
<1>4. IsPrefix(s, t) <=> Len(s) <= Len(t) /\ \A k \in 1..Len(s) : s[k] = t[k]
  BY <1>1, <1>2 DEF IsPrefix
<1>5. s = u <=> Len(s) = Len(u) /\ \A k \in 1..Len(s) : s[k] = u[k]
  BY <1>1
<1>6. Len(s) <= Len(t) => 1..Len(s) \subseteq 1..Len(t)
  BY <1>1
<1>7. IsPrefix(s, <<>>) <=> s = <<>>
  BY <1>2 DEF IsPrefix
<1> HIDE DEF u
<1>8. IsPrefix(s, u) <=> s = u \/ IsPrefix(s, t)
  BY <1>1, <1>3, <1>4, <1>5, <1>6
<1> QED BY <1>7, <1>8 DEF u

(* An entry is found at its path and no other.                             *)
LEMMA TrailsName ==
  \A e, f \in Entries : Trail(e) = Trail(f) => e = f
<1> DEFINE n == Len(Shape)
           Good == {e \in 1..n : \A f \in Entries : Trail(e) = Trail(f) => e = f}
<1>1. n \in Nat /\ Entries = 1..n
  BY EntriesAre
<1>2. ASSUME NEW e \in 1..n, \A j \in 1..n : j < e => j \in Good PROVE e \in Good
  <2> SUFFICES ASSUME NEW f \in Entries, Trail(e) = Trail(f) PROVE e = f
    OBVIOUS
  <2> DEFINE p == Shape[e].up
             q == Shape[f].up
  <2>1. /\ Trail(e) = IF p = NoEntry THEN <<>> ELSE Append(Trail(p), Shape[e].name)
        /\ Trail(f) = IF q = NoEntry THEN <<>> ELSE Append(Trail(q), Shape[f].name)
    BY <1>1, TrailRec
  <2>2. /\ p # NoEntry => p \in 1..n /\ p < e /\ Trail(p) \in Seq(DOMAIN NameRank)
        /\ q # NoEntry => q \in 1..n /\ Trail(q) \in Seq(DOMAIN NameRank)
        /\ Shape[e].name \in DOMAIN NameRank /\ Shape[f].name \in DOMAIN NameRank
    BY <1>1, EntriesAre, TrailRec
  <2>3. \A V : \A s, t \in Seq(V), x, y \in V : Append(s, x) # <<>> /\ (Append(s, x) = Append(t, y) => s = t /\ x = y)
    <3> SUFFICES ASSUME NEW V, NEW s \in Seq(V), NEW t \in Seq(V), NEW x \in V, NEW y \in V
        PROVE Append(s, x) # <<>> /\ (Append(s, x) = Append(t, y) => s = t /\ x = y)
      OBVIOUS
    <3>1. /\ Len(Append(s, x)) = Len(s) + 1 /\ Len(Append(t, y)) = Len(t) + 1
          /\ Append(s, x)[Len(s) + 1] = x /\ Append(t, y)[Len(t) + 1] = y
          /\ \A k \in 1..Len(s) : Append(s, x)[k] = s[k]
          /\ \A k \in 1..Len(t) : Append(t, y)[k] = t[k]
      OBVIOUS
    <3>2. Append(s, x) = Append(t, y) => Len(s) = Len(t) /\ x = y /\ \A k \in 1..Len(s) : s[k] = t[k]
      BY <3>1
    <3>3. Len(s) = Len(t) /\ (\A k \in 1..Len(s) : s[k] = t[k]) => s = t
      OBVIOUS
    <3> QED BY <3>1, <3>2, <3>3
  <2>4. p = NoEntry <=> q = NoEntry
    <3> DEFINE V == DOMAIN NameRank
    <3>1. \A s \in Seq(V), x \in V : Append(s, x) # <<>>
      <4> HIDE DEF V
      <4> QED BY <2>3
    <3>2. p # NoEntry => Append(Trail(p), Shape[e].name) # <<>>
      BY <2>2, <3>1
    <3>3. q # NoEntry => Append(Trail(q), Shape[f].name) # <<>>
      BY <2>2, <3>1
    <3> HIDE DEF p, q
    <3> QED BY <2>1, <3>2, <3>3
  <2>5. ASSUME p # NoEntry PROVE Trail(p) = Trail(q) /\ Shape[e].name = Shape[f].name
    <3> DEFINE s == Trail(p)
               t == Trail(q)
               x == Shape[e].name
               y == Shape[f].name
               V == DOMAIN NameRank
    <3>1. s \in Seq(V) /\ t \in Seq(V) /\ x \in V /\ y \in V /\ Append(s, x) = Append(t, y)
      BY <2>1, <2>2, <2>4, <2>5
    <3> HIDE DEF s, t, x, y, V, p, q
    <3>2. s = t /\ x = y
      BY <2>3, <3>1
    <3> QED BY <3>2 DEF s, t, x, y
  <2>6. p = q
    <3>1. CASE p = NoEntry
      BY <2>4, <3>1
    <3>2. CASE p # NoEntry
      <4>1. p \in Good /\ q \in Entries
        <5> HIDE DEF Good
        <5> QED BY <1>1, <1>2, <2>2, <2>4, <3>2
      <4>2. \A g \in Entries : Trail(p) = Trail(g) => p = g
        BY <4>1
      <4> HIDE DEF p, q, Good
      <4> QED BY <2>5, <3>2, <4>1, <4>2
    <3> QED BY <3>1, <3>2
  <2> QED BY <1>1, <2>5, <2>6, NamesAssumption
<1>3. 1..n \subseteq Good
  <2> HIDE DEF Good, n
  <2> QED BY <1>1, <1>2, Upwards
<1> QED BY <1>1, <1>3

(* It is at or above another if its path leads to that.                    *)
Within(e, f) == IsPrefix(Trail(e), Trail(f))

(* It is that other or at or above its directory.                          *)
LEMMA WithinRec ==
  \A e, f \in Entries : Within(e, f) <=> e = f \/ (Shape[f].up # NoEntry /\ Within(e, Shape[f].up))
<1> SUFFICES ASSUME NEW e \in Entries, NEW f \in Entries
             PROVE  Within(e, f) <=> e = f \/ (Shape[f].up # NoEntry /\ Within(e, Shape[f].up))
  OBVIOUS
<1> DEFINE p == Shape[f].up
<1>1. /\ Trail(f) = IF p = NoEntry THEN <<>> ELSE Append(Trail(p), Shape[f].name)
      /\ Trail(e) \in Seq(DOMAIN NameRank) /\ Shape[f].name \in DOMAIN NameRank
      /\ p # NoEntry => p \in Entries /\ Trail(p) \in Seq(DOMAIN NameRank)
  BY TrailRec, EntriesAre
<1>2. Trail(e) = Trail(f) <=> e = f
  BY TrailsName
<1> HIDE DEF p
<1>3. CASE p = NoEntry
  <2>1. IsPrefix(Trail(e), <<>>) <=> Trail(e) = <<>>
    BY <1>1, PrefixAppend
  <2> QED BY <1>1, <1>2, <1>3, <2>1 DEF Within, p
<1>4. CASE p # NoEntry
  <2>1. IsPrefix(Trail(e), Append(Trail(p), Shape[f].name)) <=> Trail(e) = Append(Trail(p), Shape[f].name) \/ IsPrefix(Trail(e), Trail(p))
    BY <1>1, <1>4, PrefixAppend
  <2> QED BY <1>1, <1>2, <1>4, <2>1 DEF Within, p
<1> QED BY <1>3, <1>4

(* So the relation is an order that the numbers of the entries extend, and *)
(* on the way from one entry down to another there is a child of the first.*)
LEMMA WithinOrders ==
  \A e, f \in Entries :
    /\ Within(e, e)
    /\ Within(e, f) => e <= f
    /\ \A g \in Entries : Within(e, f) /\ Within(f, g) => Within(e, g)
    /\ Within(e, f) /\ e # f => \E c \in Entries : Shape[c].up = e /\ Within(c, f)
<1> DEFINE n == Len(Shape)
           Fine(g) == /\ \A e \in Entries : Within(e, g) => e <= g
                      /\ \A e, f \in Entries : Within(e, f) /\ Within(f, g) => Within(e, g)
                      /\ \A e \in Entries : Within(e, g) /\ e # g => \E c \in Entries : Shape[c].up = e /\ Within(c, g)
           Good == {g \in 1..n : Fine(g)}
<1>1. n \in Nat /\ Entries = 1..n
  BY EntriesAre
<1>2. \A e, f \in Entries : Within(e, f) <=> e = f \/ (Shape[f].up # NoEntry /\ Within(e, Shape[f].up))
  BY WithinRec
<1>3. ASSUME NEW g \in 1..n, \A j \in 1..n : j < g => j \in Good PROVE g \in Good
  <2> DEFINE p == Shape[g].up
  <2>1. p # NoEntry => p \in Entries /\ p < g /\ Fine(p)
    BY <1>1, <1>3, EntriesAre
  <2>2. \A e \in Entries : Within(e, g) => e <= g
    BY <1>1, <1>2, <2>1
  <2>3. ASSUME NEW e \in Entries, NEW f \in Entries, Within(e, f), Within(f, g) PROVE Within(e, g)
    <3>1. f = g \/ (p # NoEntry /\ Within(f, p))
      BY <1>1, <1>2, <2>3
    <3>2. f # g => Within(e, p)
      BY <2>1, <2>3, <3>1
    <3> QED BY <1>1, <1>2, <2>3, <3>1, <3>2
  <2>4. ASSUME NEW e \in Entries, Within(e, g), e # g PROVE \E c \in Entries : Shape[c].up = e /\ Within(c, g)
    <3>1. p # NoEntry /\ Within(e, p)
      BY <1>1, <1>2, <2>4
    <3>2. CASE e = p
      <4>1. Within(g, g)
        BY <1>1, <1>2
      <4> QED BY <1>1, <3>2, <4>1
    <3>3. CASE e # p
      <4>1. PICK c \in Entries : Shape[c].up = e /\ Within(c, p)
        BY <2>1, <3>1, <3>3
      <4>2. Within(c, g)
        BY <1>1, <1>2, <3>1, <4>1
      <4> QED BY <4>1, <4>2
    <3> QED BY <3>2, <3>3
  <2> QED BY <2>2, <2>3, <2>4
<1>4. 1..n \subseteq Good
  <2> HIDE DEF Good, n
  <2> QED BY <1>1, <1>3, Upwards
<1>5. \A g \in Entries : Fine(g)
  BY <1>1, <1>4
<1>6. \A e \in Entries : Within(e, e)
  BY <1>2
<1> QED BY <1>5, <1>6

-----------------------------------------------------------------------------
(* The size of a set of entries.                                           *)
SizeW == [e \in Entries |-> Shape[e].size]

(* The model's sum of sizes, as a sum over a weight.                       *)
LEMMA SizeOfIs ==
  ASSUME NEW S \in SUBSET Entries
  PROVE  /\ Weighs(SizeW, S) /\ SizeOf(S) = SumOver(SizeW, S) /\ SizeOf(S) \in Nat
         /\ \A T \in SUBSET S : SizeOf(T) = SumOver(SizeW, T) /\ SizeOf(T) <= SizeOf(S)
<1> DEFINE w == SizeW
<1>1. \A x \in Entries : w[x] = Shape[x].size /\ w[x] \in Int /\ w[x] >= 0
  BY EntriesAre DEF SizeW
<1>2. \A T \in SUBSET Entries : Weighs(w, T)
  BY <1>1, EntriesAre, FS_Subset DEF Weighs
<1>3. ASSUME NEW T \in SUBSET Entries PROVE SizeOf(T) = SumOver(w, T)
  <2>1. PICK e : AddsUpInt(e, w, T)
    BY <1>2, SumExists
  <2>2. \A s \in SUBSET T : s # {} => (CHOOSE x \in s : TRUE) \in s /\ w[CHOOSE x \in s : TRUE] = Shape[CHOOSE x \in s : TRUE].size
    BY <1>1
  <2>3. e = [s \in SUBSET T |-> IF s = {} THEN 0 ELSE Shape[CHOOSE x \in s : TRUE].size + e[s \ {CHOOSE x \in s : TRUE}]]
    BY <2>1, <2>2 DEF AddsUp, AddsUpInt, Picked
  <2> DEFINE g == CHOOSE iter : iter = [s \in SUBSET T |-> IF s = {} THEN 0
                    ELSE Shape[CHOOSE x \in s : TRUE].size + iter[s \ {CHOOSE x \in s : TRUE}]]
  <2>4. g = [s \in SUBSET T |-> IF s = {} THEN 0 ELSE Shape[CHOOSE x \in s : TRUE].size + g[s \ {CHOOSE x \in s : TRUE}]]
    BY <2>3
  <2>5. SizeOf(T) = g[T]
    BY DEF SizeOf, MapThenSumSet, MapThenFoldSet
  <2> HIDE DEF g, w
  <2>6. AddsUp(g, w, T)
    BY <2>2, <2>4 DEF AddsUp, Picked
  <2> QED BY <1>2, <2>5, <2>6, SumIs
<1> HIDE DEF w
<1>4. SumOver(w, S) \in Nat /\ \A T \in SUBSET S : SumOver(w, T) <= SumOver(w, S)
  BY <1>1, <1>2, SumNat
<1>5. \A T \in SUBSET S : SizeOf(T) = SumOver(w, T)
  BY <1>3
<1> QED BY <1>2, <1>3, <1>4, <1>5 DEF w

-----------------------------------------------------------------------------
(* A path that the tree knows leads to the node of that path.              *)
LEMMA NodeAtIs ==
  ASSUME NEW t, IsTree(t), Root \in Ids(t), NEW V, t.root_path \in Seq(V), \A i \in Ids(t) : t.nodes[i].name \in V,
         NEW path \in Seq(V), NodeAt(t, path) # NoNode
  PROVE  NodeAt(t, path) \in Ids(t) /\ PathOf(t, NodeAt(t, path)) = path
<1> DEFINE above == Len(t.root_path)
           n == Len(path)
           named(id, name) == {c \in ChildrenOf(t, id) : t.nodes[c].name = name}
           Below1(id, k) == IF id = NoNode \/ named(id, path[k]) = {} THEN NoNode ELSE Min(named(id, path[k]))
           Step(f, k) == IF k = above THEN Root
                         ELSE IF f[k - 1] = NoNode \/ named(f[k - 1], path[k]) = {} THEN NoNode
                         ELSE Min(named(f[k - 1], path[k]))
           found == CHOOSE f : f = [k \in above..n |-> Step(f, k)]
<1>1. above \in Nat /\ n \in Nat /\ IsPrefix(t.root_path, path) /\ above <= n
  BY DEF NodeAt, IsPrefix
<1>2. NodeAt(t, path) = found[n]
  <2> HIDE DEF named
  <2>1. NodeAt(t, path) = (LET f1[k \in above..n] == Step(f1, k) IN f1[n])
    BY <1>1 DEF NodeAt, named
  <2> QED BY <2>1
<1>3. \E f : f = [k \in above..n |-> Step(f, k)]
  <2> DEFINE m == n - above + 1
             up == [i \in 1..m |-> i - 1]
             U == Nat
             first == [i \in 1..m |-> Root]
             next == [i \in 1..m |-> [id \in Nat |-> Below1(id, above + i - 1)]]
  <2>1. m \in Nat /\ \A i \in 1..m : up[i] \in Nat /\ up[i] < i
    BY <1>1
  <2>2. PICK g : FromUp(g, m, up, first, next)
    <3> HIDE DEF m, up, first, next
    <3> QED BY <2>1, FromUpExists
  <2>3. \A id \in Nat, k \in above..n : Below1(id, k) \in Nat
    <3> TAKE id \in Nat, k \in above..n
    <3>1. named(id, path[k]) \in SUBSET (1..Len(t.nodes)) /\ Len(t.nodes) \in Nat
      BY DEF IsTree, ChildrenOf
    <3>2. ASSUME named(id, path[k]) # {} PROVE Min(named(id, path[k])) \in named(id, path[k])
      <4> DEFINE T == named(id, path[k])
      <4>1. PICK x \in T : \A y \in T : x <= y
        <5> HIDE DEF T
        <5> QED BY <3>1, <3>2, LeastOf DEF T
      <4> HIDE DEF T
      <4>2. Min(T) \in T
        BY <4>1 DEF Min
      <4> QED BY <4>2 DEF T
    <3> DEFINE T == named(id, path[k])
    <3>3. ASSUME T # {} PROVE Min(T) \in Nat
      <4> DEFINE N == Len(t.nodes)
      <4>1. Min(T) \in T
        BY <3>2, <3>3, Zenon
      <4>2. (\A x \in T : x \in 1..N) /\ N \in Nat
        BY <3>1
      <4> DEFINE least == Min(T)
      <4> HIDE DEF T, N, least
      <4>3. least \in T
        BY <4>1 DEF least
      <4>4. least \in Nat
        BY <4>2, <4>3
      <4> QED BY <4>4 DEF least
    <3>4. (id = NoNode \/ T = {} => Below1(id, k) = NoNode) /\ (~(id = NoNode \/ T = {}) => Below1(id, k) = Min(T))
      <4> HIDE DEF named
      <4> QED OBVIOUS
    <3> HIDE DEF T, Below1
    <3> QED BY <3>3, <3>4 DEF NoNode
  <2>4. \A i \in 1..m : g[i] \in U
    <3>1. first \in [1..m -> U] /\ next \in [1..m -> [U -> U]]
      <4>1. \A i \in 1..m, id \in Nat : Below1(id, above + i - 1) \in Nat
        <5>1. \A i \in 1..m : above + i - 1 \in above..n
          BY <1>1
        <5> HIDE DEF Below1, m, above, n
        <5> QED BY <2>3, <5>1
      <4> HIDE DEF Below1
      <4> QED BY <4>1 DEF Root
    <3> HIDE DEF m, up, first, next, U
    <3> QED BY <2>1, <2>2, <3>1, FromUpTyped
  <2> DEFINE f == [k \in above..n |-> g[k - above + 1]]
  <2>5. \A k \in above..n : f[k] = Step(f, k)
    <3> TAKE k \in above..n
    <3> DEFINE i == k - above + 1
    <3>1. i \in 1..m /\ k \in Int /\ (k # above => i - 1 \in 1..m /\ k - 1 \in above..n) /\ above + i - 1 = k
      BY <1>1
    <3>2. g[i] = IF i - 1 = 0 THEN Root ELSE next[i][g[i - 1]]
      BY <2>2, <3>1 DEF FromUp
    <3>3. k # above => next[i][g[i - 1]] = Below1(g[i - 1], k)
      <4> HIDE DEF m, Below1
      <4> QED BY <2>4, <3>1
    <3> DEFINE A == above
               N == n
    <3>9. \A j \in A..N : f[j] = g[j - A + 1]
      OBVIOUS
    <3>10. A \in Nat /\ k \in Int /\ (k # A => k - 1 \in A..N) /\ k \in A..N
      BY <1>1, <3>1
    <3>4. k # above => f[k - 1] = g[i - 1]
      <4> HIDE DEF f, A, N
      <4>1. k # A => f[k - 1] = g[(k - 1) - A + 1]
        BY <3>9, <3>10
      <4>2. (k - 1) - A + 1 = (k - A + 1) - 1
        BY <3>10
      <4>3. k # A => f[k - 1] = g[(k - A + 1) - 1]
        BY <4>1, <4>2
      <4> QED BY <4>3 DEF A
    <3>5. f[k] = g[i] /\ (i - 1 = 0 <=> k = above)
      <4> HIDE DEF f, A, N
      <4>1. f[k] = g[k - A + 1]
        BY <3>9, <3>10
      <4>2. k - A + 1 - 1 = 0 <=> k = A
        BY <3>10
      <4> QED BY <4>1, <4>2 DEF A
    <3> HIDE DEF f, i, m, next, named
    <3> QED BY <3>2, <3>3, <3>4, <3>5
  <2> HIDE DEF Step, above, n
  <2>6. f = [k \in above..n |-> Step(f, k)]
    <3>1. f = [k \in above..n |-> f[k]]
      OBVIOUS
    <3> HIDE DEF f
    <3> QED BY <2>5, <3>1
  <2> QED BY <2>6
<1>4. \A k \in above..n : found[k] = Step(found, k)
  <2>1. found = [k \in above..n |-> Step(found, k)]
    <3> HIDE DEF Step
    <3> QED BY <1>3
  <2> HIDE DEF found, Step
  <2> QED BY <2>1
<1> HIDE DEF found
<1> DEFINE m == n - above + 1
           Fine(k) == found[k] # NoNode => found[k] \in Ids(t) /\ PathOf(t, found[k]) = SubSeq(path, 1, k)
           Good == {i \in 1..m : Fine(above + i - 1)}
<1>5. \A i \in Ids(t) : PathOf(t, i) = IF ParentOf(t, i) = NoNode THEN t.root_path ELSE Append(PathOf(t, ParentOf(t, i)), t.nodes[i].name)
  BY PathRec
<1>6. ASSUME NEW i \in 1..m, \A j \in 1..m : j < i => j \in Good PROVE i \in Good
  <2> DEFINE k == above + i - 1
  <2>1. k \in above..n /\ k \in Int /\ (k # above => i - 1 \in 1..m /\ k - 1 \in above..n /\ k - 1 = above + (i - 1) - 1)
    BY <1>1
  <2>2. CASE k = above
    <3>1. found[k] = Root
      BY <1>4, <2>1, <2>2
    <3>2. ParentOf(t, Root) = NoNode
      BY DEF IsTree, Root, NoNode
    <3>3. PathOf(t, Root) = t.root_path
      BY <1>5, <3>2
    <3>4. SubSeq(t.root_path, 1, above) = t.root_path
      OBVIOUS
    <3>5. SubSeq(path, 1, above) = t.root_path
      BY <1>1, <3>4 DEF IsPrefix
    <3> HIDE DEF above, n, m
    <3>6. Fine(k)
      BY <2>2, <3>1, <3>3, <3>5
    <3> QED BY <3>6
  <2>3. CASE k # above
    <3> DEFINE p == found[k - 1]
               T == named(p, path[k])
    <3>1. found[k] = IF p = NoNode \/ T = {} THEN NoNode ELSE Min(T)
      BY <1>4, <2>1, <2>3
    <3>2. Fine(k - 1)
      <4>1. i - 1 < i /\ i - 1 \in 1..m
        BY <2>1, <2>3
      <4>2. i - 1 \in Good
        <5> HIDE DEF Good, m
        <5> QED BY <1>6, <4>1
      <4> QED BY <2>1, <2>3, <4>2
    <3> SUFFICES ASSUME found[k] # NoNode PROVE Fine(k)
      OBVIOUS
    <3>3. p # NoNode /\ T # {} /\ found[k] = Min(T)
      BY <3>1
    <3>4. T \in SUBSET (1..Len(t.nodes)) /\ Len(t.nodes) \in Nat
      BY DEF IsTree, ChildrenOf
    <3>5. Min(T) \in T
      <4>1. PICK x \in T : \A y \in T : x <= y
        <5> HIDE DEF T
        <5> QED BY <3>3, <3>4, LeastOf
      <4> HIDE DEF T
      <4> QED BY <4>1 DEF Min
    <3> DEFINE c == found[k]
    <3>6. c \in Ids(t) /\ ParentOf(t, c) = p /\ t.nodes[c].name = path[k]
      BY <3>3, <3>5 DEF ChildrenOf
    <3>7. p \in Ids(t) /\ PathOf(t, p) = SubSeq(path, 1, k - 1)
      BY <3>2, <3>3
    <3>8. PathOf(t, c) = Append(SubSeq(path, 1, k - 1), path[k])
      <4> HIDE DEF c, p
      <4> QED BY <1>5, <3>3, <3>6, <3>7
    <3>9. Append(SubSeq(path, 1, k - 1), path[k]) = SubSeq(path, 1, k)
      <4>1. k \in 1..n
        BY <1>1, <2>1, <2>3
      <4> HIDE DEF k
      <4> QED BY <4>1
    <3> QED BY <3>6, <3>8, <3>9
  <2> QED BY <2>2, <2>3
<1>7. 1..m \subseteq Good
  <2>1. m \in Nat
    BY <1>1
  <2> HIDE DEF Good, m
  <2> QED BY <1>6, <2>1, Upwards
<1>8. m \in 1..m /\ above + m - 1 = n
  BY <1>1
<1>9. Fine(n)
  BY <1>7, <1>8
<1>10. SubSeq(path, 1, n) = path
  OBVIOUS
<1> QED BY <1>2, <1>9, <1>10

-----------------------------------------------------------------------------
(* What a finished tree knows of an entry.                                 *)

(* Types, for the lemmas below.                                            *)
LEMMA TreeFacts ==
  ASSUME SinkInv
  PROVE  /\ IsTree(Tree) /\ Sized(Tree) /\ Len(Tree.nodes) \in Nat /\ Ids(Tree) = 1..Len(Tree.nodes) /\ IsFiniteSet(Ids(Tree))
         /\ DOMAIN origin = Ids(Tree) /\ \A i \in Ids(Tree) : origin[i] \in Entries
         /\ Tree.root_path \in Seq(DOMAIN NameRank) /\ \A i \in Ids(Tree) : Tree.nodes[i].name \in DOMAIN NameRank
<1>1. Sized(Tree) /\ IsTree(Tree) /\ Len(Tree.nodes) \in Nat /\ Ids(Tree) = 1..Len(Tree.nodes)
  BY TreeIsSized DEF Sized, IsTree
<1>2. origin \in Seq(Entries) /\ Len(origin) = Len(Tree.nodes)
  BY DEF SinkInv, SinkTypes, SinkShape
<1>3. DOMAIN origin = Ids(Tree) /\ \A i \in Ids(Tree) : origin[i] \in Entries
  BY <1>1, <1>2
<1>4. IsFiniteSet(Ids(Tree))
  BY <1>1, FS_Interval
<1> DEFINE P == Seq(DOMAIN NameRank)
<1>5. Tree \in [root_path : P, nodes : Seq(Node)]
  BY DEF SinkInv, SinkTypes, Tree
<1>6. \A x \in Node : x.name \in DOMAIN NameRank
  BY DEF Node
<1>7. Tree.root_path \in P /\ \A i \in Ids(Tree) : Tree.nodes[i].name \in DOMAIN NameRank
  <2> HIDE DEF P, Node, Tree
  <2>1. Tree.root_path \in P /\ Tree.nodes \in Seq(Node)
    BY <1>5
  <2> QED BY <1>1, <1>6, <2>1
<1> QED BY <1>1, <1>3, <1>4, <1>7 DEF P

(* A node of the tree lies where the entry it was made from lies.          *)
LEMMA BelowIsInside ==
  ASSUME SinkInv, SinkHistory, NEW i \in Ids(Tree)
  PROVE  \A j \in Below(Tree, i) : origin[j] \in Inside(origin[i])
<1> DEFINE n == Len(Tree.nodes)
           Good == {j \in 1..n : j \in Below(Tree, i) => Within(origin[i], origin[j])}
<1>1. IsTree(Tree) /\ n \in Nat /\ Ids(Tree) = 1..n /\ \A j \in Ids(Tree) : origin[j] \in Entries
  BY TreeFacts
<1>2. \A j \in Ids(Tree) : j \in Below(Tree, i) <=> j = i \/ i \in Above(Tree, j)
  BY DEF Below, Above
<1>3. ASSUME NEW j \in 1..n, \A k \in 1..n : k < j => k \in Good PROVE j \in Good
  <2> SUFFICES ASSUME j \in Below(Tree, i) PROVE Within(origin[i], origin[j])
    OBVIOUS
  <2>1. CASE j = i
    BY <1>1, <2>1, WithinOrders
  <2>2. CASE j # i
    <3> DEFINE p == ParentOf(Tree, j)
    <3>1. i \in Above(Tree, j) /\ j \in Ids(Tree)
      BY <1>1, <1>2, <2>2
    <3>2. p # NoNode /\ p \in Ids(Tree) /\ (i \in Above(Tree, p) \/ i = p)
      <4> HIDE DEF Tree
      <4> QED BY <1>1, <3>1, AboveRec
    <3>3. p < j /\ p \in Nat
      BY <1>1, <3>1 DEF IsTree
    <3>4. Within(origin[i], origin[p])
      <4> HIDE DEF p, n, Tree
      <4> QED BY <1>1, <1>2, <1>3, <3>2, <3>3
    <3>5. j # Root
      BY <1>1, <3>2, <3>3 DEF Root
    <3>6. origin[p] = Shape[origin[j]].up
      BY <3>1, <3>5 DEF SinkHistory, NodeIs, ParentOf
    <3>7. origin[p] \in Entries /\ origin[p] # NoEntry
      BY <1>1, <3>2, EntriesAre
    <3> HIDE DEF p, n, Tree
    <3> QED BY <1>1, <3>1, <3>4, <3>6, <3>7, WithinRec
  <2> QED BY <2>1, <2>2
<1>4. 1..n \subseteq Good
  <2> HIDE DEF Good, n
  <2> QED BY <1>1, <1>3, Upwards
<1>5. \A j \in Ids(Tree) : origin[j] \in disk.present
  BY DEF SinkHistory, NodeIs
<1>6. Below(Tree, i) \subseteq Ids(Tree)
  BY DEF Below
<1> QED BY <1>1, <1>4, <1>5, <1>6 DEF Inside, Within

(* Its total counts nothing that does not lie there.                       *)
LEMMA TotalsAreInside ==
  ASSUME SinkInv, SinkHistory, SinkDevices, Done, NEW i \in Ids(Tree)
  PROVE  Tree.nodes[i].total \in Nat /\ Tree.nodes[i].total <= SizeOf(Inside(origin[i]))
<1> DEFINE B == Below(Tree, i)
           w == Own(Tree)
           v == [j \in B |-> SizeW[origin[j]]]
           g == [j \in B |-> origin[j]]
           S == {origin[j] : j \in B}
<1>0. Largest \in Nat /\ Sized(Tree) /\ Weighs(w, Ids(Tree)) /\ B \subseteq Ids(Tree)
  BY TreeBounds, TreeIsSized, OwnWeighs DEF Below
<1>1. \A j \in B : origin[j] \in Entries /\ origin[j] \in Inside(origin[i])
  BY <1>0, TreeFacts, BelowIsInside
<1>2. S \in SUBSET Inside(origin[i]) /\ S \in SUBSET Entries /\ Inside(origin[i]) \in SUBSET Entries
  <2>1. disk.present \in SUBSET Entries
    BY DEF SinkInv, SinkTypes, DiskState
  <2> QED BY <1>1, <2>1 DEF Inside
<1>3. Weighs(SizeW, S) /\ SizeOf(S) = SumOver(SizeW, S) /\ SizeOf(S) <= SizeOf(Inside(origin[i])) /\ SizeOf(Inside(origin[i])) \in Nat
  <2> HIDE DEF S
  <2> QED BY <1>2, SizeOfIs
<1>4. g \in [B -> S] /\ (\A x \in S : \E j \in B : g[j] = x) /\ \A j, k \in B : j # k => g[j] # g[k]
  <2>1. \A j, k \in Ids(Tree) : origin[j] = origin[k] => j = k
    BY TreeFacts DEF SinkHistory
  <2> HIDE DEF B
  <2> QED BY <1>0, <2>1
<1>5. SumOver(SizeW, S) = SumOver(v, B) /\ IsFiniteSet(B)
  <2>1. [j \in B |-> SizeW[g[j]]] = v
    <3> HIDE DEF B
    <3> QED OBVIOUS
  <2> HIDE DEF g, B, S, v
  <2>2. IsFiniteSet(B) /\ SumOver(SizeW, S) = SumOver([j \in B |-> SizeW[g[j]]], B)
    BY <1>3, <1>4, SumRenamed
  <2> QED BY <2>1, <2>2
<1>6. \A j \in B : v[j] \in Int /\ w[j] \in Int /\ w[j] <= v[j] /\ w[j] >= 0
  <2> SUFFICES ASSUME NEW j \in B PROVE v[j] \in Int /\ w[j] \in Int /\ w[j] <= v[j] /\ w[j] >= 0
    OBVIOUS
  <2>1. w[j] = IF Excluded(origin[j]) \/ Again(j) THEN 0 ELSE Shape[origin[j]].size
    <3> HIDE DEF Tree, Excluded, Again, B
    <3> QED BY <1>0 DEF Own, SinkDevices
  <2>2. v[j] = Shape[origin[j]].size
    <3> HIDE DEF B
    <3> QED BY <1>1 DEF SizeW
  <2>3. Shape[origin[j]].size \in Nat
    BY <1>0, <1>1, EntriesAre
  <2> HIDE DEF w, v, B
  <2> QED BY <2>1, <2>2, <2>3
<1>7. Weighs(v, B) /\ Weighs(w, B)
  BY <1>5, <1>6 DEF Weighs
<1>8. SumOver(w, B) <= SumOver(v, B) /\ SumOver(w, B) \in Nat /\ SumOver(v, B) \in Int
  <2> HIDE DEF w, v, B
  <2> QED BY <1>6, <1>7, SumLeq, SumType, SumNat
<1>9. Tree.nodes[i].total = Capped(SumOver(w, B))
  BY DEF SinkInv, SinkShape, IsRolled
<1> DEFINE total == Tree.nodes[i].total
           all == SizeOf(Inside(origin[i]))
<1>10. total \in Nat /\ total <= all
  <2> HIDE DEF w, v, B, S, total, all
  <2>1. total = Capped(SumOver(w, B)) /\ SizeOf(S) <= all /\ all \in Nat
    BY <1>3, <1>9 DEF total, all
  <2> QED BY <1>0, <1>3, <1>5, <1>8, <2>1 DEF Capped
<1> QED BY <1>10

(* What exists lies in something that does.                                *)
LEMMA PresentAbove ==
  ASSUME disk \in Disks, NEW e \in Entries, NEW f \in Entries, Within(e, f), f \in disk.present
  PROVE  e \in disk.present
<1> DEFINE n == Len(Shape)
           Good == {g \in 1..n : g \in disk.present /\ Within(e, g) => e \in disk.present}
<1>1. n \in Nat /\ Entries = 1..n
  BY EntriesAre
<1>2. ASSUME NEW g \in 1..n, \A j \in 1..n : j < g => j \in Good PROVE g \in Good
  <2> SUFFICES ASSUME g \in disk.present, Within(e, g), e # g PROVE e \in disk.present
    OBVIOUS
  <2> DEFINE p == Shape[g].up
  <2>1. p # NoEntry /\ Within(e, p)
    BY <1>1, WithinRec
  <2>2. p \in 1..n /\ p < g
    BY <1>1, <2>1, EntriesAre
  <2>3. p \in disk.present
    BY <2>1, NamesAssumption
  <2>4. p \in Good
    <3> HIDE DEF Good
    <3> QED BY <1>2, <2>2
  <2> QED BY <2>1, <2>3, <2>4
<1>3. 1..n \subseteq Good
  <2> HIDE DEF Good, n
  <2> QED BY <1>1, <1>2, Upwards
<1> QED BY <1>1, <1>3

(* The entries that have a node with all of its size.                      *)
Read == {origin[i] : i \in {j \in Ids(Tree) : ~SizeIsPartial(Tree.nodes[j])}}

(* A subtree is complete if and only if all that lies there was read.      *)
LEMMA CompleteIsRead ==
  ASSUME SinkInv, SinkHistory, Done, disk \in Disks, NEW i \in Ids(Tree)
  PROVE  SubtreeIsComplete(Tree, i) <=> Inside(origin[i]) \subseteq Read
<1> DEFINE B == Below(Tree, i)
           m == Len(Shape)
           e == origin[i]
           Whole(j) == ~SizeIsPartial(Tree.nodes[j])
           Good == {f \in 1..m : f \in Inside(e) => \E j \in B : origin[j] = f}
<1>0. /\ IsTree(Tree) /\ B \subseteq Ids(Tree) /\ m \in Nat /\ Entries = 1..m /\ e \in Entries
      /\ \A j \in Ids(Tree) : origin[j] \in Entries
  BY TreeFacts, EntriesAre DEF Below
<1>1. \A x : x \in Read <=> \E j \in Ids(Tree) : Whole(j) /\ x = origin[j]
  BY DEF Read
<1>2. \A j \in Ids(Tree) : Whole(j) <=> ~Excluded(origin[j]) /\ origin[j] \notin disk.locked
  <2> HIDE DEF Tree, Excluded
  <2> QED BY DEF SinkHistory, NodeIs, SizeIsPartial
<1>3. \A j \in Ids(Tree) : j \in B <=> j = i \/ i \in Above(Tree, j)
  BY DEF Below, Above
<1>4. SubtreeIsComplete(Tree, i) <=> \A j \in B : Whole(j)
  BY DEF SubtreeIsComplete
<1>5. ASSUME Inside(e) \subseteq Read, NEW j \in B PROVE Whole(j)
  <2>1. origin[j] \in Read /\ j \in Ids(Tree)
    BY <1>0, <1>5, BelowIsInside
  <2>2. PICK k \in Ids(Tree) : Whole(k) /\ origin[j] = origin[k]
    BY <1>1, <2>1
  <2>3. j = k
    BY <2>1, <2>2, TreeFacts DEF SinkHistory
  <2> QED BY <2>2, <2>3
<1>6. ASSUME \A j \in B : Whole(j), NEW f \in 1..m, \A g \in 1..m : g < f => g \in Good PROVE f \in Good
  <2> SUFFICES ASSUME f \in Inside(e) PROVE \E j \in B : origin[j] = f
    OBVIOUS
  <2>1. f \in Entries /\ f \in disk.present /\ Within(e, f)
    BY <1>0 DEF Inside, Within
  <2>2. CASE f = e
    BY <1>3, <2>2
  <2>3. CASE f # e
    <3> DEFINE p == Shape[f].up
    <3>1. p # NoEntry /\ Within(e, p)
      BY <1>0, <2>1, <2>3, WithinRec
    <3>2. p \in 1..m /\ p < f /\ p \in disk.present
      BY <1>0, <2>1, <3>1, EntriesAre, NamesAssumption
    <3>3. p \in Inside(e)
      BY <3>1, <3>2 DEF Inside, Within
    <3>4. PICK j \in B : origin[j] = p
      <4>1. p \in Good
        <5> HIDE DEF Good
        <5> QED BY <1>6, <3>2
      <4> QED BY <3>3, <4>1
    <3>5. ~Excluded(p) /\ p \notin disk.locked
      BY <1>0, <1>2, <1>6, <3>4
    <3>6. p \in Reachable
      <4>1. ToSet(origin) = Reachable
        BY ListsTheDisk
      <4>2. p \in ToSet(origin)
        BY <1>0, <3>4, TreeFacts DEF ToSet
      <4> QED BY <4>1, <4>2
    <3>7. f \in Reachable
      BY <2>1, <3>1, <3>5, <3>6, ReachableRec
    <3>8. PICK k \in Ids(Tree) : origin[k] = f
      <4>1. ToSet(origin) = Reachable
        BY ListsTheDisk
      <4>2. f \in ToSet(origin)
        BY <3>7, <4>1
      <4> QED BY <4>2, TreeFacts DEF ToSet
    <3>9. k # Root
      <4> SUFFICES ASSUME k = Root PROVE FALSE
        OBVIOUS
      <4>1. Root \in Ids(Tree) /\ origin[Root] = f
        BY <3>8
      <4>2. j \in Below(Tree, Root)
        BY <1>0, AboveOrder DEF Below, Above
      <4>3. origin[j] \in Inside(origin[Root])
        BY <4>1, <4>2, BelowIsInside
      <4>4. Within(f, p)
        BY <3>4, <4>1, <4>3 DEF Inside, Within
      <4>5. f <= p
        BY <1>0, <2>1, <3>2, <4>4, WithinOrders
      <4> QED BY <1>0, <3>2, <4>5
    <3> DEFINE q == ParentOf(Tree, k)
    <3>10. q = j /\ q # NoNode
      <4>1. origin[q] = p
        BY <3>8, <3>9 DEF SinkHistory, NodeIs, ParentOf
      <4>2. q # NoNode
        BY <1>0, <3>8, <3>9 DEF IsTree
      <4>3. q \in Ids(Tree)
        <5> HIDE DEF Tree, q
        <5> QED BY <1>0, <3>8, <4>2, AboveRec DEF q
      <4>4. j \in Ids(Tree)
        BY <1>0
      <4> HIDE DEF q, p, Tree
      <4> QED BY <3>4, <4>1, <4>2, <4>3, <4>4, TreeFacts DEF SinkHistory
    <3>11. Above(Tree, k) = Above(Tree, j) \cup {j}
      <4> HIDE DEF Tree
      <4> QED BY <1>0, <3>10, AboveRec
    <3>12. k \in B
      <4>1. j = i \/ i \in Above(Tree, j)
        BY <1>0, <1>3
      <4> QED BY <1>3, <3>11, <4>1
    <3> QED BY <3>8, <3>12
  <2> QED BY <2>2, <2>3
<1>7. ASSUME \A j \in B : Whole(j) PROVE Inside(e) \subseteq Read
  <2>1. 1..m \subseteq Good
    <3> HIDE DEF Good, m, B
    <3> QED BY <1>0, <1>6, <1>7, Upwards
  <2>2. Inside(e) \subseteq 1..m
    BY <1>0 DEF Inside, SinkInv, SinkTypes, DiskState
  <2> QED BY <1>0, <1>1, <1>7, <2>1, <2>2
<1> QED BY <1>4, <1>5, <1>7

-----------------------------------------------------------------------------
(* The plan: what it lists, by what was on the disk when it was made.      *)
KnownThen == {k \in Spots : k \in DOMAIN Locations /\ footprint.bundle \in Identified /\ EntryAt(footprint.bundle, k) \in disk.present}
RelatedThen == {k \in Spots : /\ k > Len(Locations) /\ EntryAt(footprint.bundle, k) \in disk.present
                              /\ \A l \in KnownThen : EntryAt(footprint.bundle, l) # EntryAt(footprint.bundle, k)}
Planning == {0} \cup KnownThen \cup RelatedThen

(* A measured path says where it is, and has no size where no walk found   *)
(* one.                                                                    *)
PathRow == [label : {LabelAt(k) : k \in Spots}, entry : Entries, bytes : Nat \cup {Unknown}, complete : BOOLEAN,
            source : {"Scan", "Filesystem", "Unavailable"}]
RowIs(path, k) ==
  /\ path \in PathRow /\ path.label = LabelAt(k) /\ path.entry = EntryAt(footprint.bundle, k)
  /\ path.bytes = Unknown <=> path.source = "Unavailable"

GoneInv ==
  /\ disk \in Disks /\ gone \in SUBSET disk.present /\ missed \in SUBSET disk.present
  /\ footprint.phase = "none" => gone = {} /\ missed = {}

(* Every path of the plan is measured or still to be, and not both.        *)
PlanInv ==
  /\ footprint = [phase |-> footprint.phase, node |-> footprint.node, bundle |-> footprint.bundle,
                  pending |-> footprint.pending, measured |-> footprint.measured]
  /\ footprint.phase \in {"none", "measuring", "answered"}
  /\ footprint.phase = "none" => footprint = NoFootprint
  /\ footprint.phase # "none" =>
       /\ footprint.bundle \in Inspected
       /\ footprint.node # NoNode => Done
       /\ footprint.pending \cup DOMAIN footprint.measured = Planning
       /\ footprint.pending \cap DOMAIN footprint.measured = {}
       /\ \A k \in DOMAIN footprint.measured : RowIs(footprint.measured[k], k)
  /\ footprint.phase = "answered" => footprint.pending = {}

(* Where the places to look at are.                                        *)
LEMMA SpotsAre ==
  /\ Len(Locations) \in Nat /\ DOMAIN Locations = 1..Len(Locations) /\ Len(Vendor) \in Nat /\ DOMAIN Vendor = 1..Len(Vendor)
  /\ IsFiniteSet(Spots) /\ 0 \in Spots /\ Spots \subseteq Nat /\ DOMAIN Locations \subseteq Spots
  /\ \A b \in Entries : \A k \in Spots : EntryAt(b, k) \in Entries
  /\ \A b : \A k \in Spots : /\ k = 0 => EntryAt(b, k) = b
                             /\ k \in DOMAIN Locations => EntryAt(b, k) = Locations[k].entry
                             /\ k > Len(Locations) => k - Len(Locations) \in DOMAIN Vendor /\ EntryAt(b, k) = Vendor[k - Len(Locations)]
                             /\ k = 0 \/ k \in DOMAIN Locations \/ k > Len(Locations)
<1> DEFINE L == [label : STRING, entry : Entries]
<1>1. Locations \in Seq(L) /\ Vendor \in Seq(Entries)
  BY FootprintAssumption
<1>2. \A l \in L : l.entry \in Entries
  OBVIOUS
<1> HIDE DEF L
<1>3. /\ Len(Locations) \in Nat /\ DOMAIN Locations = 1..Len(Locations) /\ Len(Vendor) \in Nat /\ DOMAIN Vendor = 1..Len(Vendor)
      /\ \A k \in DOMAIN Locations : Locations[k].entry \in Entries
      /\ \A k \in DOMAIN Vendor : Vendor[k] \in Entries
  BY <1>1, <1>2
<1>4. IsFiniteSet(Spots) /\ 0 \in Spots /\ Spots \subseteq Nat /\ DOMAIN Locations \subseteq Spots
  <2> DEFINE l == Len(Locations)
             v == Len(Vendor)
             n == l + v
  <2>1. l \in Nat /\ v \in Nat /\ DOMAIN Locations = 1..l /\ Spots = 0..n
    BY <1>3 DEF Spots
  <2>2. n \in Nat /\ 1..l \subseteq 0..n
    <3> HIDE DEF l, v
    <3> QED BY <2>1
  <2> HIDE DEF n, l, v
  <2>3. IsFiniteSet(0..n)
    BY <2>2, FS_Interval
  <2> QED BY <2>1, <2>2, <2>3
<1>5. ASSUME NEW b, NEW k \in Spots
      PROVE  /\ k = 0 => EntryAt(b, k) = b
             /\ k \in DOMAIN Locations => EntryAt(b, k) = Locations[k].entry
             /\ k > Len(Locations) => k - Len(Locations) \in DOMAIN Vendor /\ EntryAt(b, k) = Vendor[k - Len(Locations)]
             /\ k = 0 \/ k \in DOMAIN Locations \/ k > Len(Locations)
  BY <1>3 DEF EntryAt, Spots
<1>6. \A b \in Entries : \A k \in Spots : EntryAt(b, k) \in Entries
  BY <1>3, <1>5
<1> QED BY <1>3, <1>4, <1>5, <1>6

(* The next path to measure is one of those that are left.                 *)
LEMMA CurrentIs ==
  ASSUME PlanInv, Measuring
  PROVE  /\ Current \in footprint.pending /\ Current \in Spots /\ Current \notin DOMAIN footprint.measured
         /\ footprint.bundle \in Inspected /\ footprint.bundle \in Entries /\ CurrentEntry \in Entries
         /\ footprint.pending \subseteq Spots /\ DOMAIN footprint.measured \subseteq Spots
<1> DEFINE T == footprint.pending
           n == Len(Locations) + Len(Vendor)
<1>1. T # {} /\ T \subseteq Planning /\ DOMAIN footprint.measured \subseteq Planning /\ footprint.bundle \in Inspected
      /\ T \cap DOMAIN footprint.measured = {}
  <2> HIDE DEF Planning
  <2> QED BY DEF PlanInv, Measuring
<1>2. Planning \subseteq Spots
  BY SpotsAre DEF Planning, KnownThen, RelatedThen
<1>3. n \in Nat /\ Spots = 0..n
  BY SpotsAre DEF Spots
<1>4. PICK x \in T : \A y \in T : x <= y
  <2>1. CASE 0 \in T
    <3>1. T \subseteq 0..n
      BY <1>1, <1>2, <1>3
    <3> HIDE DEF T, n
    <3> QED BY <1>3, <2>1, <3>1
  <2>2. CASE 0 \notin T
    <3>0. T \subseteq 0..n
      BY <1>1, <1>2, <1>3
    <3> HIDE DEF T, n
    <3>1. T \in SUBSET (1..n)
      BY <1>3, <2>2, <3>0
    <3> QED BY <1>1, <1>3, <3>1, LeastOf
  <2> QED BY <2>1, <2>2
<1>5. Current \in T
  <2> HIDE DEF T
  <2>1. Min(T) \in T
    BY <1>4, Zenon DEF Min
  <2> QED BY <2>1 DEF Current, T
<1>6. footprint.bundle \in Entries
  BY <1>1, FootprintAssumption
<1>7. CurrentEntry \in Entries
  BY <1>1, <1>2, <1>5, <1>6, SpotsAre DEF CurrentEntry
<1> QED BY <1>1, <1>2, <1>5, <1>6, <1>7

(* As long as the sink stays, the tree does, and what lies where.          *)
LEMMA SinkSame ==
  ASSUME UNCHANGED sinkVars
  PROVE  /\ disk' = disk /\ Done' = Done /\ Tree' = Tree /\ origin' = origin /\ Read' = Read
         /\ \A e : Inside(e)' = Inside(e)
<1>1. disk' = disk /\ scan' = scan /\ sink' = sink /\ origin' = origin
  BY DEF sinkVars
<1>2. Done' = Done /\ Tree' = Tree
  BY <1>1 DEF Done, Tree
<1>3. Read' = Read
  BY <1>1, <1>2, Zenon DEF Read
<1>4. \A e : Inside(e)' = Inside(e)
  BY <1>1, Zenon DEF Inside
<1> QED BY <1>1, <1>2, <1>3, <1>4

(* What was to be measured is the same for the same bundle.                *)
LEMMA PlanningSame ==
  ASSUME disk' = disk, footprint'.bundle = footprint.bundle
  PROVE  Planning' = Planning /\ \A path, k : RowIs(path, k)' <=> RowIs(path, k)
<1>1. KnownThen' = KnownThen
  BY Zenon DEF KnownThen
<1>2. RelatedThen' = RelatedThen
  BY <1>1, Zenon DEF RelatedThen
<1>3. Planning' = Planning
  BY <1>1, <1>2 DEF Planning
<1>4. \A path, k : RowIs(path, k)' <=> RowIs(path, k)
  BY Zenon DEF RowIs
<1> QED BY <1>3, <1>4

(* A path that is measured leaves the list and enters the answer.          *)
LEMMA MeasuredIs ==
  ASSUME PlanInv, Measuring, UNCHANGED sinkVars, NEW bytes \in Nat \cup {Unknown}, NEW complete \in BOOLEAN,
         NEW source \in {"Scan", "Filesystem", "Unavailable"}, bytes = Unknown <=> source = "Unavailable",
         Measured(bytes, complete, source)
  PROVE  /\ PlanInv' /\ footprint'.phase # "none"
         /\ \A k \in DOMAIN footprint'.measured :
              LET path == footprint'.measured[k]
              IN  IF k = Current
                  THEN path.entry = CurrentEntry /\ path.bytes = bytes /\ path.complete = complete /\ path.source = source
                  ELSE k \in DOMAIN footprint.measured /\ path = footprint.measured[k]
<1> DEFINE done == DOMAIN footprint.measured \cup {Current}
           size == [bytes |-> bytes, complete |-> complete]
           new == FootprintPath(Current, footprint.bundle, size, source)
           table == [k \in done |-> IF k = Current THEN new ELSE footprint.measured[k]]
<1>0. /\ Current \in footprint.pending /\ Current \in Spots /\ Current \notin DOMAIN footprint.measured
      /\ CurrentEntry \in Entries
  BY CurrentIs
<1>1. /\ footprint = [phase |-> footprint.phase, node |-> footprint.node, bundle |-> footprint.bundle,
                      pending |-> footprint.pending, measured |-> footprint.measured]
      /\ footprint.phase = "measuring" /\ footprint.bundle \in Inspected /\ (footprint.node # NoNode => Done)
      /\ footprint.pending \cup DOMAIN footprint.measured = Planning
      /\ footprint.pending \cap DOMAIN footprint.measured = {}
      /\ \A k \in DOMAIN footprint.measured : RowIs(footprint.measured[k], k)
  <2> HIDE DEF Planning, RowIs
  <2> QED BY DEF PlanInv, Measuring
<1>2. footprint' = [footprint EXCEPT !.pending = footprint.pending \ {Current}, !.measured = table]
  <2>1. \A k \in done : (IF k = Current THEN FootprintPath(k, footprint.bundle, size, source) ELSE footprint.measured[k]) = table[k]
    OBVIOUS
  <2>2. [k \in done |-> IF k = Current THEN FootprintPath(k, footprint.bundle, size, source) ELSE footprint.measured[k]] = table
    BY <2>1
  <2>3. footprint' = [footprint EXCEPT !.pending = footprint.pending \ {Current},
          !.measured = [k \in done |-> IF k = Current THEN FootprintPath(k, footprint.bundle, size, source) ELSE footprint.measured[k]]]
    BY DEF Measured
  <2> QED BY <2>2, <2>3, Zenon
<1>3. DOMAIN table = done /\ \A k \in done : table[k] = IF k = Current THEN new ELSE footprint.measured[k]
  OBVIOUS
<1>4. RowIs(new, Current)
  <2>1. new = [label |-> LabelAt(Current), entry |-> CurrentEntry, bytes |-> bytes, complete |-> complete, source |-> source]
    BY DEF FootprintPath, CurrentEntry
  <2> HIDE DEF new
  <2> QED BY <1>0, <2>1 DEF RowIs, PathRow, CurrentEntry
<1>5. new.entry = CurrentEntry /\ new.bytes = bytes /\ new.complete = complete /\ new.source = source
  BY DEF FootprintPath, CurrentEntry
<1> HIDE DEF table, new, done
<1>6. /\ footprint'.phase = "measuring" /\ footprint'.node = footprint.node /\ footprint'.bundle = footprint.bundle
      /\ footprint'.pending = footprint.pending \ {Current} /\ footprint'.measured = table
      /\ footprint' = [phase |-> footprint'.phase, node |-> footprint'.node, bundle |-> footprint'.bundle,
                       pending |-> footprint'.pending, measured |-> footprint'.measured]
  BY <1>1, <1>2
<1>7. Planning' = Planning /\ (\A path, k : RowIs(path, k)' <=> RowIs(path, k)) /\ Done' = Done
  BY <1>6, SinkSame, PlanningSame
<1> HIDE DEF Planning, RowIs, Done
<1>8. /\ footprint'.pending \cup DOMAIN footprint'.measured = Planning
      /\ footprint'.pending \cap DOMAIN footprint'.measured = {}
  BY <1>0, <1>1, <1>3, <1>6 DEF done
<1>9. \A k \in DOMAIN footprint'.measured : RowIs(footprint'.measured[k], k)
  BY <1>1, <1>3, <1>4, <1>6 DEF done
<1>10. PlanInv'
  <2>1. (\A k \in DOMAIN footprint.measured : RowIs(footprint.measured[k], k))'
    BY <1>6, <1>9 DEF RowIs
  <2>2. /\ footprint'.phase \in {"none", "measuring", "answered"} /\ footprint'.phase # "none" /\ footprint'.phase # "answered"
        /\ footprint'.bundle \in Inspected /\ (footprint'.node # NoNode => Done')
    BY <1>1, <1>6, <1>7
  <2> QED BY <1>6, <1>7, <1>8, <2>1, <2>2 DEF PlanInv
<1> QED BY <1>3, <1>5, <1>6, <1>10 DEF done

-----------------------------------------------------------------------------
(* What a size may be said to be.                                          *)
Lost == UNION {Inside(e) : e \in missed \cup gone}

(* What SizesAreHonest says of one path.                                   *)
Honest(path) ==
  LET all == Inside(path.entry)
  IN  /\ path.bytes <= SizeOf(all)
      /\ path.source = "Filesystem" =>
           IF path.complete THEN path.bytes >= SizeOf(all \ Lost)
                            ELSE all \cap (disk.locked \cup gone) # {}
      /\ path.source = "Scan" => (path.complete <=> all \subseteq Read)
      /\ path.source = "Unavailable" => Cardinality(all) > WalkBudget /\ path.bytes = Unknown

(* It says so of every path.                                               *)
LEMMA HonestIs ==
  SizesAreHonest <=> \A k \in DOMAIN footprint.measured : Honest(footprint.measured[k])
BY Zenon DEF SizesAreHonest, Honest, Lost, Read

(* What lies in an entry is on the disk.                                   *)
LEMMA InsideIs ==
  ASSUME SinkInv
  PROVE  /\ disk.present \subseteq Entries
         /\ \A e : Inside(e) \subseteq disk.present /\ Inside(e) \in SUBSET Entries /\ IsFiniteSet(Inside(e))
         /\ \A e, f : f \in Inside(e) <=> f \in disk.present /\ Within(e, f)
         /\ \A f : f \in Lost <=> \E e \in missed \cup gone : f \in Inside(e)
<1>1. disk.present \in SUBSET Entries
  BY DEF SinkInv, SinkTypes, DiskState
<1>2. \A e, f : f \in Inside(e) <=> f \in disk.present /\ Within(e, f)
  BY DEF Inside, Within
<1>3. \A e : Inside(e) \subseteq disk.present /\ Inside(e) \in SUBSET Entries
  BY <1>1, <1>2
<1>4. \A e : IsFiniteSet(Inside(e))
  BY <1>3, EntriesAre, FS_Subset
<1>5. \A f : f \in Lost <=> \E e \in missed \cup gone : f \in Inside(e)
  BY DEF Lost
<1> QED BY <1>1, <1>2, <1>3, <1>4, <1>5

(* A size that was honest stays so when more is gone or was missed.        *)
LEMMA HonestStays ==
  ASSUME SinkInv, UNCHANGED sinkVars, gone \subseteq gone', missed \subseteq missed', NEW path \in PathRow, Honest(path)
  PROVE  Honest(path)'
<1> DEFINE all == Inside(path.entry)
           a == all \ Lost
           b == all \ Lost'
<1>1. /\ disk' = disk /\ Read' = Read /\ all' = all
      /\ \A e : Inside(e)' = Inside(e)
  BY SinkSame
<1>2. \A f : f \in Lost' <=> \E e \in missed' \cup gone' : f \in Inside(e)
  BY <1>1 DEF Lost
<1>3. \A f : f \in Lost <=> \E e \in missed \cup gone : f \in Inside(e)
  BY InsideIs
<1>4. b \in SUBSET a /\ a \in SUBSET Entries /\ all \in SUBSET Entries
  <2>1. all \in SUBSET Entries
    BY InsideIs
  <2> HIDE DEF all
  <2> QED BY <1>2, <1>3, <2>1
<1>5. SizeOf(b) <= SizeOf(a) /\ SizeOf(b) \in Nat /\ SizeOf(a) \in Nat
  <2> HIDE DEF a, b
  <2> QED BY <1>4, SizeOfIs
<1>6. path.bytes \in Int
  BY DEF PathRow, Unknown
<1>7. path.bytes >= SizeOf(a) => path.bytes >= SizeOf(b)
  <2> HIDE DEF a, b
  <2> QED BY <1>5, <1>6
<1>8. /\ path.bytes <= SizeOf(all)
      /\ path.source = "Filesystem" => IF path.complete THEN path.bytes >= SizeOf(a)
                                                        ELSE all \cap (disk.locked \cup gone) # {}
      /\ path.source = "Scan" => (path.complete <=> all \subseteq Read)
      /\ path.source = "Unavailable" => Cardinality(all) > WalkBudget /\ path.bytes = Unknown
  BY DEF Honest
<1>9. Honest(path)' <=>
      /\ path.bytes <= SizeOf(all')
      /\ path.source = "Filesystem" => IF path.complete THEN path.bytes >= SizeOf(all' \ Lost')
                                                        ELSE all' \cap (disk.locked' \cup gone') # {}
      /\ path.source = "Scan" => (path.complete <=> all' \subseteq Read')
      /\ path.source = "Unavailable" => Cardinality(all') > WalkBudget /\ path.bytes = Unknown
  BY DEF Honest
<1>10. SizeOf(all') = SizeOf(all) /\ SizeOf(all' \ Lost') = SizeOf(b) /\ Cardinality(all') = Cardinality(all)
  BY <1>1, Zenon
<1>11. all \cap (disk.locked \cup gone) # {} => all' \cap (disk.locked' \cup gone') # {}
  <2> HIDE DEF all
  <2> QED BY <1>1
<1>12. path.complete \in BOOLEAN
  BY DEF PathRow
<1> HIDE DEF all, a, b
<1> QED BY <1>1, <1>7, <1>8, <1>9, <1>10, <1>11

(* So a newly measured path is all there is to look at.                    *)
LEMMA MeasuredHonestly ==
  ASSUME SinkInv, PlanInv, Measuring, UNCHANGED sinkVars, NEW bytes \in Nat \cup {Unknown}, NEW complete \in BOOLEAN,
         NEW source \in {"Scan", "Filesystem", "Unavailable"}, bytes = Unknown <=> source = "Unavailable",
         Measured(bytes, complete, source), UNCHANGED <<gone, missed>>, SizesAreHonest,
         \A path \in PathRow : path.entry = CurrentEntry /\ path.bytes = bytes /\ path.complete = complete /\ path.source = source
                           => Honest(path)
  PROVE  PlanInv' /\ SizesAreHonest' /\ footprint'.phase # "none"
<1>1. /\ PlanInv' /\ footprint'.phase # "none"
      /\ \A k \in DOMAIN footprint'.measured :
           LET path == footprint'.measured[k]
           IN  IF k = Current
               THEN path.entry = CurrentEntry /\ path.bytes = bytes /\ path.complete = complete /\ path.source = source
               ELSE k \in DOMAIN footprint.measured /\ path = footprint.measured[k]
  BY MeasuredIs
<1>2. \A k \in DOMAIN footprint'.measured : footprint'.measured[k] \in PathRow
  <2> HIDE DEF Planning, PathRow
  <2> QED BY <1>1 DEF PlanInv, RowIs
<1>3. ASSUME NEW k \in DOMAIN footprint'.measured PROVE Honest(footprint'.measured[k])
  <2> HIDE DEF Honest, PathRow
  <2>1. \A l \in DOMAIN footprint.measured : Honest(footprint.measured[l])
    BY HonestIs
  <2>2. CASE k = Current
    BY <1>1, <1>2, <2>2
  <2>3. CASE k # Current
    BY <1>1, <2>1, <2>3
  <2> QED BY <2>2, <2>3
<1>4. (\A k \in DOMAIN footprint.measured : Honest(footprint.measured[k]))'
  <2> SUFFICES ASSUME NEW k \in (DOMAIN footprint.measured)' PROVE Honest(footprint.measured[k])'
    OBVIOUS
  <2>1. PICK p \in PathRow : p = footprint'.measured[k] /\ Honest(p)
    BY <1>2, <1>3
  <2>2. Honest(p)'
    BY <2>1, HonestStays
  <2> QED BY <2>1, <2>2, Zenon DEF Honest, Inside
<1> QED BY <1>1, <1>4, HonestIs, PTL

-----------------------------------------------------------------------------
(* The walk.                                                               *)

(* What is at or below an entry that is still on the stack.                *)
Ahead(f) == \E k \in DOMAIN walk.stack : Within(walk.stack[k], f)

(* The stack and what was counted are apart, and together they are the     *)
(* whole of what the walk will know.                                       *)
WalkInv ==
  /\ walk = [entry |-> walk.entry, stack |-> walk.stack, bytes |-> walk.bytes, complete |-> walk.complete,
             budget |-> walk.budget, counted |-> walk.counted]
  /\ Idle => walk = NoWalk
  /\ ~Idle =>
       /\ Measuring /\ walk.entry = CurrentEntry /\ walk.entry \in disk.present
       /\ walk.stack \in Seq(Inside(walk.entry)) /\ walk.counted \in SUBSET Inside(walk.entry) /\ walk.complete \in BOOLEAN
       /\ \A j, k \in DOMAIN walk.stack : Within(walk.stack[j], walk.stack[k]) => j = k
       /\ \A c \in walk.counted : ~Ahead(c)
       /\ walk.bytes = SizeOf(walk.counted)
       /\ walk.budget \in Nat /\ walk.budget + Cardinality(walk.counted) = WalkBudget
       /\ walk.complete => \A f \in Inside(walk.entry) : f \in Lost \/ f \in walk.counted \/ Ahead(f)
       /\ ~walk.complete => Inside(walk.entry) \cap (disk.locked \cup gone) # {}

(* No walk is a walk that stopped.                                         *)
LEMMA NoWalkIs ==
  ASSUME walk' = NoWalk PROVE WalkInv'
<1>1. walk'.entry = NoEntry /\ walk' = [entry |-> walk'.entry, stack |-> walk'.stack, bytes |-> walk'.bytes, complete |-> walk'.complete,
             budget |-> walk'.budget, counted |-> walk'.counted]
  BY DEF NoWalk
<1>2. Idle'
  BY <1>1 DEF Idle
<1> QED BY <1>1, <1>2 DEF WalkInv

(* The top of a stack gives way to some new entries.                       *)
LEMMA Replaced ==
  ASSUME NEW V, NEW old \in Seq(V), old # <<>>, NEW C \in SUBSET V, IsFiniteSet(C), NEW order \in SetToSeqs(C)
  PROVE  LET new == Front(old) \o order
             n == Len(old) - 1
         IN  /\ new \in Seq(V) /\ n \in Nat /\ DOMAIN old = 1..(n + 1) /\ Last(old) = old[n + 1] /\ DOMAIN new \subseteq Nat
             /\ \A k \in DOMAIN new : IF k <= n THEN k \in 1..n /\ new[k] = old[k] ELSE new[k] \in C
             /\ \A k \in 1..n : k \in DOMAIN new
             /\ \A c \in C : \E k \in DOMAIN new : new[k] = c
             /\ \A j, k \in DOMAIN new : j > n /\ k > n /\ new[j] = new[k] => j = k
<1> DEFINE new == Front(old) \o order
           n == Len(old) - 1
           front == Front(old)
           m == Cardinality(C)
           D == 1..m
<1>1. Len(old) \in Nat /\ Len(old) # 0 /\ n \in Nat /\ DOMAIN old = 1..(n + 1)
  OBVIOUS
<1>2. front \in Seq(V) /\ Len(front) = n /\ \A k \in 1..n : front[k] = old[k]
  <2>1. /\ front \in Seq(V) /\ Len(front) = n
        /\ \A k \in DOMAIN front : k \in DOMAIN old /\ front[k] = old[k]
    BY <1>1, FrontIs
  <2> HIDE DEF front, n
  <2>2. DOMAIN front = 1..n
    BY <2>1
  <2> QED BY <2>1, <2>2
<1>3. m \in Nat /\ IsFiniteSet(D) /\ Cardinality(D) = m
  BY FS_CardinalityType, FS_Interval
<1>4. order \in [D -> C] /\ \A i, j \in D : i # j => order[i] # order[j]
  BY DEF SetToSeqs
<1>5. \A c \in C : \E k \in D : order[k] = c
  <2> HIDE DEF D, m
  <2>1. order \in Injection(D, C)
    BY <1>4 DEF Injection, IsInjective
  <2>2. order \in Surjection(D, C)
    BY <1>3, <2>1, FS_Injection DEF m
  <2> QED BY <2>2 DEF Surjection
<1>6. order \in Seq(V) /\ Len(order) = m /\ \A k \in D : order[k] \in C
  BY <1>3, <1>4
<1> HIDE DEF front, m
<1>7. /\ front \o order \in Seq(V) /\ DOMAIN (front \o order) = 1..(n + m)
      /\ \A k \in 1..(n + m) : (front \o order)[k] = IF k <= n THEN front[k] ELSE order[k - n]
  <2> HIDE DEF n
  <2> QED BY <1>1, <1>2, <1>3, <1>6
<1>8. new = front \o order
  BY DEF front
<1> HIDE DEF new
<1>9. \A k \in 1..(n + m) : IF k <= n THEN k \in 1..n /\ new[k] = old[k] ELSE k - n \in D /\ new[k] = order[k - n] /\ new[k] \in C
  <2> HIDE DEF n
  <2> QED BY <1>1, <1>2, <1>3, <1>6, <1>7, <1>8
<1>10. \A c \in C : \E k \in 1..(n + m) : new[k] = c
  <2> TAKE c \in C
  <2>1. PICK k \in D : order[k] = c
    BY <1>5
  <2>2. n + k \in 1..(n + m) /\ ~(n + k <= n) /\ (n + k) - n = k
    <3> HIDE DEF n
    <3> QED BY <1>1, <1>3
  <2> DEFINE x == n + k
  <2> HIDE DEF x, n, D
  <2>3. x \in 1..(n + m) /\ ~(x <= n) /\ x - n = k
    BY <2>2 DEF x
  <2>4. new[x] = order[x - n]
    BY <1>7, <1>8, <2>3
  <2> QED BY <2>1, <2>3, <2>4
<1>11. \A j, k \in 1..(n + m) : j > n /\ k > n /\ new[j] = new[k] => j = k
  <2> TAKE j \in 1..(n + m), k \in 1..(n + m)
  <2>1. ~(j <= n) /\ ~(k <= n) /\ new[j] = new[k] => j - n \in D /\ k - n \in D /\ order[j - n] = order[k - n]
    BY <1>9
  <2>2. ~(j <= n) /\ ~(k <= n) /\ new[j] = new[k] => j - n = k - n
    BY <1>4, <2>1
  <2> HIDE DEF n
  <2> QED BY <1>1, <1>3, <2>2
<1>12. Last(old) = old[n + 1]
  BY <1>1 DEF Last
<1>13. 1..n \subseteq 1..(n + m) /\ 1..(n + m) \subseteq Nat
  <2> HIDE DEF n
  <2> QED BY <1>1, <1>3
<1> HIDE DEF n
<1> QED BY <1>1, <1>7, <1>8, <1>9, <1>10, <1>11, <1>12, <1>13 DEF n, new

(* Facts of a walk that has something to look at.                          *)
LEMMA TopIs ==
  ASSUME SinkInv, GoneInv, PlanInv, WalkInv, ~Idle, walk.stack # <<>>
  PROVE  /\ Measuring /\ walk.entry = CurrentEntry /\ walk.entry \in disk.present
         /\ Top \in Inside(walk.entry) /\ Top \in Entries /\ Top \in disk.present
         /\ Len(walk.stack) \in DOMAIN walk.stack /\ Top = walk.stack[Len(walk.stack)]
         /\ \A k \in DOMAIN walk.stack : walk.stack[k] \in Entries /\ walk.stack[k] \in Inside(walk.entry)
         /\ Top \notin walk.counted /\ walk.counted \in SUBSET Entries /\ IsFiniteSet(walk.counted)
         /\ \A k \in DOMAIN walk.stack : Within(Top, walk.stack[k]) \/ Within(walk.stack[k], Top) => k = Len(walk.stack)
         /\ \A c \in walk.counted : ~Within(Top, c)
<1>1. /\ Measuring /\ walk.entry = CurrentEntry /\ walk.entry \in disk.present
      /\ walk.stack \in Seq(Inside(walk.entry)) /\ walk.counted \in SUBSET Inside(walk.entry)
      /\ \A j, k \in DOMAIN walk.stack : Within(walk.stack[j], walk.stack[k]) => j = k
      /\ \A c \in walk.counted : ~Ahead(c)
  BY DEF WalkInv
<1> DEFINE all == Inside(walk.entry)
           n == Len(walk.stack)
<1>2. all \in SUBSET Entries /\ all \subseteq disk.present /\ IsFiniteSet(all)
  BY InsideIs
<1>3. n \in DOMAIN walk.stack /\ Top = walk.stack[n] /\ \A k \in DOMAIN walk.stack : walk.stack[k] \in all
  <2>1. walk.stack \in Seq(all)
    BY <1>1
  <2>2. walk.stack # <<>>
    OBVIOUS
  <2> HIDE DEF all
  <2> QED BY <2>1, <2>2 DEF Top, Last
<1>4. Top \in Entries /\ \A k \in DOMAIN walk.stack : walk.stack[k] \in Entries
  BY <1>2, <1>3
<1>5. \A c \in walk.counted : ~Within(Top, c)
  BY <1>1, <1>3 DEF Ahead
<1>6. Top \notin walk.counted
  BY <1>4, <1>5, WithinOrders
<1>7. walk.counted \in SUBSET Entries /\ IsFiniteSet(walk.counted)
  BY <1>1, <1>2, FS_Subset
<1> HIDE DEF all
<1> QED BY <1>1, <1>2, <1>3, <1>4, <1>5, <1>6, <1>7 DEF all

(* A walk begins with nothing counted and everything ahead.                *)
LEMMA WalkBegins ==
  ASSUME SinkInv, GoneInv, PlanInv, WalkInv, BeginWalk, Exists(CurrentEntry)
  PROVE  WalkInv' /\ UNCHANGED <<footprint, gone, missed>>
<1> DEFINE e == CurrentEntry
<1>1. /\ Measuring /\ UNCHANGED sinkVars /\ footprint' = footprint /\ gone' = gone /\ missed' = missed
      /\ walk' = [NoWalk EXCEPT !.entry = e, !.stack = <<e>>, !.budget = WalkBudget]
      /\ e \in disk.present
  BY DEF BeginWalk, Exists
<1>2. walk' = [entry |-> e, stack |-> <<e>>, bytes |-> 0, complete |-> TRUE, budget |-> WalkBudget, counted |-> {}]
  <2> HIDE DEF e
  <2> QED BY <1>1 DEF NoWalk
<1>3. e \in Entries /\ CurrentEntry' = e /\ Measuring'
  BY <1>1, CurrentIs DEF CurrentEntry, Current, Measuring
<1> HIDE DEF e
<1>4. /\ walk'.entry = e /\ walk'.stack = <<e>> /\ walk'.bytes = 0 /\ walk'.complete = TRUE /\ walk'.budget = WalkBudget
      /\ walk'.counted = {}
  BY <1>2
<1>5. e # NoEntry /\ ~Idle'
  BY <1>3, <1>4, EntriesAre DEF Idle
<1>6. /\ disk' = disk /\ \A x : Inside(x)' = Inside(x)
  BY <1>1, SinkSame
<1> DEFINE all == Inside(e)
<1>7. e \in all /\ \A f \in all : Within(e, f)
  BY <1>1, <1>3, InsideIs, WithinOrders
<1>8. Inside(walk.entry)' = all
  BY <1>4, <1>6 DEF Inside
<1>9. SizeOf({}) = 0 /\ Cardinality({}) = 0
  <2>1. {} \in SUBSET Entries
    OBVIOUS
  <2>2. SizeOf({}) = SumOver(SizeW, {})
    BY <2>1, SizeOfIs
  <2> QED BY <2>2, SumNone, FS_EmptySet
<1>10. \A f : Ahead(f)' <=> Within(e, f)
  <2>1. \A f : Ahead(f)' <=> \E k \in DOMAIN walk'.stack : Within(walk'.stack[k], f)
    BY DEF Ahead, Within
  <2> QED BY <1>4, <2>1
<1>11. (\A f \in Inside(walk.entry) : f \in Lost \/ f \in walk.counted \/ Ahead(f))'
  BY <1>7, <1>8, <1>10
<1>12. /\ walk'.stack \in Seq(all) /\ walk'.counted \in SUBSET all /\ walk'.complete \in BOOLEAN
       /\ walk'.bytes = SizeOf(walk'.counted) /\ walk'.budget \in Nat
       /\ walk'.budget + Cardinality(walk'.counted) = WalkBudget
       /\ \A j, k \in DOMAIN walk'.stack : j = k
  <2> HIDE DEF all
  <2>1. WalkBudget \in Nat
    BY FootprintAssumption
  <2>2. SizeOf(walk'.counted) = 0 /\ Cardinality(walk'.counted) = 0
    BY <1>4, <1>9, Zenon
  <2>3. walk'.stack \in Seq(all)
    BY <1>4, <1>7
  <2>4. \A j, k \in DOMAIN walk'.stack : j = k
    BY <1>4
  <2>5. walk'.bytes = SizeOf(walk'.counted)
    BY <1>4, <2>2, Zenon
  <2>6. walk'.complete \in BOOLEAN
    BY <1>4, Zenon
  <2>7. walk'.counted \in SUBSET all
    BY <1>4, Zenon
  <2>8. walk'.budget \in Nat /\ walk'.budget + Cardinality(walk'.counted) = WalkBudget
    BY <1>4, <2>1, <2>2
  <2> QED BY <2>3, <2>4, <2>5, <2>6, <2>7, <2>8
<1>13. walk'.entry = CurrentEntry' /\ walk'.entry \in disk'.present
  BY <1>1, <1>3, <1>4, <1>6
<1>14. walk' = [entry |-> walk'.entry, stack |-> walk'.stack, bytes |-> walk'.bytes, complete |-> walk'.complete,
             budget |-> walk'.budget, counted |-> walk'.counted]
  BY <1>2, <1>4
<1>15. (\A c \in walk.counted : ~Ahead(c))'
  BY <1>4
<1>16. (\A j, k \in DOMAIN walk.stack : Within(walk.stack[j], walk.stack[k]) => j = k)'
  BY <1>12
<1> HIDE DEF all
<1>17. WalkInv'
  BY <1>3, <1>4, <1>5, <1>8, <1>11, <1>12, <1>13, <1>14, <1>15, <1>16 DEF WalkInv
<1> QED BY <1>1, <1>17

(* An entry that vanished takes what was in it, and is a reason.           *)
LEMMA WalkLoses ==
  ASSUME SinkInv, GoneInv, PlanInv, WalkInv, Vanished
  PROVE  WalkInv' /\ UNCHANGED <<footprint, gone, missed>>
<1>1. /\ ~Idle /\ walk.stack # <<>> /\ ~Exists(Top) /\ UNCHANGED sinkVars
      /\ footprint' = footprint /\ gone' = gone /\ missed' = missed
      /\ walk' = [walk EXCEPT !.stack = Front(walk.stack), !.complete = FALSE]
  BY DEF Vanished
<1> DEFINE all == Inside(walk.entry)
<1>2. /\ walk = [entry |-> walk.entry, stack |-> walk.stack, bytes |-> walk.bytes, complete |-> walk.complete,
                 budget |-> walk.budget, counted |-> walk.counted]
      /\ Measuring /\ walk.entry = CurrentEntry /\ walk.entry \in disk.present
      /\ walk.stack \in Seq(all) /\ walk.counted \in SUBSET all
      /\ \A j, k \in DOMAIN walk.stack : Within(walk.stack[j], walk.stack[k]) => j = k
      /\ \A c \in walk.counted : ~Ahead(c)
      /\ walk.bytes = SizeOf(walk.counted)
      /\ walk.budget \in Nat /\ walk.budget + Cardinality(walk.counted) = WalkBudget
  BY <1>1 DEF WalkInv
<1>3. Top \in all /\ Top \in gone
  BY <1>1, TopIs DEF Exists
<1>4. /\ walk'.entry = walk.entry /\ walk'.stack = Front(walk.stack) /\ walk'.bytes = walk.bytes /\ walk'.complete = FALSE
      /\ walk'.budget = walk.budget /\ walk'.counted = walk.counted
      /\ walk' = [entry |-> walk'.entry, stack |-> walk'.stack, bytes |-> walk'.bytes, complete |-> walk'.complete,
                  budget |-> walk'.budget, counted |-> walk'.counted]
  <2> HIDE DEF all
  <2> QED BY <1>1, <1>2
<1>5. disk' = disk /\ Inside(walk.entry)' = all
  BY <1>1, <1>4 DEF Inside, sinkVars
<1>6. ~Idle' /\ Measuring' /\ walk'.entry = CurrentEntry'
  BY <1>1, <1>2, <1>4 DEF Idle, Measuring, CurrentEntry, Current
<1> HIDE DEF all
<1>7. walk'.stack \in Seq(all) /\ \A k \in DOMAIN walk'.stack : k \in DOMAIN walk.stack /\ walk'.stack[k] = walk.stack[k]
  <2>1. Len(walk.stack) # 0
    BY <1>1, <1>2
  <2> QED BY <1>2, <1>4, <2>1, FrontIs
<1>8. (\A c \in walk.counted : ~Ahead(c))'
  BY <1>2, <1>4, <1>7 DEF Ahead
<1>9. (\A j, k \in DOMAIN walk.stack : Within(walk.stack[j], walk.stack[k]) => j = k)'
  BY <1>2, <1>7 DEF Within
<1>10. all \cap (disk'.locked \cup gone') # {}
  BY <1>1, <1>3
<1>11. walk'.complete \in BOOLEAN /\ ~walk'.complete
  BY <1>4, Zenon
<1>12. walk'.bytes = SizeOf(walk'.counted) /\ Cardinality(walk'.counted) = Cardinality(walk.counted)
  BY <1>2, <1>4, Zenon
<1>13. walk'.budget \in Nat /\ walk'.budget + Cardinality(walk'.counted) = WalkBudget
  BY <1>2, <1>4, <1>12, Zenon
<1>14. walk'.entry \in disk'.present /\ walk'.counted \in SUBSET all
  BY <1>2, <1>4, <1>5, Zenon
<1>15. WalkInv'
  BY <1>4, <1>5, <1>6, <1>7, <1>8, <1>9, <1>10, <1>11, <1>12, <1>13, <1>14 DEF WalkInv
<1> QED BY <1>1, <1>15

(* What a visit finds: all that lies in the entry, but for what is gone,   *)
(* missed or not to be read.                                               *)
LEMMA ContentsAre ==
  ASSUME SinkInv, GoneInv, NEW f \in disk.present, Top \in Entries, Within(Top, f), Top \notin disk.locked, f # Top
  PROVE  \E c \in Entries : Shape[c].up = Top /\ Within(c, f) /\ c \in disk.present /\ (c \in Contents \/ c \in gone)
<1>1. f \in Entries /\ disk \in Disks
  BY InsideIs DEF GoneInv
<1>2. PICK c \in Entries : Shape[c].up = Top /\ Within(c, f)
  BY <1>1, WithinOrders
<1>3. c \in disk.present
  BY <1>1, <1>2, PresentAbove
<1>4. Shape[Top].dir /\ c \in Listed(Top)
  <2>1. Top # NoEntry
    BY EntriesAre
  <2> QED BY <1>2, <1>3, <2>1, EntriesAre DEF Listed, Under
<1> QED BY <1>2, <1>3, <1>4 DEF Contents

(* What it finds is what is in the entry's own directory.                  *)
LEMMA ContentsIn ==
  ASSUME SinkInv
  PROVE  \A c \in Contents : c \in Entries /\ c \in disk.present /\ Shape[c].up = Top
<1>1. \A c \in Listed(Top) : c \in disk.present /\ Shape[c].up = Top
  BY DEF Listed, Under
<1>2. \A c \in Contents : c \in Listed(Top)
  BY DEF Contents
<1> QED BY <1>1, <1>2, InsideIs

(* A visit counts an entry that was not, and goes on to what is in it.     *)
LEMMA WalkVisits ==
  ASSUME SinkInv, GoneInv, PlanInv, WalkInv, Visit
  PROVE  WalkInv' /\ UNCHANGED <<footprint, gone>> /\ missed \subseteq missed' /\ missed' \in SUBSET disk.present
<1> DEFINE all == Inside(walk.entry)
           n == Len(walk.stack) - 1
           T == Top
<1>1. /\ ~Idle /\ walk.stack # <<>> /\ Exists(Top) /\ walk.budget > 0 /\ UNCHANGED sinkVars
      /\ footprint' = footprint /\ gone' = gone
  BY DEF Visit
<1>2. PICK lost \in {{}} \cup {{e} : e \in Contents} :
        /\ missed' = missed \cup lost
        /\ \E order \in SetToSeqs(Contents \ lost) :
             walk' = [walk EXCEPT !.stack    = Front(walk.stack) \o order,
                                  !.bytes    = walk.bytes + Shape[Top].size,
                                  !.complete = walk.complete /\ ~(Shape[Top].dir /\ Top \in disk.locked),
                                  !.budget   = walk.budget - 1,
                                  !.counted  = walk.counted \cup {Top}]
  BY DEF Visit
<1>3. PICK order \in SetToSeqs(Contents \ lost) :
             walk' = [walk EXCEPT !.stack    = Front(walk.stack) \o order,
                                  !.bytes    = walk.bytes + Shape[Top].size,
                                  !.complete = walk.complete /\ ~(Shape[Top].dir /\ Top \in disk.locked),
                                  !.budget   = walk.budget - 1,
                                  !.counted  = walk.counted \cup {Top}]
  BY <1>2
<1>4. /\ walk = [entry |-> walk.entry, stack |-> walk.stack, bytes |-> walk.bytes, complete |-> walk.complete,
                 budget |-> walk.budget, counted |-> walk.counted]
      /\ Measuring /\ walk.entry = CurrentEntry /\ walk.entry \in disk.present
      /\ walk.stack \in Seq(all) /\ walk.counted \in SUBSET all /\ walk.complete \in BOOLEAN
      /\ \A j, k \in DOMAIN walk.stack : Within(walk.stack[j], walk.stack[k]) => j = k
      /\ \A c \in walk.counted : ~Ahead(c)
      /\ walk.bytes = SizeOf(walk.counted)
      /\ walk.budget \in Nat /\ walk.budget + Cardinality(walk.counted) = WalkBudget
      /\ walk.complete => \A f \in all : f \in Lost \/ f \in walk.counted \/ Ahead(f)
      /\ ~walk.complete => all \cap (disk.locked \cup gone) # {}
  BY <1>1 DEF WalkInv
<1>5. /\ T \in all /\ T \in Entries /\ T \in disk.present /\ T = walk.stack[Len(walk.stack)]
      /\ \A k \in DOMAIN walk.stack : walk.stack[k] \in Entries /\ walk.stack[k] \in all
      /\ T \notin walk.counted /\ walk.counted \in SUBSET Entries /\ IsFiniteSet(walk.counted)
      /\ \A k \in DOMAIN walk.stack : Within(T, walk.stack[k]) \/ Within(walk.stack[k], T) => k = Len(walk.stack)
      /\ \A c \in walk.counted : ~Within(T, c)
  BY <1>1, TopIs
<1>6. \A c \in Contents : c \in Entries /\ c \in disk.present /\ Shape[c].up = T
  BY ContentsIn
<1> DEFINE C == Contents \ lost
<1>7. \A c \in C : c \in all /\ Within(T, c) /\ c # T /\ ~Within(c, T)
  <2> SUFFICES ASSUME NEW c \in C PROVE c \in all /\ Within(T, c) /\ c # T /\ ~Within(c, T)
    OBVIOUS
  <2>1. c \in Entries /\ c \in disk.present /\ Shape[c].up = T /\ T # NoEntry
    BY <1>5, <1>6, EntriesAre
  <2>2. Within(T, T) /\ Within(T, c)
    BY <1>5, <2>1, WithinRec
  <2>3. Within(walk.entry, T) /\ walk.entry \in Entries
    BY <1>4, <1>5, InsideIs
  <2>4. Within(walk.entry, c)
    BY <1>5, <2>1, <2>2, <2>3, WithinOrders
  <2>5. c \in all
    BY <2>1, <2>4, InsideIs
  <2>6. T < c /\ T \in Nat /\ c \in Nat
    BY <2>1, EntriesAre
  <2>7. ~Within(c, T)
    BY <1>5, <2>1, <2>6, WithinOrders
  <2> QED BY <2>2, <2>5, <2>6, <2>7
<1>8. ASSUME NEW c \in C, NEW d \in C, Within(c, d) PROVE c = d
  <2>1. c \in Entries /\ d \in Entries /\ Shape[d].up = T
    BY <1>6
  <2>2. c = d \/ Within(c, T)
    BY <1>8, <2>1, WithinRec
  <2> QED BY <1>7, <2>2
<1> DEFINE new == Front(walk.stack) \o order
<1>9. IsFiniteSet(C) /\ C \in SUBSET all
  <2>1. C \in SUBSET all
    BY <1>7
  <2> QED BY <2>1, InsideIs, FS_Subset
<1>10. /\ new \in Seq(all) /\ n \in Nat /\ DOMAIN walk.stack = 1..(n + 1) /\ DOMAIN new \subseteq Nat
       /\ \A k \in DOMAIN new : IF k <= n THEN k \in 1..n /\ new[k] = walk.stack[k] ELSE new[k] \in C
       /\ \A k \in 1..n : k \in DOMAIN new
       /\ \A c \in C : \E k \in DOMAIN new : new[k] = c
       /\ \A j, k \in DOMAIN new : j > n /\ k > n /\ new[j] = new[k] => j = k
  <2> DEFINE old == walk.stack
  <2>1. old \in Seq(all) /\ old # <<>> /\ order \in SetToSeqs(C)
    BY <1>1, <1>4
  <2> HIDE DEF all, C, old
  <2>2. LET nu == Front(old) \o order
            m == Len(old) - 1
        IN  /\ nu \in Seq(all) /\ m \in Nat /\ DOMAIN old = 1..(m + 1) /\ DOMAIN nu \subseteq Nat
            /\ \A k \in DOMAIN nu : IF k <= m THEN k \in 1..m /\ nu[k] = old[k] ELSE nu[k] \in C
            /\ \A k \in 1..m : k \in DOMAIN nu
            /\ \A c \in C : \E k \in DOMAIN nu : nu[k] = c
            /\ \A j, k \in DOMAIN nu : j > m /\ k > m /\ nu[j] = nu[k] => j = k
    BY <1>9, <2>1, Replaced
  <2> QED BY <2>2 DEF old
<1>11. Len(walk.stack) = n + 1 /\ n + 1 \in DOMAIN walk.stack
  <2>1. Len(walk.stack) \in Nat
    BY <1>4
  <2> QED BY <1>10, <2>1
<1> DEFINE open == walk.complete /\ ~(Shape[T].dir /\ T \in disk.locked)
<1>12. /\ walk'.entry = walk.entry /\ walk'.stack = new /\ walk'.bytes = walk.bytes + Shape[T].size
       /\ walk'.complete = open /\ walk'.budget = walk.budget - 1 /\ walk'.counted = walk.counted \cup {T}
       /\ walk' = [entry |-> walk'.entry, stack |-> walk'.stack, bytes |-> walk'.bytes, complete |-> walk'.complete,
                   budget |-> walk'.budget, counted |-> walk'.counted]
  <2> HIDE DEF all, C
  <2>1. walk' = [entry |-> walk.entry, stack |-> new, bytes |-> walk.bytes + Shape[T].size, complete |-> open,
                 budget |-> walk.budget - 1, counted |-> walk.counted \cup {T}]
    <3> HIDE DEF new, open
    <3>1. walk' = [walk EXCEPT !.stack = new, !.bytes = walk.bytes + Shape[T].size, !.complete = open,
                               !.budget = walk.budget - 1, !.counted = walk.counted \cup {T}]
      BY <1>3 DEF new, open
    <3> QED BY <1>4, <3>1
  <2> HIDE DEF new, open
  <2> QED BY <2>1
<1> HIDE DEF new, n, T
<1>13. \A j, k \in DOMAIN new : Within(new[j], new[k]) => j = k
  <2> SUFFICES ASSUME NEW j \in DOMAIN new, NEW k \in DOMAIN new, Within(new[j], new[k]) PROVE j = k
    OBVIOUS
  <2> HIDE DEF C, all
  <2>0. j \in Nat /\ k \in Nat
    BY <1>10
  <2>1. CASE j <= n /\ k <= n
    <3>1. j \in 1..n /\ k \in 1..n /\ new[j] = walk.stack[j] /\ new[k] = walk.stack[k]
      BY <1>10, <2>1
    <3>2. 1..n \subseteq DOMAIN walk.stack
      BY <1>10
    <3>3. Within(walk.stack[j], walk.stack[k])
      BY <3>1
    <3> QED BY <1>4, <3>1, <3>2, <3>3
  <2>2. CASE j <= n /\ ~(k <= n)
    <3>1. j \in 1..n /\ j \in DOMAIN walk.stack /\ new[j] = walk.stack[j] /\ new[k] \in C
      BY <1>10, <2>2
    <3>2. new[j] \in Entries /\ new[k] \in Entries /\ Shape[new[k]].up = T
      BY <1>5, <1>6, <3>1 DEF C
    <3>3. new[j] = new[k] \/ Within(new[j], T)
      BY <3>2, WithinRec
    <3>4. Within(T, new[j]) \/ Within(new[j], T)
      BY <1>7, <3>1, <3>3
    <3>5. j = n + 1
      BY <1>5, <1>11, <3>1, <3>4
    <3> QED BY <1>10, <3>1, <3>5
  <2>3. CASE ~(j <= n) /\ k <= n
    <3>1. k \in 1..n /\ k \in DOMAIN walk.stack /\ new[k] = walk.stack[k] /\ new[j] \in C
      BY <1>10, <2>3
    <3>2. new[k] \in Entries /\ new[j] \in Entries /\ Within(T, new[j])
      BY <1>5, <1>6, <1>7, <3>1 DEF C
    <3>3. Within(T, new[k])
      BY <1>5, <3>2, WithinOrders
    <3>5. k = n + 1
      BY <1>5, <1>11, <3>1, <3>3
    <3> QED BY <1>10, <3>1, <3>5
  <2>4. CASE ~(j <= n) /\ ~(k <= n)
    <3>1. new[j] \in C /\ new[k] \in C
      BY <1>10, <2>4
    <3>2. new[j] = new[k]
      BY <1>8, <3>1
    <3> QED BY <1>10, <2>0, <2>4, <3>2
  <2> QED BY <2>1, <2>2, <2>3, <2>4
<1>14. ASSUME NEW c \in walk.counted \cup {T}, NEW k \in DOMAIN new PROVE ~Within(new[k], c)
  <2> HIDE DEF C, all
  <2>1. CASE k <= n
    <3>1. k \in 1..n /\ k \in DOMAIN walk.stack /\ new[k] = walk.stack[k] /\ k # n + 1
      BY <1>10, <2>1
    <3>2. c = T => ~Within(new[k], c)
      BY <1>5, <1>11, <3>1
    <3>3. c \in walk.counted => ~Within(new[k], c)
      BY <1>4, <3>1 DEF Ahead
    <3> QED BY <3>2, <3>3
  <2>2. CASE ~(k <= n)
    <3>1. new[k] \in C
      BY <1>10, <2>2
    <3>2. new[k] \in Entries /\ Within(T, new[k]) /\ ~Within(new[k], T) /\ c \in Entries
      BY <1>5, <1>6, <1>7, <3>1 DEF C
    <3>3. Within(new[k], c) => Within(T, c)
      BY <1>5, <3>2, WithinOrders
    <3> QED BY <1>5, <3>2, <3>3
  <2> QED BY <2>1, <2>2
<1>15. ASSUME open, NEW f \in all
       PROVE  (\E e \in missed' \cup gone : f \in Inside(e)) \/ f \in walk.counted \cup {T} \/ \E k \in DOMAIN new : Within(new[k], f)
  <2>1. f \in Lost \/ f \in walk.counted \/ Ahead(f)
    BY <1>4, <1>15
  <2>2. f \in Lost => \E e \in missed' \cup gone : f \in Inside(e)
    BY <1>2, InsideIs
  <2>3. ASSUME NEW k \in DOMAIN walk.stack, Within(walk.stack[k], f), k # n + 1 PROVE \E j \in DOMAIN new : Within(new[j], f)
    <3>1. k \in 1..n /\ k \in DOMAIN new
      <4>1. k \in 1..(n + 1)
        BY <1>10
      <4> QED BY <1>10, <2>3, <4>1
    <3>2. new[k] = walk.stack[k]
      BY <1>10, <3>1
    <3> QED BY <2>3, <3>1, <3>2
  <2>4. ASSUME Within(T, f), f # T
        PROVE  (\E e \in missed' \cup gone : f \in Inside(e)) \/ \E j \in DOMAIN new : Within(new[j], f)
    <3>1. f \in disk.present
      BY InsideIs
    <3>2. T \notin disk.locked
      <4>1. Shape[T].dir
        <5>1. f \in Entries
          BY <3>1, InsideIs
        <5>2. PICK c \in Entries : Shape[c].up = T /\ Within(c, f)
          BY <1>5, <2>4, <5>1, WithinOrders
        <5> QED BY <1>5, <5>2, EntriesAre
      <4> QED BY <1>15, <4>1
    <3>3. PICK c \in Entries : Shape[c].up = T /\ Within(c, f) /\ c \in disk.present /\ (c \in Contents \/ c \in gone)
      BY <1>5, <2>4, <3>1, <3>2, ContentsAre DEF T
    <3>4. f \in Inside(c)
      BY <3>1, <3>3, InsideIs
    <3>5. c \in gone \/ c \in missed' \/ c \in C
      BY <1>2, <3>3
    <3>6. c \in C => \E j \in DOMAIN new : Within(new[j], f)
      BY <1>10, <3>3
    <3> QED BY <3>4, <3>5, <3>6
  <2>5. ASSUME Ahead(f), ~(\E j \in DOMAIN new : Within(new[j], f)) PROVE Within(T, f)
    <3>1. PICK k \in DOMAIN walk.stack : Within(walk.stack[k], f)
      BY <2>5 DEF Ahead
    <3>2. k = n + 1
      BY <2>3, <2>5, <3>1
    <3> QED BY <1>5, <1>11, <3>1, <3>2
  <2> HIDE DEF all, C, open
  <2> QED BY <2>1, <2>2, <2>4, <2>5
<1>16. SizeOf(walk.counted \cup {T}) = walk.bytes + Shape[T].size
  <2> DEFINE S == walk.counted \cup {T}
  <2>1. S \in SUBSET Entries /\ walk.counted \in SUBSET S
    BY <1>5
  <2>2. Weighs(SizeW, S) /\ SizeOf(S) = SumOver(SizeW, S) /\ SizeOf(walk.counted) = SumOver(SizeW, walk.counted)
    <3> HIDE DEF S
    <3> QED BY <2>1, SizeOfIs
  <2>3. SumOver(SizeW, S) = SizeW[T] + SumOver(SizeW, walk.counted)
    <3>1. T \in S /\ walk.counted \in SUBSET S /\ T \notin walk.counted /\ Weighs(SizeW, S)
      BY <1>5, <2>2
    <3>2. SumOver(SizeW, walk.counted \cup {T}) = SizeW[T] + SumOver(SizeW, walk.counted)
      <4> HIDE DEF S
      <4> QED BY <3>1, SumAdd
    <3> QED BY <3>2
  <2>4. SizeW[T] = Shape[T].size
    BY <1>5 DEF SizeW
  <2>5. Shape[T].size \in Int /\ SizeOf(walk.counted) \in Int
    <3>1. SizeOf(walk.counted) \in Nat
      BY <1>5, SizeOfIs
    <3>2. Shape[T].size \in 0..Largest /\ Largest \in Nat
      BY <1>5, EntriesAre, TreeBounds
    <3> QED BY <3>1, <3>2
  <2> DEFINE x == SizeOf(S)
             y == SizeOf(walk.counted)
             z == Shape[T].size
  <2>6. x = z + y /\ z \in Int /\ y \in Int /\ walk.bytes = y
    BY <1>4, <2>2, <2>3, <2>4, <2>5
  <2> HIDE DEF x, y, z
  <2>7. x = walk.bytes + z
    BY <2>6
  <2> QED BY <2>7 DEF x, z, S
<1>17. Cardinality(walk.counted \cup {T}) = Cardinality(walk.counted) + 1 /\ Cardinality(walk.counted) \in Nat
  BY <1>5, FS_AddElement, FS_CardinalityType
<1>18. missed \subseteq missed' /\ missed' \in SUBSET disk.present
  BY <1>2, <1>6 DEF GoneInv
<1>19. /\ disk' = disk /\ Inside(walk.entry)' = all /\ \A e : Inside(e)' = Inside(e)
  BY <1>1, <1>12, SinkSame DEF Inside
<1>20. ~Idle' /\ Measuring' /\ walk'.entry = CurrentEntry'
  BY <1>1, <1>4, <1>12 DEF Idle, Measuring, CurrentEntry, Current
<1>21. \A f : f \in Lost' <=> \E e \in missed' \cup gone : f \in Inside(e)
  BY <1>1, <1>19 DEF Lost
<1>22. \A f : Ahead(f)' <=> \E k \in DOMAIN new : Within(new[k], f)
  <2>1. \A f : Ahead(f)' <=> \E k \in DOMAIN walk'.stack : Within(walk'.stack[k], f)
    BY DEF Ahead, Within
  <2> QED BY <1>12, <2>1
<1>23. (walk.complete => \A f \in Inside(walk.entry) : f \in Lost \/ f \in walk.counted \/ Ahead(f))'
  <2> SUFFICES ASSUME walk'.complete, NEW f \in Inside(walk.entry)' PROVE f \in Lost' \/ f \in walk'.counted \/ Ahead(f)'
    OBVIOUS
  <2>1. open /\ f \in all
    BY <1>12, <1>19
  <2> HIDE DEF open, all
  <2> QED BY <1>12, <1>15, <1>21, <1>22, <2>1
<1>24. (~walk.complete => Inside(walk.entry) \cap (disk.locked \cup gone) # {})'
  <2> SUFFICES ASSUME ~walk'.complete PROVE all \cap (disk.locked \cup gone) # {}
    BY <1>1, <1>19
  <2>1. ~open
    BY <1>12
  <2> HIDE DEF all
  <2> QED BY <1>4, <1>5, <2>1
<1>25. (\A c \in walk.counted : ~Ahead(c))'
  BY <1>12, <1>14, <1>22
<1>26. (\A j, k \in DOMAIN walk.stack : Within(walk.stack[j], walk.stack[k]) => j = k)'
  BY <1>12, <1>13 DEF Within
<1>27. /\ walk'.complete \in BOOLEAN
  BY <1>12, Zenon
<1>28. walk'.bytes = SizeOf(walk'.counted)
  BY <1>12, <1>16, Zenon
<1>29. walk'.budget \in Nat /\ walk'.budget + Cardinality(walk'.counted) = WalkBudget
  <2>1. walk'.budget = walk.budget - 1 /\ Cardinality(walk'.counted) = Cardinality(walk.counted) + 1
    BY <1>12, <1>17, Zenon
  <2> QED BY <1>1, <1>4, <1>17, <2>1
<1>30. walk'.entry \in disk'.present /\ walk'.counted \in SUBSET all /\ walk'.stack \in Seq(all)
  <2> HIDE DEF all
  <2> QED BY <1>4, <1>5, <1>10, <1>12, <1>19
<1>31. walk' = [entry |-> walk'.entry, stack |-> walk'.stack, bytes |-> walk'.bytes, complete |-> walk'.complete,
                budget |-> walk'.budget, counted |-> walk'.counted]
  BY <1>12
<1> HIDE DEF all, C, open
<1>32. WalkInv'
  BY <1>19, <1>20, <1>23, <1>24, <1>25, <1>26, <1>27, <1>28, <1>29, <1>30, <1>31 DEF WalkInv
<1> QED BY <1>1, <1>18, <1>32

-----------------------------------------------------------------------------
(* Together: the inductive invariant of a footprint.                       *)
FootInv == GoneInv /\ PlanInv /\ WalkInv /\ SizesAreHonest

(* A node of the scan says the truth about the entry it was made from.     *)
LEMMA NodeIsHonest ==
  ASSUME WholeInv, GoneInv, Done, NEW i \in Ids(Tree), NEW path \in PathRow, path.entry = origin[i],
         path.bytes = Tree.nodes[i].total, path.complete = SubtreeIsComplete(Tree, i), path.source = "Scan"
  PROVE  Honest(path)
<1>1. SinkInv /\ SinkHistory /\ SinkDevices /\ disk \in Disks
  BY DEF WholeInv, GoneInv
<1>2. path.bytes <= SizeOf(Inside(path.entry))
  BY <1>1, TotalsAreInside
<1>3. path.complete <=> Inside(path.entry) \subseteq Read
  BY <1>1, CompleteIsRead
<1>4. path.source # "Filesystem" /\ path.source # "Unavailable"
  OBVIOUS
<1> HIDE DEF PathRow
<1> QED BY <1>2, <1>3, <1>4 DEF Honest

(* A path the tree knows needs no walk.                                    *)
LEMMA ScanSettles ==
  ASSUME WholeInv, FootInv, TakeFromScan PROVE FootInv'
<1> DEFINE id == NodeAt(Tree, Trail(CurrentEntry))
           bytes == KnownToScan.bytes
           complete == KnownToScan.complete
<1>1. /\ Measuring /\ Idle /\ bytes # Unknown /\ UNCHANGED sinkVars /\ walk' = walk /\ gone' = gone /\ missed' = missed
      /\ Measured(bytes, complete, "Scan")
  BY DEF TakeFromScan
<1>2. SinkInv /\ SinkHistory /\ SinkDevices /\ GoneInv /\ PlanInv /\ WalkInv /\ SizesAreHonest
  BY DEF WholeInv, FootInv
<1>3. CurrentEntry \in Entries /\ Measuring
  BY <1>1, <1>2, CurrentIs
<1>4. footprint.node # NoNode /\ KnownToScan = SizeFromTree(Tree, Trail(CurrentEntry))
  <2>1. footprint.node = NoNode => bytes = Unknown
    BY DEF KnownToScan
  <2> QED BY <1>1, <2>1 DEF KnownToScan
<1>5. Done
  BY <1>2, <1>3, <1>4 DEF PlanInv, Measuring
<1>6. id # NoNode /\ bytes = Tree.nodes[id].total /\ complete = SubtreeIsComplete(Tree, id)
  <2>1. SizeFromTree(Tree, Trail(CurrentEntry)) =
          IF id = NoNode THEN [bytes |-> Unknown, complete |-> FALSE]
          ELSE [bytes |-> Tree.nodes[id].total, complete |-> SubtreeIsComplete(Tree, id)]
    BY DEF SizeFromTree
  <2> HIDE DEF id
  <2>2. id # NoNode
    BY <1>1, <1>4, <2>1
  <2> QED BY <1>4, <2>1, <2>2
<1>7. id \in Ids(Tree) /\ PathOf(Tree, id) = Trail(CurrentEntry)
  <2> DEFINE V == DOMAIN NameRank
             path == Trail(CurrentEntry)
             t == Tree
  <2>1. IsTree(t) /\ t.root_path \in Seq(V) /\ (\A i \in Ids(t) : t.nodes[i].name \in V) /\ path \in Seq(V) /\ Ids(t) = 1..Len(t.nodes)
    BY <1>2, <1>3, TreeFacts, TrailRec
  <2>2. Root \in Ids(t)
    BY <1>2, <1>5, TreeFacts DEF SinkInv, SinkShape, Done, Root
  <2>3. NodeAt(t, path) # NoNode
    BY <1>6
  <2> HIDE DEF V, path, t
  <2>4. NodeAt(t, path) \in Ids(t) /\ PathOf(t, NodeAt(t, path)) = path
    BY <2>1, <2>2, <2>3, NodeAtIs
  <2> QED BY <2>4 DEF t, path
<1> HIDE DEF id
<1>8. origin[id] = CurrentEntry
  <2>1. PathOf(Tree, id) = Trail(origin[id]) /\ origin[id] \in Entries
    BY <1>2, <1>5, <1>7, PathsName, TreeFacts DEF PathsNameTheirEntry
  <2> QED BY <1>3, <1>7, <2>1, TrailsName
<1>9. bytes \in Nat /\ complete \in BOOLEAN
  <2>1. bytes \in Nat
    BY <1>2, <1>5, <1>6, <1>7, TotalsAreInside
  <2>2. complete \in BOOLEAN
    BY <1>6 DEF SubtreeIsComplete
  <2> QED BY <2>1, <2>2
<1> HIDE DEF bytes, complete
<1>10. ASSUME NEW path \in PathRow, path.entry = CurrentEntry, path.bytes = bytes, path.complete = complete, path.source = "Scan"
       PROVE  Honest(path)
  BY <1>2, <1>5, <1>6, <1>7, <1>8, <1>10, NodeIsHonest
<1>11. PlanInv' /\ SizesAreHonest' /\ footprint'.phase # "none"
  <2>1. bytes \in Nat \cup {Unknown} /\ "Scan" \in {"Scan", "Filesystem", "Unavailable"} /\ (bytes = Unknown <=> "Scan" = "Unavailable")
    BY <1>1, <1>9
  <2> HIDE DEF PathRow
  <2> QED BY <1>1, <1>2, <1>9, <1>10, <2>1, MeasuredHonestly
<1>12. GoneInv'
  BY <1>1, <1>2, <1>11, SinkSame DEF GoneInv
<1>13. WalkInv'
  BY <1>1, <1>2, NoWalkIs DEF WalkInv
<1> QED BY <1>11, <1>12, <1>13 DEF FootInv

(* Nor does one that is not there.                                         *)
LEMMA MissingSettles ==
  ASSUME WholeInv, FootInv, BeginWalk, ~Exists(CurrentEntry) PROVE FootInv'
<1>1. /\ Measuring /\ Idle /\ UNCHANGED sinkVars /\ walk' = walk /\ gone' = gone /\ missed' = missed
      /\ Measured(0, TRUE, "Filesystem")
  BY DEF BeginWalk
<1>2. SinkInv /\ GoneInv /\ PlanInv /\ WalkInv /\ SizesAreHonest /\ disk \in Disks
  BY DEF WholeInv, FootInv, GoneInv
<1>3. CurrentEntry \in Entries
  BY <1>1, <1>2, CurrentIs
<1> DEFINE all == Inside(CurrentEntry)
<1>4. \A f \in all : f \in Lost
  <2> SUFFICES ASSUME NEW f \in all PROVE f \in Lost
    OBVIOUS
  <2>1. f \in disk.present /\ f \in Entries /\ Within(CurrentEntry, f)
    BY <1>2, InsideIs
  <2>2. CurrentEntry \in disk.present
    BY <1>2, <1>3, <2>1, PresentAbove
  <2>3. CurrentEntry \in gone
    BY <2>2 DEF Exists
  <2> QED BY <1>2, <2>3, InsideIs
<1>5. all \ Lost = {} /\ SizeOf({}) = 0 /\ SizeOf(all) \in Nat
  <2>1. all \in SUBSET Entries /\ {} \in SUBSET Entries
    BY <1>2, InsideIs
  <2>2. SizeOf(all) \in Nat /\ SizeOf({}) = SumOver(SizeW, {})
    <3> HIDE DEF all
    <3> QED BY <2>1, SizeOfIs
  <2> QED BY <1>4, <2>2, SumNone
<1>6. SizeOf(all \ Lost) = 0
  BY <1>5, Zenon
<1>7. ASSUME NEW path \in PathRow, path.entry = CurrentEntry, path.bytes = 0, path.complete = TRUE, path.source = "Filesystem"
      PROVE  Honest(path)
  <2> HIDE DEF PathRow
  <2>1. SizeOf(Inside(path.entry)) \in Nat /\ SizeOf(Inside(path.entry) \ Lost) = 0
    BY <1>5, <1>6, <1>7, Zenon
  <2>2. path.complete /\ path.bytes = 0
    BY <1>7, Zenon
  <2>3. path.bytes <= SizeOf(Inside(path.entry)) /\ path.bytes >= SizeOf(Inside(path.entry) \ Lost)
    BY <2>1, <2>2
  <2>4. path.source # "Scan" /\ path.source # "Unavailable"
    BY <1>7
  <2> QED BY <2>2, <2>3, <2>4 DEF Honest
<1>8. PlanInv' /\ SizesAreHonest' /\ footprint'.phase # "none"
  <2>1. 0 \in Nat \cup {Unknown} /\ TRUE \in BOOLEAN /\ "Filesystem" \in {"Scan", "Filesystem", "Unavailable"}
        /\ (0 = Unknown <=> "Filesystem" = "Unavailable")
    BY DEF Unknown
  <2> HIDE DEF PathRow
  <2> QED BY <1>1, <1>2, <1>7, <2>1, MeasuredHonestly
<1>9. GoneInv'
  BY <1>1, <1>2, <1>8, SinkSame DEF GoneInv
<1>10. WalkInv'
  BY <1>1, <1>2, NoWalkIs DEF WalkInv
<1> QED BY <1>8, <1>9, <1>10 DEF FootInv

(* A walk that runs out of budget counted as many entries as it may, and   *)
(* there is one more.                                                      *)
LEMMA ExhaustedSettles ==
  ASSUME WholeInv, FootInv, Exhausted PROVE FootInv'
<1>1. /\ ~Idle /\ walk.stack # <<>> /\ walk.budget = 0 /\ UNCHANGED sinkVars /\ walk' = NoWalk /\ gone' = gone /\ missed' = missed
      /\ Measured(Unknown, FALSE, "Unavailable")
  BY DEF Exhausted
<1>2. SinkInv /\ GoneInv /\ PlanInv /\ WalkInv /\ SizesAreHonest
  BY DEF WholeInv, FootInv
<1>3. /\ Measuring /\ walk.entry = CurrentEntry /\ Top \in Inside(CurrentEntry) /\ Top \notin walk.counted
      /\ IsFiniteSet(walk.counted)
  BY <1>1, <1>2, TopIs
<1>4. walk.counted \in SUBSET Inside(CurrentEntry) /\ Cardinality(walk.counted) = WalkBudget
  <2>1. walk.counted \in SUBSET Inside(CurrentEntry) /\ walk.budget + Cardinality(walk.counted) = WalkBudget
    BY <1>1, <1>2, <1>3 DEF WalkInv
  <2>2. Cardinality(walk.counted) \in Nat
    BY <1>3, FS_CardinalityType
  <2> QED BY <1>1, <2>1, <2>2
<1> DEFINE all == Inside(CurrentEntry)
           some == walk.counted \cup {Top}
<1>5. Cardinality(all) > WalkBudget
  <2>1. IsFiniteSet(all) /\ some \in SUBSET all
    BY <1>2, <1>3, <1>4, InsideIs
  <2>2. Cardinality(some) = Cardinality(walk.counted) + 1
    BY <1>3, FS_AddElement
  <2> HIDE DEF all, some
  <2>3. Cardinality(some) <= Cardinality(all) /\ Cardinality(all) \in Nat
    BY <2>1, FS_Subset, FS_CardinalityType
  <2>4. WalkBudget \in Nat
    BY FootprintAssumption
  <2> QED BY <1>4, <2>2, <2>3, <2>4
<1>6. SizeOf(all) \in Nat
  <2>1. all \in SUBSET Entries
    BY <1>2, InsideIs
  <2> HIDE DEF all
  <2> QED BY <2>1, SizeOfIs
<1>7. ASSUME NEW path \in PathRow, path.entry = CurrentEntry, path.bytes = Unknown, path.complete = FALSE, path.source = "Unavailable"
      PROVE  Honest(path)
  <2> HIDE DEF PathRow
  <2>1. SizeOf(Inside(path.entry)) \in Nat /\ Cardinality(Inside(path.entry)) > WalkBudget
    BY <1>5, <1>6, <1>7
  <2>2. path.bytes <= SizeOf(Inside(path.entry))
    BY <1>7, <2>1 DEF Unknown
  <2>3. path.source # "Scan" /\ path.source # "Filesystem"
    BY <1>7
  <2> QED BY <1>7, <2>1, <2>2, <2>3 DEF Honest
<1>8. PlanInv' /\ SizesAreHonest' /\ footprint'.phase # "none"
  <2> DEFINE b == Unknown
             c == FALSE
             s == "Unavailable"
  <2>1. b \in Nat \cup {Unknown} /\ c \in BOOLEAN /\ s \in {"Scan", "Filesystem", "Unavailable"}
        /\ (b = Unknown <=> s = "Unavailable")
    OBVIOUS
  <2>2. Measured(b, c, s)
    BY <1>1
  <2> HIDE DEF PathRow
  <2>3. \A path \in PathRow : path.entry = CurrentEntry /\ path.bytes = b /\ path.complete = c /\ path.source = s
                          => Honest(path)
    BY <1>7
  <2> HIDE DEF b, c, s
  <2> QED BY <1>1, <1>2, <1>3, <2>1, <2>2, <2>3, MeasuredHonestly
<1>9. GoneInv'
  BY <1>1, <1>2, <1>8, SinkSame DEF GoneInv
<1>10. WalkInv'
  BY <1>1, NoWalkIs
<1> QED BY <1>8, <1>9, <1>10 DEF FootInv

(* One that comes to its end counted all that was neither lost nor named   *)
(* as a reason.                                                            *)
LEMMA EndSettles ==
  ASSUME WholeInv, FootInv, EndWalk PROVE FootInv'
<1>1. /\ ~Idle /\ walk.stack = <<>> /\ UNCHANGED sinkVars /\ walk' = NoWalk /\ gone' = gone /\ missed' = missed
      /\ Measured(walk.bytes, walk.complete, "Filesystem")
  BY DEF EndWalk
<1>2. SinkInv /\ GoneInv /\ PlanInv /\ WalkInv /\ SizesAreHonest
  BY DEF WholeInv, FootInv
<1> DEFINE all == Inside(CurrentEntry)
           counted == walk.counted
<1>3. /\ Measuring /\ counted \in SUBSET all /\ walk.complete \in BOOLEAN /\ walk.bytes = SizeOf(counted)
      /\ walk.complete => \A f \in all : f \in Lost \/ f \in counted
      /\ ~walk.complete => all \cap (disk.locked \cup gone) # {}
  <2>1. \A f : ~Ahead(f)
    BY <1>1 DEF Ahead
  <2> QED BY <1>1, <1>2, <2>1 DEF WalkInv
<1>4. all \in SUBSET Entries
  BY <1>2, InsideIs
<1> HIDE DEF all, counted
<1>5. SizeOf(counted) \in Nat /\ SizeOf(all) \in Nat /\ SizeOf(counted) <= SizeOf(all)
  <2>1. counted \in SUBSET Entries
    BY <1>3, <1>4
  <2> QED BY <1>3, <1>4, <2>1, SizeOfIs
<1>6. walk.complete => SizeOf(all \ Lost) <= SizeOf(counted) /\ SizeOf(all \ Lost) \in Nat
  <2> DEFINE rest == all \ Lost
  <2>1. walk.complete => rest \in SUBSET counted
    BY <1>3
  <2>2. counted \in SUBSET Entries /\ rest \in SUBSET Entries
    BY <1>3, <1>4
  <2> HIDE DEF rest
  <2>3. walk.complete => SizeOf(rest) <= SizeOf(counted) /\ SizeOf(rest) \in Nat
    BY <2>1, <2>2, SizeOfIs
  <2> QED BY <2>3 DEF rest
<1>7. ASSUME NEW path \in PathRow, path.entry = CurrentEntry, path.bytes = walk.bytes, path.complete = walk.complete,
             path.source = "Filesystem"
      PROVE  Honest(path)
  <2> HIDE DEF PathRow
  <2>1. Inside(path.entry) = all /\ path.bytes = SizeOf(counted)
    BY <1>3, <1>7 DEF all
  <2>2. path.bytes <= SizeOf(Inside(path.entry))
    BY <1>5, <2>1
  <2>3. path.complete => path.bytes >= SizeOf(Inside(path.entry) \ Lost)
    BY <1>5, <1>6, <1>7, <2>1
  <2>4. ~path.complete => Inside(path.entry) \cap (disk.locked \cup gone) # {}
    BY <1>3, <1>7, <2>1
  <2>5. path.source # "Scan" /\ path.source # "Unavailable"
    BY <1>7
  <2> QED BY <2>2, <2>3, <2>4, <2>5 DEF Honest
<1>8. PlanInv' /\ SizesAreHonest' /\ footprint'.phase # "none"
  <2>1. walk.bytes \in Nat \cup {Unknown} /\ "Filesystem" \in {"Scan", "Filesystem", "Unavailable"}
        /\ (walk.bytes = Unknown <=> "Filesystem" = "Unavailable")
    BY <1>3, <1>5 DEF Unknown
  <2> HIDE DEF PathRow
  <2> QED BY <1>1, <1>2, <1>3, <1>7, <2>1, MeasuredHonestly
<1>9. GoneInv'
  BY <1>1, <1>2, <1>8, SinkSame DEF GoneInv
<1>10. WalkInv'
  BY <1>1, NoWalkIs
<1> QED BY <1>8, <1>9, <1>10 DEF FootInv

(* What the plan lists is what exists, if nothing is gone yet.             *)
LEMMA PlanLists ==
  ASSUME gone = {}, disk' = disk, NEW b, footprint'.bundle = b
  PROVE  Planning' = {0} \cup Paths(b) /\ 0 \notin Paths(b)
<1>1. \A e : Exists(e) <=> e \in disk.present
  BY DEF Exists
<1>2. KnownThen' = KnownPaths(b)
  BY <1>1 DEF KnownThen, KnownPaths
<1>3. RelatedThen' = RelatedPaths(b)
  BY <1>1, <1>2 DEF RelatedThen, RelatedPaths
<1>4. Planning' = {0} \cup Paths(b)
  BY <1>2, <1>3 DEF Planning, Paths
<1>5. 0 \notin Paths(b)
  <2>1. Len(Locations) \in Nat /\ DOMAIN Locations = 1..Len(Locations)
    BY SpotsAre
  <2>2. 0 \notin DOMAIN Locations /\ ~(0 > Len(Locations))
    BY <2>1
  <2> QED BY <2>2 DEF Paths, KnownPaths, RelatedPaths
<1> QED BY <1>4, <1>5

(* A plan begins with nothing measured but the bundle, if the scan did.    *)
LEMMA PlanStarts ==
  ASSUME WholeInv, FootInv, footprint.phase = "none", NEW id, NEW b \in Inspected,
         NEW pending, NEW measured, NEW known \in SUBSET {0},
         footprint' = Planned(id, b, pending, measured), pending = ({0} \ known) \cup Paths(b), DOMAIN measured = known,
         id # NoNode => Done,
         \A k \in known : measured[k] \in PathRow, \A k \in known : Honest(measured[k]),
         \A k \in known : measured[k].label = LabelAt(k), \A k \in known : measured[k].entry = EntryAt(b, k),
         \A k \in known : measured[k].source = "Scan" /\ measured[k].bytes # Unknown,
         UNCHANGED <<sinkVars, walk, gone, missed>>
  PROVE  FootInv'
<1>1. SinkInv /\ GoneInv /\ PlanInv /\ WalkInv /\ SizesAreHonest
  BY DEF WholeInv, FootInv
<1>2. disk' = disk /\ Done' = Done /\ gone' = gone /\ missed' = missed /\ walk' = walk
  BY SinkSame
<1>3. gone = {} /\ missed = {}
  BY <1>1 DEF GoneInv
<1>4. /\ footprint' = [phase |-> "measuring", node |-> id, bundle |-> b, pending |-> pending, measured |-> measured]
      /\ footprint'.phase = "measuring" /\ footprint'.node = id /\ footprint'.bundle = b
      /\ footprint'.pending = pending /\ footprint'.measured = measured
  BY DEF Planned
<1>5. Planning' = {0} \cup Paths(b) /\ 0 \notin Paths(b)
  <2>1. gone = {} /\ disk' = disk /\ footprint'.bundle = b
    BY <1>2, <1>3, <1>4
  <2> QED BY ONLY <2>1, PlanLists
<1>6. ASSUME NEW k \in (DOMAIN footprint.measured)' PROVE RowIs(footprint.measured[k], k)'
  <2> HIDE DEF PathRow
  <2>1. k \in known /\ footprint'.measured[k] = measured[k]
    BY <1>4
  <2> PICK p : p = measured[k]
    OBVIOUS
  <2>2. p \in PathRow /\ p.label = LabelAt(k) /\ p.entry = EntryAt(b, k)
    BY <2>1
  <2>3. (p.bytes = Unknown) <=> (p.source = "Unavailable")
    BY <2>1
  <2>4. p.entry = EntryAt(footprint'.bundle, k)
    BY <1>4, <2>2
  <2>5. footprint'.measured[k] = p
    BY <2>1
  <2>6. PathRow' = PathRow
    BY DEF PathRow
  <2> QED BY <2>2, <2>3, <2>4, <2>5, <2>6, Zenon DEF RowIs
<1>7. PlanInv'
  <2>1. pending \cup known = Planning' /\ pending \cap known = {}
    BY <1>5
  <2>2. (\A k \in DOMAIN footprint.measured : RowIs(footprint.measured[k], k))'
    <3> HIDE DEF RowIs
    <3> QED BY <1>6, Zenon
  <2> HIDE DEF Planning, RowIs
  <2> QED BY <1>2, <1>4, <2>1, <2>2 DEF PlanInv
<1>8. SizesAreHonest'
  <2>1. ASSUME NEW k \in (DOMAIN footprint.measured)' PROVE Honest(footprint.measured[k])'
    <3>1. k \in known /\ footprint'.measured[k] = measured[k]
      BY <1>4
    <3>2. PICK p \in PathRow : p = footprint'.measured[k] /\ Honest(p)
      <4> HIDE DEF PathRow, Honest
      <4> QED BY <3>1
    <3>3. Honest(p)'
      <4> HIDE DEF PathRow, Honest
      <4> QED BY <1>1, <1>2, <3>2, HonestStays
    <3> QED BY <3>2, <3>3, Zenon DEF Honest, Inside
  <2>2. (\A k \in DOMAIN footprint.measured : Honest(footprint.measured[k]))'
    <3> HIDE DEF Honest
    <3> QED BY <2>1, Zenon
  <2> QED BY <2>2, HonestIs, PTL
<1>9. GoneInv'
  BY <1>1, <1>2, <1>4 DEF GoneInv
<1>10. WalkInv'
  <2>1. walk = NoWalk
    BY <1>1 DEF WalkInv, Measuring
  <2> QED BY <1>2, <2>1, NoWalkIs
<1> QED BY <1>7, <1>8, <1>9, <1>10 DEF FootInv

(* A row of the scan.                                                      *)
LEMMA PlanFromScan ==
  ASSUME WholeInv, FootInv, NEW id, Plan(id) PROVE FootInv'
<1> DEFINE b == origin[id]
           size == [bytes |-> Tree.nodes[id].total, complete |-> SubtreeIsComplete(Tree, id)]
           row == FootprintPath(0, b, size, "Scan")
           measured == [k \in {0} |-> FootprintPath(k, b, size, "Scan")]
           pending == Paths(b)
<1>1. /\ Done /\ footprint.phase = "none" /\ id \in Ids(Tree) /\ b \in Inspected
      /\ footprint' = Planned(id, b, pending, measured) /\ UNCHANGED <<sinkVars, walk, gone, missed>>
  BY Zenon DEF Plan
<1>2. SinkInv /\ SinkHistory /\ SinkDevices /\ GoneInv
  BY DEF WholeInv, FootInv
<1>3. b \in Entries /\ EntryAt(b, 0) = b
  BY <1>1, FootprintAssumption DEF EntryAt
<1>4. Tree.nodes[id].total \in Nat
  BY <1>1, <1>2, TotalsAreInside
<1>5. row \in PathRow /\ row.entry = b /\ row.bytes = Tree.nodes[id].total /\ row.complete = SubtreeIsComplete(Tree, id)
      /\ row.source = "Scan" /\ row.label = LabelAt(0)
  <2> DEFINE n == Tree.nodes[id].total
             c == SubtreeIsComplete(Tree, id)
  <2>1. row = [label |-> LabelAt(0), entry |-> b, bytes |-> n, complete |-> c, source |-> "Scan"]
    BY <1>3 DEF FootprintPath
  <2>2. n \in Nat /\ c \in BOOLEAN /\ LabelAt(0) \in {LabelAt(k) : k \in Spots}
    BY <1>4, SpotsAre DEF SubtreeIsComplete
  <2> HIDE DEF n, c, b, row
  <2>3. row.entry = b /\ row.bytes = n /\ row.source = "Scan" /\ row.label = LabelAt(0)
    BY <2>1
  <2>4. row.complete = c
    BY <2>1
  <2>5. row \in PathRow
    BY <1>3, <2>1, <2>2 DEF PathRow
  <2> QED BY <2>3, <2>4, <2>5 DEF n, c
<1>6. measured[0] = row /\ DOMAIN measured = {0}
  BY DEF measured
<1> HIDE DEF b, row, measured, pending, size
<1>7. Honest(row)
  <2> HIDE DEF PathRow
  <2> QED BY <1>1, <1>2, <1>5, NodeIsHonest DEF b
<1>8. row.bytes # Unknown
  BY <1>4, <1>5 DEF Unknown
<1> DEFINE known == {0}
<1>9. /\ known \in SUBSET {0} /\ pending = ({0} \ known) \cup Paths(b) /\ DOMAIN measured = known /\ (id # NoNode => Done)
      /\ \A k \in known : measured[k] \in PathRow
      /\ \A k \in known : Honest(measured[k])
      /\ \A k \in known : measured[k].label = LabelAt(k)
      /\ \A k \in known : measured[k].entry = EntryAt(b, k)
      /\ \A k \in known : measured[k].source = "Scan" /\ measured[k].bytes # Unknown
  <2> HIDE DEF PathRow, Honest
  <2> QED BY <1>1, <1>3, <1>5, <1>6, <1>7, <1>8 DEF pending
<1> HIDE DEF known, PathRow, Honest
<1>10. PICK bundle, rows, left : bundle = b /\ rows = measured /\ left = pending
  OBVIOUS
<1>11. /\ footprint.phase = "none" /\ bundle \in Inspected /\ footprint' = Planned(id, bundle, left, rows)
       /\ left = ({0} \ known) \cup Paths(bundle)
       /\ UNCHANGED <<sinkVars, walk, gone, missed>>
  BY <1>1, <1>9, <1>10
<1>12. /\ known \in SUBSET {0} /\ DOMAIN rows = known /\ (id # NoNode => Done)
       /\ \A k \in known : rows[k] \in PathRow
       /\ \A k \in known : Honest(rows[k])
       /\ \A k \in known : rows[k].label = LabelAt(k)
       /\ \A k \in known : rows[k].entry = EntryAt(bundle, k)
       /\ \A k \in known : rows[k].source = "Scan" /\ rows[k].bytes # Unknown
  BY <1>9, <1>10
<1> QED BY <1>11, <1>12, PlanStarts

(* A bundle no scan has seen.                                              *)
LEMMA PlanWithoutScan ==
  ASSUME WholeInv, FootInv, NEW e \in Inspected, PlanInstalled(e) PROVE FootInv'
<1> DEFINE known == {}
           measured == <<>>
           pending == {0} \cup Paths(e)
           id == NoNode
<1>1. footprint.phase = "none" /\ footprint' = Planned(id, e, pending, measured) /\ UNCHANGED <<sinkVars, walk, gone, missed>>
  BY DEF PlanInstalled
<1>2. known \in SUBSET {0} /\ pending = ({0} \ known) \cup Paths(e) /\ DOMAIN measured = known /\ (id # NoNode => Done)
  OBVIOUS
<1>3. /\ \A k \in known : measured[k] \in PathRow
      /\ \A k \in known : Honest(measured[k])
      /\ \A k \in known : measured[k].label = LabelAt(k)
      /\ \A k \in known : measured[k].entry = EntryAt(e, k)
      /\ \A k \in known : measured[k].source = "Scan" /\ measured[k].bytes # Unknown
  OBVIOUS
<1> HIDE DEF known, measured, pending, id, PathRow, Honest
<1> QED BY <1>1, <1>2, <1>3, PlanStarts

(* Sizes stay true while the disk loses entries.                           *)
LEMMA SizesStay ==
  ASSUME SinkInv, PlanInv, SizesAreHonest, UNCHANGED sinkVars, gone \subseteq gone', missed \subseteq missed',
         footprint'.measured = footprint.measured
  PROVE  SizesAreHonest'
<1>1. ASSUME NEW k \in (DOMAIN footprint.measured)' PROVE Honest(footprint.measured[k])'
  <2>1. k \in DOMAIN footprint.measured /\ footprint.phase # "none"
    <3>1. DOMAIN NoFootprint.measured = {}
      BY DEF NoFootprint
    <3> QED BY <1>1, <3>1 DEF PlanInv
  <2>2. footprint.measured[k] \in PathRow
    <3> HIDE DEF PathRow
    <3> QED BY <2>1 DEF PlanInv, RowIs
  <2> HIDE DEF PathRow, Honest
  <2>3. PICK p \in PathRow : p = footprint'.measured[k] /\ Honest(p)
    BY <2>1, <2>2, HonestIs
  <2>4. Honest(p)'
    BY <2>3, HonestStays
  <2> QED BY <2>3, <2>4, Zenon DEF Honest, Inside
<1>2. (\A k \in DOMAIN footprint.measured : Honest(footprint.measured[k]))'
  <2> HIDE DEF Honest
  <2> QED BY <1>1, Zenon
<1> QED BY <1>2, HonestIs, PTL

(* The steps that measure nothing.                                         *)
LEMMA WalkSettles ==
  ASSUME WholeInv, FootInv, footprint.phase # "none", UNCHANGED <<sinkVars, footprint>>,
         gone \subseteq gone', missed \subseteq missed', gone' \in SUBSET disk.present, missed' \in SUBSET disk.present, WalkInv'
  PROVE  FootInv'
<1>1. SinkInv /\ GoneInv /\ PlanInv /\ SizesAreHonest
  BY DEF WholeInv, FootInv
<1>2. disk' = disk /\ Done' = Done /\ footprint' = footprint
  BY SinkSame
<1>3. SizesAreHonest'
  BY <1>1, <1>2, SizesStay
<1>4. PlanInv'
  <2>1. Planning' = Planning /\ \A path, k : RowIs(path, k)' <=> RowIs(path, k)
    BY <1>2, PlanningSame
  <2>2. (\A k \in DOMAIN footprint.measured : RowIs(footprint.measured[k], k))'
            <=> \A k \in DOMAIN footprint.measured : RowIs(footprint.measured[k], k)
    <3> HIDE DEF Planning
    <3> QED BY <1>2, Zenon DEF RowIs, PathRow
  <2> HIDE DEF Planning, RowIs
  <2> QED BY <1>1, <1>2, <2>1, <2>2 DEF PlanInv
<1>5. GoneInv'
  BY <1>1, <1>2 DEF GoneInv
<1> QED BY <1>3, <1>4, <1>5 DEF FootInv

(* A walk goes on from where it was, whatever is lost meanwhile.           *)
LEMMA WalkStays ==
  ASSUME WalkInv, UNCHANGED <<sinkVars, footprint, walk>>, gone \subseteq gone', missed \subseteq missed'
  PROVE  WalkInv'
<1>2. UNCHANGED sinkVars /\ footprint' = footprint /\ walk' = walk
  OBVIOUS
<1>3. WalkInv
  OBVIOUS
<1>5. disk' = disk /\ \A x : Inside(x)' = Inside(x)
  BY <1>2, SinkSame
<1>6. \A f : f \in Lost => f \in Lost'
  BY <1>5 DEF Lost
<1>7. /\ Idle' = Idle /\ Measuring' = Measuring /\ CurrentEntry' = CurrentEntry
      /\ \A f : Ahead(f)' <=> Ahead(f)
  <2>1. Idle' = Idle /\ Measuring' = Measuring /\ Current' = Current
    BY <1>2 DEF Idle, Measuring, Current
  <2>2. CurrentEntry' = CurrentEntry
    BY <1>2, <2>1 DEF CurrentEntry
  <2>3. \A f : Ahead(f)' <=> Ahead(f)
    BY <1>2 DEF Ahead
  <2> QED BY <2>1, <2>2, <2>3
<1>8. WalkInv'
  <2>1. CASE Idle
    <3>1. walk' = NoWalk
      BY <1>2, <1>3, <2>1 DEF WalkInv
    <3> QED BY <3>1, NoWalkIs
  <2>2. CASE ~Idle
    <3> DEFINE all == Inside(walk.entry)
    <3>1. Inside(walk.entry)' = all
      BY <1>2, <1>5, Zenon DEF Inside
    <3>2. /\ Measuring' /\ ~Idle' /\ walk'.entry = CurrentEntry' /\ walk'.entry \in disk'.present
          /\ walk'.stack \in Seq(all) /\ walk'.counted \in SUBSET all /\ walk'.complete \in BOOLEAN
      BY <1>2, <1>3, <1>5, <1>7, <2>2 DEF WalkInv
    <3>3. /\ (\A j, k \in DOMAIN walk.stack : Within(walk.stack[j], walk.stack[k]) => j = k)'
          /\ (\A c \in walk.counted : ~Ahead(c))'
          /\ walk'.bytes = SizeOf(walk'.counted)
          /\ walk'.budget \in Nat /\ walk'.budget + Cardinality(walk'.counted) = WalkBudget
      <4>1. /\ \A j, k \in DOMAIN walk.stack : Within(walk.stack[j], walk.stack[k]) => j = k
            /\ \A c \in walk.counted : ~Ahead(c)
            /\ walk.bytes = SizeOf(walk.counted)
            /\ walk.budget \in Nat /\ walk.budget + Cardinality(walk.counted) = WalkBudget
        BY <1>3, <2>2 DEF WalkInv
      <4>2. walk'.bytes = SizeOf(walk'.counted) /\ walk'.budget \in Nat /\ walk'.budget + Cardinality(walk'.counted) = WalkBudget
        BY <1>2, <4>1, Zenon
      <4>3. (\A c \in walk.counted : ~Ahead(c))'
        BY <1>2, <4>1 DEF Ahead
      <4>4. (\A j, k \in DOMAIN walk.stack : Within(walk.stack[j], walk.stack[k]) => j = k)'
        BY <1>2, <4>1 DEF Within
      <4> QED BY <4>2, <4>3, <4>4
    <3>4. walk'.complete => (\A f \in Inside(walk.entry) : f \in Lost \/ f \in walk.counted \/ Ahead(f))'
      <4>1. walk.complete => \A f \in all : f \in Lost \/ f \in walk.counted \/ Ahead(f)
        BY <1>3, <2>2 DEF WalkInv
      <4> HIDE DEF all
      <4>2. walk'.complete => \A f \in all : f \in Lost' \/ f \in walk'.counted \/ Ahead(f)'
        <5> HIDE DEF Lost, Ahead
        <5> QED BY <1>2, <1>6, <1>7, <4>1
      <4> QED BY <3>1, <4>2, Zenon DEF Lost, Ahead
    <3>5. ~walk'.complete => all \cap (disk'.locked \cup gone') # {}
      <4>1. ~walk.complete => all \cap (disk.locked \cup gone) # {}
        BY <1>3, <2>2 DEF WalkInv
      <4> HIDE DEF all
      <4> QED BY <1>2, <1>5, <4>1
    <3>6. walk' = [entry |-> walk'.entry, stack |-> walk'.stack, bytes |-> walk'.bytes, complete |-> walk'.complete,
             budget |-> walk'.budget, counted |-> walk'.counted]
      BY <1>2, <1>3 DEF WalkInv
    <3> HIDE DEF all, Lost, Ahead, Within
    <3> QED BY <3>1, <3>2, <3>3, <3>4, <3>5, <3>6 DEF WalkInv
  <2> QED BY <2>1, <2>2
<1> QED BY <1>8

(* What other programs remove, a walk under way may have lost.             *)
LEMMA ChangeSettles ==
  ASSUME WholeInv, FootInv, Change PROVE FootInv'
<1>1. PICK e \in disk.present \ gone : gone' = gone \cup {e}
  BY DEF Change
<1>2. /\ footprint.phase # "none" /\ UNCHANGED <<sinkVars, footprint>> /\ walk' = walk /\ missed' = missed
  BY DEF Change
<1>3. GoneInv /\ WalkInv
  BY DEF FootInv
<1>4. gone \subseteq gone' /\ missed \subseteq missed' /\ gone' \in SUBSET disk.present /\ missed' \in SUBSET disk.present
  BY <1>1, <1>2, <1>3 DEF GoneInv
<1>5. WalkInv'
  BY <1>2, <1>3, <1>4, WalkStays
<1> QED BY <1>2, <1>4, <1>5, WalkSettles

(* The answer is given when nothing is left to measure.                    *)
LEMMA ResolveSettles ==
  ASSUME WholeInv, FootInv, Resolve PROVE FootInv'
<1>1. /\ footprint.phase = "measuring" /\ footprint.pending = {} /\ UNCHANGED <<sinkVars, walk, gone, missed>>
      /\ footprint' = [footprint EXCEPT !.phase = "answered"]
  BY DEF Resolve
<1>2. SinkInv /\ GoneInv /\ PlanInv /\ WalkInv /\ SizesAreHonest
  BY DEF WholeInv, FootInv
<1>3. disk' = disk /\ Done' = Done /\ walk' = walk /\ gone' = gone /\ missed' = missed
  BY <1>1, SinkSame
<1>4. /\ footprint' = [phase |-> "answered", node |-> footprint.node, bundle |-> footprint.bundle,
                       pending |-> footprint.pending, measured |-> footprint.measured]
      /\ footprint'.phase = "answered" /\ footprint'.node = footprint.node /\ footprint'.bundle = footprint.bundle
      /\ footprint'.pending = footprint.pending /\ footprint'.measured = footprint.measured
  BY <1>1, <1>2 DEF PlanInv
<1>5. SizesAreHonest'
  BY <1>1, <1>2, <1>3, <1>4, SizesStay
<1>6. PlanInv'
  <2>1. Planning' = Planning /\ \A path, k : RowIs(path, k)' <=> RowIs(path, k)
    BY <1>3, <1>4, PlanningSame
  <2>2. (\A k \in DOMAIN footprint.measured : RowIs(footprint.measured[k], k))'
            <=> \A k \in DOMAIN footprint.measured : RowIs(footprint.measured[k], k)
    <3> HIDE DEF Planning
    <3> QED BY <1>4, Zenon DEF RowIs, PathRow
  <2> HIDE DEF Planning, RowIs
  <2> QED BY <1>1, <1>2, <1>3, <1>4, <2>1, <2>2 DEF PlanInv
<1>7. GoneInv'
  BY <1>2, <1>3, <1>4 DEF GoneInv
<1>8. WalkInv'
  <2>1. walk = NoWalk
    BY <1>1, <1>2 DEF WalkInv, Measuring
  <2> QED BY <1>3, <2>1, NoWalkIs
<1> QED BY <1>5, <1>6, <1>7, <1>8 DEF FootInv

(* Before a plan there is nothing to say.                                  *)
LEMMA NothingYet ==
  disk \in Disks /\ footprint = NoFootprint /\ walk = NoWalk /\ gone = {} /\ missed = {} => FootInv
<1> HAVE disk \in Disks /\ footprint = NoFootprint /\ walk = NoWalk /\ gone = {} /\ missed = {}
<1>1. footprint.phase = "none" /\ DOMAIN footprint.measured = {}
  BY DEF NoFootprint
<1>2. PlanInv
  BY <1>1 DEF PlanInv, NoFootprint
<1>3. GoneInv
  BY DEF GoneInv
<1>4. WalkInv
  BY DEF WalkInv, NoWalk, Idle
<1>5. SizesAreHonest
  BY <1>1 DEF SizesAreHonest
<1> QED BY <1>2, <1>3, <1>4, <1>5 DEF FootInv

(* It holds at the start.                                                  *)
LEMMA FootInitially ==
  ASSUME FootprintInit PROVE FootInv
BY NothingYet DEF FootprintInit, SinkInit

(* Every step keeps it.                                                    *)
LEMMA FootKept ==
  ASSUME WholeInv, FootInv, [FootprintNext]_allVars PROVE FootInv'
<1>1. SinkInv /\ GoneInv /\ PlanInv /\ WalkInv /\ SizesAreHonest
  BY DEF WholeInv, FootInv
<1>2. ASSUME disk' = disk, footprint.phase = "none", UNCHANGED footprintVars PROVE FootInv'
  <2>1. footprint = NoFootprint /\ walk = NoWalk /\ gone = {} /\ missed = {} /\ disk \in Disks
    BY <1>1, <1>2 DEF PlanInv, WalkInv, GoneInv, Measuring
  <2>2. (disk \in Disks /\ footprint = NoFootprint /\ walk = NoWalk /\ gone = {} /\ missed = {})'
    BY <1>2, <2>1 DEF footprintVars
  <2> QED BY <2>2, NothingYet, PTL
<1>3. CASE UNCHANGED allVars
  <2>1. UNCHANGED sinkVars /\ footprint' = footprint /\ walk' = walk /\ gone' = gone /\ missed' = missed
    BY <1>3 DEF allVars, footprintVars
  <2>2. disk' = disk
    BY <2>1, SinkSame
  <2>3. CASE footprint.phase = "none"
    BY <1>2, <2>1, <2>2, <2>3 DEF footprintVars
  <2>4. CASE footprint.phase # "none"
    <3>1. gone \subseteq gone' /\ missed \subseteq missed' /\ gone' \in SUBSET disk.present /\ missed' \in SUBSET disk.present
      BY <1>1, <2>1 DEF GoneInv
    <3>2. WalkInv'
      BY <1>1, <2>1, <3>1, WalkStays
    <3> QED BY <2>1, <2>4, <3>1, <3>2, WalkSettles
  <2> QED BY <2>3, <2>4
<1>4. CASE SinkNext /\ footprint.phase = "none" /\ UNCHANGED footprintVars
  <2>1. disk' = disk
    BY <1>4 DEF SinkNext, Begin, Header, OpenDir, TooDeep, Leaf, CloseDir, Finish, Break, Fail
  <2> QED BY <1>2, <1>4, <2>1
<1>5. ASSUME NEW id \in 1..Cardinality(Entries), Plan(id) PROVE FootInv'
  BY <1>5, PlanFromScan
<1>6. ASSUME NEW e \in Inspected, PlanInstalled(e) PROVE FootInv'
  BY <1>6, PlanWithoutScan
<1>7. CASE TakeFromScan
  BY <1>7, ScanSettles
<1>8. CASE BeginWalk
  <2>1. CASE Exists(CurrentEntry)
    <3>1. WalkInv' /\ UNCHANGED <<footprint, gone, missed>>
      BY <1>1, <1>8, <2>1, WalkBegins
    <3>2. footprint.phase # "none" /\ UNCHANGED sinkVars
      BY <1>8 DEF BeginWalk, Measuring
    <3>3. gone \subseteq gone' /\ missed \subseteq missed' /\ gone' \in SUBSET disk.present /\ missed' \in SUBSET disk.present
      BY <1>1, <3>1 DEF GoneInv
    <3> QED BY <3>1, <3>2, <3>3, WalkSettles
  <2>2. CASE ~Exists(CurrentEntry)
    BY <1>8, <2>2, MissingSettles
  <2> QED BY <2>1, <2>2
<1>9. CASE Walking
  <2>1. CASE Vanished
    <3>1. WalkInv' /\ UNCHANGED <<footprint, gone, missed>>
      BY <1>1, <2>1, WalkLoses
    <3>2. footprint.phase # "none" /\ UNCHANGED sinkVars
      BY <1>1, <2>1 DEF Vanished, WalkInv, Measuring
    <3>3. gone \subseteq gone' /\ missed \subseteq missed' /\ gone' \in SUBSET disk.present /\ missed' \in SUBSET disk.present
      BY <1>1, <3>1 DEF GoneInv
    <3> QED BY <3>1, <3>2, <3>3, WalkSettles
  <2>2. CASE Visit
    <3>1. WalkInv' /\ UNCHANGED <<footprint, gone>> /\ missed \subseteq missed' /\ missed' \in SUBSET disk.present
      BY <1>1, <2>2, WalkVisits
    <3>2. footprint.phase # "none" /\ UNCHANGED sinkVars
      BY <1>1, <2>2 DEF Visit, WalkInv, Measuring
    <3>3. gone \subseteq gone' /\ gone' \in SUBSET disk.present
      BY <1>1, <3>1 DEF GoneInv
    <3> QED BY <3>1, <3>2, <3>3, WalkSettles
  <2>3. CASE Exhausted
    BY <2>3, ExhaustedSettles
  <2>4. CASE EndWalk
    BY <2>4, EndSettles
  <2> QED BY <1>9, <2>1, <2>2, <2>3, <2>4 DEF Walking
<1>10. CASE Resolve
  BY <1>10, ResolveSettles
<1>11. CASE Change
  BY <1>11, ChangeSettles
<1> QED BY <1>3, <1>4, <1>5, <1>6, <1>7, <1>8, <1>9, <1>10, <1>11 DEF FootprintNext

(* FootInv, the inductive invariant of a measurement: what is planned is   *)
(* what is there, what is counted or still on the stack of the walk is all *)
(* it will know, and every size so far is honest (attribution.rs).         *)
THEOREM FootStays == StorageSpec => []FootInv
<1>1. FootprintInit => FootInv
  BY FootInitially
<1>2. WholeInv /\ FootInv /\ [FootprintNext]_allVars => FootInv'
  BY FootKept
<1> QED BY <1>1, <1>2, WholeStays, PTL DEF StorageSpec

(* SizesAreHonest: a size that calls itself complete missed nothing that   *)
(* stayed on the disk, one that does not had a reason, and no size counts  *)
(* what was not there (attribution.rs resolve, directory_size).            *)
THEOREM StorageSizes == StorageSpec => []SizesAreHonest
<1>1. FootInv => SizesAreHonest
  BY DEF FootInv
<1> QED BY <1>1, FootStays, PTL

-----------------------------------------------------------------------------
(* The answer.                                                             *)

(* The numbers a sum is made of.                                           *)
Numbers == [k \in DOMAIN footprint.measured |-> Number(k)]

(* The model's sum of numbers, as a sum over a weight.                     *)
LEMMA NumberSum ==
  ASSUME NEW S, Weighs(Numbers, S), S \subseteq DOMAIN footprint.measured
  PROVE  MapThenSumSet(Number, S) = SumOver(Numbers, S)
<1> DEFINE w == Numbers
<1>1. PICK e : AddsUpInt(e, w, S)
  BY SumExists
<1>2. \A s \in SUBSET S : s # {} => (CHOOSE x \in s : TRUE) \in s /\ w[CHOOSE x \in s : TRUE] = Number(CHOOSE x \in s : TRUE)
  <2> HIDE DEF Number
  <2> QED BY DEF Numbers
<1> HIDE DEF Number
<1>3. e = [s \in SUBSET S |-> IF s = {} THEN 0 ELSE Number(CHOOSE x \in s : TRUE) + e[s \ {CHOOSE x \in s : TRUE}]]
  BY <1>1, <1>2 DEF AddsUp, AddsUpInt, Picked
<1> DEFINE g == CHOOSE iter : iter = [s \in SUBSET S |-> IF s = {} THEN 0
                  ELSE Number(CHOOSE x \in s : TRUE) + iter[s \ {CHOOSE x \in s : TRUE}]]
<1>4. g = [s \in SUBSET S |-> IF s = {} THEN 0 ELSE Number(CHOOSE x \in s : TRUE) + g[s \ {CHOOSE x \in s : TRUE}]]
  BY <1>3
<1>5. MapThenSumSet(Number, S) = g[S]
  BY DEF MapThenSumSet, MapThenFoldSet
<1> HIDE DEF g
<1>6. AddsUp(g, w, S)
  BY <1>2, <1>4 DEF AddsUp, Picked
<1> QED BY <1>5, <1>6, SumIs

(* And its sum of totals.                                                  *)
LEMMA TotalSum ==
  ASSUME NEW S, NEW w, Weighs(w, S), \A c \in S : w[c] = c.total
  PROVE  MapThenSumSet(LAMBDA c : c.total, S) = SumOver(w, S)
<1>1. PICK e : AddsUpInt(e, w, S)
  BY SumExists
<1>2. \A s \in SUBSET S : s # {} => (CHOOSE x \in s : TRUE) \in s /\ w[CHOOSE x \in s : TRUE] = (CHOOSE x \in s : TRUE).total
  OBVIOUS
<1>3. e = [s \in SUBSET S |-> IF s = {} THEN 0 ELSE (CHOOSE x \in s : TRUE).total + e[s \ {CHOOSE x \in s : TRUE}]]
  BY <1>1, <1>2 DEF AddsUp, AddsUpInt, Picked
<1> DEFINE g == CHOOSE iter : iter = [s \in SUBSET S |-> IF s = {} THEN 0
                  ELSE (CHOOSE x \in s : TRUE).total + iter[s \ {CHOOSE x \in s : TRUE}]]
<1>4. g = [s \in SUBSET S |-> IF s = {} THEN 0 ELSE (CHOOSE x \in s : TRUE).total + g[s \ {CHOOSE x \in s : TRUE}]]
  BY <1>3
<1>5. MapThenSumSet(LAMBDA c : c.total, S) = g[S]
  BY DEF MapThenSumSet, MapThenFoldSet
<1> HIDE DEF g
<1>6. AddsUp(g, w, S)
  BY <1>2, <1>4 DEF AddsUp, Picked
<1> QED BY <1>5, <1>6, SumIs

(* Components of different labels are different, and together count what   *)
(* their paths do.                                                         *)
LEMMA ComponentsSum ==
  ASSUME IsFiniteSet(DOMAIN footprint.measured), \A k \in DOMAIN footprint.measured : Number(k) \in Int, NEW L \in SUBSET Labels
  PROVE  MapThenSumSet(LAMBDA c : c.total, {Component(l) : l \in L}) = MapThenSumSet(Number, UNION {PathsOf(l) : l \in L})
<1> DEFINE rows == DOMAIN footprint.measured
           C == {Component(l) : l \in L}
           w == [c \in C |-> c.total]
           g == [l \in L |-> Component(l)]
           P == [l \in L |-> PathsOf(l)]
           sums == [l \in L |-> SumOver(Numbers, P[l])]
           U == UNION {P[l] : l \in L}
<1>1. \A l : Component(l).label = l /\ Component(l).total = MapThenSumSet(Number, PathsOf(l))
  BY DEF Component, SumOf
<1>2. Weighs(Numbers, rows)
  BY DEF Weighs, Numbers
<1>3. \A l : PathsOf(l) \in SUBSET rows
  BY DEF PathsOf
<1>4. \A l : MapThenSumSet(Number, PathsOf(l)) = SumOver(Numbers, PathsOf(l)) /\ SumOver(Numbers, PathsOf(l)) \in Int
  <2> TAKE l
  <2> DEFINE T == PathsOf(l)
  <2>1. Weighs(Numbers, T) /\ T \subseteq rows
    BY <1>2, <1>3, Part
  <2> HIDE DEF T
  <2>2. MapThenSumSet(Number, T) = SumOver(Numbers, T) /\ SumOver(Numbers, T) \in Int
    BY <2>1, NumberSum, SumType
  <2> QED BY <2>2 DEF T
<1>5. IsFiniteSet(L)
  <2> DEFINE f == [k \in Spots |-> LabelAt(k)]
  <2>1. f \in Surjection(Spots, Labels)
    BY DEF Surjection, Labels
  <2> HIDE DEF f
  <2>2. IsFiniteSet(Labels)
    BY <2>1, SpotsAre, FS_Surjection
  <2> QED BY <2>2, FS_Subset
<1>6. IsFiniteSet(C) /\ Weighs(w, C)
  <2>1. g \in Surjection(L, C)
    BY DEF Surjection
  <2> HIDE DEF g
  <2>2. IsFiniteSet(C)
    <3> HIDE DEF C
    <3> QED BY <1>5, <2>1, FS_Surjection
  <2>3. \A c \in C : w[c] \in Int
    BY <1>1, <1>4
  <2> QED BY <2>2, <2>3 DEF Weighs
<1>7. MapThenSumSet(LAMBDA c : c.total, C) = SumOver(w, C)
  <2>1. \A c \in C : w[c] = c.total
    OBVIOUS
  <2> HIDE DEF C, w
  <2> QED BY <1>6, <2>1, TotalSum
<1>8. SumOver(w, C) = SumOver([l \in L |-> w[g[l]]], L)
  <2>1. g \in [L -> C] /\ (\A c \in C : \E l \in L : g[l] = c) /\ \A l, m \in L : l # m => g[l] # g[m]
    BY <1>1
  <2> HIDE DEF C, w, g
  <2> QED BY <1>6, <2>1, SumRenamed
<1>9. [l \in L |-> w[g[l]]] = sums
  <2>1. \A l \in L : w[g[l]] = SumOver(Numbers, P[l])
    BY <1>1, <1>4
  <2> QED BY <2>1
<1>10. SumOver(Numbers, U) = SumOver(sums, L)
  <2>1. P \in [L -> SUBSET rows] /\ \A l, m \in L : l # m => P[l] \cap P[m] = {}
    BY DEF PathsOf
  <2> HIDE DEF P, rows
  <2> QED BY <1>2, <1>5, <2>1, SumParts
<1>11. MapThenSumSet(Number, U) = SumOver(Numbers, U)
  <2>1. U \in SUBSET rows
    BY <1>3
  <2> HIDE DEF U
  <2>2. Weighs(Numbers, U)
    BY <1>2, <2>1, Part
  <2> QED BY <2>1, <2>2, NumberSum
<1>12. U = UNION {PathsOf(l) : l \in L}
  OBVIOUS
<1>13. MapThenSumSet(Number, U) = MapThenSumSet(Number, UNION {PathsOf(l) : l \in L})
  BY <1>12, Zenon
<1> HIDE DEF C, w, g, sums, U, P
<1>14. SumOver([l \in L |-> w[g[l]]], L) = SumOver(sums, L)
  BY <1>9, Zenon
<1>15. MapThenSumSet(LAMBDA c : c.total, C) = MapThenSumSet(Number, UNION {PathsOf(l) : l \in L})
  BY <1>7, <1>8, <1>10, <1>11, <1>13, <1>14, Zenon
<1> QED BY <1>15, Zenon DEF C

(* No entry is planned twice, and only what was found by name is labelled  *)
(* as a guess.                                                             *)
LEMMA PlannedOnce ==
  ASSUME footprint.bundle \in Inspected
  PROVE  /\ footprint.bundle \in Entries /\ IsFiniteSet(Planning) /\ Planning \subseteq Spots
         /\ \A j, k \in Planning : EntryAt(footprint.bundle, j) = EntryAt(footprint.bundle, k) => j = k
         /\ \A k \in Planning : LabelAt(k) = RelatedLabel <=> k \in RelatedThen
         /\ EntryAt(footprint.bundle, 0) = footprint.bundle
<1> DEFINE b == footprint.bundle
           at(k) == EntryAt(b, k)
           L == Len(Locations)
<1>1. b \in Entries
  BY FootprintAssumption
<1>2. /\ L \in Nat /\ DOMAIN Locations = 1..L /\ IsFiniteSet(Spots) /\ 0 \in Spots /\ Spots \subseteq Nat
      /\ \A k \in Spots : /\ k = 0 => at(k) = b
                          /\ k \in DOMAIN Locations => at(k) = Locations[k].entry
                          /\ k > L => k - L \in DOMAIN Vendor /\ at(k) = Vendor[k - L]
                          /\ k = 0 \/ k \in DOMAIN Locations \/ k > L
  BY <1>1, SpotsAre
<1>3. /\ \A j, k \in DOMAIN Locations : Locations[j].entry = Locations[k].entry => j = k
      /\ \A j, k \in DOMAIN Vendor : Vendor[j] = Vendor[k] => j = k
      /\ \A k \in DOMAIN Locations : b # Locations[k].entry
      /\ \A k \in DOMAIN Vendor : b # Vendor[k]
      /\ \A k \in DOMAIN Locations : Locations[k].label # "Application" /\ Locations[k].label # RelatedLabel
  <2>1. b \notin {Locations[k].entry : k \in DOMAIN Locations} \cup ToSet(Vendor)
    BY FootprintAssumption
  <2>2. \A k \in DOMAIN Vendor : Vendor[k] \in ToSet(Vendor)
    BY DEF ToSet
  <2> HIDE DEF b
  <2> QED BY <2>1, <2>2, FootprintAssumption
<1>4. /\ KnownThen \subseteq Spots /\ RelatedThen \subseteq Spots
      /\ \A k \in KnownThen : k \in DOMAIN Locations
      /\ \A k \in RelatedThen : k > L /\ \A l \in KnownThen : at(l) # at(k)
  BY DEF KnownThen, RelatedThen
<1>5. Planning \subseteq Spots /\ IsFiniteSet(Planning)
  <2>1. Planning \in SUBSET Spots
    BY <1>2, <1>4 DEF Planning
  <2> QED BY <1>2, <2>1, FS_Subset
<1>6. \A k \in Planning : k = 0 \/ k \in KnownThen \/ k \in RelatedThen
  BY DEF Planning
<1>7. at(0) = b
  BY <1>2
<1> HIDE DEF at, b, L
<1>8. ASSUME NEW j \in Planning, NEW k \in Planning, at(j) = at(k) PROVE j = k
  <2>1. /\ j = 0 \/ j \in KnownThen \/ j \in RelatedThen
        /\ k = 0 \/ k \in KnownThen \/ k \in RelatedThen
        /\ j \in Spots /\ k \in Spots /\ j \in Nat /\ k \in Nat
    BY <1>2, <1>5, <1>6
  <2>2. CASE j = 0 \/ k = 0
    BY <1>2, <1>3, <1>4, <1>8, <2>1, <2>2
  <2>3. CASE j \in KnownThen /\ k \in KnownThen
    BY <1>2, <1>3, <1>4, <1>8, <2>1, <2>3
  <2>4. CASE j \in RelatedThen /\ k \in RelatedThen
    <3>1. j - L = k - L
      BY <1>2, <1>3, <1>4, <1>8, <2>1, <2>4
    <3> QED BY <1>2, <2>1, <3>1
  <2>5. CASE (j \in KnownThen /\ k \in RelatedThen) \/ (k \in KnownThen /\ j \in RelatedThen)
    BY <1>4, <1>8, <2>5
  <2> QED BY <2>1, <2>2, <2>3, <2>4, <2>5
<1>9. ASSUME NEW k \in Planning PROVE LabelAt(k) = RelatedLabel <=> k \in RelatedThen
  <2>1. CASE k = 0
    <3>1. LabelAt(k) = "Application" /\ k \notin RelatedThen
      BY <1>2, <1>4, <2>1 DEF LabelAt
    <3> QED BY <3>1 DEF RelatedLabel
  <2>2. CASE k \in KnownThen
    <3>1. k \in 1..L
      BY <1>2, <1>4, <2>2
    <3>2. k # 0 /\ k <= L /\ ~(k > L)
      BY <1>2, <3>1
    <3>3. LabelAt(k) = Locations[k].label /\ k \notin RelatedThen
      BY <1>4, <3>2 DEF LabelAt, L
    <3> QED BY <1>2, <1>3, <3>1, <3>3
  <2>3. CASE k \in RelatedThen
    <3>1. k \in Nat /\ k > L
      BY <1>2, <1>4, <2>3
    <3>2. k # 0 /\ ~(k <= L)
      BY <1>2, <3>1
    <3> QED BY <2>3, <3>2 DEF LabelAt, L
  <2> QED BY <1>6, <2>1, <2>2, <2>3
<1> QED BY <1>1, <1>5, <1>7, <1>8, <1>9 DEF at, b

(* The headline is what is planned and known.                              *)
LEMMA HeadlineIs ==
  ASSUME PlanInv PROVE HeadlineIsWhatIsKnown
<1> SUFFICES ASSUME Answered PROVE HeadlineIsWhatIsKnown
  BY DEF HeadlineIsWhatIsKnown
<1> DEFINE b == footprint.bundle
           rows == footprint.measured
           at(k) == EntryAt(b, k)
           identified == {k \in DOMAIN Locations : footprint.bundle \in Identified}
           known == {b} \cup ({Locations[k].entry : k \in identified} \cap disk.present)
           guessed == (ToSet(Vendor) \cap disk.present) \ known
           K == {0} \cup KnownThen
           R == RelatedThen
           D == DOMAIN rows
<1>1. b \in Inspected /\ D = Planning /\ \A k \in D : RowIs(rows[k], k)
  <2>1. footprint.phase = "answered" /\ footprint.pending = {} /\ footprint.phase # "none"
    BY DEF Answered, PlanInv
  <2> HIDE DEF Planning, RowIs
  <2> QED BY <2>1 DEF PlanInv
<1>2. /\ b \in Entries /\ IsFiniteSet(D) /\ D \subseteq Spots
      /\ \A j, k \in D : at(j) = at(k) => j = k
      /\ \A k \in D : LabelAt(k) = RelatedLabel <=> k \in R
      /\ at(0) = b /\ D = K \cup R
  BY <1>1, PlannedOnce DEF Planning
<1>3. \A k \in D : rows[k].entry = at(k) /\ rows[k].bytes \in Nat \cup {Unknown} /\ (rows[k].bytes = Unknown <=> rows[k].source = "Unavailable")
  BY <1>1 DEF RowIs, PathRow
<1>4. \A k \in D : Number(k) \in Int
  BY <1>3 DEF Number
<1>5. known = {at(k) : k \in K}
  <2>1. ASSUME NEW x \in known PROVE \E k \in K : x = at(k)
    <3>1. CASE x = b
      BY <1>2, <3>1
    <3>2. CASE x # b
      <4>1. PICK k \in DOMAIN Locations : b \in Identified /\ x = Locations[k].entry /\ x \in disk.present
        BY <3>2
      <4>2. k \in Spots /\ at(k) = Locations[k].entry
        BY <1>2, <4>1, SpotsAre
      <4> QED BY <4>1, <4>2 DEF KnownThen
    <3> QED BY <3>1, <3>2
  <2>2. ASSUME NEW k \in K PROVE at(k) \in known
    <3>1. CASE k = 0
      BY <1>2, <3>1
    <3>2. CASE k \in KnownThen
      <4>1. k \in DOMAIN Locations /\ b \in Identified /\ at(k) \in disk.present /\ at(k) = Locations[k].entry
        BY <1>2, <3>2, SpotsAre DEF KnownThen
      <4> QED BY <4>1
    <3> QED BY <3>1, <3>2
  <2> HIDE DEF known, K, at
  <2> QED BY <2>1, <2>2
<1>6. guessed = {at(k) : k \in R}
  <2>1. ASSUME NEW x \in guessed PROVE \E k \in R : x = at(k)
    <3>1. PICK n \in DOMAIN Vendor : x = Vendor[n]
      BY DEF ToSet
    <3> DEFINE k == Len(Locations) + n
    <3>2. Len(Locations) \in Nat /\ n \in 1..Len(Vendor) /\ Len(Vendor) \in Nat
      BY <3>1, SpotsAre
    <3>3. k \in Spots /\ k > Len(Locations) /\ k - Len(Locations) = n
      BY <3>2 DEF Spots
    <3> HIDE DEF k
    <3>4. at(k) = x
      BY <1>2, <3>1, <3>3, SpotsAre
    <3>5. x \in disk.present /\ \A l \in KnownThen : at(l) # x
      BY <1>5
    <3>6. k \in R
      BY <3>3, <3>4, <3>5 DEF RelatedThen
    <3> QED BY <3>4, <3>6
  <2>2. ASSUME NEW k \in R PROVE at(k) \in guessed
    <3>1. k \in Spots /\ k > Len(Locations) /\ at(k) \in disk.present
      BY DEF RelatedThen
    <3>2. k - Len(Locations) \in DOMAIN Vendor /\ at(k) = Vendor[k - Len(Locations)]
      BY <1>2, <3>1, SpotsAre
    <3>3. at(k) \in ToSet(Vendor)
      BY <3>2 DEF ToSet
    <3>4. at(k) \notin known
      <4>1. ASSUME NEW l \in K PROVE at(l) # at(k)
        <5>1. l # k
          BY <3>1, SpotsAre DEF KnownThen
        <5> QED BY <1>2, <5>1
      <4> HIDE DEF known, K, at
      <4> QED BY <1>5, <4>1
    <3> HIDE DEF known
    <3> QED BY <3>1, <3>3, <3>4
  <2> HIDE DEF guessed, R, at
  <2> QED BY <2>1, <2>2
<1> HIDE DEF known, guessed, K, R, at
<1>7. {rows[k].entry : k \in D} = known \cup guessed
  BY <1>2, <1>3, <1>5, <1>6
<1>8. Cardinality(D) = Cardinality(known \cup guessed)
  <2> DEFINE f == [k \in D |-> at(k)]
             T == known \cup guessed
  <2>1. f \in Bijection(D, T)
    <3>1. f \in [D -> T] /\ (\A j, k \in D : f[j] = f[k] => j = k) /\ \A x \in T : \E k \in D : f[k] = x
      BY <1>2, <1>5, <1>6
    <3> HIDE DEF f, T, D
    <3> QED BY <3>1 DEF Bijection, Injection, Surjection, IsInjective
  <2> HIDE DEF f, T
  <2>2. ExistsBijection(D, T)
    BY <2>1 DEF ExistsBijection
  <2>3. Cardinality(D) = Cardinality(T)
    BY <1>2, <2>2, FS_Bijection
  <2> QED BY <2>3 DEF T
<1>9. {k \in D : rows[k].entry \in known} = K /\ {k \in D : rows[k].entry \in guessed} = R
  <2>1. \A j \in K, k \in R : at(j) # at(k)
    <3>1. \A j \in K, k \in R : j # k
      <4>1. \A k \in R : k \in Spots /\ k > Len(Locations)
        BY DEF R, RelatedThen
      <4>2. \A k \in K : k = 0 \/ k \in DOMAIN Locations
        BY DEF K, KnownThen
      <4> QED BY <4>1, <4>2, SpotsAre
    <3> QED BY <1>2, <3>1
  <2> QED BY <1>2, <1>3, <1>5, <1>6, <2>1
<1> DEFINE some == {l \in Labels : PathsOf(l) # {}}
           L == {l \in some : l # RelatedLabel}
           M == {l \in some : l = RelatedLabel}
<1>10. {c \in Components : c.certain} = {Component(l) : l \in L} /\ {c \in Components : ~c.certain} = {Component(l) : l \in M}
  <2>1. \A l : Component(l).certain = (l # RelatedLabel)
    BY Zenon DEF Component
  <2>2. Components = {Component(l) : l \in some}
    BY Zenon DEF Components
  <2> HIDE DEF some
  <2> QED BY <2>1, <2>2
<1>11. \A k \in D : LabelAt(k) \in some /\ k \in PathsOf(LabelAt(k))
  <2>1. \A k \in D : LabelAt(k) \in Labels
    BY <1>2 DEF Labels
  <2> QED BY <2>1 DEF PathsOf
<1>12. \A l : \A k \in PathsOf(l) : k \in D /\ LabelAt(k) = l
  BY DEF PathsOf
<1>13. \A k \in D : k \in K <=> LabelAt(k) # RelatedLabel
  <2>1. \A k \in K : k \notin R
    <3>1. \A k \in R : k \in Spots /\ k > Len(Locations)
      BY DEF R, RelatedThen
    <3>2. \A k \in K : k = 0 \/ k \in DOMAIN Locations
      BY DEF K, KnownThen
    <3> QED BY <3>1, <3>2, SpotsAre
  <2> QED BY <1>2, <2>1
<1>14. UNION {PathsOf(l) : l \in L} = K /\ UNION {PathsOf(l) : l \in M} = R
  <2> HIDE DEF some, D
  <2>1. \A k : k \in UNION {PathsOf(l) : l \in L} <=> k \in D /\ LabelAt(k) # RelatedLabel
    BY <1>11, <1>12
  <2>2. \A k : k \in UNION {PathsOf(l) : l \in M} <=> k \in D /\ LabelAt(k) = RelatedLabel
    BY <1>11, <1>12
  <2> HIDE DEF L, M
  <2>3. K \subseteq D /\ R \subseteq D
    BY <1>2
  <2> QED BY <1>2, <1>13, <2>1, <2>2, <2>3
<1>15. L \in SUBSET Labels /\ M \in SUBSET Labels
  OBVIOUS
<1> HIDE DEF L, M, some
<1>16. MapThenSumSet(LAMBDA c : c.total, {Component(l) : l \in L}) = MapThenSumSet(Number, UNION {PathsOf(l) : l \in L})
  BY <1>2, <1>4, <1>15, ComponentsSum
<1>17. MapThenSumSet(LAMBDA c : c.total, {Component(l) : l \in M}) = MapThenSumSet(Number, UNION {PathsOf(l) : l \in M})
  BY <1>2, <1>4, <1>15, ComponentsSum
<1>18. Answer.total = MapThenSumSet(LAMBDA c : c.total, {c \in Components : c.certain})
       /\ Answer.related = MapThenSumSet(LAMBDA c : c.total, {c \in Components : ~c.certain}) /\ Answer.unmeasured = Unmeasured
  BY Zenon DEF Answer
<1>19. Answer.total = MapThenSumSet(Number, {k \in D : rows[k].entry \in known})
  <2>1. Answer.total = MapThenSumSet(LAMBDA c : c.total, {Component(l) : l \in L})
    BY <1>10, <1>18, Zenon
  <2>2. MapThenSumSet(Number, UNION {PathsOf(l) : l \in L}) = MapThenSumSet(Number, {k \in D : rows[k].entry \in known})
    BY <1>9, <1>14, Zenon
  <2> QED BY <1>16, <2>1, <2>2, Zenon
<1>20. Answer.related = MapThenSumSet(Number, {k \in D : rows[k].entry \in guessed})
  <2>1. Answer.related = MapThenSumSet(LAMBDA c : c.total, {Component(l) : l \in M})
    BY <1>10, <1>18, Zenon
  <2>2. MapThenSumSet(Number, UNION {PathsOf(l) : l \in M}) = MapThenSumSet(Number, {k \in D : rows[k].entry \in guessed})
    BY <1>9, <1>14, Zenon
  <2> QED BY <1>17, <2>1, <2>2, Zenon
<1>21. \A c \in Components : c.complete => \A k \in c.paths : rows[k].source # "Unavailable"
  <2> SUFFICES ASSUME NEW c \in Components, c.complete, NEW k \in c.paths PROVE rows[k].source # "Unavailable"
    OBVIOUS
  <2>1. PICK l \in Labels : c = Component(l)
    BY DEF Components
  <2>2. c.paths = PathsOf(l) /\ c.complete = (\A j \in PathsOf(l) : rows[j].bytes # Unknown /\ rows[j].complete)
    BY <2>1, Zenon DEF Component
  <2>3. k \in D /\ rows[k].bytes # Unknown
    BY <1>12, <2>2
  <2> QED BY <1>3, <2>3
<1>22. Answer.unmeasured = 0 <=> \A k \in D : rows[k].source # "Unavailable"
  <2> DEFINE none == {k \in D : rows[k].bytes = Unknown}
  <2>1. Answer.unmeasured = Cardinality(none)
    BY <1>18 DEF Unmeasured
  <2>2. none \in SUBSET D
    OBVIOUS
  <2>3. IsFiniteSet(none)
    BY <1>2, <2>2, FS_Subset
  <2>4. Cardinality(none) = 0 <=> none = {}
    <3> HIDE DEF none
    <3> QED BY <2>3, FS_EmptySet
  <2> QED BY <1>3, <2>1, <2>4
<1>23. DEFINE sum(entries) == MapThenSumSet(Number, {k \in DOMAIN rows : rows[k].entry \in entries})
<1>24. /\ {rows[k].entry : k \in DOMAIN rows} = known \cup guessed
       /\ Cardinality(DOMAIN rows) = Cardinality(known \cup guessed)
       /\ Answer.total = sum(known)
       /\ Answer.related = sum(guessed)
       /\ \A c \in Components : c.complete => \A k \in c.paths : rows[k].source # "Unavailable"
       /\ Answer.unmeasured = 0 <=> \A k \in DOMAIN rows : rows[k].source # "Unavailable"
  BY <1>7, <1>8, <1>19, <1>20, <1>21, <1>22, Zenon
<1> QED BY <1>24, Zenon DEF HeadlineIsWhatIsKnown, known, guessed, identified

(* HeadlineIsWhatIsKnown: the headline is the bundle and every path that   *)
(* carries the identifier, each counted once; what is found by the         *)
(* vendor's name is in the second number only (attribution.rs).            *)
THEOREM StorageHeadline == StorageSpec => []HeadlineIsWhatIsKnown
<1>1. FootInv => HeadlineIsWhatIsKnown
  BY HeadlineIs DEF FootInv
<1> QED BY <1>1, FootStays, PTL
=============================================================================
