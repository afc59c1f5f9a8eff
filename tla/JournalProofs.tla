---------------------------- MODULE JournalProofs ----------------------------
(***************************************************************************)
(* Proofs about the operation journal (Journal) and the undo of a deletion *)
(* (Undo).  The file is looked at by the positions of its lines, which     *)
(* never move: an append can spoil the last line or add one more event     *)
(* after all others, and nothing else.  What a session reads back is those *)
(* lines, each once and in their order (ReadInOrder); that takes induction *)
(* over the lines, done with the least element of a set of numbers.        *)
(***************************************************************************)
EXTENDS Undo, FiniteSetTheorems, TLAPS

Places == {"buried", "covered", "back"}
Request == [pc : {"idle", "asked", "checked", "ran", "restored"}, id : Nat, item : Nat]

(* Operations are numbered as they happen, in memory...                    *)
JournalTypeOK ==
  /\ nextOperation \in Nat /\ items \in Nat /\ restarts \in Nat
  /\ entries \in Seq(Entry)
  /\ lines \in Seq(Seq(Piece)) /\ tail \in Seq(Piece)
  /\ recorded \in SUBSET Event
  /\ place \in [1 .. MaxItems -> Places]
  /\ undo \in [Requests -> Request]

EntriesInOrder(es) ==
  \A m, n \in DOMAIN es : m < n => es[m].id < es[n].id /\ es[m].item < es[n].item
EntriesWithin(es, top, count) ==
  \A n \in DOMAIN es : es[n].id <= top /\ es[n].item \in 1 .. count
EntriesUndone(es, back) == \A n \in DOMAIN es : es[n].undone => es[n].item \in back

(* ... and in the file, as far as it can be read.                          *)
FileInOrder(ls) ==
  \A i, j \in Operations(ls) :
    i < j => EventAt(ls, i).id < EventAt(ls, j).id /\ EventAt(ls, i).item < EventAt(ls, j).item
FileWithin(ls, top, count) ==
  \A i \in Operations(ls) : EventAt(ls, i).id <= top /\ EventAt(ls, i).item \in 1 .. count
FileUndone(ls, back) ==
  \A j \in EventsIn(ls) : EventAt(ls, j).kind = "undone" => EventAt(ls, j).item \in back

(* An undone event comes after the deletion of its item and names it, and  *)
(* no other deletion before it.                                            *)
FileNames(ls) ==
  \A i \in Operations(ls), j \in EventsIn(ls) :
    EventAt(ls, i).kind = "deleted" /\ EventAt(ls, j).kind = "undone" =>
      /\ EventAt(ls, i).item = EventAt(ls, j).item =>
           i < j /\ EventAt(ls, i).id = EventAt(ls, j).id
      /\ i < j /\ EventAt(ls, i).id = EventAt(ls, j).id =>
           EventAt(ls, i).item = EventAt(ls, j).item

(* Memory and the file give an operation the same id.                      *)
FileAgrees(ls, es) ==
  \A i \in Operations(ls), n \in DOMAIN es :
    EventAt(ls, i).id = es[n].id <=> EventAt(ls, i).item = es[n].item

FileOK(ls) ==
  /\ FileInOrder(ls) /\ FileWithin(ls, nextOperation, items)
  /\ FileUndone(ls, putBack) /\ FileNames(ls) /\ FileAgrees(ls, entries)

(* A request holds the copy of a deletion in memory; one that goes on to   *)
(* mark it saw its item back.                                              *)
RequestsKnow ==
  \A t \in Requests : ~At(t, "idle") =>
    /\ \E n \in DOMAIN entries :
         entries[n].kind = "deleted" /\ entries[n].id = undo[t].id /\ entries[n].item = undo[t].item
    /\ At(t, "restored") => place[undo[t].item] = "back"

PlacesKnown ==
  /\ items <= MaxItems
  /\ \A item \in 1 .. MaxItems :
       /\ place[item] = "back" => item \in putBack
       /\ place[item] # "buried" => item <= items
  /\ putBack \subseteq 1 .. items

(* An item taken back is marked, or a request is about to, or nobody could *)
(* have.                                                                   *)
BackIsMarked ==
  restarts = 0 =>
    \A n \in DOMAIN entries :
      entries[n].kind = "deleted" /\ place[entries[n].item] = "back" /\ ~entries[n].undone
        => \/ entries[n].item \in unsaid
           \/ \E t \in Requests : undo[t].item = entries[n].item /\ (At(t, "ran") \/ At(t, "restored"))

(* What was reported as recorded ends a line.                              *)
RecordedEndsLine ==
  \A event \in recorded :
    \E i \in DOMAIN lines :
      Len(lines[i]) > 0 /\ lines[i][Len(lines[i])] = [event |-> event, wrote |-> "whole"]

JournalInv ==
  /\ JournalTypeOK
  /\ EntriesInOrder(entries) /\ EntriesWithin(entries, nextOperation, items)
  /\ EntriesUndone(entries, putBack)
  /\ FileOK(AllLines)
  /\ RequestsKnow /\ PlacesKnown /\ BackIsMarked /\ RecordedEndsLine

-----------------------------------------------------------------------------
(* Induction over numbers: a set of them has a least element, and a largest *)
(* when it is bounded.                                                      *)
LEMMA LeastOf ==
  ASSUME NEW S \in SUBSET Nat, S # {}
  PROVE  \E x \in S : \A y \in S : x <= y
<1> DEFINE T == {0 .. x : x \in S}
<1>1. T \subseteq FiniteSubsetsOf(Nat) /\ T # {}
  <2>1. \A x \in Nat : 0 .. x \in SUBSET Nat /\ IsFiniteSet(0 .. x)  BY FS_Interval
  <2>2. QED  BY <2>1 DEF FiniteSubsetsOf
<1>2. \E a \in T : \A b \in T : <<b, a>> \notin StrictSubsetOrdering(Nat)
  <2> HIDE DEF T
  <2>1. IsWellFoundedOn(StrictSubsetOrdering(Nat), FiniteSubsetsOf(Nat))
    BY FS_StrictSubsetOrderingWellFounded
  <2>2. QED  BY <1>1, <2>1, WFMin
<1>3. PICK x \in S : \A b \in T : <<b, 0 .. x>> \notin StrictSubsetOrdering(Nat)  BY <1>2
<1>4. SUFFICES ASSUME NEW y \in S, y < x PROVE FALSE  BY <1>3
<1>5. \A A, B \in SUBSET Nat : A \subseteq B /\ A # B => <<A, B>> \in StrictSubsetOrdering(Nat)
  BY DEF StrictSubsetOrdering
<1>6. 0 .. y \subseteq 0 .. x /\ x \in 0 .. x /\ x \notin 0 .. y
      /\ 0 .. y \in SUBSET Nat /\ 0 .. x \in SUBSET Nat
  BY <1>4
<1>7. QED
  <2> DEFINE A == 0 .. y  B == 0 .. x
  <2>1. A \in SUBSET Nat /\ B \in SUBSET Nat /\ A \subseteq B /\ A # B /\ A \in T  BY <1>6
  <2>2. <<A, B>> \notin StrictSubsetOrdering(Nat)  BY <1>3, <2>1
  <2> HIDE DEF A, B, T
  <2>3. QED  BY <1>5, <2>1, <2>2

(* The largest of a bounded set.                                           *)
LEMMA LargestOf ==
  ASSUME NEW S \in SUBSET Nat, S # {}, NEW top \in Nat, \A s \in S : s <= top
  PROVE  \E x \in S : \A y \in S : y <= x
<1> DEFINE U == {u \in Nat : \A s \in S : s <= u}
<1>1. PICK u \in U : \A v \in U : u <= v
  <2>1. U \in SUBSET Nat /\ U # {}  OBVIOUS
  <2> HIDE DEF U
  <2>2. QED  BY <2>1, LeastOf
<1>2. u \in S
  <2>1. SUFFICES ASSUME u \notin S PROVE FALSE  OBVIOUS
  <2>2. PICK s \in S : TRUE  OBVIOUS
  <2>3. u - 1 \in U  BY <2>1, <2>2
  <2>4. QED  BY <1>1, <2>3
<1>3. QED  BY <1>1, <1>2

(* Max is that.                                                            *)
LEMMA MaxOf ==
  ASSUME NEW S \in SUBSET Nat, S # {}, NEW top \in Nat, \A s \in S : s <= top
  PROVE  Max(S) \in S /\ \A s \in S : s <= Max(S)
<1>1. \E x \in S : \A y \in S : x >= y  BY LargestOf
<1>2. QED  BY <1>1 DEF Max

(* The rank of a number in a set grows with it, and every rank is taken.    *)
LEMMA RankGrows ==
  ASSUME NEW S \in SUBSET Nat, IsFiniteSet(S)
  PROVE  /\ Cardinality(S) \in Nat
         /\ \A i \in S : Rank(S, i) \in 1 .. Cardinality(S)
         /\ \A i, j \in S : i < j => Rank(S, i) < Rank(S, j)
<1> DEFINE Upto(i) == {j \in S : j <= i}
<1>1. \A i \in S : Upto(i) \in SUBSET S /\ IsFiniteSet(Upto(i)) /\ Cardinality(Upto(i)) \in Nat
                   /\ Cardinality(Upto(i)) <= Cardinality(S) /\ Cardinality(Upto(i)) # 0
  <2>1. TAKE i \in S
  <2>2. Upto(i) \in SUBSET S /\ i \in Upto(i)  OBVIOUS
  <2> HIDE DEF Upto
  <2>3. IsFiniteSet(Upto(i)) /\ Cardinality(Upto(i)) <= Cardinality(S)  BY <2>2, FS_Subset
  <2>4. QED  BY <2>2, <2>3, FS_EmptySet, FS_CardinalityType
<1>2. \A i, j \in S : i < j => Cardinality(Upto(i)) < Cardinality(Upto(j))
  <2>1. SUFFICES ASSUME NEW i \in S, NEW j \in S, i < j
                 PROVE  Cardinality(Upto(i)) < Cardinality(Upto(j))
    OBVIOUS
  <2>2. Upto(i) \in SUBSET Upto(j) /\ j \in Upto(j) /\ j \notin Upto(i)
    <3>1. \A s \in S : s \in Nat  OBVIOUS
    <3>2. \A s \in S : s <= i => s <= j  BY <2>1, <3>1
    <3>3. j <= j /\ ~(j <= i)  BY <2>1, <3>1
    <3>4. QED  BY <3>2, <3>3
  <2> HIDE DEF Upto
  <2>3. Cardinality(Upto(i)) <= Cardinality(Upto(j)) /\ Cardinality(Upto(i)) # Cardinality(Upto(j))
    BY <1>1, <2>2, FS_Subset
  <2>4. QED  BY <1>1, <2>3
<1>3. Cardinality(S) \in Nat  BY FS_CardinalityType
<1>4. \A i \in S : Rank(S, i) = Cardinality(Upto(i))  BY DEF Rank
<1> HIDE DEF Upto
<1>5. QED  BY <1>1, <1>2, <1>3, <1>4

(* No rank is left out.                                                    *)
LEMMA RanksAreTaken ==
  ASSUME NEW S \in SUBSET Nat, IsFiniteSet(S), NEW top \in Nat, \A s \in S : s <= top,
         NEW n \in 1 .. Cardinality(S)
  PROVE  \E i \in S : Rank(S, i) = n
<1>0. Cardinality(S) \in Nat  BY FS_CardinalityType
<1> DEFINE Above == {i \in S : n <= Rank(S, i)}
<1>1. Above # {}
  <2>1. S # {}  BY <1>0, FS_EmptySet
  <2>2. \E x \in S : \A y \in S : y <= x  BY <2>1, LargestOf
  <2>3. PICK x \in S : \A y \in S : y <= x  BY <2>2
  <2>4. {j \in S : j <= x} = S  BY <2>3
  <2>5. Rank(S, x) = Cardinality(S)  BY <2>4 DEF Rank
  <2>6. QED  BY <1>0, <2>5
<1>2. PICK i \in Above : \A j \in Above : i <= j
  <2>1. Above \in SUBSET Nat  OBVIOUS
  <2> HIDE DEF Above
  <2>2. QED  BY <1>1, <2>1, LeastOf
<1>3. SUFFICES ASSUME n < Rank(S, i) PROVE \E j \in S : Rank(S, j) = n
  BY <1>2, <1>0, RankGrows
<1> DEFINE Below == {j \in S : j < i}
<1>4. /\ Below \in SUBSET S /\ Below \in SUBSET Nat /\ i \notin Below
      /\ Below \cup {i} = {j \in S : j <= i}
  <2>1. i \in S /\ \A s \in S : s \in Nat  OBVIOUS
  <2>2. \A s \in S : s <= i <=> s < i \/ s = i  BY <2>1
  <2>3. ~(i < i)  BY <2>1
  <2>4. QED  BY <2>1, <2>2, <2>3
<1>5. IsFiniteSet(Below)  BY <1>4, FS_Subset
<1>6. Cardinality(Below) + 1 = Rank(S, i)
  <2>1. Cardinality(Below \cup {i}) = Cardinality(Below) + 1
    <3> HIDE DEF Below
    <3>1. QED  BY <1>4, <1>5, FS_AddElement
  <2>2. QED  BY <1>4, <2>1 DEF Rank
<1>7. Below # {}
  <2> HIDE DEF Below
  <2>1. QED  BY <1>0, <1>3, <1>6, FS_EmptySet
<1>8. PICK p \in Below : \A j \in Below : j <= p
  <2>1. \A j \in Below : j <= i /\ i \in Nat  OBVIOUS
  <2> HIDE DEF Below
  <2>2. QED  BY <1>4, <1>7, <2>1, LargestOf
<1>9. {j \in S : j <= p} = Below
  <2>1. i \in S /\ p \in S /\ p < i /\ \A s \in S : s \in Nat  BY <1>8
  <2>2. \A s \in S : s <= p <=> s < i  BY <1>8, <2>1
  <2>3. QED  BY <2>2
<1>10. Rank(S, p) + 1 = Rank(S, i)  BY <1>6, <1>9 DEF Rank
<1>11. p \notin Above  BY <1>2, <1>8
<1>12. QED  BY <1>0, <1>3, <1>8, <1>10, <1>11, RankGrows

(* So Nth lists the set in its order.                                      *)
LEMMA NthIsRanked ==
  ASSUME NEW S \in SUBSET Nat, IsFiniteSet(S), NEW top \in Nat, \A s \in S : s <= top
  PROVE  /\ \A n \in 1 .. Cardinality(S) : Nth(S, n) \in S
         /\ \A m, n \in 1 .. Cardinality(S) : m < n => Nth(S, m) < Nth(S, n)
         /\ \A i \in S : \E n \in 1 .. Cardinality(S) : Nth(S, n) = i
<1>1. \A n \in 1 .. Cardinality(S) : Nth(S, n) \in S /\ Rank(S, Nth(S, n)) = n
  <2>1. TAKE n \in 1 .. Cardinality(S)
  <2>2. \E i \in S : Rank(S, i) = n  BY RanksAreTaken
  <2>3. QED  BY <2>2 DEF Nth
<1>2. \A i, j \in S : Rank(S, i) = Rank(S, j) => i = j
  <2>1. \A i, j \in S : i < j \/ j < i \/ i = j  OBVIOUS
  <2>2. QED  BY <2>1, RankGrows
<1>3. \A i \in S : Rank(S, i) \in 1 .. Cardinality(S)  BY RankGrows
<1>4. \A i \in S : Nth(S, Rank(S, i)) = i  BY <1>1, <1>2, <1>3
<1>5. \A m, n \in 1 .. Cardinality(S) : m < n => Nth(S, m) < Nth(S, n)
  <2>1. SUFFICES ASSUME NEW m \in 1 .. Cardinality(S), NEW n \in 1 .. Cardinality(S), m < n,
                        ~(Nth(S, m) < Nth(S, n))
                 PROVE  FALSE
    OBVIOUS
  <2>2. Nth(S, m) \in S /\ Nth(S, n) \in S /\ Nth(S, m) \in Nat /\ Nth(S, n) \in Nat  BY <1>1
  <2>3. Nth(S, m) = Nth(S, n) \/ Nth(S, n) < Nth(S, m)  BY <2>1, <2>2
  <2>4. Cardinality(S) \in Nat  BY RankGrows
  <2>5. n = m \/ n < m  BY <1>1, <2>2, <2>3, RankGrows
  <2>6. QED  BY <2>1, <2>4, <2>5
<1>6. QED  BY <1>1, <1>3, <1>4, <1>5

-----------------------------------------------------------------------------
(* What is read back from a file.                                          *)
Files == Seq(Seq(Piece))

(* What is read is an event, at the position of a line.                    *)
LEMMA EventTypes ==
  ASSUME NEW ls \in Files
  PROVE  /\ \A i \in EventsIn(ls) : i \in 1 .. Len(ls) /\ EventAt(ls, i) \in Event
         /\ Operations(ls) \in SUBSET EventsIn(ls)
         /\ \A i \in Operations(ls) : EventAt(ls, i).kind \in Terminal \cup {"deleted"}
<1>1. \A i \in EventsIn(ls) : i \in 1 .. Len(ls) /\ EventAt(ls, i) \in Event
  <2>1. TAKE i \in EventsIn(ls)
  <2>2. i \in 1 .. Len(ls) /\ Len(ls[i]) = 1 /\ ls[i] \in Seq(Piece)
    BY DEF EventsIn, Parses, Files
  <2>3. ls[i][1] \in Piece  BY <2>2
  <2>4. QED  BY <2>2, <2>3 DEF Piece, EventAt
<1>2. QED  BY <1>1 DEF Operations, Event

(* Of the lines that can be read finitely many are operations.             *)
LEMMA OperationPositions ==
  ASSUME NEW ls \in Files
  PROVE  /\ Operations(ls) \in SUBSET Nat /\ IsFiniteSet(Operations(ls))
         /\ Cardinality(Operations(ls)) \in Nat
         /\ Len(ls) \in Nat /\ \A i \in Operations(ls) : i <= Len(ls)
<1>1. Len(ls) \in Nat  BY DEF Files
<1>2. Operations(ls) \in SUBSET (1 .. Len(ls))  BY EventTypes
<1>3. IsFiniteSet(Operations(ls))
  <2>1. IsFiniteSet(1 .. Len(ls))  BY <1>1, FS_Interval
  <2>2. QED  BY <1>2, <2>1, FS_Subset
<1>4. QED  BY <1>1, <1>2, <1>3, FS_CardinalityType

(* A session reads back the operations of the file, each once and in the   *)
(* order of its lines.                                                     *)
LEMMA ReadInOrder ==
  ASSUME NEW ls \in Files
  PROVE  /\ load_journal(ls) \in Seq(Entry)
         /\ \E f \in [DOMAIN load_journal(ls) -> Operations(ls)] :
              /\ \A m, n \in DOMAIN f : m < n => f[m] < f[n]
              /\ \A i \in Operations(ls) : \E n \in DOMAIN f : f[n] = i
              /\ \A n \in DOMAIN f : load_journal(ls)[n] = EntryAt(ls, f[n])
<1> DEFINE N == Cardinality(Operations(ls))
           f == [n \in 1 .. N |-> Nth(Operations(ls), n)]
<1>1. N \in Nat  BY OperationPositions
<1>2. /\ \A n \in 1 .. N : Nth(Operations(ls), n) \in Operations(ls)
      /\ \A m, n \in 1 .. N : m < n => Nth(Operations(ls), m) < Nth(Operations(ls), n)
      /\ \A i \in Operations(ls) : \E n \in 1 .. N : Nth(Operations(ls), n) = i
  BY OperationPositions, NthIsRanked
<1>3. load_journal(ls) = [n \in 1 .. N |-> EntryAt(ls, Nth(Operations(ls), n))]
  BY DEF load_journal
<1>4. \A i \in Operations(ls) : EntryAt(ls, i) \in Entry
  <2>1. TAKE i \in Operations(ls)
  <2>2. EventAt(ls, i) \in Event /\ EventAt(ls, i).kind \in Terminal \cup {"deleted"}  BY EventTypes
  <2>3. (EventAt(ls, i).kind = "deleted" /\ MarkedUndone(ls, i)) \in BOOLEAN  BY DEF MarkedUndone
  <2>4. QED  BY <2>2, <2>3 DEF EntryAt, Entry, Event
<1> HIDE DEF N
<1>5. load_journal(ls) \in Seq(Entry)
  <2>1. [n \in 1 .. N |-> EntryAt(ls, Nth(Operations(ls), n))] \in [1 .. N -> Entry]
    BY <1>2, <1>4
  <2>2. QED  BY <1>1, <1>3, <2>1
<1>6. /\ f \in [DOMAIN load_journal(ls) -> Operations(ls)]
      /\ \A m, n \in DOMAIN f : m < n => f[m] < f[n]
      /\ \A i \in Operations(ls) : \E n \in DOMAIN f : f[n] = i
      /\ \A n \in DOMAIN f : load_journal(ls)[n] = EntryAt(ls, f[n])
  BY <1>2, <1>3
<1>7. QED  BY <1>5, <1>6

(* The counter goes on from the largest id.                                *)
LEMMA LastIdBounds ==
  ASSUME NEW es \in Seq(Entry), NEW top \in Nat, \A n \in DOMAIN es : es[n].id <= top
  PROVE  LastId(es) \in Nat /\ \A n \in DOMAIN es : es[n].id <= LastId(es)
<1> DEFINE ids == {es[n].id : n \in DOMAIN es} \cup {0}
<1>1. \A n \in DOMAIN es : es[n].id \in Nat
  <2>1. \A n \in DOMAIN es : es[n] \in Entry  OBVIOUS
  <2>2. QED  BY <2>1 DEF Entry
<1>2. ids \in SUBSET Nat /\ ids # {} /\ \A x \in ids : x <= top  BY <1>1
<1>3. \A n \in DOMAIN es : es[n].id \in ids  OBVIOUS
<1>4. LastId(es) = Max(ids)  BY DEF LastId
<1> HIDE DEF ids
<1>5. Max(ids) \in ids /\ \A x \in ids : x <= Max(ids)  BY <1>2, MaxOf
<1>6. QED  BY <1>2, <1>3, <1>4, <1>5

-----------------------------------------------------------------------------
(* An append adds at most one event to those of the file, after all others. *)
Follows(ls, ms, event) ==
  \A i \in EventsIn(ms) :
    \/ i \in EventsIn(ls) /\ EventAt(ms, i) = EventAt(ls, i)
    \/ EventAt(ms, i) = event /\ \A j \in EventsIn(ms) : j <= i

(* One more piece on the last line, or a new line, leaves the lines before *)
(* it as they were.                                                        *)
LEMMA LineFollows ==
  ASSUME NEW ls \in Files, NEW ms \in Files, NEW n \in Nat, NEW p \in Piece,
         Len(ls) = n + 1, Len(ms) >= n + 1, \A i \in 1 .. n : ms[i] = ls[i],
         ms[n + 1] = ls[n + 1] \o <<p>>, \A i \in 1 .. Len(ms) : i > n + 1 => ms[i] = << >>
  PROVE  Follows(ls, ms, p.event)
<1>1. /\ DOMAIN ls = 1 .. n + 1 /\ DOMAIN ms = 1 .. Len(ms) /\ Len(ms) \in Nat
      /\ ls[n + 1] \in Seq(Piece)
  BY DEF Files
<1>2. /\ Len(ms[n + 1]) = Len(ls[n + 1]) + 1 /\ Len(ls[n + 1]) \in Nat
      /\ \A k \in DOMAIN ls[n + 1] : k \in DOMAIN ms[n + 1] /\ ms[n + 1][k] = ls[n + 1][k]
      /\ Len(ls[n + 1]) = 0 => ms[n + 1][1] = p
  BY <1>1
<1>3. Readable(ms) => Readable(ls)
  <2>1. SUFFICES ASSUME Readable(ms), NEW i \in DOMAIN ls, NEW k \in DOMAIN ls[i]
                 PROVE  ls[i][k].wrote # "split"
    BY DEF Readable
  <2>2. i \in DOMAIN ms /\ k \in DOMAIN ms[i] /\ ms[i][k] = ls[i][k]
    <3>1. CASE i = n + 1  BY <1>1, <1>2, <3>1
    <3>2. CASE i # n + 1
      <4>1. i \in 1 .. n  BY <1>1, <3>2
      <4>2. QED  BY <1>1, <4>1
    <3>3. QED  BY <3>1, <3>2
  <2>3. QED  BY <2>1, <2>2 DEF Readable
<1>4. \A i \in EventsIn(ms) : i \in 1 .. Len(ms) /\ Parses(ms[i]) /\ Readable(ms) /\ Len(ms[i]) = 1
  BY <1>1 DEF EventsIn, Parses
<1>5. \A i \in EventsIn(ms) : i <= n + 1
  <2>1. SUFFICES ASSUME NEW i \in EventsIn(ms), i > n + 1 PROVE FALSE  BY <1>1, <1>4
  <2>2. ms[i] = << >>  BY <1>4, <2>1
  <2>3. Len(ms[i]) = 1  BY <1>4
  <2>4. QED  BY <2>2, <2>3
<1>6. SUFFICES ASSUME NEW i \in EventsIn(ms)
               PROVE  \/ i \in EventsIn(ls) /\ EventAt(ms, i) = EventAt(ls, i)
                      \/ EventAt(ms, i) = p.event /\ \A j \in EventsIn(ms) : j <= i
  BY DEF Follows
<1>7. CASE i = n + 1
  <2>1. Len(ls[n + 1]) = 0  BY <1>2, <1>4, <1>7
  <2>2. EventAt(ms, i) = p.event  BY <1>2, <1>7, <2>1 DEF EventAt
  <2>3. QED  BY <1>5, <1>7, <2>2
<1>8. CASE i # n + 1
  <2>1. i \in 1 .. n  BY <1>4, <1>5, <1>8
  <2>2. i \in DOMAIN ls /\ ms[i] = ls[i]  BY <1>1, <2>1
  <2>3. i \in EventsIn(ls)  BY <1>3, <1>4, <2>2 DEF EventsIn
  <2>4. QED  BY <2>2, <2>3 DEF EventAt
<1>9. QED  BY <1>7, <1>8

(* An append that writes nothing changes nothing.                          *)
LEMMA NothingFollows ==
  ASSUME NEW ls, NEW event
  PROVE  Follows(ls, ls, event)
BY DEF Follows

(* append, whole or torn, changes no more of the file than that.           *)
LEMMA AppendFollows ==
  ASSUME lines \in Seq(Seq(Piece)), tail \in Seq(Piece),
         NEW event \in Event, NEW outcome \in Faults \cup {"ok"}, append(event, outcome)
  PROVE  /\ lines' \in Seq(Seq(Piece)) /\ tail' \in Seq(Piece)
         /\ AllLines \in Files /\ AllLines' \in Files
         /\ Follows(AllLines, AllLines', event)
         /\ \A i \in DOMAIN lines : i \in DOMAIN lines' /\ lines'[i] = lines[i]
         /\ outcome = "ok" =>
              \E i \in DOMAIN lines' :
                Len(lines'[i]) > 0 /\ lines'[i][Len(lines'[i])] = [event |-> event, wrote |-> "whole"]
<1> DEFINE n == Len(lines)
           left(wrote) == tail \o <<[event |-> event, wrote |-> wrote]>>
<1>0. n \in Nat /\ AllLines \in Files /\ Len(AllLines) = n + 1 /\ AllLines[n + 1] = tail
      /\ \A i \in 1 .. n : AllLines[i] = lines[i]
  BY DEF AllLines, Files
<1>1. \A wrote \in {"whole", "part", "split"} :
        /\ [event |-> event, wrote |-> wrote] \in Piece
        /\ [event |-> event, wrote |-> wrote].event = event
        /\ left(wrote) \in Seq(Piece) /\ Len(left(wrote)) > 0
        /\ left(wrote)[Len(left(wrote))] = [event |-> event, wrote |-> wrote]
  <2>1. TAKE wrote \in {"whole", "part", "split"}
  <2> DEFINE p == [event |-> event, wrote |-> wrote]
  <2>2. p \in Piece /\ p.event = event  BY DEF Piece
  <2> HIDE DEF p
  <2>3. tail \o <<p>> \in Seq(Piece) /\ Len(tail \o <<p>>) = Len(tail) + 1
        /\ (tail \o <<p>>)[Len(tail) + 1] = p /\ Len(tail) \in Nat
    BY <2>2
  <2>4. QED  BY <2>2, <2>3 DEF p
<1>2. CASE outcome \in {"ok", "unsynced"}
  <2>1. lines' = Append(lines, left("whole")) /\ tail' = << >>  BY <1>2 DEF append
  <2>2. lines' \in Seq(Seq(Piece)) /\ tail' \in Seq(Piece) /\ Len(lines') = n + 1
        /\ lines'[n + 1] = left("whole") /\ \A i \in 1 .. n : lines'[i] = lines[i]
    <3> HIDE DEF left
    <3>1. QED  BY <1>1, <2>1
  <2>3. AllLines' \in Files /\ Len(AllLines') = n + 2 /\ AllLines'[n + 2] = << >>
        /\ AllLines'[n + 1] = left("whole") /\ \A i \in 1 .. n : AllLines'[i] = lines[i]
    <3>1. AllLines' = lines' \o <<tail'>>  BY DEF AllLines
    <3> HIDE DEF left
    <3>2. QED  BY <1>0, <2>1, <2>2, <3>1 DEF Files
  <2>4. Follows(AllLines, AllLines', event)
    <3> DEFINE p == [event |-> event, wrote |-> "whole"]  ls == AllLines  ms == AllLines'
    <3>1. p \in Piece /\ p.event = event /\ ls \in Files /\ ms \in Files /\ Len(ls) = n + 1 /\ Len(ms) = n + 2
          /\ (\A i \in 1 .. n : ms[i] = ls[i]) /\ ms[n + 1] = ls[n + 1] \o <<p>> /\ ms[n + 2] = << >>
      BY <1>0, <1>1, <2>3
    <3> HIDE DEF p, ls, ms, n, left
    <3>2. Len(ms) >= n + 1 /\ \A i \in 1 .. Len(ms) : i > n + 1 => ms[i] = << >>  BY <1>0, <3>1
    <3>3. Follows(ls, ms, p.event)  BY <1>0, <3>1, <3>2, LineFollows
    <3>4. QED  BY <3>1, <3>3 DEF ls, ms
  <2> HIDE DEF left
  <2>5. n + 1 \in DOMAIN lines' /\ \A i \in DOMAIN lines : i \in DOMAIN lines' /\ lines'[i] = lines[i]
    <3>1. DOMAIN lines = 1 .. n /\ DOMAIN lines' = 1 .. n + 1  BY <1>0, <2>2
    <3>2. QED  BY <1>0, <2>2, <3>1
  <2>6. QED  BY <1>0, <1>1, <2>2, <2>3, <2>4, <2>5
<1>3. ASSUME NEW wrote \in {"whole", "part", "split"}, tail' = left(wrote), UNCHANGED lines
      PROVE  tail' \in Seq(Piece) /\ AllLines' \in Files /\ Follows(AllLines, AllLines', event)
  <2>1. AllLines' = lines \o <<left(wrote)>>  BY <1>3 DEF AllLines
  <2>2. AllLines' \in Files /\ Len(AllLines') = n + 1
        /\ AllLines'[n + 1] = left(wrote) /\ \A i \in 1 .. n : AllLines'[i] = lines[i]
    <3>1. left(wrote) \in Seq(Piece)  BY <1>1
    <3> HIDE DEF left
    <3>2. QED  BY <1>0, <2>1, <3>1 DEF Files
  <2>3. Follows(AllLines, AllLines', event)
    <3> DEFINE p == [event |-> event, wrote |-> wrote]  ls == AllLines  ms == AllLines'
    <3>1. p \in Piece /\ p.event = event /\ ls \in Files /\ ms \in Files /\ Len(ls) = n + 1 /\ Len(ms) = n + 1
          /\ (\A i \in 1 .. n : ms[i] = ls[i]) /\ ms[n + 1] = ls[n + 1] \o <<p>>
      BY <1>0, <1>1, <2>2
    <3> HIDE DEF p, ls, ms, n, left
    <3>2. Len(ms) >= n + 1 /\ \A i \in 1 .. Len(ms) : i > n + 1 => ms[i] = << >>  BY <1>0, <3>1
    <3>3. Follows(ls, ms, p.event)  BY <1>0, <3>1, <3>2, LineFollows
    <3>4. QED  BY <3>1, <3>3 DEF ls, ms
  <2>4. tail' \in Seq(Piece)  BY <1>1, <1>3
  <2>5. QED  BY <2>2, <2>3, <2>4
<1>4. ASSUME outcome \in {"unterminated", "torn", "split"}
      PROVE  \E wrote \in {"whole", "part", "split"} : tail' = left(wrote) /\ UNCHANGED lines
  BY <1>4 DEF append
<1>5. CASE outcome \in {"unterminated", "torn", "split"}
  <2>1. PICK wrote \in {"whole", "part", "split"} : tail' = left(wrote) /\ UNCHANGED lines
    BY <1>4, <1>5
  <2>2. tail' \in Seq(Piece) /\ AllLines' \in Files /\ Follows(AllLines, AllLines', event)
    BY <1>3, <2>1
  <2>3. outcome # "ok" /\ lines' = lines  BY <1>5, <2>1
  <2>4. QED  BY <1>0, <2>2, <2>3
<1>6. CASE outcome = "refused"
  <2>1. UNCHANGED <<lines, tail>>  BY <1>6 DEF append, file
  <2>2. AllLines' = AllLines  BY <2>1 DEF AllLines
  <2>3. QED  BY <1>0, <1>6, <2>1, <2>2, NothingFollows
<1>7. outcome \in {"ok", "unsynced", "unterminated", "torn", "split", "refused"}
  BY FaultAssumption DEF Outcomes
<1>8. QED  BY <1>2, <1>5, <1>6, <1>7

-----------------------------------------------------------------------------
(* What an append, a restart and both do to what is known of the file.     *)
FileKnown(ls, top, count, back) ==
  /\ FileInOrder(ls) /\ FileWithin(ls, top, count)
  /\ FileUndone(ls, back) /\ FileNames(ls)

(* After the append of an operation the file is known up to that           *)
(* operation.                                                              *)
LEMMA OperationFollows ==
  ASSUME NEW ls \in Files, NEW ms \in Files, NEW event \in Event, Follows(ls, ms, event),
         NEW top \in Nat, NEW count \in Nat, NEW back \in SUBSET (1 .. count),
         event.kind # "undone", event.id = top + 1, event.item = count + 1,
         FileKnown(ls, top, count, back)
  PROVE  /\ FileKnown(ms, top + 1, count + 1, back)
         /\ \A es \in Seq(Entry) : EntriesWithin(es, top, count) /\ FileAgrees(ls, es) =>
              /\ FileAgrees(ms, es)
              /\ FileAgrees(ms, Append(es, EntryOf(event)))
<1> USE DEF FileKnown
<1>1. \A i \in EventsIn(ms) : i \in Nat /\ EventAt(ms, i) \in Event  BY EventTypes DEF Files
<1>2. \A i \in EventsIn(ls) : i \in Nat /\ EventAt(ls, i) \in Event  BY EventTypes DEF Files
<1>3. \A i \in Operations(ms) : i \in EventsIn(ms) /\ i \in Nat /\ EventAt(ms, i) \in Event
  BY <1>1 DEF Operations
<1>4. \A i \in Operations(ms) :
        \/ /\ i \in Operations(ls) /\ EventAt(ms, i) = EventAt(ls, i)
           /\ EventAt(ls, i).id <= top /\ EventAt(ls, i).item \in 1 .. count
        \/ EventAt(ms, i) = event /\ \A j \in EventsIn(ms) : j <= i
  BY <1>3 DEF Follows, Operations, FileWithin
<1>5. FileInOrder(ms)
  <2>1. SUFFICES ASSUME NEW i \in Operations(ms), NEW j \in Operations(ms), i < j
                 PROVE  /\ EventAt(ms, i).id < EventAt(ms, j).id
                        /\ EventAt(ms, i).item < EventAt(ms, j).item
    BY DEF FileInOrder
  <2>2. i \in Operations(ls) /\ EventAt(ms, i) = EventAt(ls, i)
        /\ EventAt(ls, i).id <= top /\ EventAt(ls, i).item \in 1 .. count
    <3>1. ~(j <= i)  BY <1>3, <2>1
    <3>2. QED  BY <1>3, <1>4, <3>1
  <2>3. CASE j \in Operations(ls) /\ EventAt(ms, j) = EventAt(ls, j)
    BY <2>1, <2>2, <2>3 DEF FileInOrder
  <2>4. CASE EventAt(ms, j) = event
    <3>1. EventAt(ls, i) \in Event  BY <1>3, <2>2
    <3>2. QED  BY <2>2, <2>4, <3>1 DEF Event
  <2>5. QED  BY <1>4, <2>3, <2>4
<1>6. FileWithin(ms, top + 1, count + 1)
  <2>1. SUFFICES ASSUME NEW i \in Operations(ms)
                 PROVE  EventAt(ms, i).id <= top + 1 /\ EventAt(ms, i).item \in 1 .. count + 1
    BY DEF FileWithin
  <2>2. EventAt(ms, i).id \in Nat  BY <1>3 DEF Event
  <2>3. QED  BY <1>4, <2>2
<1>7. \A j \in EventsIn(ms) : EventAt(ms, j).kind = "undone" =>
        j \in EventsIn(ls) /\ EventAt(ms, j) = EventAt(ls, j)
  BY DEF Follows
<1>8. FileUndone(ms, back)  BY <1>7 DEF FileUndone
<1>9. FileNames(ms)
  <2>1. SUFFICES ASSUME NEW i \in Operations(ms), NEW j \in EventsIn(ms),
                        EventAt(ms, i).kind = "deleted", EventAt(ms, j).kind = "undone"
                 PROVE  /\ EventAt(ms, i).item = EventAt(ms, j).item =>
                             i < j /\ EventAt(ms, i).id = EventAt(ms, j).id
                        /\ i < j /\ EventAt(ms, i).id = EventAt(ms, j).id =>
                             EventAt(ms, i).item = EventAt(ms, j).item
    BY DEF FileNames
  <2>2. j \in EventsIn(ls) /\ EventAt(ms, j) = EventAt(ls, j)  BY <1>7, <2>1
  <2>3. CASE i \in Operations(ls) /\ EventAt(ms, i) = EventAt(ls, i)
    BY <2>1, <2>2, <2>3 DEF FileNames
  <2>4. CASE EventAt(ms, i) = event /\ \A k \in EventsIn(ms) : k <= i
    <3>1. EventAt(ms, j).item \in 1 .. count  BY <2>1, <2>2 DEF FileUndone
    <3>2. ~(i < j)  BY <1>1, <1>3, <2>4
    <3>3. QED  BY <2>4, <3>1, <3>2
  <2>5. QED  BY <1>4, <2>3, <2>4
<1>10. ASSUME NEW es \in Seq(Entry), EntriesWithin(es, top, count), FileAgrees(ls, es)
       PROVE  FileAgrees(ms, es) /\ FileAgrees(ms, Append(es, EntryOf(event)))
  <2>1. \A n \in DOMAIN es : es[n] \in Entry /\ es[n].id \in Nat /\ es[n].id <= top /\ es[n].item \in 1 .. count
    <3>1. \A n \in DOMAIN es : es[n] \in Entry  OBVIOUS
    <3>2. QED  BY <1>10, <3>1 DEF EntriesWithin, Entry
  <2>2. ASSUME NEW i \in Operations(ms), NEW n \in DOMAIN es
        PROVE  EventAt(ms, i).id = es[n].id <=> EventAt(ms, i).item = es[n].item
    <3>1. CASE i \in Operations(ls) /\ EventAt(ms, i) = EventAt(ls, i)
      BY <1>10, <3>1 DEF FileAgrees
    <3>2. CASE EventAt(ms, i) = event  BY <2>1, <3>2
    <3>3. QED  BY <1>4, <3>1, <3>2
  <2>3. FileAgrees(ms, es)  BY <2>2 DEF FileAgrees
  <2> DEFINE fs == Append(es, EntryOf(event))
  <2>4. EntryOf(event).id = event.id /\ EntryOf(event).item = event.item  BY DEF EntryOf
  <2>5. \A n \in DOMAIN fs : (n \in DOMAIN es /\ fs[n] = es[n]) \/ fs[n] = EntryOf(event)
    <3> DEFINE e == EntryOf(event)
    <3> HIDE DEF e
    <3>1. \A n \in DOMAIN Append(es, e) :
            (n \in DOMAIN es /\ Append(es, e)[n] = es[n]) \/ Append(es, e)[n] = e
      OBVIOUS
    <3>2. QED  BY <3>1 DEF e
  <2>6. ASSUME NEW i \in Operations(ms)
        PROVE  EventAt(ms, i).id = event.id <=> EventAt(ms, i).item = event.item
    <3>1. EventAt(ms, i).id \in Nat  BY <1>3 DEF Event
    <3>2. QED  BY <1>4, <3>1
  <2> HIDE DEF fs
  <2>7. \A i \in Operations(ms), n \in DOMAIN fs :
          EventAt(ms, i).id = fs[n].id <=> EventAt(ms, i).item = fs[n].item
    BY <2>2, <2>4, <2>5, <2>6
  <2>8. FileAgrees(ms, fs)  BY <2>7 DEF FileAgrees
  <2>9. QED  BY <2>3, <2>8 DEF fs
<1>11. QED  BY <1>5, <1>6, <1>8, <1>9, <1>10

(* After the append of an undone event it is known as before.              *)
LEMMA UndoneFollows ==
  ASSUME NEW ls \in Files, NEW ms \in Files, NEW event \in Event, Follows(ls, ms, event),
         NEW top \in Nat, NEW count \in Nat, NEW back \in SUBSET (1 .. count),
         event.kind = "undone", event.item \in back,
         \A i \in Operations(ls) : EventAt(ls, i).id = event.id <=> EventAt(ls, i).item = event.item,
         FileKnown(ls, top, count, back)
  PROVE  /\ FileKnown(ms, top, count, back)
         /\ \A es : FileAgrees(ls, es) => FileAgrees(ms, es)
<1> USE DEF FileKnown
<1>1. \A i \in EventsIn(ms) : i \in Nat /\ EventAt(ms, i) \in Event  BY EventTypes DEF Files
<1>2. \A i \in Operations(ms) : i \in EventsIn(ms) /\ i \in Nat
  BY <1>1 DEF Operations
<1>3. \A i \in Operations(ms) : i \in Operations(ls) /\ EventAt(ms, i) = EventAt(ls, i)
  BY DEF Follows, Operations
<1>4. FileInOrder(ms) /\ FileWithin(ms, top, count)  BY <1>3 DEF FileInOrder, FileWithin
<1>5. FileUndone(ms, back)  BY DEF Follows, FileUndone
<1>6. FileNames(ms)
  <2>1. SUFFICES ASSUME NEW i \in Operations(ms), NEW j \in EventsIn(ms),
                        EventAt(ms, i).kind = "deleted", EventAt(ms, j).kind = "undone"
                 PROVE  /\ EventAt(ms, i).item = EventAt(ms, j).item =>
                             i < j /\ EventAt(ms, i).id = EventAt(ms, j).id
                        /\ i < j /\ EventAt(ms, i).id = EventAt(ms, j).id =>
                             EventAt(ms, i).item = EventAt(ms, j).item
    BY DEF FileNames
  <2>2. i \in Operations(ls) /\ EventAt(ms, i) = EventAt(ls, i)  BY <1>3
  <2>3. CASE j \in EventsIn(ls) /\ EventAt(ms, j) = EventAt(ls, j)
    BY <2>1, <2>2, <2>3 DEF FileNames
  <2>4. CASE EventAt(ms, j) = event /\ \A k \in EventsIn(ms) : k <= j
    <3>1. i # j  BY <2>1
    <3>2. i < j  BY <1>1, <1>2, <2>4, <3>1
    <3>3. QED  BY <2>2, <2>4, <3>2
  <2>5. QED  BY <2>3, <2>4 DEF Follows
<1>7. \A es : FileAgrees(ls, es) => FileAgrees(ms, es)  BY <1>3 DEF FileAgrees
<1>8. QED  BY <1>4, <1>5, <1>6, <1>7

(* Load gives entries in order, with ids and undone marks the file has.    *)
LEMMA ReadBack ==
  ASSUME NEW ls \in Files, NEW top \in Nat, NEW count \in Nat, NEW back,
         FileKnown(ls, top, count, back)
  PROVE  /\ load_journal(ls) \in Seq(Entry) /\ LastId(load_journal(ls)) \in Nat
         /\ EntriesInOrder(load_journal(ls))
         /\ EntriesWithin(load_journal(ls), LastId(load_journal(ls)), count)
         /\ EntriesUndone(load_journal(ls), back)
         /\ FileKnown(ls, LastId(load_journal(ls)), count, back)
         /\ FileAgrees(ls, load_journal(ls))
<1> DEFINE es == load_journal(ls)
<1>0. FileInOrder(ls) /\ FileWithin(ls, top, count) /\ FileUndone(ls, back) /\ FileNames(ls)
  BY DEF FileKnown
<1>1. es \in Seq(Entry)  BY ReadInOrder
<1>2. PICK f \in [DOMAIN es -> Operations(ls)] :
        /\ \A m, n \in DOMAIN f : m < n => f[m] < f[n]
        /\ \A i \in Operations(ls) : \E n \in DOMAIN f : f[n] = i
        /\ \A n \in DOMAIN f : es[n] = EntryAt(ls, f[n])
  BY ReadInOrder
<1> HIDE DEF es
<1>3. \A i \in Operations(ls) : i \in EventsIn(ls) /\ i \in Nat /\ EventAt(ls, i) \in Event
  BY EventTypes DEF Files
<1>4. \A n \in DOMAIN es :
        /\ f[n] \in Operations(ls)
        /\ es[n].id = EventAt(ls, f[n]).id /\ es[n].item = EventAt(ls, f[n]).item
        /\ es[n].undone = (EventAt(ls, f[n]).kind = "deleted" /\ MarkedUndone(ls, f[n]))
  BY <1>2 DEF EntryAt
<1>5. EntriesInOrder(es)  BY <1>0, <1>2, <1>4 DEF EntriesInOrder, FileInOrder
<1>6. \A n \in DOMAIN es : es[n].id <= top /\ es[n].item \in 1 .. count
  BY <1>0, <1>4 DEF FileWithin
<1>7. LastId(es) \in Nat /\ \A n \in DOMAIN es : es[n].id <= LastId(es)
  BY <1>1, <1>6, LastIdBounds
<1>8. EntriesWithin(es, LastId(es), count)  BY <1>6, <1>7 DEF EntriesWithin
<1>9. FileWithin(ls, LastId(es), count)
  <2>1. \A i \in Operations(ls) : \E n \in DOMAIN es : f[n] = i  BY <1>2
  <2>2. QED  BY <1>0, <1>4, <1>7, <2>1 DEF FileWithin
<1>10. EntriesUndone(es, back)
  <2>1. SUFFICES ASSUME NEW n \in DOMAIN es, es[n].undone PROVE es[n].item \in back
    BY DEF EntriesUndone
  <2>2. EventAt(ls, f[n]).kind = "deleted" /\ MarkedUndone(ls, f[n])  BY <1>4, <2>1
  <2>3. PICK j \in EventsIn(ls) : f[n] < j /\ EventAt(ls, j).kind = "undone"
                                  /\ EventAt(ls, j).id = EventAt(ls, f[n]).id
    BY <2>2 DEF MarkedUndone
  <2>4. EventAt(ls, f[n]).item = EventAt(ls, j).item  BY <1>0, <1>4, <2>2, <2>3 DEF FileNames
  <2>5. QED  BY <1>0, <1>4, <2>3, <2>4 DEF FileUndone
<1>11. FileAgrees(ls, es)
  <2>1. SUFFICES ASSUME NEW i \in Operations(ls), NEW n \in DOMAIN es
                 PROVE  EventAt(ls, i).id = es[n].id <=> EventAt(ls, i).item = es[n].item
    BY DEF FileAgrees
  <2>2. f[n] \in Operations(ls) /\ i \in Nat /\ f[n] \in Nat /\ EventAt(ls, i) \in Event
        /\ EventAt(ls, f[n]) \in Event
    BY <1>3, <1>4
  <2>3. CASE i = f[n]  BY <1>4, <2>3
  <2>4. CASE i < f[n]  BY <1>0, <1>4, <2>2, <2>4 DEF FileInOrder, Event
  <2>5. CASE f[n] < i  BY <1>0, <1>4, <2>2, <2>5 DEF FileInOrder, Event
  <2>6. QED  BY <2>2, <2>3, <2>4, <2>5
<1>12. QED  BY <1>0, <1>1, <1>5, <1>7, <1>8, <1>9, <1>10, <1>11 DEF FileKnown, es

-----------------------------------------------------------------------------
(* The invariant holds at the start and every step keeps it.               *)
LEMMA JournalInvInit == UndoInit => JournalInv
<1> SUFFICES ASSUME UndoInit PROVE JournalInv  OBVIOUS
<1> USE DEF UndoInit, Init
<1>1. JournalTypeOK
  <2>1. entries \in Seq(Entry) /\ lines \in Seq(Seq(Piece)) /\ tail \in Seq(Piece)  OBVIOUS
  <2>2. place \in [1 .. MaxItems -> Places]  BY DEF Places
  <2>3. undo \in [Requests -> Request]  BY DEF Asleep, Request
  <2>4. QED  BY <2>1, <2>2, <2>3 DEF JournalTypeOK
<1>2. DOMAIN entries = {} /\ DOMAIN lines = {}  OBVIOUS
<1>3. EventsIn(AllLines) = {}
  <2>1. AllLines = << << >> >>  BY DEF AllLines
  <2>2. \A i \in DOMAIN AllLines : ~Parses(AllLines[i])  BY <2>1 DEF Parses
  <2>3. QED  BY <2>2 DEF EventsIn
<1>4. Operations(AllLines) = {}  BY <1>3 DEF Operations
<1>5. FileOK(AllLines)
  BY <1>3, <1>4 DEF FileOK, FileInOrder, FileWithin, FileUndone, FileNames, FileAgrees
<1>6. EntriesInOrder(entries) /\ EntriesWithin(entries, nextOperation, items) /\ EntriesUndone(entries, putBack)
  BY <1>2 DEF EntriesInOrder, EntriesWithin, EntriesUndone
<1>7. RequestsKnow  BY DEF RequestsKnow, At, Asleep
<1>8. PlacesKnown  BY JournalBounds DEF PlacesKnown
<1>9. BackIsMarked /\ RecordedEndsLine  BY <1>2 DEF BackIsMarked, RecordedEndsLine
<1>10. QED  BY <1>1, <1>5, <1>6, <1>7, <1>8, <1>9 DEF JournalInv

(* Only what these depend on changes them.                                 *)
LEMMA RecordedStays ==
  ASSUME JournalInv, NEW event \in Event, NEW outcome \in Faults \cup {"ok"},
         append(event, outcome), recorded' \in SUBSET (recorded \cup {event}),
         event \in recorded' => event \in recorded \/ outcome = "ok"
  PROVE  /\ lines' \in Seq(Seq(Piece)) /\ tail' \in Seq(Piece)
         /\ recorded' \in SUBSET Event
         /\ AllLines \in Files /\ AllLines' \in Files
         /\ Follows(AllLines, AllLines', event)
         /\ RecordedEndsLine'
<1>1. lines \in Seq(Seq(Piece)) /\ tail \in Seq(Piece) /\ recorded \in SUBSET Event
  BY DEF JournalInv, JournalTypeOK
<1>2. /\ lines' \in Seq(Seq(Piece)) /\ tail' \in Seq(Piece)
      /\ AllLines \in Files /\ AllLines' \in Files
      /\ Follows(AllLines, AllLines', event)
      /\ \A i \in DOMAIN lines : i \in DOMAIN lines' /\ lines'[i] = lines[i]
      /\ outcome = "ok" =>
           \E i \in DOMAIN lines' :
             Len(lines'[i]) > 0 /\ lines'[i][Len(lines'[i])] = [event |-> event, wrote |-> "whole"]
  BY <1>1, AppendFollows
<1>3. \A e \in recorded : \E i \in DOMAIN lines' :
        Len(lines'[i]) > 0 /\ lines'[i][Len(lines'[i])] = [event |-> e, wrote |-> "whole"]
  BY <1>2 DEF JournalInv, RecordedEndsLine
<1>4. RecordedEndsLine'  BY <1>2, <1>3 DEF RecordedEndsLine
<1>5. QED  BY <1>1, <1>2, <1>4

(* An operation takes the next id and the next item.                       *)
LEMMA NewEventIsNext ==
  ASSUME JournalInv, NEW kind \in Terminal \cup {"deleted"}
  PROVE  /\ NewEvent(kind) \in Event
         /\ NewEvent(kind).kind = kind /\ kind # "undone"
         /\ NewEvent(kind).id = nextOperation + 1 /\ NewEvent(kind).item = items + 1
<1>1. kind # "undone"  BY KindAssumption
<1>2. nextOperation + 1 \in Nat /\ items + 1 \in Nat  BY DEF JournalInv, JournalTypeOK
<1>3. QED  BY <1>1, <1>2 DEF NewEvent, Event

(* What the invariant says of the file.                                    *)
LEMMA FileIsKnown ==
  ASSUME JournalInv
  PROVE  /\ FileKnown(AllLines, nextOperation, items, putBack)
         /\ nextOperation \in Nat /\ items \in Nat /\ putBack \in SUBSET (1 .. items)
         /\ entries \in Seq(Entry)
BY DEF JournalInv, JournalTypeOK, FileOK, FileKnown, PlacesKnown

(* An operation recorded, whatever became of its append.                   *)
LEMMA RecordKeepsInv ==
  ASSUME JournalInv, NEW kind \in Terminal \cup {"deleted"}, NEW outcome \in Faults \cup {"ok"},
         NewItem, append(NewEvent(kind), outcome), Note(NewEvent(kind), outcome),
         nextOperation' = NewEvent(kind).id,
         entries' = entries \/ entries' = Append(entries, EntryOf(NewEvent(kind))),
         UNCHANGED <<putBack, restarts>>, UNCHANGED undoVars
  PROVE  JournalInv'
<1> DEFINE event == NewEvent(kind)
<1>1. event \in Event /\ event.kind = kind /\ event.kind # "undone"
      /\ event.id = nextOperation + 1 /\ event.item = items + 1
  BY NewEventIsNext
<1>2. append(event, outcome) /\ Note(event, outcome) /\ nextOperation' = event.id
      /\ items' = items + 1 /\ items < MaxItems
  BY DEF NewItem
<1>3. entries' = entries \/ entries' = Append(entries, EntryOf(event))  OBVIOUS
<1>4. UNCHANGED <<putBack, restarts, place, undo, undos, unsaid>>  BY DEF undoVars
<1> HIDE DEF event
<1>5. /\ lines' \in Seq(Seq(Piece)) /\ tail' \in Seq(Piece) /\ recorded' \in SUBSET Event
      /\ AllLines \in Files /\ AllLines' \in Files
      /\ Follows(AllLines, AllLines', event) /\ RecordedEndsLine'
  <2>1. recorded' \in SUBSET (recorded \cup {event})
        /\ (event \in recorded' => event \in recorded \/ outcome = "ok")
    BY <1>2 DEF Note
  <2>2. QED  BY <1>1, <1>2, <2>1, RecordedStays
<1>6. /\ FileKnown(AllLines, nextOperation, items, putBack)
      /\ nextOperation \in Nat /\ items \in Nat /\ putBack \in SUBSET (1 .. items)
      /\ entries \in Seq(Entry)
  BY FileIsKnown
<1>7. EntryOf(event) \in Entry /\ EntryOf(event).id = nextOperation + 1
      /\ EntryOf(event).item = items + 1 /\ EntryOf(event).undone = FALSE
  BY <1>1 DEF EntryOf, Entry, Event
<1>8. entries' \in Seq(Entry)
      /\ \A n \in DOMAIN entries' :
           \/ n \in DOMAIN entries /\ entries'[n] = entries[n]
           \/ /\ entries'[n] = EntryOf(event) /\ \A m \in DOMAIN entries' : m <= n
  <2> DEFINE e == EntryOf(event)
  <2>1. e \in Entry  BY <1>7
  <2> HIDE DEF e
  <2>2. entries' = entries \/ entries' = Append(entries, e)  BY <1>3 DEF e
  <2>3. CASE entries' = entries  BY <1>6, <2>3
  <2>4. CASE entries' = Append(entries, e)
    <3>1. entries' \in Seq(Entry) /\ DOMAIN entries' = 1 .. Len(entries) + 1 /\ Len(entries) \in Nat
      BY <1>6, <2>1, <2>4
    <3>2. \A n \in 1 .. Len(entries) : n \in DOMAIN entries /\ entries'[n] = entries[n]
      BY <1>6, <2>4
    <3>3. entries'[Len(entries) + 1] = e  BY <1>6, <2>4
    <3>4. QED  BY <3>1, <3>2, <3>3 DEF e
  <2>5. QED  BY <2>2, <2>3, <2>4 DEF e
<1>9. \A n \in DOMAIN entries : entries[n].id \in Nat /\ entries[n].item \in Nat
        /\ entries[n].id <= nextOperation /\ entries[n].item \in 1 .. items
  <2>1. \A n \in DOMAIN entries : entries[n] \in Entry  BY <1>6
  <2>2. QED  BY <2>1 DEF JournalInv, EntriesWithin, Entry
<1>10. EntriesInOrder(entries')
  <2>1. SUFFICES ASSUME NEW m \in DOMAIN entries', NEW n \in DOMAIN entries', m < n
                 PROVE  entries'[m].id < entries'[n].id /\ entries'[m].item < entries'[n].item
    BY DEF EntriesInOrder
  <2>2. m \in Nat /\ n \in Nat  BY <1>8
  <2>3. m \in DOMAIN entries /\ entries'[m] = entries[m]  BY <1>8, <2>1, <2>2
  <2>4. CASE n \in DOMAIN entries /\ entries'[n] = entries[n]
    BY <2>1, <2>3, <2>4 DEF JournalInv, EntriesInOrder
  <2>5. CASE entries'[n] = EntryOf(event)  BY <1>6, <1>7, <1>9, <2>3, <2>5
  <2>6. QED  BY <1>8, <2>4, <2>5
<1>11. EntriesWithin(entries', nextOperation', items')
  BY <1>1, <1>2, <1>6, <1>7, <1>8, <1>9 DEF EntriesWithin
<1>12. EntriesUndone(entries', putBack')
  BY <1>4, <1>7, <1>8 DEF JournalInv, EntriesUndone
<1>13. FileOK(AllLines)'
  <2>1. /\ FileKnown(AllLines', nextOperation + 1, items + 1, putBack)
        /\ \A es \in Seq(Entry) : EntriesWithin(es, nextOperation, items) /\ FileAgrees(AllLines, es) =>
             FileAgrees(AllLines', es) /\ FileAgrees(AllLines', Append(es, EntryOf(event)))
    BY <1>1, <1>5, <1>6, OperationFollows
  <2>2. EntriesWithin(entries, nextOperation, items) /\ FileAgrees(AllLines, entries)
    BY DEF JournalInv, FileOK
  <2>3. FileAgrees(AllLines', entries')  BY <1>3, <1>6, <2>1, <2>2
  <2>4. nextOperation' = nextOperation + 1 /\ items' = items + 1 /\ putBack' = putBack
    BY <1>1, <1>2, <1>4
  <2>5. QED  BY <2>1, <2>3, <2>4 DEF FileOK, FileKnown
<1>14. RequestsKnow'
  <2>1. \A n \in DOMAIN entries : n \in DOMAIN entries' /\ entries'[n] = entries[n]
    <3> DEFINE e == EntryOf(event)
    <3> HIDE DEF e
    <3>1. entries' = entries \/ entries' = Append(entries, e)  BY <1>3 DEF e
    <3>2. QED  BY <1>6, <3>1
  <2>2. QED  BY <1>4, <2>1 DEF JournalInv, RequestsKnow, At
<1>15. PlacesKnown'
  BY <1>2, <1>4, <1>6, JournalBounds DEF JournalInv, PlacesKnown
<1>16. BackIsMarked'
  <2>1. SUFFICES ASSUME restarts = 0, NEW n \in DOMAIN entries', entries'[n].kind = "deleted",
                        place[entries'[n].item] = "back", ~entries'[n].undone
                 PROVE  \/ entries'[n].item \in unsaid
                        \/ \E t \in Requests :
                             undo[t].item = entries'[n].item /\ (At(t, "ran") \/ At(t, "restored"))
    BY <1>4 DEF BackIsMarked, At
  <2>2. CASE n \in DOMAIN entries /\ entries'[n] = entries[n]
    BY <2>1, <2>2 DEF JournalInv, BackIsMarked
  <2>3. CASE entries'[n] = EntryOf(event)
    <3>1. items + 1 \in 1 .. MaxItems  BY <1>2, <1>6, JournalBounds
    <3>2. place[items + 1] = "back"  BY <1>7, <2>1, <2>3
    <3>3. QED  BY <1>6, <3>1, <3>2 DEF JournalInv, PlacesKnown
  <2>4. QED  BY <1>8, <2>2, <2>3
<1>17. JournalTypeOK'
  <2>1. nextOperation' \in Nat /\ items' \in Nat  BY <1>1, <1>2, <1>6
  <2>2. restarts' \in Nat /\ place' \in [1 .. MaxItems -> Places] /\ undo' \in [Requests -> Request]
    BY <1>4 DEF JournalInv, JournalTypeOK
  <2>3. QED  BY <1>5, <1>8, <2>1, <2>2 DEF JournalTypeOK
<1>18. QED  BY <1>5, <1>10, <1>11, <1>12, <1>13, <1>14, <1>15, <1>16, <1>17 DEF JournalInv

(* A new session knows of the operations what the file says of them.       *)
LEMMA ReloadKeepsInv ==
  ASSUME JournalInv, NEW top \in Nat,
         lines' \in Seq(Seq(Piece)), tail' \in Seq(Piece), AllLines' \in Files,
         FileKnown(AllLines', top, items', putBack),
         items' \in {items, items + 1}, items' <= MaxItems,
         restarts' = restarts + 1, entries' = load_journal(AllLines'),
         nextOperation' = LastId(entries'), RecordedEndsLine',
         UNCHANGED <<recorded, putBack>>, Dies
  PROVE  JournalInv'
<1>1. items \in Nat /\ items' \in Nat /\ restarts \in Nat /\ recorded \in SUBSET Event
      /\ place \in [1 .. MaxItems -> Places] /\ putBack \in SUBSET (1 .. items)
  BY DEF JournalInv, JournalTypeOK, PlacesKnown
<1>2. /\ entries' \in Seq(Entry) /\ nextOperation' \in Nat
      /\ EntriesInOrder(entries') /\ EntriesWithin(entries', nextOperation', items')
      /\ EntriesUndone(entries', putBack)
      /\ FileKnown(AllLines', nextOperation', items', putBack)
      /\ FileAgrees(AllLines', entries')
  BY <1>1, ReadBack
<1>3. undo' = [t \in Requests |-> Asleep] /\ place' = place  BY DEF Dies
<1>4. JournalTypeOK'
  <2>1. undo' \in [Requests -> Request]  BY <1>3 DEF Asleep, Request
  <2>2. QED  BY <1>1, <1>2, <1>3, <2>1 DEF JournalTypeOK
<1>5. FileOK(AllLines)'  BY <1>2 DEF FileOK, FileKnown
<1>6. RequestsKnow'  BY <1>3 DEF RequestsKnow, At, Asleep
<1>7. PlacesKnown'  BY <1>1, <1>3 DEF JournalInv, PlacesKnown
<1>8. BackIsMarked'  BY <1>1 DEF BackIsMarked
<1>9. EntriesUndone(entries', putBack')  BY <1>2
<1>10. QED  BY <1>2, <1>4, <1>5, <1>6, <1>7, <1>8, <1>9 DEF JournalInv

(* A session that ends between two steps.                                  *)
LEMMA RestartKeepsInv ==
  ASSUME JournalInv, Restart, Dies
  PROVE  JournalInv'
<1>1. /\ FileKnown(AllLines, nextOperation, items, putBack)
      /\ nextOperation \in Nat /\ items \in Nat
  BY FileIsKnown
<1>2. /\ lines' = lines /\ tail' = tail /\ items' = items /\ AllLines' = AllLines
      /\ UNCHANGED <<recorded, putBack>> /\ restarts' = restarts + 1
      /\ entries' = load_journal(AllLines') /\ nextOperation' = LastId(entries')
  BY DEF Restart, AllLines, file
<1>3. lines \in Seq(Seq(Piece)) /\ tail \in Seq(Piece) /\ RecordedEndsLine /\ items <= MaxItems
  BY DEF JournalInv, JournalTypeOK, PlacesKnown
<1>4. AllLines \in Files  BY <1>3 DEF AllLines, Files
<1>5. RecordedEndsLine'  BY <1>2, <1>3 DEF RecordedEndsLine
<1>6. QED  BY <1>1, <1>2, <1>3, <1>4, <1>5, ReloadKeepsInv

(* One that is killed inside the append of an operation.                   *)
LEMMA KilledRecordKeepsInv ==
  ASSUME JournalInv, NEW kind \in Terminal \cup {"deleted"}, NEW outcome \in CutOff,
         NewItem, KilledInside(NewEvent(kind), outcome), Dies
  PROVE  JournalInv'
<1> DEFINE event == NewEvent(kind)
<1>1. event \in Event /\ event.kind # "undone"
      /\ event.id = nextOperation + 1 /\ event.item = items + 1
  BY NewEventIsNext
<1>2. append(event, outcome) /\ items' = items + 1 /\ items < MaxItems
      /\ UNCHANGED <<recorded, putBack>> /\ restarts' = restarts + 1
      /\ entries' = load_journal(AllLines') /\ nextOperation' = LastId(entries')
  BY DEF NewItem, KilledInside, AllLines
<1>3. outcome \in Faults \cup {"ok"}  BY DEF CutOff
<1> HIDE DEF event
<1>4. /\ FileKnown(AllLines, nextOperation, items, putBack)
      /\ nextOperation \in Nat /\ items \in Nat /\ putBack \in SUBSET (1 .. items)
  BY FileIsKnown
<1>5. /\ lines' \in Seq(Seq(Piece)) /\ tail' \in Seq(Piece)
      /\ AllLines \in Files /\ AllLines' \in Files
      /\ Follows(AllLines, AllLines', event) /\ RecordedEndsLine'
  BY <1>1, <1>2, <1>3, RecordedStays
<1>6. FileKnown(AllLines', nextOperation + 1, items', putBack)
  BY <1>1, <1>2, <1>4, <1>5, OperationFollows
<1>7. nextOperation + 1 \in Nat /\ items' \in {items, items + 1} /\ items' <= MaxItems
  BY <1>2, <1>4, JournalBounds
<1>8. QED  BY <1>2, <1>5, <1>6, <1>7, ReloadKeepsInv

(* A request that marks its deletion names it truly.                       *)
LEMMA UndoneEventIsTrue ==
  ASSUME JournalInv, NEW t \in Requests, At(t, "restored")
  PROVE  /\ UndoneEvent(undo[t].id, undo[t].item) \in Event
         /\ undo[t].item \in putBack
         /\ \A i \in Operations(AllLines) :
              EventAt(AllLines, i).id = undo[t].id <=> EventAt(AllLines, i).item = undo[t].item
         /\ \E n \in DOMAIN entries :
              entries[n].kind = "deleted" /\ entries[n].id = undo[t].id /\ entries[n].item = undo[t].item
<1>1. undo[t] \in Request  BY DEF JournalInv, JournalTypeOK
<1>2. UndoneEvent(undo[t].id, undo[t].item) \in Event  BY <1>1 DEF UndoneEvent, Event, Request
<1>3. ~At(t, "idle")  BY DEF At
<1>4. PICK n \in DOMAIN entries :
        entries[n].kind = "deleted" /\ entries[n].id = undo[t].id /\ entries[n].item = undo[t].item
  BY <1>3 DEF JournalInv, RequestsKnow
<1>5. place[undo[t].item] = "back"  BY <1>3 DEF JournalInv, RequestsKnow
<1>6. undo[t].item \in 1 .. MaxItems
  <2>1. undo[t].item \in 1 .. items  BY <1>4 DEF JournalInv, EntriesWithin
  <2>2. items <= MaxItems /\ items \in Nat  BY DEF JournalInv, JournalTypeOK, PlacesKnown
  <2>3. QED  BY <2>1, <2>2, JournalBounds
<1>7. undo[t].item \in putBack  BY <1>5, <1>6 DEF JournalInv, PlacesKnown
<1>8. \A i \in Operations(AllLines) :
        EventAt(AllLines, i).id = undo[t].id <=> EventAt(AllLines, i).item = undo[t].item
  BY <1>4 DEF JournalInv, FileOK, FileAgrees
<1>9. QED  BY <1>2, <1>4, <1>7, <1>8

(* One that is killed inside the append of an undone mark.                 *)
LEMMA KilledMarkKeepsInv ==
  ASSUME JournalInv, NEW t \in Requests, NEW outcome \in CutOff, At(t, "restored"),
         KilledInside(UndoneEvent(undo[t].id, undo[t].item), outcome), Dies, UNCHANGED items
  PROVE  JournalInv'
<1> DEFINE event == UndoneEvent(undo[t].id, undo[t].item)
<1>1. /\ event \in Event /\ event.kind = "undone" /\ event.item \in putBack
      /\ \A i \in Operations(AllLines) :
           EventAt(AllLines, i).id = event.id <=> EventAt(AllLines, i).item = event.item
  <2>1. event.id = undo[t].id /\ event.item = undo[t].item /\ event.kind = "undone"  BY DEF UndoneEvent
  <2> HIDE DEF event
  <2>2. QED  BY <2>1, UndoneEventIsTrue DEF event
<1>2. append(event, outcome) /\ items' = items
      /\ UNCHANGED <<recorded, putBack>> /\ restarts' = restarts + 1
      /\ entries' = load_journal(AllLines') /\ nextOperation' = LastId(entries')
  BY DEF KilledInside, AllLines
<1>3. outcome \in Faults \cup {"ok"}  BY DEF CutOff
<1> HIDE DEF event
<1>4. /\ FileKnown(AllLines, nextOperation, items, putBack)
      /\ nextOperation \in Nat /\ items \in Nat /\ putBack \in SUBSET (1 .. items) /\ items <= MaxItems
  BY FileIsKnown DEF JournalInv, PlacesKnown
<1>5. /\ lines' \in Seq(Seq(Piece)) /\ tail' \in Seq(Piece)
      /\ AllLines \in Files /\ AllLines' \in Files
      /\ Follows(AllLines, AllLines', event) /\ RecordedEndsLine'
  BY <1>1, <1>2, <1>3, RecordedStays
<1>6. FileKnown(AllLines', nextOperation, items', putBack)
  BY <1>1, <1>2, <1>4, <1>5, UndoneFollows
<1>7. QED  BY <1>2, <1>4, <1>5, <1>6, ReloadKeepsInv

(* The first deletion of an id is the only one, and it is marked.          *)
LEMMA MarkKeepsInv ==
  ASSUME JournalInv, NEW t \in Requests, NEW outcome \in Faults \cup {"ok"}, Mark(t, outcome)
  PROVE  JournalInv'
<1> DEFINE event == UndoneEvent(undo[t].id, undo[t].item)
           First(i) == i \in Named(undo[t].id) /\ \A j \in Named(undo[t].id) : i <= j
<1>1. /\ event \in Event /\ event.kind = "undone" /\ event.item \in putBack
      /\ event.id = undo[t].id /\ event.item = undo[t].item
      /\ \A i \in Operations(AllLines) :
           EventAt(AllLines, i).id = event.id <=> EventAt(AllLines, i).item = event.item
  <2>1. event.id = undo[t].id /\ event.item = undo[t].item /\ event.kind = "undone"  BY DEF UndoneEvent
  <2>2. At(t, "restored")  BY DEF Mark
  <2> HIDE DEF event
  <2>3. QED  BY <2>1, <2>2, UndoneEventIsTrue DEF event
<1>2. PICK own \in DOMAIN entries :
        entries[own].kind = "deleted" /\ entries[own].id = event.id /\ entries[own].item = event.item
  BY <1>1, UndoneEventIsTrue DEF Mark
<1>3. append(event, outcome) /\ Note(event, outcome)
      /\ entries' = [i \in DOMAIN entries |->
                       IF First(i) THEN [entries[i] EXCEPT !.undone = TRUE] ELSE entries[i]]
      /\ UNCHANGED <<nextOperation, items, putBack, restarts, place, undos, unsaid>>
      /\ undo' = [undo EXCEPT ![t] = Asleep]
  BY DEF Mark, MarkUndone, Answer
<1>4. /\ FileKnown(AllLines, nextOperation, items, putBack)
      /\ nextOperation \in Nat /\ items \in Nat /\ putBack \in SUBSET (1 .. items)
      /\ entries \in Seq(Entry)
  BY FileIsKnown
<1>5. \A i \in DOMAIN entries : entries[i] \in Entry /\ i \in Nat /\ entries[i].id \in Nat
        /\ entries[i].item \in Nat
  <2>1. \A i \in DOMAIN entries : entries[i] \in Entry /\ i \in Nat  BY <1>4
  <2>2. QED  BY <2>1 DEF Entry
<1>6. \A i \in DOMAIN entries : entries[i].id = event.id => i = own
  <2>1. \A i, j \in DOMAIN entries : i < j => entries[i].id < entries[j].id
    BY DEF JournalInv, EntriesInOrder
  <2>2. \A i \in DOMAIN entries : i < own \/ own < i \/ i = own  BY <1>5
  <2>3. QED  BY <1>2, <1>5, <2>1, <2>2
<1>7. \A i \in DOMAIN entries : First(i) <=> i = own
  <2>1. \A i \in Named(undo[t].id) : i \in DOMAIN entries /\ entries[i].id = event.id
    BY <1>1 DEF Named
  <2>2. own \in Named(undo[t].id)  BY <1>1, <1>2 DEF Named
  <2>3. \A i \in Named(undo[t].id) : i = own  BY <1>6, <2>1
  <2>4. QED  BY <1>5, <2>2, <2>3
<1>8. /\ DOMAIN entries' = DOMAIN entries
      /\ \A i \in DOMAIN entries :
           /\ entries'[i] \in Entry
           /\ entries'[i].id = entries[i].id /\ entries'[i].item = entries[i].item
           /\ entries'[i].kind = entries[i].kind
           /\ entries'[i].undone <=> entries[i].undone \/ i = own
  <2> HIDE DEF First, event
  <2>1. DOMAIN entries' = DOMAIN entries
        /\ \A i \in DOMAIN entries :
             entries'[i] = IF i = own THEN [entries[i] EXCEPT !.undone = TRUE] ELSE entries[i]
    BY <1>3, <1>7
  <2>2. ASSUME NEW i \in DOMAIN entries
        PROVE  /\ entries'[i] \in Entry
               /\ entries'[i].id = entries[i].id /\ entries'[i].item = entries[i].item
               /\ entries'[i].kind = entries[i].kind
               /\ entries'[i].undone <=> entries[i].undone \/ i = own
    <3>1. entries[i] \in Entry  BY <1>5
    <3>2. CASE i = own
      <4>1. entries'[i] = [entries[i] EXCEPT !.undone = TRUE]  BY <2>1, <3>2
      <4>2. QED  BY <3>1, <3>2, <4>1 DEF Entry
    <3>3. CASE i # own  BY <2>1, <3>1, <3>3 DEF Entry
    <3>4. QED  BY <3>2, <3>3
  <2>3. QED  BY <2>1, <2>2
<1> HIDE DEF event, First
<1>9. entries' \in Seq(Entry)
  <2>1. DOMAIN entries = 1 .. Len(entries) /\ Len(entries) \in Nat  BY <1>4
  <2>2. entries' = [i \in 1 .. Len(entries) |-> entries'[i]]  BY <1>3, <2>1
  <2>3. \A i \in 1 .. Len(entries) : entries'[i] \in Entry  BY <1>8, <2>1
  <2>4. [i \in 1 .. Len(entries) |-> entries'[i]] \in Seq(Entry)  BY <2>1, <2>3
  <2>5. QED  BY <2>2, <2>4
<1>10. /\ lines' \in Seq(Seq(Piece)) /\ tail' \in Seq(Piece) /\ recorded' \in SUBSET Event
       /\ AllLines \in Files /\ AllLines' \in Files
       /\ Follows(AllLines, AllLines', event) /\ RecordedEndsLine'
  <2>1. recorded' \in SUBSET (recorded \cup {event})
        /\ (event \in recorded' => event \in recorded \/ outcome = "ok")
    BY <1>3 DEF Note
  <2>2. QED  BY <1>1, <1>3, <2>1, RecordedStays
<1>11. EntriesInOrder(entries') /\ EntriesWithin(entries', nextOperation', items')
  BY <1>3, <1>8 DEF JournalInv, EntriesInOrder, EntriesWithin
<1>12. EntriesUndone(entries', putBack')
  <2>1. \A n \in DOMAIN entries : entries[n].undone => entries[n].item \in putBack
    BY DEF JournalInv, EntriesUndone
  <2>2. \A n \in DOMAIN entries : entries'[n].undone => entries'[n].item \in putBack
    BY <1>1, <1>2, <1>8, <2>1
  <2>3. QED  BY <1>3, <1>8, <2>2 DEF EntriesUndone
<1>13. FileOK(AllLines)'
  <2>1. /\ FileKnown(AllLines', nextOperation, items, putBack)
        /\ \A es : FileAgrees(AllLines, es) => FileAgrees(AllLines', es)
    BY <1>1, <1>4, <1>10, UndoneFollows
  <2>2. FileAgrees(AllLines', entries)  BY <2>1 DEF JournalInv, FileOK
  <2>3. FileAgrees(AllLines', entries')  BY <1>8, <2>2 DEF FileAgrees
  <2>4. QED  BY <1>3, <2>1, <2>3 DEF FileOK, FileKnown
<1>14. undo \in [Requests -> Request]  BY DEF JournalInv, JournalTypeOK
<1>15. RequestsKnow'
  <2>1. SUFFICES ASSUME NEW u \in Requests, undo'[u].pc # "idle"
                 PROVE  /\ \E n \in DOMAIN entries' :
                             /\ entries'[n].kind = "deleted"
                             /\ entries'[n].id = undo'[u].id /\ entries'[n].item = undo'[u].item
                        /\ undo'[u].pc = "restored" => place'[undo'[u].item] = "back"
    BY DEF RequestsKnow, At
  <2>2. u # t /\ undo'[u] = undo[u]  BY <1>3, <1>14, <2>1 DEF Asleep
  <2>3. QED  BY <1>3, <1>8, <2>1, <2>2 DEF JournalInv, RequestsKnow, At
<1>16. PlacesKnown'  BY <1>3 DEF JournalInv, PlacesKnown
<1>17. BackIsMarked'
  <2>1. SUFFICES ASSUME restarts = 0, NEW n \in DOMAIN entries, entries[n].kind = "deleted",
                        place[entries[n].item] = "back", ~entries[n].undone, n # own
                 PROVE  \/ entries[n].item \in unsaid
                        \/ \E u \in Requests :
                             undo'[u].item = entries[n].item /\ (undo'[u].pc = "ran" \/ undo'[u].pc = "restored")
    <3>1. \A n \in DOMAIN entries' : n \in DOMAIN entries /\ (entries'[n].undone <=> entries[n].undone \/ n = own)
            /\ entries'[n].kind = entries[n].kind /\ entries'[n].item = entries[n].item
      BY <1>8
    <3>2. place' = place /\ unsaid' = unsaid /\ restarts' = restarts  BY <1>3
    <3>3. QED  BY <3>1, <3>2 DEF BackIsMarked, At
  <2>2. CASE entries[n].item \in unsaid  BY <2>2
  <2>3. CASE entries[n].item \notin unsaid
    <3>1. PICK u \in Requests : undo[u].item = entries[n].item /\ (At(u, "ran") \/ At(u, "restored"))
      BY <2>1, <2>3 DEF JournalInv, BackIsMarked
    <3>2. entries[n].item # entries[own].item
      <4>1. n < own \/ own < n  BY <1>5, <2>1
      <4>2. QED  BY <1>5, <4>1 DEF JournalInv, EntriesInOrder
    <3>3. u # t  BY <1>1, <1>2, <3>1, <3>2
    <3>4. undo'[u] = undo[u]  BY <1>3, <1>14, <3>3
    <3>5. QED  BY <3>1, <3>4 DEF At
  <2>4. QED  BY <2>2, <2>3
<1>18. JournalTypeOK'
  <2>1. undo' \in [Requests -> Request]  BY <1>3, <1>14 DEF Asleep, Request
  <2>2. nextOperation' \in Nat /\ items' \in Nat /\ restarts' \in Nat /\ place' \in [1 .. MaxItems -> Places]
    BY <1>3 DEF JournalInv, JournalTypeOK
  <2>3. QED  BY <1>9, <1>10, <2>1, <2>2 DEF JournalTypeOK
<1>19. QED  BY <1>10, <1>11, <1>12, <1>13, <1>15, <1>16, <1>17, <1>18 DEF JournalInv

(* The other steps leave the journal alone.                                *)
LEMMA QuietKeepsInv ==
  ASSUME JournalInv, UNCHANGED <<memory, file, items, recorded, restarts>>,
         putBack \subseteq putBack',
         place' \in [1 .. MaxItems -> Places], undo' \in [Requests -> Request],
         RequestsKnow', PlacesKnown', BackIsMarked'
  PROVE  JournalInv'
<1>1. /\ UNCHANGED <<nextOperation, entries, lines, tail, items, recorded, restarts>>
      /\ AllLines' = AllLines
  BY DEF memory, file, AllLines
<1>2. JournalTypeOK'  BY <1>1 DEF JournalInv, JournalTypeOK
<1>3. EntriesInOrder(entries') /\ EntriesWithin(entries', nextOperation', items')
      /\ EntriesUndone(entries', putBack')
  BY <1>1 DEF JournalInv, EntriesUndone
<1>4. FileOK(AllLines)'  BY <1>1 DEF JournalInv, FileOK, FileUndone, FileWithin
<1>5. RecordedEndsLine'  BY <1>1 DEF JournalInv, RecordedEndsLine
<1>6. QED  BY <1>2, <1>3, <1>4, <1>5 DEF JournalInv

(* What the invariant says of the undo requests.                           *)
LEMMA UndoTypes ==
  ASSUME JournalInv
  PROVE  /\ place \in [1 .. MaxItems -> Places] /\ undo \in [Requests -> Request]
         /\ RequestsKnow /\ PlacesKnown /\ BackIsMarked
         /\ \A n \in DOMAIN entries : entries[n] \in Entry /\ entries[n].item \in 1 .. items
                                      /\ entries[n].item \in 1 .. MaxItems
<1>1. \A n \in DOMAIN entries : entries[n] \in Entry /\ entries[n].item \in 1 .. items
  BY DEF JournalInv, JournalTypeOK, EntriesWithin
<1>2. items \in Nat /\ items <= MaxItems  BY DEF JournalInv, JournalTypeOK, PlacesKnown
<1>3. \A n \in DOMAIN entries : entries[n].item \in 1 .. MaxItems  BY <1>1, <1>2, JournalBounds
<1>4. QED  BY <1>1, <1>3 DEF JournalInv, JournalTypeOK

(* A step of one request leaves the others where they are.                 *)
LEMMA RequestMoves ==
  ASSUME undo \in [Requests -> Request], NEW t \in Requests, NEW pc \in {"checked", "ran"},
         undo' = [undo EXCEPT ![t].pc = pc] \/ undo' = [undo EXCEPT ![t] = Asleep]
  PROVE  /\ undo' \in [Requests -> Request]
         /\ \A u \in Requests : u # t => undo'[u] = undo[u]
         /\ \/ undo'[t].pc = pc /\ undo'[t].id = undo[t].id /\ undo'[t].item = undo[t].item
            \/ undo'[t].pc = "idle"
<1>1. undo[t] \in Request  OBVIOUS
<1>2. CASE undo' = [undo EXCEPT ![t].pc = pc]
  <2>1. [undo[t] EXCEPT !.pc = pc] \in Request  BY <1>1 DEF Request
  <2>2. undo'[t] = [undo[t] EXCEPT !.pc = pc]  BY <1>2
  <2>3. undo'[t].pc = pc /\ undo'[t].id = undo[t].id /\ undo'[t].item = undo[t].item
    BY <1>1, <2>2 DEF Request
  <2>4. QED  BY <1>2, <2>1, <2>2, <2>3
<1>3. CASE undo' = [undo EXCEPT ![t] = Asleep]
  <2>1. Asleep \in Request /\ Asleep.pc = "idle"  BY DEF Asleep, Request
  <2>2. QED  BY <1>3, <2>1
<1>4. QED  BY <1>2, <1>3

(* A request whose item is back and not marked is not one that just went.  *)
LEMMA AskKeepsInv ==
  ASSUME JournalInv, NEW t \in Requests, AskUndo(t)
  PROVE  JournalInv'
<1> USE UndoTypes
<1>1. PICK i \in DOMAIN entries :
        /\ entries[i].kind = "deleted"
        /\ undo' = [undo EXCEPT ![t] = [pc |-> "asked", id |-> entries[i].id, item |-> entries[i].item]]
  BY DEF AskUndo
<1>2. undo[t].pc = "idle" /\ UNCHANGED <<memory, file, items, recorded, restarts, putBack, place, unsaid>>
      /\ UNCHANGED entries
  BY DEF AskUndo, vars, At, memory
<1> DEFINE asked == [pc |-> "asked", id |-> entries[i].id, item |-> entries[i].item]
<1>3. asked \in Request /\ asked.pc = "asked" /\ asked.id = entries[i].id /\ asked.item = entries[i].item
  BY DEF Entry, Request
<1>4. undo' = [undo EXCEPT ![t] = asked]  BY <1>1
<1> HIDE DEF asked
<1>5. undo' \in [Requests -> Request]  BY <1>3, <1>4
<1>6. \A u \in Requests : u # t => undo'[u] = undo[u]  BY <1>4
<1>7. undo'[t] = asked  BY <1>4
<1>8. RequestsKnow'
  <2>1. SUFFICES ASSUME NEW u \in Requests, undo'[u].pc # "idle"
                 PROVE  /\ \E n \in DOMAIN entries :
                             /\ entries[n].kind = "deleted"
                             /\ entries[n].id = undo'[u].id /\ entries[n].item = undo'[u].item
                        /\ undo'[u].pc = "restored" => place[undo'[u].item] = "back"
    BY <1>2 DEF RequestsKnow, At
  <2>2. CASE u = t  BY <1>1, <1>3, <1>7, <2>2
  <2>3. CASE u # t  BY <1>6, <2>1, <2>3 DEF RequestsKnow, At
  <2>4. QED  BY <2>2, <2>3
<1>9. PlacesKnown'  BY <1>2 DEF PlacesKnown
<1>10. BackIsMarked'
  <2>1. \A u \in Requests : At(u, "ran") \/ At(u, "restored") => undo'[u] = undo[u]
    BY <1>2, <1>6 DEF At
  <2>2. QED  BY <1>2, <2>1 DEF BackIsMarked, At
<1>11. QED  BY <1>2, <1>5, <1>8, <1>9, <1>10, QuietKeepsInv

(* Looking at the target of an undo.                                       *)
LEMMA CheckKeepsInv ==
  ASSUME JournalInv, NEW t \in Requests, CheckTarget(t)
  PROVE  JournalInv'
<1> USE UndoTypes
<1>1. undo[t].pc = "asked" /\ UNCHANGED <<memory, file, items, recorded, restarts, putBack, place, unsaid>>
      /\ UNCHANGED entries
  BY DEF CheckTarget, vars, At, memory
<1>2. undo' = [undo EXCEPT ![t].pc = "checked"] \/ undo' = [undo EXCEPT ![t] = Asleep]
  BY DEF CheckTarget, Goto, Answer
<1>3. undo' \in [Requests -> Request] /\ (\A u \in Requests : u # t => undo'[u] = undo[u])
      /\ \/ undo'[t].pc = "checked" /\ undo'[t].id = undo[t].id /\ undo'[t].item = undo[t].item
         \/ undo'[t].pc = "idle"
  BY <1>2, RequestMoves
<1>4. RequestsKnow'
  <2>1. SUFFICES ASSUME NEW u \in Requests, undo'[u].pc # "idle"
                 PROVE  /\ \E n \in DOMAIN entries :
                             /\ entries[n].kind = "deleted"
                             /\ entries[n].id = undo'[u].id /\ entries[n].item = undo'[u].item
                        /\ undo'[u].pc = "restored" => place[undo'[u].item] = "back"
    BY <1>1 DEF RequestsKnow, At
  <2>2. CASE u = t  BY <1>1, <1>3, <2>1, <2>2 DEF RequestsKnow, At
  <2>3. CASE u # t  BY <1>3, <2>1, <2>3 DEF RequestsKnow, At
  <2>4. QED  BY <2>2, <2>3
<1>5. PlacesKnown'  BY <1>1 DEF PlacesKnown
<1>6. BackIsMarked'
  <2>1. \A u \in Requests : At(u, "ran") \/ At(u, "restored") => undo'[u] = undo[u]
    BY <1>1, <1>3 DEF At
  <2>2. QED  BY <1>1, <2>1 DEF BackIsMarked, At
<1>7. QED  BY <1>1, <1>3, <1>4, <1>5, <1>6, QuietKeepsInv

(* Looking whether the item is back.                                       *)
LEMMA ObserveKeepsInv ==
  ASSUME JournalInv, NEW t \in Requests, Observe(t)
  PROVE  JournalInv'
<1> USE UndoTypes
<1>1. undo[t].pc = "ran" /\ UNCHANGED <<memory, file, items, recorded, restarts, putBack, place, unsaid>>
      /\ UNCHANGED entries
  BY DEF Observe, vars, At, memory
<1>2. IF place[undo[t].item] = "back"
      THEN undo' = [undo EXCEPT ![t].pc = "restored"] ELSE undo' = [undo EXCEPT ![t] = Asleep]
  BY DEF Observe, Goto, Answer
<1>3. undo' \in [Requests -> Request] /\ (\A u \in Requests : u # t => undo'[u] = undo[u])
      /\ undo'[t].pc \in {"restored", "idle"}
      /\ (undo'[t].pc = "restored" <=> place[undo[t].item] = "back")
      /\ (undo'[t].pc # "idle" => undo'[t].id = undo[t].id /\ undo'[t].item = undo[t].item)
  BY <1>2 DEF Request, Asleep
<1>4. RequestsKnow'
  <2>1. SUFFICES ASSUME NEW u \in Requests, undo'[u].pc # "idle"
                 PROVE  /\ \E n \in DOMAIN entries :
                             /\ entries[n].kind = "deleted"
                             /\ entries[n].id = undo'[u].id /\ entries[n].item = undo'[u].item
                        /\ undo'[u].pc = "restored" => place[undo'[u].item] = "back"
    BY <1>1 DEF RequestsKnow, At
  <2>2. CASE u = t  BY <1>1, <1>3, <2>1, <2>2 DEF RequestsKnow, At
  <2>3. CASE u # t  BY <1>3, <2>1, <2>3 DEF RequestsKnow, At
  <2>4. QED  BY <2>2, <2>3
<1>5. PlacesKnown'  BY <1>1 DEF PlacesKnown
<1>6. BackIsMarked'
  <2>1. \A u \in Requests :
          (At(u, "ran") \/ At(u, "restored")) /\ place[undo[u].item] = "back"
            => undo'[u].item = undo[u].item /\ (undo'[u].pc = "ran" \/ undo'[u].pc = "restored")
    BY <1>1, <1>3 DEF At
  <2>2. QED  BY <1>1, <2>1 DEF BackIsMarked, At
<1>7. QED  BY <1>1, <1>3, <1>4, <1>5, <1>6, QuietKeepsInv

(* What is taken back is known to be an item of this session.              *)
LEMMA PlaceMoves ==
  ASSUME JournalInv, NEW item \in 1 .. items, place[item] = "buried", Restores(item),
         UNCHANGED items
  PROVE  /\ place' \in [1 .. MaxItems -> Places] /\ PlacesKnown' /\ putBack \subseteq putBack'
         /\ place'[item] = "back" /\ \A other \in 1 .. MaxItems : other # item => place'[other] = place[other]
         /\ \A other \in 1 .. MaxItems : place[other] = "back" => place'[other] = "back"
<1>1. place \in [1 .. MaxItems -> Places] /\ PlacesKnown /\ items \in Nat /\ items <= MaxItems
  BY DEF JournalInv, JournalTypeOK, PlacesKnown
<1>2. place' = [place EXCEPT ![item] = "back"] /\ putBack' = putBack \cup {item}  BY DEF Restores
<1>3. item \in 1 .. MaxItems  BY <1>1, JournalBounds
<1>4. place' \in [1 .. MaxItems -> Places] /\ place'[item] = "back"
      /\ \A other \in 1 .. MaxItems : other # item => place'[other] = place[other]
  BY <1>1, <1>2, <1>3 DEF Places
<1>5. PlacesKnown'  BY <1>1, <1>2, <1>4 DEF PlacesKnown
<1>6. QED  BY <1>2, <1>4, <1>5

(* The Trash puts the item back, or does not.                              *)
LEMMA UnburyKeepsInv ==
  ASSUME JournalInv, NEW t \in Requests, Unbury(t)
  PROVE  JournalInv'
<1> USE UndoTypes
<1> DEFINE item == undo[t].item
<1>1. undo[t].pc = "checked" /\ UNCHANGED <<memory, file, items, recorded, restarts>> /\ UNCHANGED entries
  BY DEF Unbury, At, memory
<1>2. item \in 1 .. items /\ item \in 1 .. MaxItems
  <2>1. \E n \in DOMAIN entries : entries[n].item = item  BY <1>1 DEF RequestsKnow, At
  <2>2. QED  BY <2>1
<1>3. /\ (place[item] = "buried" /\ Restores(item)) \/ UNCHANGED <<place, putBack>>
      /\ \/ undo' = [undo EXCEPT ![t].pc = "ran"] /\ UNCHANGED unsaid
         \/ /\ undo' = [undo EXCEPT ![t] = Asleep]
            /\ unsaid' = IF place'[item] = "back" THEN unsaid \cup {item} ELSE unsaid
  BY DEF Unbury, Goto, Answer
<1> HIDE DEF item
<1>4. /\ place' \in [1 .. MaxItems -> Places] /\ PlacesKnown' /\ putBack \subseteq putBack'
      /\ \A other \in 1 .. MaxItems : other # item => place'[other] = place[other]
      /\ \A other \in 1 .. MaxItems : place[other] = "back" => place'[other] = "back"
  <2>1. CASE place[item] = "buried" /\ Restores(item)  BY <1>1, <1>2, <2>1, PlaceMoves
  <2>2. CASE UNCHANGED <<place, putBack>>  BY <1>1, <2>2 DEF PlacesKnown
  <2>3. QED  BY <1>3, <2>1, <2>2
<1>5. undo' \in [Requests -> Request] /\ (\A u \in Requests : u # t => undo'[u] = undo[u])
      /\ \/ undo'[t].pc = "ran" /\ undo'[t].id = undo[t].id /\ undo'[t].item = undo[t].item
         \/ undo'[t].pc = "idle"
  <2>1. undo' = [undo EXCEPT ![t].pc = "ran"] \/ undo' = [undo EXCEPT ![t] = Asleep]  BY <1>3
  <2>2. QED  BY <2>1, RequestMoves
<1>6. RequestsKnow'
  <2>1. SUFFICES ASSUME NEW u \in Requests, undo'[u].pc # "idle"
                 PROVE  /\ \E n \in DOMAIN entries :
                             /\ entries[n].kind = "deleted"
                             /\ entries[n].id = undo'[u].id /\ entries[n].item = undo'[u].item
                        /\ undo'[u].pc = "restored" => place'[undo'[u].item] = "back"
    BY <1>1 DEF RequestsKnow, At
  <2>2. CASE u = t  BY <1>1, <1>5, <2>1, <2>2 DEF RequestsKnow, At
  <2>3. CASE u # t
    <3>1. undo'[u] = undo[u] /\ ~At(u, "idle")  BY <1>5, <2>1, <2>3 DEF At
    <3>2. PICK n \in DOMAIN entries :
            entries[n].kind = "deleted" /\ entries[n].id = undo[u].id /\ entries[n].item = undo[u].item
      BY <3>1 DEF RequestsKnow
    <3>3. At(u, "restored") => place'[undo[u].item] = "back"  BY <1>4, <3>1, <3>2 DEF RequestsKnow
    <3>4. QED  BY <3>1, <3>2, <3>3 DEF At
  <2>4. QED  BY <2>2, <2>3
<1>7. BackIsMarked'
  <2>1. SUFFICES ASSUME restarts = 0, NEW n \in DOMAIN entries, entries[n].kind = "deleted",
                        place'[entries[n].item] = "back", ~entries[n].undone
                 PROVE  \/ entries[n].item \in unsaid'
                        \/ \E u \in Requests :
                             undo'[u].item = entries[n].item /\ (undo'[u].pc = "ran" \/ undo'[u].pc = "restored")
    BY <1>1 DEF BackIsMarked, At
  <2>2. CASE entries[n].item = item
    <3>1. CASE undo' = [undo EXCEPT ![t].pc = "ran"]
      <4>1. undo'[t].pc = "ran" /\ undo'[t].item = item  BY <3>1 DEF Request, item
      <4>2. QED  BY <2>2, <4>1
    <3>2. CASE unsaid' = IF place'[item] = "back" THEN unsaid \cup {item} ELSE unsaid
      BY <2>1, <2>2, <3>2
    <3>3. QED  BY <1>3, <3>1, <3>2
  <2>3. CASE entries[n].item # item
    <3>1. place[entries[n].item] = "back"  BY <1>4, <2>1, <2>3
    <3>2. CASE entries[n].item \in unsaid  BY <1>3, <3>2
    <3>3. CASE entries[n].item \notin unsaid
      <4>1. PICK u \in Requests : undo[u].item = entries[n].item /\ (At(u, "ran") \/ At(u, "restored"))
        BY <2>1, <3>1, <3>3 DEF BackIsMarked
      <4>2. u # t  BY <1>1, <4>1 DEF At
      <4>3. QED  BY <1>5, <4>1, <4>2 DEF At
    <3>4. QED  BY <3>2, <3>3
  <2>4. QED  BY <2>2, <2>3
<1>8. QED  BY <1>1, <1>4, <1>5, <1>6, <1>7, QuietKeepsInv

(* Other programs put an item back or cover its place.                     *)
LEMMA OthersKeepInv ==
  ASSUME JournalInv, NEW i \in DOMAIN entries,
         OthersRestore(entries[i].item) \/ OthersCover(entries[i].item)
  PROVE  JournalInv'
<1> USE UndoTypes
<1> DEFINE item == entries[i].item
<1>1. item \in 1 .. items /\ item \in 1 .. MaxItems  OBVIOUS
<1>2. OthersRestore(item) \/ OthersCover(item)  OBVIOUS
<1> HIDE DEF item
<1>3. UNCHANGED <<memory, file, items, recorded, restarts, undo>> /\ UNCHANGED entries
      /\ unsaid \subseteq unsaid' /\ place[item] = "buried"
  BY <1>2 DEF OthersRestore, OthersCover, vars, memory
<1>4. /\ place' \in [1 .. MaxItems -> Places] /\ PlacesKnown' /\ putBack \subseteq putBack'
      /\ \A other \in 1 .. MaxItems : other # item => place'[other] = place[other]
      /\ \A other \in 1 .. MaxItems : place[other] = "back" => place'[other] = "back"
      /\ place'[item] = "back" => item \in unsaid'
  <2>1. CASE OthersRestore(item)
    <3>1. Restores(item) /\ item \in unsaid'  BY <2>1 DEF OthersRestore
    <3>2. QED  BY <1>1, <1>3, <3>1, PlaceMoves
  <2>2. CASE OthersCover(item)
    <3>1. place' = [place EXCEPT ![item] = "covered"] /\ UNCHANGED <<putBack, items>>
      BY <2>2 DEF OthersCover, vars
    <3>2. place' \in [1 .. MaxItems -> Places] /\ place'[item] = "covered"
          /\ \A other \in 1 .. MaxItems : other # item => place'[other] = place[other]
      BY <1>1, <3>1 DEF Places
    <3>3. item <= items  BY <1>1
    <3>4. PlacesKnown'  BY <1>1, <3>1, <3>2, <3>3 DEF PlacesKnown
    <3>5. QED  BY <1>3, <3>1, <3>2, <3>4
  <2>3. QED  BY <1>2, <2>1, <2>2
<1>5. RequestsKnow'
  <2>1. SUFFICES ASSUME NEW u \in Requests, ~At(u, "idle")
                 PROVE  /\ \E n \in DOMAIN entries :
                             /\ entries[n].kind = "deleted"
                             /\ entries[n].id = undo[u].id /\ entries[n].item = undo[u].item
                        /\ At(u, "restored") => place'[undo[u].item] = "back"
    BY <1>3 DEF RequestsKnow, At
  <2>2. QED  BY <1>4, <2>1 DEF RequestsKnow
<1>6. BackIsMarked'
  <2>1. SUFFICES ASSUME restarts = 0, NEW n \in DOMAIN entries, entries[n].kind = "deleted",
                        place'[entries[n].item] = "back", ~entries[n].undone
                 PROVE  \/ entries[n].item \in unsaid'
                        \/ \E u \in Requests :
                             undo[u].item = entries[n].item /\ (At(u, "ran") \/ At(u, "restored"))
    BY <1>3 DEF BackIsMarked, At
  <2>2. CASE entries[n].item = item  BY <1>4, <2>1, <2>2
  <2>3. CASE entries[n].item # item
    <3>1. place[entries[n].item] = "back"  BY <1>4, <2>1, <2>3
    <3>2. QED  BY <1>3, <2>1, <3>1 DEF BackIsMarked
  <2>4. QED  BY <2>2, <2>3
<1>7. undo' \in [Requests -> Request]  BY <1>3
<1>8. QED  BY <1>3, <1>4, <1>5, <1>6, <1>7, QuietKeepsInv

(* The steps that record an operation in a living session.                 *)
LEMMA RecordsKeepInv ==
  ASSUME JournalInv, Records, restarts' = restarts, UNCHANGED undoVars
  PROVE  JournalInv'
<1>1. restarts \in Nat  BY DEF JournalInv, JournalTypeOK
<1>2. ASSUME NEW event, NEW outcome PROVE ~KilledInside(event, outcome)
  BY <1>1 DEF KilledInside
<1>3. ASSUME NEW outcome \in Faults \cup {"ok"}, RecordDelete(outcome) PROVE JournalInv'
  <2>1. /\ NewItem /\ append(NewEvent("deleted"), outcome) /\ Note(NewEvent("deleted"), outcome)
        /\ nextOperation' = NewEvent("deleted").id
        /\ entries' = entries \/ entries' = Append(entries, EntryOf(NewEvent("deleted")))
        /\ UNCHANGED <<putBack, restarts>>
    BY <1>3 DEF RecordDelete
  <2>2. "deleted" \in Terminal \cup {"deleted"}  OBVIOUS
  <2>3. QED  BY <2>1, <2>2, RecordKeepsInv
<1>4. ASSUME NEW outcome \in Faults \cup {"ok"}, NEW kind \in Terminal, RecordTerminal(kind, outcome)
      PROVE  JournalInv'
  <2>1. /\ NewItem /\ append(NewEvent(kind), outcome) /\ Note(NewEvent(kind), outcome)
        /\ nextOperation' = NewEvent(kind).id
        /\ entries' = entries \/ entries' = Append(entries, EntryOf(NewEvent(kind)))
        /\ UNCHANGED <<putBack, restarts>>
    BY <1>4 DEF RecordTerminal
  <2>2. kind \in Terminal \cup {"deleted"}  OBVIOUS
  <2>3. QED  BY <2>1, <2>2, RecordKeepsInv
<1>5. QED  BY <1>2, <1>3, <1>4 DEF Records

(* The steps that record one and are killed.                               *)
LEMMA KilledKeepsInv ==
  ASSUME JournalInv, Records, restarts' # restarts, Dies
  PROVE  JournalInv'
<1>1. ASSUME NEW outcome, RecordDelete(outcome) PROVE FALSE  BY <1>1 DEF RecordDelete
<1>2. ASSUME NEW outcome, NEW kind, RecordTerminal(kind, outcome) PROVE FALSE  BY <1>2 DEF RecordTerminal
<1>3. PICK outcome \in CutOff, kind \in Terminal \cup {"deleted"} :
        NewItem /\ KilledInside(NewEvent(kind), outcome)
  BY <1>1, <1>2 DEF Records
<1>4. QED  BY <1>3, KilledRecordKeepsInv

(* Every step keeps the invariant.                                         *)
LEMMA JournalInvNext == JournalInv /\ [UndoNext]_allVars => JournalInv'
<1> SUFFICES ASSUME JournalInv, [UndoNext]_allVars PROVE JournalInv'  OBVIOUS
<1>1. CASE Records /\ restarts' = restarts /\ UNCHANGED undoVars  BY <1>1, RecordsKeepInv
<1>2. CASE Records /\ restarts' # restarts /\ Dies  BY <1>2, KilledKeepsInv
<1>3. CASE Restart /\ Dies  BY <1>3, RestartKeepsInv
<1>4. ASSUME NEW t \in Requests, AskUndo(t) PROVE JournalInv'  BY <1>4, AskKeepsInv
<1>5. ASSUME NEW t \in Requests, CheckTarget(t) PROVE JournalInv'  BY <1>5, CheckKeepsInv
<1>6. ASSUME NEW t \in Requests, Unbury(t) PROVE JournalInv'  BY <1>6, UnburyKeepsInv
<1>7. ASSUME NEW t \in Requests, Observe(t) PROVE JournalInv'  BY <1>7, ObserveKeepsInv
<1>8. ASSUME NEW t \in Requests, NEW outcome \in Faults \cup {"ok"}, Mark(t, outcome)
      PROVE  JournalInv'
  BY <1>8, MarkKeepsInv
<1>9. ASSUME NEW t \in Requests, NEW outcome \in CutOff, At(t, "restored"),
             KilledInside(UndoneEvent(undo[t].id, undo[t].item), outcome), Dies, UNCHANGED items
      PROVE  JournalInv'
  BY <1>9, KilledMarkKeepsInv
<1>10. ASSUME NEW i \in DOMAIN entries,
              OthersRestore(entries[i].item) \/ OthersCover(entries[i].item)
       PROVE  JournalInv'
  BY <1>10, OthersKeepInv
<1>11. CASE UNCHANGED allVars
  <2>1. /\ UNCHANGED <<memory, file, items, recorded, restarts, putBack, place, undo, unsaid>>
        /\ UNCHANGED entries
    BY <1>11 DEF allVars, vars, undoVars, memory
  <2>2. RequestsKnow' /\ PlacesKnown' /\ BackIsMarked'
    BY <2>1, UndoTypes DEF RequestsKnow, PlacesKnown, BackIsMarked, At
  <2>3. QED  BY <2>1, <2>2, UndoTypes, QuietKeepsInv
<1>12. QED  BY <1>1, <1>2, <1>3, <1>4, <1>5, <1>6, <1>7, <1>8, <1>9, <1>10, <1>11 DEF UndoNext

(* The journal's state is what JournalInv says of it, whatever fails,      *)
(* whenever the process is killed, and however requests overlap.           *)
THEOREM JournalInvariant == UndoSpec => []JournalInv
<1>1. QED  BY JournalInvInit, JournalInvNext, PTL DEF UndoSpec

(* Ids grow with the operations they name, across sessions: an operation   *)
(* whose id is given again was lost from the file first (deletion.rs).     *)
THEOREM IdsStayInOrder == UndoSpec => []IdsInOrder
<1>1. JournalInv => IdsInOrder  BY DEF JournalInv, EntriesInOrder, IdsInOrder
<1>2. QED  BY <1>1, JournalInvariant, PTL

(* No deletion is read back as undone by the undo of another operation.    *)
THEOREM UndoneStaysTrue == UndoSpec => []UndoneIsTrue
<1>1. JournalInv => UndoneIsTrue  BY DEF JournalInv, EntriesUndone, UndoneIsTrue
<1>2. QED  BY <1>1, JournalInvariant, PTL

(* Of overlapping undos one marks the deletion that came back, in the      *)
(* session it came back in (undo_delete_in and the adapter's undo).        *)
THEOREM RestoredGetsMarked == UndoSpec => []RestoredIsMarked
<1>1. JournalInv => RestoredIsMarked
  <2>1. SUFFICES ASSUME JournalInv, \A t \in Requests : At(t, "idle"), NEW n \in DOMAIN entries,
                        entries[n].kind = "deleted", place[entries[n].item] = "back",
                        ~entries[n].undone
                 PROVE  entries[n].item \in unsaid \/ restarts > 0
    BY DEF RestoredIsMarked
  <2>2. restarts \in Nat  BY <2>1 DEF JournalInv, JournalTypeOK
  <2>3. CASE restarts = 0
    <3>1. \A t \in Requests : ~At(t, "ran") /\ ~At(t, "restored")  BY <2>1 DEF At
    <3>2. QED  BY <2>1, <2>3, <3>1 DEF JournalInv, BackIsMarked
  <2>4. QED  BY <2>2, <2>3
<1>2. QED  BY <1>1, JournalInvariant, PTL

(* An event alone on its line is read back.                                *)
LEMMA AloneSurvives ==
  ASSUME JournalInv, Readable(AllLines), NEW event \in recorded, NEW i \in DOMAIN lines,
         Len(lines[i]) = 1, lines[i][1] = [event |-> event, wrote |-> "whole"],
         event.kind = "undone" => Survives([event EXCEPT !.kind = "deleted"])
  PROVE  Survives(event)
<1> DEFINE ls == AllLines
<1>1. lines \in Seq(Seq(Piece)) /\ tail \in Seq(Piece) /\ event \in Event
  BY DEF JournalInv, JournalTypeOK
<1>2. ls \in Files /\ i \in DOMAIN ls /\ ls[i] = lines[i] /\ ls = lines \o <<tail>>
  BY <1>1 DEF AllLines, Files
<1>3. FileInOrder(ls) /\ FileNames(ls)  BY DEF JournalInv, FileOK
<1>4. Readable(ls)  OBVIOUS
<1>5. \A e : Survives(e) <=>
        \E n \in DOMAIN load_journal(ls) :
          /\ load_journal(ls)[n].item = e.item
          /\ IF e.kind = "undone" THEN load_journal(ls)[n].undone ELSE load_journal(ls)[n].kind = e.kind
  BY DEF Survives, AllLines
<1> HIDE DEF ls
<1>6. i \in EventsIn(ls) /\ EventAt(ls, i) = event
  <2>1. Parses(ls[i])  BY <1>2 DEF Parses
  <2>2. QED  BY <1>2, <1>4, <2>1 DEF EventsIn, EventAt
<1>7. PICK f \in [DOMAIN load_journal(ls) -> Operations(ls)] :
        /\ \A k \in Operations(ls) : \E n \in DOMAIN f : f[n] = k
        /\ \A n \in DOMAIN f : load_journal(ls)[n] = EntryAt(ls, f[n])
  BY <1>2, ReadInOrder
<1>8. \A n \in DOMAIN load_journal(ls) :
        /\ f[n] \in Operations(ls)
        /\ load_journal(ls)[n].item = EventAt(ls, f[n]).item
        /\ load_journal(ls)[n].kind = EventAt(ls, f[n]).kind
        /\ load_journal(ls)[n].undone = (EventAt(ls, f[n]).kind = "deleted" /\ MarkedUndone(ls, f[n]))
  BY <1>7 DEF EntryAt
<1>9. CASE event.kind # "undone"
  <2>1. i \in Operations(ls)  BY <1>6, <1>9 DEF Operations
  <2>2. PICK n \in DOMAIN load_journal(ls) : f[n] = i  BY <1>7, <2>1
  <2>3. QED  BY <1>5, <1>6, <1>8, <1>9, <2>2
<1>10. CASE event.kind = "undone"
  <2> DEFINE deletion == [event EXCEPT !.kind = "deleted"]
  <2>1. deletion.kind = "deleted" /\ deletion.item = event.item /\ Survives(deletion)
    BY <1>1, <1>10 DEF Event
  <2> HIDE DEF deletion
  <2>2. PICK n \in DOMAIN load_journal(ls) :
          load_journal(ls)[n].item = event.item /\ load_journal(ls)[n].kind = "deleted"
    BY <1>5, <2>1
  <2>3. f[n] \in Operations(ls) /\ EventAt(ls, f[n]).kind = "deleted"
        /\ EventAt(ls, f[n]).item = event.item
    BY <1>8, <2>2
  <2>4. f[n] < i /\ EventAt(ls, f[n]).id = event.id  BY <1>3, <1>6, <1>10, <2>3 DEF FileNames
  <2>5. \A k \in EventsIn(ls) : k < f[n] /\ EventAt(ls, k).kind = "deleted"
          => EventAt(ls, k).id # EventAt(ls, f[n]).id
    <3>1. SUFFICES ASSUME NEW k \in EventsIn(ls), k < f[n], EventAt(ls, k).kind = "deleted"
                   PROVE  EventAt(ls, k).id # EventAt(ls, f[n]).id
      OBVIOUS
    <3>2. k \in Operations(ls)  BY <3>1 DEF Operations
    <3>3. EventAt(ls, k).id < EventAt(ls, f[n]).id  BY <1>3, <2>3, <3>1, <3>2 DEF FileInOrder
    <3>4. EventAt(ls, k) \in Event /\ EventAt(ls, f[n]) \in Event  BY <1>2, <2>3, EventTypes
    <3>5. EventAt(ls, k).id \in Nat  BY <3>4 DEF Event
    <3>6. QED  BY <3>3, <3>5
  <2>6. MarkedUndone(ls, f[n])
    <3>1. \E j \in EventsIn(ls) : f[n] < j /\ EventAt(ls, j).kind = "undone"
                                  /\ EventAt(ls, j).id = EventAt(ls, f[n]).id
      BY <1>6, <1>10, <2>4
    <3>2. QED  BY <2>5, <3>1 DEF MarkedUndone
  <2>7. load_journal(ls)[n].undone  BY <1>8, <2>2, <2>3, <2>6
  <2>8. QED  BY <1>5, <1>10, <2>2, <2>7
<1>11. QED  BY <1>9, <1>10

(* A failed append costs at most the one record that continues on its line *)
(* (DeletionState::append and load_journal).                               *)
THEOREM LossStaysBounded == UndoSpec => []LossIsBounded
<1>1. ASSUME JournalInv, Readable(AllLines)
      PROVE  Cardinality(Lost) <= Cardinality(SharedLines)
  <2> DEFINE f == [i \in SharedLines |-> AllLines[i][Len(AllLines[i])].event]
             T == {f[i] : i \in SharedLines}
  <2>1. lines \in Seq(Seq(Piece)) /\ tail \in Seq(Piece)
    BY <1>1 DEF JournalInv, JournalTypeOK
  <2>2. /\ Len(AllLines) \in Nat /\ SharedLines \in SUBSET (1 .. Len(AllLines))
        /\ \A i \in DOMAIN lines : i \in DOMAIN AllLines /\ AllLines[i] = lines[i]
                                   /\ Len(lines[i]) \in Nat
    BY <2>1 DEF AllLines, SharedLines
  <2>3. IsFiniteSet(SharedLines)
    <3>1. IsFiniteSet(1 .. Len(AllLines))  BY <2>2, FS_Interval
    <3>2. QED  BY <2>2, <3>1, FS_Subset
  <2>4. f \in Surjection(SharedLines, T)  BY DEF Surjection
  <2>5. Lost \in SUBSET T
    <3>1. SUFFICES ASSUME NEW event \in Lost PROVE event \in T  OBVIOUS
    <3>2. event \in recorded /\ ~Survives(event)
          /\ (event.kind = "undone" => Survives([event EXCEPT !.kind = "deleted"]))
      BY DEF Lost
    <3>3. PICK i \in DOMAIN lines :
            Len(lines[i]) > 0 /\ lines[i][Len(lines[i])] = [event |-> event, wrote |-> "whole"]
      BY <1>1, <3>2 DEF JournalInv, RecordedEndsLine
    <3>4. Len(lines[i]) # 1
      <4>1. SUFFICES ASSUME Len(lines[i]) = 1 PROVE FALSE  OBVIOUS
      <4>2. lines[i][1] = [event |-> event, wrote |-> "whole"]  BY <3>3, <4>1
      <4>3. Survives(event)  BY <1>1, <3>2, <4>1, <4>2, AloneSurvives
      <4>4. QED  BY <3>2, <4>3
    <3>5. i \in SharedLines
      <4>1. i \in DOMAIN AllLines /\ AllLines[i] = lines[i] /\ Len(lines[i]) \in Nat  BY <2>2
      <4>2. Len(lines[i]) > 0  BY <3>3
      <4>3. \A k \in Nat : k > 0 /\ k # 1 => k > 1  OBVIOUS
      <4>4. Len(lines[i]) > 1  BY <3>4, <4>1, <4>2, <4>3, Zenon
      <4>5. QED  BY <4>1, <4>4 DEF SharedLines
    <3>6. f[i] = event  BY <2>2, <3>3, <3>5
    <3>7. QED  BY <3>5, <3>6
  <2> HIDE DEF f, T
  <2>6. IsFiniteSet(T) /\ Cardinality(T) <= Cardinality(SharedLines)  BY <2>3, <2>4, FS_Surjection
  <2>7. IsFiniteSet(Lost) /\ Cardinality(Lost) <= Cardinality(T)  BY <2>5, <2>6, FS_Subset
  <2>8. QED  BY <2>3, <2>6, <2>7, FS_CardinalityType
<1>2. JournalInv => LossIsBounded  BY <1>1 DEF LossIsBounded
<1>3. QED  BY <1>2, JournalInvariant, PTL
=============================================================================
