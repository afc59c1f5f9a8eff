--------------------------- MODULE BackendsProofs ---------------------------
(***************************************************************************)
(* Proofs about Backends and the modules under it.  Of Settings, for any   *)
(* number of request threads, any preferences and any faults: the settings *)
(* file is whole, also when saves overlap and nobody is told of a failure, *)
(* and a choice whose caller was told it is stored is stored; as long as   *)
(* no two saves crossed, the staged file is the one the saving thread      *)
(* writes, and once they crossed one of them fails.  Of Backends, for any  *)
(* backends, orders, versions and number of operations: an operation is    *)
(* resolved honestly while backends come and go, what changes files runs   *)
(* at the version that was reviewed, and the settings file of BackendsSpec *)
(* is that of Settings.  Of Mole, for any applications and plans: what a   *)
(* run is reported to have done is what it did.                            *)
(***************************************************************************)
EXTENDS Backends, FiniteSetTheorems, TLAPS

-----------------------------------------------------------------------------
(* The settings file.                                                      *)
Names == {"target", "staged"}

TypeSettingsOK ==
  /\ memory \in Prefs
  /\ dir \in [Names -> {0} \cup Inodes]
  /\ data \in [Inodes -> Seq(Prefs)]
  /\ thread \in [Threads -> [pc : {"idle", "open", "write", "rename", "tidy"},
                             pref : Prefs \cup {NoPref}, inode : {0} \cup Inodes]]
  /\ failed \in BOOLEAN /\ overlapped \in BOOLEAN

ThreadsOK ==
  \A t \in Threads :
    /\ At(t, "idle") => thread[t] = Idle
    /\ ~At(t, "idle") => thread[t].pref \in Prefs
    /\ At(t, "write") => thread[t].inode \in Inodes

(* The two names never stand for one file.                                 *)
NamesAreApart == dir["target"] # 0 => dir["target"] # dir["staged"]

(* Saves have crossed: two are between their open and their rename, or one *)
(* is there without a staged file, or one is cleaning up.  A rename that   *)
(* succeeds takes one staged name with it, so of the saves that crossed    *)
(* one at least finds none, and fails.                                     *)
Saving(t) == At(t, "write") \/ At(t, "rename")
Crossed ==
  \/ \E t \in Threads : At(t, "tidy")
  \/ \E t \in Threads : Saving(t) /\ dir["staged"] = 0
  \/ \E s, t \in Threads : s # t /\ Saving(s) /\ Saving(t)

StagedIsItsOwn(t) ==
  /\ At(t, "write") => thread[t].inode = dir["staged"] /\ data[dir["staged"]] = <<>>
  /\ At(t, "rename") => data[dir["staged"]] = Text(thread[t].pref)

StagedIsWhole == failed \/ Crossed \/ \A t \in Threads : StagedIsItsOwn(t)

(* What one save at a time is sure of.                                     *)
Alone(t) ==
  /\ \A s \in Threads : s # t => At(s, "idle")
  /\ ~failed /\ promised = NoPref /\ memory = thread[t].pref
  /\ Saving(t) => dir["staged"] # 0

OneAtATime == ~overlapped => \A t \in Threads : ~At(t, "idle") => Alone(t)

SettingsInv ==
  /\ TypeSettingsOK /\ ThreadsOK /\ NamesAreApart /\ StagedIsWhole /\ OneAtATime
  /\ FileIsWhole /\ KeptPromise

-----------------------------------------------------------------------------
(* Inodes are numbered from one, so that 0 is no file.                     *)
LEMMA InodeFacts == 0 \notin Inodes /\ 1 \in Inodes /\ Inodes \subseteq Nat
<1>1. Cardinality(Threads) \in Nat
  BY SettingsAssumption, FS_CardinalityType
<1> QED BY <1>1 DEF Inodes

(* A text has a cell at least, and each of its cells names it.             *)
LEMMA TextFacts ==
  ASSUME NEW p \in Prefs
  PROVE  /\ Text(p) \in Seq(Prefs) /\ Len(Text(p)) = Size[p] /\ Text(p) # <<>>
         /\ Text(p)[1] = p /\ Parses(Text(p))
         /\ Overlay(<<>>, Text(p)) = Text(p)
<1>1. Size[p] \in Nat /\ Size[p] > 0
  BY SettingsAssumption
<1>2. Text(p) \in Seq(Prefs) /\ Len(Text(p)) = Size[p]
  BY <1>1 DEF Text
<1>3. Text(p)[1] = p /\ Parses(Text(p)) /\ Text(p) # <<>>
  BY <1>1, <1>2 DEF Text, Parses
<1>4. Overlay(<<>>, Text(p)) = Text(p)
  BY <1>1, <1>2 DEF Overlay, Text
<1> QED BY <1>2, <1>3, <1>4

(* Writing over a text leaves a text, of mixed cells perhaps.              *)
LEMMA OverlayType ==
  ASSUME NEW old \in Seq(Prefs), NEW new \in Seq(Prefs)
  PROVE  Overlay(old, new) \in Seq(Prefs)
<1> DEFINE n == IF Len(old) > Len(new) THEN Len(old) ELSE Len(new)
<1>1. n \in Nat
  OBVIOUS
<1>2. \A k \in 1..n : (IF k <= Len(new) THEN new[k] ELSE old[k]) \in Prefs
  OBVIOUS
<1> QED BY <1>1, <1>2 DEF Overlay

(* Two whole preferences do not parse as one another.                      *)
LEMMA LoadIsAPref ==
  ASSUME NEW text, Parses(text)
  PROVE  text[1] \in Prefs /\ \A p \in Prefs : text = Text(p) => text[1] = p
BY TextFacts DEF Parses

(* Every step keeps the files and the threads within their types.          *)
LEMMA TypeStep ==
  ASSUME TypeSettingsOK, ThreadsOK, [Next]_vars
  PROVE  TypeSettingsOK'
<1> USE DEF TypeSettingsOK, ThreadsOK, Names, Goto, At, Answer, OpenAt, Idle
<1>1. ASSUME NEW t \in Threads, NEW p \in Prefs, Choose(t, p) PROVE TypeSettingsOK'
  BY <1>1 DEF Choose
<1>2. ASSUME NEW t \in Threads, Open(t) PROVE TypeSettingsOK'
  <2> PICK i \in (IF dir["staged"] # 0 THEN {dir["staged"]} ELSE Free) :
           /\ dir' = [dir EXCEPT !["staged"] = i]
           /\ data' = [data EXCEPT ![i] = <<>>]
           /\ thread' = [thread EXCEPT ![t].pc = "write", ![t].inode = i]
    BY <1>2 DEF Open
  <2>1. i \in Inodes
    BY DEF Free
  <2>2. dir' \in [Names -> {0} \cup Inodes] /\ data' \in [Inodes -> Seq(Prefs)]
    BY <2>1
  <2>3. thread[t].pref \in Prefs \cup {NoPref} /\ thread' \in [Threads -> [pc : {"idle", "open", "write", "rename", "tidy"},
                             pref : Prefs \cup {NoPref}, inode : {0} \cup Inodes]]
    BY <2>1
  <2> QED BY <1>2, <2>2, <2>3 DEF Open
<1>3. ASSUME NEW t \in Threads, OpenFails(t) PROVE TypeSettingsOK'
  <2>1. failed' \in BOOLEAN
    BY <1>3 DEF OpenFails
  <2> QED BY <1>3, <2>1 DEF OpenFails
<1>4. ASSUME NEW t \in Threads, Write(t) PROVE TypeSettingsOK'
  <2>1. thread[t].inode \in Inodes /\ data[thread[t].inode] \in Seq(Prefs) /\ thread[t].pref \in Prefs
    BY <1>4 DEF Write
  <2>2. Overlay(data[thread[t].inode], Text(thread[t].pref)) \in Seq(Prefs)
    BY <2>1, TextFacts, OverlayType
  <2> QED BY <1>4, <2>1, <2>2 DEF Write
<1>5. ASSUME NEW t \in Threads, WriteFails(t) PROVE TypeSettingsOK'
  <2>1. thread[t].inode \in Inodes /\ data[thread[t].inode] \in Seq(Prefs) /\ thread[t].pref \in Prefs
    BY <1>5 DEF WriteFails
  <2>2. PICK n \in 0 .. (Size[thread[t].pref] - 1) :
          data' = [data EXCEPT ![thread[t].inode] =
                     Overlay(data[thread[t].inode], SubSeq(Text(thread[t].pref), 1, n))]
    BY <1>5 DEF WriteFails, ShortText
  <2>3. SubSeq(Text(thread[t].pref), 1, n) \in Seq(Prefs)
    BY <2>1, TextFacts, SettingsAssumption
  <2>4. Overlay(data[thread[t].inode], SubSeq(Text(thread[t].pref), 1, n)) \in Seq(Prefs)
    BY <2>1, <2>3, OverlayType
  <2>5. failed' \in BOOLEAN
    BY <1>5 DEF WriteFails
  <2> QED BY <1>5, <2>1, <2>2, <2>4, <2>5 DEF WriteFails
<1>6. ASSUME NEW t \in Threads, Rename(t) PROVE TypeSettingsOK'
  BY <1>6 DEF Rename
<1>7. ASSUME NEW t \in Threads, RenameFails(t) PROVE TypeSettingsOK'
  BY <1>7 DEF RenameFails
<1>8. ASSUME NEW t \in Threads, Tidy(t) PROVE TypeSettingsOK'
  BY <1>8 DEF Tidy
<1>9. ASSUME Restart PROVE TypeSettingsOK'
  <2>1. Load \in Prefs
    BY SettingsAssumption, LoadIsAPref DEF Load
  <2> QED BY <1>9, <2>1 DEF Restart
<1>10. ASSUME UNCHANGED vars PROVE TypeSettingsOK'
  BY <1>10 DEF vars
<1> QED BY <1>1, <1>2, <1>3, <1>4, <1>5, <1>6, <1>7, <1>8, <1>9, <1>10 DEF Next

(* A thread holds a file only while it writes it.                           *)
LEMMA ThreadsStep ==
  ASSUME TypeSettingsOK, ThreadsOK, [Next]_vars
  PROVE  ThreadsOK'
<1> USE DEF TypeSettingsOK, ThreadsOK, Names, Goto, At, Answer, OpenAt, Idle
<1>1. ASSUME NEW t \in Threads, NEW p \in Prefs, Choose(t, p) PROVE ThreadsOK'
  BY <1>1 DEF Choose
<1>2. ASSUME NEW t \in Threads, Open(t) PROVE ThreadsOK'
  <2>1. \A i \in Free : i \in Inodes
    BY DEF Free
  <2> QED BY <1>2, <2>1 DEF Open
<1>3. ASSUME NEW t \in Threads, OpenFails(t) PROVE ThreadsOK'
  BY <1>3 DEF OpenFails
<1>4. ASSUME NEW t \in Threads, Write(t) PROVE ThreadsOK'
  BY <1>4 DEF Write
<1>5. ASSUME NEW t \in Threads, WriteFails(t) PROVE ThreadsOK'
  BY <1>5 DEF WriteFails
<1>6. ASSUME NEW t \in Threads, Rename(t) PROVE ThreadsOK'
  BY <1>6 DEF Rename
<1>7. ASSUME NEW t \in Threads, RenameFails(t) PROVE ThreadsOK'
  BY <1>7 DEF RenameFails
<1>8. ASSUME NEW t \in Threads, Tidy(t) PROVE ThreadsOK'
  BY <1>8 DEF Tidy
<1>9. ASSUME Restart PROVE ThreadsOK'
  BY <1>9 DEF Restart
<1>10. ASSUME UNCHANGED vars PROVE ThreadsOK'
  BY <1>10 DEF vars
<1> QED BY <1>1, <1>2, <1>3, <1>4, <1>5, <1>6, <1>7, <1>8, <1>9, <1>10 DEF Next

(* An open takes a file that has no name, and a rename leaves the staged    *)
(* name free.                                                              *)
LEMMA ApartStep ==
  ASSUME TypeSettingsOK, NamesAreApart, [Next]_vars
  PROVE  NamesAreApart'
<1> USE DEF TypeSettingsOK, NamesAreApart, Names, Goto, At, Answer, OpenAt, Idle
<1>1. ASSUME NEW t \in Threads, NEW p \in Prefs, Choose(t, p) PROVE NamesAreApart'
  BY InodeFacts, <1>1 DEF Choose
<1>2. ASSUME NEW t \in Threads, Open(t) PROVE NamesAreApart'
  <2>1. \A i \in Free : i \in Inodes /\ i # dir["target"]
    BY DEF Free
  <2> QED BY <1>2, InodeFacts, <2>1 DEF Open
<1>3. ASSUME NEW t \in Threads, OpenFails(t) PROVE NamesAreApart'
  BY InodeFacts, <1>3 DEF OpenFails
<1>4. ASSUME NEW t \in Threads, Write(t) PROVE NamesAreApart'
  BY InodeFacts, <1>4 DEF Write
<1>5. ASSUME NEW t \in Threads, WriteFails(t) PROVE NamesAreApart'
  BY InodeFacts, <1>5 DEF WriteFails
<1>6. ASSUME NEW t \in Threads, Rename(t) PROVE NamesAreApart'
  BY InodeFacts, <1>6 DEF Rename
<1>7. ASSUME NEW t \in Threads, RenameFails(t) PROVE NamesAreApart'
  BY InodeFacts, <1>7 DEF RenameFails
<1>8. ASSUME NEW t \in Threads, Tidy(t) PROVE NamesAreApart'
  BY InodeFacts, <1>8 DEF Tidy
<1>9. ASSUME Restart PROVE NamesAreApart'
  BY InodeFacts, <1>9 DEF Restart
<1>10. ASSUME UNCHANGED vars PROVE NamesAreApart'
  BY InodeFacts, <1>10 DEF vars
<1> QED BY <1>1, <1>2, <1>3, <1>4, <1>5, <1>6, <1>7, <1>8, <1>9, <1>10 DEF Next

(* The only thread between open and rename has the staged file to itself;  *)
(* crossing saves stay crossed until one of them fails.                    *)
LEMMA StagedStep ==
  ASSUME TypeSettingsOK, ThreadsOK, NamesAreApart, StagedIsWhole, [Next]_vars
  PROVE  StagedIsWhole'
<1> USE DEF TypeSettingsOK, ThreadsOK, Names, Goto, At, Answer, OpenAt, Idle, StagedIsWhole, Crossed,
    Saving, StagedIsItsOwn
<1>1. ASSUME NEW t \in Threads, NEW p \in Prefs, Choose(t, p) PROVE StagedIsWhole'
  BY <1>1 DEF Choose, Quiet
<1>2. ASSUME NEW t \in Threads, Open(t) PROVE StagedIsWhole'
  BY <1>2 DEF Open
<1>3. ASSUME NEW t \in Threads, OpenFails(t) PROVE StagedIsWhole'
  BY <1>3 DEF OpenFails
<1>4. ASSUME NEW t \in Threads, Write(t) PROVE StagedIsWhole'
  <2>1. thread[t].inode \in Inodes /\ thread[t].pref \in Prefs /\ dir' = dir /\ failed' = failed
    BY <1>4 DEF Write
  <2>2. \A s \in Threads : Saving(s)' <=> Saving(s)
    BY <1>4 DEF Write
  <2>3. \A s \in Threads : At(s, "tidy")' <=> At(s, "tidy")
    BY <1>4 DEF Write
  <2>4. CASE failed \/ Crossed
    BY <2>1, <2>2, <2>3, <2>4
  <2>5. CASE ~failed /\ ~Crossed
    <3>1. thread[t].inode = dir["staged"] /\ data[dir["staged"]] = <<>>
      BY <1>4, <2>5 DEF Write
    <3>2. data'[dir["staged"]] = Text(thread[t].pref) /\ thread'[t].pref = thread[t].pref
          /\ thread'[t].pc = "rename"
      BY <1>4, <2>1, <3>1, TextFacts DEF Write
    <3>3. \A s \in Threads : s # t => ~Saving(s)'
      BY <1>4, <2>2, <2>5 DEF Write
    <3> QED BY <2>1, <3>2, <3>3
  <2> QED BY <2>4, <2>5
<1>5. ASSUME NEW t \in Threads, WriteFails(t) PROVE StagedIsWhole'
  BY <1>5 DEF WriteFails
<1>6. ASSUME NEW t \in Threads, Rename(t) PROVE StagedIsWhole'
  BY <1>6 DEF Rename
<1>7. ASSUME NEW t \in Threads, RenameFails(t) PROVE StagedIsWhole'
  BY <1>7 DEF RenameFails
<1>8. ASSUME NEW t \in Threads, Tidy(t) PROVE StagedIsWhole'
  BY <1>8 DEF Tidy
<1>9. ASSUME Restart PROVE StagedIsWhole'
  BY <1>9 DEF Restart
<1>10. ASSUME UNCHANGED vars PROVE StagedIsWhole'
  BY <1>10 DEF vars
<1> QED BY <1>1, <1>2, <1>3, <1>4, <1>5, <1>6, <1>7, <1>8, <1>9, <1>10 DEF Next

(* A save that overlaps no other finds its own staged file when it renames it. *)
LEMMA AloneStep ==
  ASSUME TypeSettingsOK, ThreadsOK, OneAtATime, [Next]_vars
  PROVE  OneAtATime'
<1> USE DEF TypeSettingsOK, ThreadsOK, Names, Goto, At, Answer, OpenAt, Idle, OneAtATime, Alone, Saving,
    Quiet
<1>1. ASSUME NEW t \in Threads, NEW p \in Prefs, Choose(t, p) PROVE OneAtATime'
  BY <1>1 DEF Choose
<1>2. ASSUME NEW t \in Threads, Open(t) PROVE OneAtATime'
  <2>1. \A i \in Free : i # 0
    BY InodeFacts DEF Free
  <2> QED BY <1>2, <2>1 DEF Open
<1>3. ASSUME NEW t \in Threads, OpenFails(t) PROVE OneAtATime'
  BY <1>3 DEF OpenFails
<1>4. ASSUME NEW t \in Threads, Write(t) PROVE OneAtATime'
  BY <1>4 DEF Write
<1>5. ASSUME NEW t \in Threads, WriteFails(t) PROVE OneAtATime'
  BY <1>5 DEF WriteFails
<1>6. ASSUME NEW t \in Threads, Rename(t) PROVE OneAtATime'
  BY <1>6 DEF Rename
<1>7. ASSUME NEW t \in Threads, RenameFails(t) PROVE OneAtATime'
  BY <1>7 DEF RenameFails
<1>8. ASSUME NEW t \in Threads, Tidy(t) PROVE OneAtATime'
  BY <1>8 DEF Tidy
<1>9. ASSUME Restart PROVE OneAtATime'
  BY <1>9 DEF Restart
<1>10. ASSUME UNCHANGED vars PROVE OneAtATime'
  BY <1>10 DEF vars
<1> QED BY <1>1, <1>2, <1>3, <1>4, <1>5, <1>6, <1>7, <1>8, <1>9, <1>10 DEF Next

(* A thread between open and rename that no other crosses has the staged   *)
(* file to itself, and it is not the settings file.                        *)
LEMMA Uncrossed ==
  ASSUME TypeSettingsOK, NamesAreApart, StagedIsWhole, ~failed, NEW t \in Threads, Saving(t),
         dir["staged"] # 0, \A s \in Threads : s # t => At(s, "idle")
  PROVE  StagedIsItsOwn(t) /\ dir["staged"] # dir["target"]
<1>1. ~Crossed
  BY DEF Crossed, Saving, At
<1> QED BY <1>1 DEF StagedIsWhole, NamesAreApart

(* The settings file is replaced by a whole one, or somebody is going to   *)
(* be told that a save failed.                                             *)
LEMMA WholeStep ==
  ASSUME TypeSettingsOK, ThreadsOK, NamesAreApart, StagedIsWhole, OneAtATime, FileIsWhole, [Next]_vars
  PROVE  FileIsWhole'
<1> USE DEF TypeSettingsOK, ThreadsOK, Names, Goto, At, Answer, OpenAt, Idle, FileIsWhole, WholeFile
<1>1. ASSUME NEW t \in Threads, NEW p \in Prefs, Choose(t, p) PROVE FileIsWhole'
  BY <1>1 DEF Choose, Quiet
<1>2. ASSUME NEW t \in Threads, Open(t) PROVE FileIsWhole'
  <2>1. CASE overlapped
    <3>1. thread'[t].pc = "write" /\ overlapped' = overlapped
      BY <1>2 DEF Open
    <3> QED BY <2>1, <3>1 DEF Quiet
  <2>2. CASE ~overlapped
    <3>1. \A i \in Free : i # dir["target"]
      BY DEF Free
    <3>2. dir["staged"] # 0 => dir["staged"] # dir["target"]
      BY DEF NamesAreApart
    <3> QED BY <1>2, <2>2, <3>1, <3>2 DEF Open
  <2> QED BY <2>1, <2>2
<1>3. ASSUME NEW t \in Threads, OpenFails(t) PROVE FileIsWhole'
  BY <1>3 DEF OpenFails, Quiet
<1>4. ASSUME NEW t \in Threads, Write(t) PROVE FileIsWhole'
  <2>1. CASE overlapped
    BY <1>4, <2>1 DEF Write, Quiet
  <2>2. CASE ~overlapped
    <3>1. ~failed /\ Saving(t) /\ dir["staged"] # 0 /\ \A s \in Threads : s # t => At(s, "idle")
      BY <1>4, <2>2 DEF Write, OneAtATime, Alone, Saving
    <3>2. thread[t].inode # dir["target"]
      BY <1>4, <3>1, Uncrossed DEF Write, StagedIsItsOwn
    <3>3. WholeFile
      BY <2>2
    <3> QED BY <1>4, <3>2, <3>3 DEF Write
  <2> QED BY <2>1, <2>2
<1>5. ASSUME NEW t \in Threads, WriteFails(t) PROVE FileIsWhole'
  <2>1. CASE overlapped
    BY <1>5, <2>1 DEF WriteFails
  <2>2. CASE ~overlapped
    <3>1. ~failed /\ Saving(t) /\ dir["staged"] # 0 /\ \A s \in Threads : s # t => At(s, "idle")
      BY <1>5, <2>2 DEF WriteFails, OneAtATime, Alone, Saving
    <3>2. thread[t].inode # dir["target"]
      BY <1>5, <3>1, Uncrossed DEF WriteFails, StagedIsItsOwn
    <3>3. WholeFile
      BY <2>2
    <3> QED BY <1>5, <3>2, <3>3 DEF WriteFails, ShortText
  <2> QED BY <2>1, <2>2
<1>6. ASSUME NEW t \in Threads, Rename(t) PROVE FileIsWhole'
  <2>1. dir'["target"] = dir["staged"] /\ data' = data /\ overlapped' = overlapped /\ failed' = failed
    BY <1>6 DEF Rename
  <2>2. CASE ~failed /\ \A s \in Threads : s # t => At(s, "idle")
    <3>1. StagedIsItsOwn(t)
      BY <1>6, <2>2, Uncrossed DEF Rename, Saving
    <3>2. data[dir["staged"]] = Text(thread[t].pref) /\ thread[t].pref \in Prefs
      BY <1>6, <3>1 DEF Rename, StagedIsItsOwn
    <3> QED BY <2>1, <3>2, TextFacts
  <2>3. CASE failed \/ \E s \in Threads : s # t /\ ~At(s, "idle")
    <3>1. overlapped
      BY <1>6, <2>3 DEF Rename, OneAtATime, Alone
    <3>2. failed \/ ~Quiet(Threads)'
      BY <1>6, <2>3 DEF Rename, Quiet
    <3> QED BY <2>1, <3>1, <3>2
  <2> QED BY <2>2, <2>3
<1>7. ASSUME NEW t \in Threads, RenameFails(t) PROVE FileIsWhole'
  BY <1>7 DEF RenameFails, Quiet
<1>8. ASSUME NEW t \in Threads, Tidy(t) PROVE FileIsWhole'
  BY <1>8 DEF Tidy, Quiet
<1>9. ASSUME Restart PROVE FileIsWhole'
  BY <1>9 DEF Restart, Quiet
<1>10. ASSUME UNCHANGED vars PROVE FileIsWhole'
  BY <1>10 DEF vars, Quiet
<1> QED BY <1>1, <1>2, <1>3, <1>4, <1>5, <1>6, <1>7, <1>8, <1>9, <1>10 DEF Next

(* Saved one at a time, the text of the last choice is what is renamed.    *)
LEMMA KeptStep ==
  ASSUME TypeSettingsOK, ThreadsOK, NamesAreApart, StagedIsWhole, OneAtATime, FileIsWhole, KeptPromise, [Next]_vars
  PROVE  KeptPromise'
<1> USE DEF TypeSettingsOK, ThreadsOK, Names, Goto, At, Answer, OpenAt, Idle, KeptPromise
<1>1. ASSUME NEW t \in Threads, NEW p \in Prefs, Choose(t, p) PROVE KeptPromise'
  BY <1>1 DEF Choose
<1>2. ASSUME NEW t \in Threads, Open(t) PROVE KeptPromise'
  BY <1>2 DEF Open, OneAtATime, Alone, Load
<1>3. ASSUME NEW t \in Threads, OpenFails(t) PROVE KeptPromise'
  BY <1>3 DEF OpenFails, OneAtATime, Alone, Load
<1>4. ASSUME NEW t \in Threads, Write(t) PROVE KeptPromise'
  BY <1>4 DEF Write, OneAtATime, Alone, Load
<1>5. ASSUME NEW t \in Threads, WriteFails(t) PROVE KeptPromise'
  BY <1>5 DEF WriteFails, OneAtATime, Alone, Load
<1>6. ASSUME NEW t \in Threads, Rename(t) PROVE KeptPromise'
  <2> SUFFICES ASSUME ~overlapped, promised' # NoPref PROVE memory' = promised' /\ Load' = promised'
    BY <1>6 DEF Rename
  <2>1. /\ ~failed /\ Saving(t) /\ dir["staged"] # 0 /\ memory = thread[t].pref
        /\ \A s \in Threads : s # t => At(s, "idle")
    BY <1>6 DEF Rename, OneAtATime, Alone, Saving
  <2>2. data[dir["staged"]] = Text(memory) /\ memory \in Prefs
    BY <1>6, <2>1, Uncrossed DEF Rename, StagedIsItsOwn
  <2>3. Load' = memory
    BY <1>6, <2>2, TextFacts DEF Rename, Load
  <2> QED BY <1>6, <2>3 DEF Rename
<1>7. ASSUME NEW t \in Threads, RenameFails(t) PROVE KeptPromise'
  BY <1>7 DEF RenameFails, OneAtATime, Alone, Load
<1>8. ASSUME NEW t \in Threads, Tidy(t) PROVE KeptPromise'
  BY <1>8 DEF Tidy, OneAtATime, Alone, Load
<1>9. ASSUME Restart PROVE KeptPromise'
  <2>1. Load' = Load
    BY <1>9 DEF Restart, Load
  <2> QED BY <1>9, <2>1 DEF Restart
<1>10. ASSUME UNCHANGED vars PROVE KeptPromise'
  BY <1>10 DEF vars, Load
<1> QED BY <1>1, <1>2, <1>3, <1>4, <1>5, <1>6, <1>7, <1>8, <1>9, <1>10 DEF Next

-----------------------------------------------------------------------------
(* SettingsInv holds in every state the threads reach, whatever fails and  *)
(* whenever the process dies.                                              *)
THEOREM SettingsInductive == Spec => []SettingsInv
<1>1. Init => SettingsInv
  <2> SUFFICES ASSUME Init PROVE SettingsInv
    OBVIOUS
  <2> USE DEF Init
  <2>1. dir \in [Names -> {0} \cup Inodes]
    BY InodeFacts DEF Names
  <2>2. data \in [Inodes -> Seq(Prefs)]
    <3>1. \A p \in Prefs : Text(p) \in Seq(Prefs)
      BY TextFacts
    <3>2. \A i \in Inodes : data[i] \in Seq(Prefs)
      <4> SUFFICES ASSUME NEW i \in Inodes PROVE data[i] \in Seq(Prefs)
        OBVIOUS
      <4>1. data[i] = <<>> \/ \E p \in Prefs : data[i] = Text(p)
        OBVIOUS
      <4>2. <<>> \in Seq(Prefs)
        OBVIOUS
      <4> HIDE DEF Init
      <4> QED BY <3>1, <4>1, <4>2
    <3>3. data = [i \in Inodes |-> data[i]]
      OBVIOUS
    <3> HIDE DEF Init
    <3> QED BY <3>2, <3>3
  <2>3. WholeFile
    BY <2>1, TextFacts DEF WholeFile, Parses, Names
  <2>4. memory \in Prefs
    BY SettingsAssumption, LoadIsAPref DEF Load
  <2>5. TypeSettingsOK
    BY <2>1, <2>2, <2>4 DEF TypeSettingsOK, Idle
  <2>6. \A t \in Threads : thread[t] = Idle /\ thread[t].pc = "idle"
    BY DEF Idle
  <2>7. ThreadsOK /\ NamesAreApart /\ StagedIsWhole /\ OneAtATime
    BY <2>6 DEF ThreadsOK, NamesAreApart, StagedIsWhole, OneAtATime, StagedIsItsOwn, At
  <2>8. FileIsWhole /\ KeptPromise
    BY <2>3 DEF FileIsWhole, KeptPromise
  <2> QED BY <2>5, <2>7, <2>8 DEF SettingsInv
<1>2. SettingsInv /\ [Next]_vars => SettingsInv'
  BY TypeStep, ThreadsStep, ApartStep, StagedStep, AloneStep, WholeStep, KeptStep DEF SettingsInv
<1> QED BY <1>1, <1>2, PTL DEF Spec

(* The files and the threads keep their types.                             *)
THEOREM SettingsTypes == Spec => [](TypeSettingsOK /\ ThreadsOK)
<1>1. SettingsInv => TypeSettingsOK /\ ThreadsOK
  BY DEF SettingsInv
<1> QED BY <1>1, SettingsInductive, PTL

(* A file that is not whole is never left behind the backs of all callers: *)
(* with one save at a time it cannot be, and of overlapping saves one is   *)
(* answered with the error.                                                *)
THEOREM FileStaysWhole == Spec => []FileIsWhole
<1>1. SettingsInv => FileIsWhole
  BY DEF SettingsInv
<1> QED BY <1>1, SettingsInductive, PTL

(* A choice whose caller was told it is stored is in memory and loaded by  *)
(* the next launch.                                                        *)
THEOREM PromiseKept == Spec => []KeptPromise
<1>1. SettingsInv => KeptPromise
  BY DEF SettingsInv
<1> QED BY <1>1, SettingsInductive, PTL

-----------------------------------------------------------------------------
(* Resolution and gate.                                                    *)
Ids == DOMAIN Offers
Abilities == (UNION {Offers[b] : b \in Ids}) \cup Executions \cup {"none"}
InstalledVersions == Versions \cup {"absent"}

Stages == {"idle", "resolving", "gate", "ready", "running", "nothing", "refused"}
AskType ==
  [stage : Stages, ability : Abilities, pref : Prefs, at : Nat, backend : Ids \cup {"none", "mole"},
   insteadOf : Prefs, version : InstalledVersions, ran : InstalledVersions]

TypeBackendsOK ==
  /\ installed \in [Ids -> InstalledVersions]
  /\ ask \in AskType
  /\ swapped \in BOOLEAN

(* What the histories of one ask have to do with what is installed now.    *)
HistoriesBracket == always \subseteq Usable /\ (ask.stage # "idle" => Usable \subseteq ever)

(* What passed the gate is a backend at a supported version, the reviewed  *)
(* one if it changes files, and still is unless something was installed.   *)
GatedIsReviewed ==
  /\ ask.stage \in {"ready", "running"} =>
       /\ ask.backend \in Ids /\ ask.version \in Supported
       /\ ask.ability \in Executions => ask.version = review.version
  /\ ask.stage = "ready" /\ ~swapped => installed[ask.backend] = ask.version
  /\ ask.stage = "running" /\ ~swapped => ask.ran = ask.version

(* The places before the k-th that offer the ability were each found       *)
(* unusable at some time.                                                  *)
PassedOver(k) ==
  \A j \in DOMAIN Order(ask.pref) :
    j < k /\ Offering(ask.ability, Order(ask.pref)[j]) => Order(ask.pref)[j] \notin always

TakenAt(k) ==
  /\ Order(ask.pref)[k] = ask.backend /\ Offering(ask.ability, ask.backend)
  /\ ask.backend \in ever
  /\ ask.insteadOf = IF k = 1 THEN Default ELSE ask.pref
  /\ PassedOver(k)

TakenInOrder ==
  /\ ask.stage \in {"idle", "resolving", "nothing"} => ask.backend = "none"
  /\ ask.stage = "resolving" => ask.insteadOf = Default /\ PassedOver(ask.at)
  /\ ask.stage = "nothing" => \A k \in Nat : PassedOver(k)
  /\ ask.stage \in {"gate", "ready", "running", "refused"} /\ ask.at > 0 =>
       \E k \in DOMAIN Order(ask.pref) : TakenAt(k)

BackendsInv == TypeBackendsOK /\ HistoriesBracket /\ GatedIsReviewed /\ TakenInOrder

-----------------------------------------------------------------------------
(* The order holds the choice, then the platform's order, then all.        *)
LEMMA OrderFacts ==
  ASSUME NEW pref \in Prefs
  PROVE  /\ Order(pref) \in Seq(Prefs \cup Ids)
         /\ Len(Order(pref)) = 1 + Len(DefaultOrder) + Len(Registered)
         /\ Order(pref)[1] = pref
         /\ \A i \in 1..Len(DefaultOrder) : Order(pref)[1 + i] = DefaultOrder[i]
         /\ \A i \in 1..Len(Registered) : Order(pref)[1 + Len(DefaultOrder) + i] = Registered[i]
<1>1. DefaultOrder \in Seq(Prefs \cup Ids) /\ Registered \in Seq(Prefs \cup Ids) /\ <<pref>> \in Seq(Prefs \cup Ids)
  BY BackendsAssumption DEF Ids
<1>2. <<pref>> \o DefaultOrder \in Seq(Prefs \cup Ids) /\ Len(<<pref>> \o DefaultOrder) = 1 + Len(DefaultOrder)
      /\ (<<pref>> \o DefaultOrder)[1] = pref
      /\ \A i \in 1..Len(DefaultOrder) : (<<pref>> \o DefaultOrder)[1 + i] = DefaultOrder[i]
  BY <1>1
<1> QED BY <1>1, <1>2 DEF Order

(* Whatever an operation is up to, the preference moves as Settings says.  *)
LEMMA SettingsPart ==
  ASSUME [BackendsNext]_backendsVars
  PROVE  [Next]_vars
<1>1. ASSUME NEW t \in Threads, NEW p \in Prefs, Quietly(Choose(t, p)) PROVE [Next]_vars
  BY <1>1 DEF Quietly, Next
<1>2. ASSUME Quietly(Next) PROVE [Next]_vars
  BY <1>2 DEF Quietly
<1>3. ASSUME NEW b \in DOMAIN Offers, NEW version \in Versions, Install(b, version) PROVE [Next]_vars
  BY <1>3 DEF Install
<1>4. ASSUME NEW b \in DOMAIN Offers, NEW ability \in Offers[b], Ask(ability) PROVE [Next]_vars
  BY <1>4 DEF Ask
<1>5. ASSUME NEW o \in Executions, AskReviewed(o) PROVE [Next]_vars
  BY <1>5 DEF AskReviewed
<1>6. ASSUME Detect PROVE [Next]_vars
  BY <1>6 DEF Detect
<1>7. ASSUME NothingUsable PROVE [Next]_vars
  BY <1>7 DEF NothingUsable
<1>8. ASSUME Gate PROVE [Next]_vars
  BY <1>8 DEF Gate
<1>9. ASSUME Run PROVE [Next]_vars
  BY <1>9 DEF Run
<1>10. ASSUME Collect PROVE [Next]_vars
  BY <1>10 DEF Collect
<1>11. ASSUME Running PROVE [Next]_vars
  BY <1>11 DEF Running
<1>12. ASSUME UNCHANGED backendsVars PROVE [Next]_vars
  BY <1>12 DEF backendsVars
<1> QED BY <1>1, <1>2, <1>3, <1>4, <1>5, <1>6, <1>7, <1>8, <1>9, <1>10, <1>11,
    <1>12 DEF BackendsNext, Asking

(* What may be asked for.                                                  *)
LEMMA AbilityFacts ==
  /\ "none" \in Abilities /\ Executions \subseteq Abilities
  /\ \A b \in Ids : Offers[b] \subseteq Abilities
BY DEF Abilities

(* Nothing is asked.                                                       *)
LEMMA NoAskType == NoAsk \in AskType
<1>1. Default \in Prefs
  BY SettingsAssumption
<1>2. "absent" \in InstalledVersions
  BY DEF InstalledVersions
<1> QED BY <1>1, <1>2, AbilityFacts DEF NoAsk, AskType, Stages

(* Every step keeps the ask and what is installed within their types.      *)
LEMMA TypeBackendsStep ==
  ASSUME TypeSettingsOK, TypeBackendsOK, GatedIsReviewed, [BackendsNext]_backendsVars
  PROVE  TypeBackendsOK'
<1> USE DEF TypeBackendsOK, Ids, askVars, machine, Stage, AskType, Stages
<1>1. ASSUME NEW t \in Threads, NEW p \in Prefs, Quietly(Choose(t, p)) PROVE TypeBackendsOK'
  BY <1>1 DEF Quietly
<1>2. ASSUME Quietly(Next) PROVE TypeBackendsOK'
  BY <1>2 DEF Quietly
<1>3. ASSUME NEW b \in DOMAIN Offers, NEW version \in Versions, Install(b, version) PROVE TypeBackendsOK'
  BY <1>3 DEF Install, InstalledVersions
<1>4. ASSUME NEW b \in DOMAIN Offers, NEW ability \in Offers[b], Ask(ability) PROVE TypeBackendsOK'
  <2>1. ability \in Abilities
    BY AbilityFacts DEF Ids
  <2>2. ask' = [NoAsk EXCEPT !.stage = "resolving", !.ability = ability, !.pref = memory, !.at = 1]
        /\ UNCHANGED <<installed>> /\ swapped' = FALSE
    BY <1>4 DEF Ask
  <2> QED BY <2>1, <2>2, NoAskType DEF TypeSettingsOK
<1>5. ASSUME NEW o \in Executions, AskReviewed(o) PROVE TypeBackendsOK'
  <2>1. o \in Abilities
    BY AbilityFacts
  <2>2. ask' = [NoAsk EXCEPT !.stage = "gate", !.ability = o, !.backend = "mole"]
        /\ UNCHANGED <<installed>> /\ swapped' = FALSE
    BY <1>5 DEF AskReviewed
  <2> QED BY <2>1, <2>2, NoAskType
<1>6. ASSUME Detect PROVE TypeBackendsOK'
  <2>1. PICK k \in Candidates : ask' = IF Order(ask.pref)[k] \in Usable THEN Take(k) ELSE [ask EXCEPT !.at = k + 1]
    BY <1>6 DEF Detect
  <2>2. k \in Nat /\ Order(ask.pref)[k] \in Ids
    BY OrderFacts DEF Candidates, Offering
  <2>3. UNCHANGED <<installed, swapped>>
    BY <1>6 DEF Detect
  <2>4. Default \in Prefs
    BY SettingsAssumption
  <2>5. CASE Order(ask.pref)[k] \in Usable
    <3>1. ask' = [ask EXCEPT !.stage = "gate", !.backend = Order(ask.pref)[k],
                             !.insteadOf = IF k = 1 THEN Default ELSE ask.pref]
      BY <2>1, <2>5 DEF Take
    <3>2. ask.pref \in Prefs /\ (IF k = 1 THEN Default ELSE ask.pref) \in Prefs
      BY <2>4
    <3> QED BY <2>2, <2>3, <3>1, <3>2
  <2>6. CASE Order(ask.pref)[k] \notin Usable
    <3>1. ask' = [ask EXCEPT !.at = k + 1] /\ k + 1 \in Nat
      BY <2>1, <2>2, <2>6
    <3> QED BY <2>3, <3>1
  <2> QED BY <2>5, <2>6
<1>7. ASSUME NothingUsable PROVE TypeBackendsOK'
  BY <1>7 DEF NothingUsable
<1>8. ASSUME Gate PROVE TypeBackendsOK'
  <2>1. ask.backend \in Usable => installed[ask.backend] \in InstalledVersions
    BY DEF Usable
  <2>2. UNCHANGED <<installed, swapped>>
    BY <1>8 DEF Gate
  <2> QED BY <1>8, <2>1, <2>2 DEF Gate
<1>9. ASSUME Run PROVE TypeBackendsOK'
  <2>1. installed[ask.backend] \in InstalledVersions
    BY <1>9 DEF Run, GatedIsReviewed
  <2>2. ask' = [ask EXCEPT !.stage = "running", !.ran = installed[ask.backend]]
        /\ UNCHANGED <<installed, swapped>>
    BY <1>9 DEF Run
  <2> QED BY <2>1, <2>2
<1>10. ASSUME Collect PROVE TypeBackendsOK'
  <2>1. ask' = NoAsk /\ UNCHANGED <<installed, swapped>>
    BY <1>10 DEF Collect
  <2> QED BY <2>1, NoAskType
<1>11. ASSUME Running PROVE TypeBackendsOK'
  BY <1>11 DEF Running
<1>12. ASSUME UNCHANGED backendsVars PROVE TypeBackendsOK'
  BY <1>12 DEF backendsVars
<1> HIDE DEF TypeBackendsOK, Ids, askVars, machine, Stage, AskType, Stages
<1> QED BY <1>1, <1>2, <1>3, <1>4, <1>5, <1>6, <1>7, <1>8, <1>9, <1>10, <1>11,
    <1>12 DEF BackendsNext, Asking

(* always only shrinks, and ever only grows, with what is usable.          *)
LEMMA BracketStep ==
  ASSUME TypeBackendsOK, HistoriesBracket, [BackendsNext]_backendsVars
  PROVE  HistoriesBracket'
<1> USE DEF TypeBackendsOK, Ids, askVars, machine, Stage, HistoriesBracket, Usable, NoAsk
<1>1. ASSUME NEW t \in Threads, NEW p \in Prefs, Quietly(Choose(t, p)) PROVE HistoriesBracket'
  BY <1>1 DEF Quietly
<1>2. ASSUME Quietly(Next) PROVE HistoriesBracket'
  BY <1>2 DEF Quietly
<1>3. ASSUME NEW b \in DOMAIN Offers, NEW version \in Versions, Install(b, version) PROVE HistoriesBracket'
  BY <1>3 DEF Install
<1>4. ASSUME NEW b \in DOMAIN Offers, NEW ability \in Offers[b], Ask(ability) PROVE HistoriesBracket'
  BY <1>4 DEF Ask
<1>5. ASSUME NEW o \in Executions, AskReviewed(o) PROVE HistoriesBracket'
  BY <1>5 DEF AskReviewed
<1>6. ASSUME Detect PROVE HistoriesBracket'
  BY <1>6 DEF Detect
<1>7. ASSUME NothingUsable PROVE HistoriesBracket'
  BY <1>7 DEF NothingUsable
<1>8. ASSUME Gate PROVE HistoriesBracket'
  BY <1>8 DEF Gate
<1>9. ASSUME Run PROVE HistoriesBracket'
  BY <1>9 DEF Run
<1>10. ASSUME Collect PROVE HistoriesBracket'
  BY <1>10 DEF Collect
<1>11. ASSUME Running PROVE HistoriesBracket'
  BY <1>11 DEF Running
<1>12. ASSUME UNCHANGED backendsVars PROVE HistoriesBracket'
  BY <1>12 DEF backendsVars
<1> HIDE DEF TypeBackendsOK, Ids, askVars, machine, Stage, HistoriesBracket, Usable, NoAsk
<1> QED BY <1>1, <1>2, <1>3, <1>4, <1>5, <1>6, <1>7, <1>8, <1>9, <1>10, <1>11,
    <1>12 DEF BackendsNext, Asking

(* Only the gate leads to a run, and what is installed behind it is noted. *)
LEMMA GatedStep ==
  ASSUME TypeBackendsOK, GatedIsReviewed, [BackendsNext]_backendsVars
  PROVE  GatedIsReviewed'
<1> USE DEF TypeBackendsOK, Ids, askVars, machine, Stage, GatedIsReviewed, NoAsk, AskType
<1>1. ASSUME NEW t \in Threads, NEW p \in Prefs, Quietly(Choose(t, p)) PROVE GatedIsReviewed'
  BY <1>1 DEF Quietly
<1>2. ASSUME Quietly(Next) PROVE GatedIsReviewed'
  BY <1>2 DEF Quietly
<1>3. ASSUME NEW b \in DOMAIN Offers, NEW version \in Versions, Install(b, version) PROVE GatedIsReviewed'
  BY <1>3 DEF Install
<1>4. ASSUME NEW b \in DOMAIN Offers, NEW ability \in Offers[b], Ask(ability) PROVE GatedIsReviewed'
  BY <1>4 DEF Ask
<1>5. ASSUME NEW o \in Executions, AskReviewed(o) PROVE GatedIsReviewed'
  BY <1>5 DEF AskReviewed
<1>6. ASSUME Detect PROVE GatedIsReviewed'
  <2>1. ask'.stage \in {"gate", "resolving"}
    BY <1>6 DEF Detect, Take
  <2> QED BY <2>1
<1>7. ASSUME NothingUsable PROVE GatedIsReviewed'
  BY <1>7 DEF NothingUsable
<1>8. ASSUME Gate PROVE GatedIsReviewed'
  BY <1>8 DEF Gate, Usable, Reviewed
<1>9. ASSUME Run PROVE GatedIsReviewed'
  BY <1>9 DEF Run
<1>10. ASSUME Collect PROVE GatedIsReviewed'
  BY <1>10 DEF Collect
<1>11. ASSUME Running PROVE GatedIsReviewed'
  BY <1>11 DEF Running
<1>12. ASSUME UNCHANGED backendsVars PROVE GatedIsReviewed'
  BY <1>12 DEF backendsVars
<1> HIDE DEF TypeBackendsOK, Ids, askVars, machine, Stage, GatedIsReviewed, NoAsk, AskType
<1> QED BY <1>1, <1>2, <1>3, <1>4, <1>5, <1>6, <1>7, <1>8, <1>9, <1>10, <1>11,
    <1>12 DEF BackendsNext, Asking

(* The candidates are looked at in order, and the first usable one is taken. *)
LEMMA TakenStep ==
  ASSUME TypeSettingsOK, TypeBackendsOK, HistoriesBracket, TakenInOrder, [BackendsNext]_backendsVars
  PROVE  TakenInOrder'
<1> USE DEF TypeBackendsOK, Ids, askVars, machine, Stage, TakenInOrder, TakenAt, PassedOver,
    NoAsk, AskType
<1>1. ASSUME NEW t \in Threads, NEW p \in Prefs, Quietly(Choose(t, p)) PROVE TakenInOrder'
  BY <1>1 DEF Quietly
<1>2. ASSUME Quietly(Next) PROVE TakenInOrder'
  BY <1>2 DEF Quietly
<1>3. ASSUME NEW b \in DOMAIN Offers, NEW version \in Versions, Install(b, version) PROVE TakenInOrder'
  <2>1. always' \subseteq always /\ ever \subseteq ever' /\ ask' = ask
    BY <1>3 DEF Install
  <2> QED BY <2>1
<1>4. ASSUME NEW b \in DOMAIN Offers, NEW ability \in Offers[b], Ask(ability) PROVE TakenInOrder'
  <2>1. /\ ask'.stage = "resolving" /\ ask'.backend = "none" /\ ask'.insteadOf = Default
        /\ ask'.at = 1 /\ ask'.pref = memory
    BY <1>4 DEF Ask
  <2>2. \A j \in DOMAIN Order(memory) : ~(j < 1)
    BY OrderFacts DEF TypeSettingsOK
  <2> QED BY <2>1, <2>2
<1>5. ASSUME NEW o \in Executions, AskReviewed(o) PROVE TakenInOrder'
  <2>1. ask'.stage = "gate" /\ ask'.at = 0
    BY <1>5 DEF AskReviewed
  <2> QED BY <2>1
<1>6. ASSUME Detect PROVE TakenInOrder'
  <2>1. PICK k \in Candidates :
          /\ \A other \in Candidates : k <= other
          /\ ask' = IF Order(ask.pref)[k] \in Usable THEN Take(k) ELSE [ask EXCEPT !.at = k + 1]
    BY <1>6 DEF Detect
  <2>2. k \in DOMAIN Order(ask.pref) /\ Offering(ask.ability, Order(ask.pref)[k])
        /\ DOMAIN Order(ask.pref) \subseteq Nat
    BY OrderFacts DEF Candidates
  <2>3. PassedOver(k)
    BY <1>6, <2>1, <2>2 DEF Detect, Candidates
  <2>4. CASE Order(ask.pref)[k] \in Usable
    <3>1. Order(ask.pref)[k] \in ever
      BY <1>6, <2>4 DEF Detect, HistoriesBracket
    <3>2. ask' = Take(k) /\ UNCHANGED <<always, ever>>
      BY <1>6, <2>1, <2>4 DEF Detect
    <3>3. /\ ask'.stage = "gate" /\ ask'.backend = Order(ask.pref)[k] /\ ask'.pref = ask.pref
          /\ ask'.ability = ask.ability /\ ask'.insteadOf = IF k = 1 THEN Default ELSE ask.pref
      BY <3>2 DEF Take
    <3>4. TakenAt(k)'
      BY <2>2, <2>3, <3>1, <3>2, <3>3
    <3> QED BY <2>2, <3>3, <3>4
  <2>5. CASE Order(ask.pref)[k] \notin Usable
    <3>1. ask' = [ask EXCEPT !.at = k + 1] /\ UNCHANGED <<always, ever>>
      BY <1>6, <2>1, <2>5 DEF Detect
    <3>2. Order(ask.pref)[k] \notin always
      BY <2>5 DEF HistoriesBracket
    <3>3. PassedOver(k + 1)
      BY <2>2, <2>3, <3>2
    <3>4. PassedOver(ask.at)'
      BY <2>2, <3>1, <3>3
    <3> QED BY <1>6, <3>1, <3>4 DEF Detect
  <2> QED BY <2>4, <2>5
<1>7. ASSUME NothingUsable PROVE TakenInOrder'
  <2>1. ask' = [ask EXCEPT !.stage = "nothing"] /\ UNCHANGED <<always, ever>> /\ Stage("resolving")
    BY <1>7 DEF NothingUsable
  <2>2. \A j \in DOMAIN Order(ask.pref) :
          Offering(ask.ability, Order(ask.pref)[j]) => j < ask.at /\ Order(ask.pref)[j] \notin always
    BY <1>7, <2>1, OrderFacts DEF NothingUsable, Candidates
  <2> QED BY <2>1, <2>2
<1>8. ASSUME Gate PROVE TakenInOrder'
  BY <1>8 DEF Gate
<1>9. ASSUME Run PROVE TakenInOrder'
  BY <1>9 DEF Run
<1>10. ASSUME Collect PROVE TakenInOrder'
  BY <1>10 DEF Collect
<1>11. ASSUME Running PROVE TakenInOrder'
  BY <1>11 DEF Running
<1>12. ASSUME UNCHANGED backendsVars PROVE TakenInOrder'
  BY <1>12 DEF backendsVars
<1> HIDE DEF TypeBackendsOK, Ids, askVars, machine, Stage, TakenInOrder, TakenAt, PassedOver,
    NoAsk, AskType
<1> QED BY <1>1, <1>2, <1>3, <1>4, <1>5, <1>6, <1>7, <1>8, <1>9, <1>10, <1>11,
    <1>12 DEF BackendsNext, Asking

(***************************************************************************)
(* Theorems                                                                *)
(***************************************************************************)

(* The settings file under any use of the backends is that of Settings.    *)
THEOREM BackendsSettings == BackendsSpec => Spec
<1>1. BackendsInit => Init
  BY DEF BackendsInit
<1>2. [BackendsNext]_backendsVars => [Next]_vars
  BY SettingsPart
<1> QED BY <1>1, <1>2, PTL DEF BackendsSpec, Spec

(* So what is proved of it above holds however backends come and go.       *)
THEOREM SettingsStayWhole == BackendsSpec => [](FileIsWhole /\ KeptPromise)
BY BackendsSettings, FileStaysWhole, PromiseKept, PTL

(* BackendsInv holds of every state an operation can be in.                *)
THEOREM BackendsInductive == BackendsSpec => []BackendsInv
<1>1. BackendsInit => BackendsInv
  <2> SUFFICES ASSUME BackendsInit PROVE BackendsInv
    OBVIOUS
  <2>1. ask = NoAsk /\ always = {} /\ swapped = FALSE
    BY DEF BackendsInit
  <2>2. TypeBackendsOK
    BY <2>1, NoAskType DEF BackendsInit, TypeBackendsOK, Ids, InstalledVersions
  <2>3. HistoriesBracket /\ GatedIsReviewed /\ TakenInOrder
    BY <2>1 DEF HistoriesBracket, GatedIsReviewed, TakenInOrder, NoAsk
  <2> QED BY <2>2, <2>3 DEF BackendsInv
<1>2. TypeSettingsOK /\ BackendsInv /\ [BackendsNext]_backendsVars => BackendsInv'
  BY TypeBackendsStep, BracketStep, GatedStep, TakenStep DEF BackendsInv
<1>3. SettingsInv => TypeSettingsOK
  BY DEF SettingsInv
<1> QED BY <1>1, <1>2, <1>3, BackendsSettings, SettingsInductive, PTL DEF BackendsSpec

(* Whatever is installed or removed while it is being looked for, what is  *)
(* taken offers the ability and was usable, the user's choice and better   *)
(* backends are passed over only if they were not usable all along, and    *)
(* nothing is answered only if nothing was.                                *)
LEMMA TakenIsHonest ==
  ASSUME TypeBackendsOK, HistoriesBracket, NEW k \in DOMAIN Order(ask.pref), TakenAt(k)
  PROVE  LET best(b) == \A i, j \in DOMAIN DefaultOrder :
                          i < j /\ DefaultOrder[j] = b /\ ask.ability \in Offers[DefaultOrder[i]] => DefaultOrder[i] \notin always
             chosen  == ask.pref \in DOMAIN Offers /\ ask.ability \in Offers[ask.pref]
         IN  /\ ask.ability \in Offers[ask.backend] /\ ask.backend \in ever
             /\ chosen /\ ask.pref \in always => ask.backend = ask.pref
             /\ ask.backend # ask.pref => best(ask.backend) /\ ask.insteadOf = ask.pref
             /\ ask.insteadOf # Default => ask.insteadOf = ask.pref /\ ~(chosen /\ ask.pref \in always)
<1> DEFINE n == Len(DefaultOrder)
           chosen == ask.pref \in DOMAIN Offers /\ ask.ability \in Offers[ask.pref]
<1>1. ask.pref \in Prefs
  BY DEF TypeBackendsOK, AskType
<1>2. /\ Order(ask.pref)[1] = ask.pref /\ n \in Nat /\ Len(Registered) \in Nat
      /\ DOMAIN Order(ask.pref) = 1..(1 + n + Len(Registered))
      /\ \A i \in 1..n : Order(ask.pref)[1 + i] = DefaultOrder[i]
      /\ DOMAIN DefaultOrder = 1..n
  BY <1>1, OrderFacts, BackendsAssumption
<1>3. Order(ask.pref)[k] = ask.backend /\ ask.backend \in DOMAIN Offers /\ ask.ability \in Offers[ask.backend]
      /\ ask.backend \in ever /\ ask.insteadOf = IF k = 1 THEN Default ELSE ask.pref
  BY DEF TakenAt, Offering
<1>4. CASE k = 1
  BY <1>2, <1>3, <1>4
<1>5. CASE k # 1
  <2>1. chosen => ask.pref \notin always
    BY <1>2, <1>5 DEF TakenAt, PassedOver, Offering
  <2>2. ASSUME NEW i \in DOMAIN DefaultOrder, NEW j \in DOMAIN DefaultOrder,
               i < j, DefaultOrder[j] = ask.backend, ask.ability \in Offers[DefaultOrder[i]]
        PROVE  DefaultOrder[i] \notin always
    <3>1. 1 + i < k
      <4>1. CASE k <= 1 + n
        <5>1. k - 1 \in 1..n /\ DefaultOrder[k - 1] = ask.backend
          BY <1>2, <1>3, <1>5, <4>1
        <5>2. k - 1 = j
          BY <1>2, <2>2, <5>1, BackendsAssumption
        <5> QED BY <1>2, <2>2, <5>2
      <4>2. CASE k > 1 + n
        BY <1>2, <2>2, <4>2
      <4> QED BY <1>2, <4>1, <4>2
    <3>2. DefaultOrder[i] \in DOMAIN Offers /\ Order(ask.pref)[1 + i] = DefaultOrder[i]
          /\ 1 + i \in DOMAIN Order(ask.pref)
      BY <1>2, BackendsAssumption
    <3> QED BY <2>2, <3>1, <3>2 DEF TakenAt, PassedOver, Offering
  <2> QED BY <1>3, <1>5, <2>1, <2>2
<1> QED BY <1>4, <1>5

(* Everything that is registered comes up in the order.                    *)
LEMMA NothingIsHonest ==
  ASSUME TypeBackendsOK, HistoriesBracket, \A k \in Nat : PassedOver(k)
  PROVE  \A b \in always : ask.ability \notin Offers[b]
<1> SUFFICES ASSUME NEW b \in always, ask.ability \in Offers[b] PROVE FALSE
  OBVIOUS
<1>1. b \in DOMAIN Offers
  BY DEF HistoriesBracket, Usable, TypeBackendsOK, Ids
<1>2. PICK r \in DOMAIN Registered : Registered[r] = b
  BY <1>1, BackendsAssumption
<1> DEFINE k == 1 + Len(DefaultOrder) + r
<1>3. ask.pref \in Prefs
  BY DEF TypeBackendsOK, AskType
<1>4. DOMAIN Order(ask.pref) = 1..(1 + Len(DefaultOrder) + Len(Registered))
      /\ Order(ask.pref)[1 + Len(DefaultOrder) + r] = Registered[r]
  <2>1. r \in 1..Len(Registered)
    BY <1>2, BackendsAssumption
  <2>2. Len(Order(ask.pref)) = 1 + Len(DefaultOrder) + Len(Registered) /\ Order(ask.pref) \in Seq(Prefs \cup Ids)
    BY <1>3, OrderFacts
  <2>3. DOMAIN Order(ask.pref) = 1..Len(Order(ask.pref))
    BY <2>2
  <2>4. Order(ask.pref)[1 + Len(DefaultOrder) + r] = Registered[r]
    BY <1>3, <2>1, OrderFacts
  <2> QED BY <2>2, <2>3, <2>4
<1>5. k \in Nat /\ k \in DOMAIN Order(ask.pref) /\ Order(ask.pref)[k] = b
  BY <1>2, <1>4, BackendsAssumption
<1>6. PassedOver(k + 1)
  BY <1>5
<1> QED BY <1>1, <1>5, <1>6 DEF PassedOver, Offering

(* An operation is resolved honestly in every state.                       *)
THEOREM ResolvedHonestly == BackendsSpec => []ResolvesHonestly
<1>1. BackendsInv => ResolvesHonestly
  <2> SUFFICES ASSUME BackendsInv PROVE ResolvesHonestly
    OBVIOUS
  <2>1. TypeBackendsOK /\ HistoriesBracket /\ TakenInOrder
    BY DEF BackendsInv
  <2>2. Stage("nothing") => \A b \in always : ask.ability \notin Offers[b]
    BY <2>1, NothingIsHonest DEF TakenInOrder, Stage
  <2>3. ASSUME ask.at > 0, ask.backend # "none" PROVE \E k \in DOMAIN Order(ask.pref) : TakenAt(k)
    BY <2>1, <2>3 DEF TakenInOrder, TypeBackendsOK, AskType, Stages
  <2> QED BY <2>1, <2>2, <2>3, TakenIsHonest DEF ResolvesHonestly
<1> QED BY <1>1, BackendsInductive, PTL

(* What changes files runs at the version whose preview was reviewed,      *)
(* unless it was replaced between the gate and the spawn.                  *)
THEOREM RanWhatWasReviewed == BackendsSpec => []RunsWhatWasReviewed
<1>1. BackendsInv => RunsWhatWasReviewed
  BY DEF BackendsInv, GatedIsReviewed, RunsWhatWasReviewed, Stage
<1> QED BY <1>1, BackendsInductive, PTL

-----------------------------------------------------------------------------
(* The adapter of Mole.                                                    *)
Installable == DOMAIN ItemsOf
Words == {"notice", "blank", "matched", "name", "prompt", "remove", "freed", "failed"}
UninstallLine == [kind : Words, text : Words \cup Installable \cup SUBSET Installable, n : Int]

(* Whatever the script says was freed it removes before it says so.        *)
SaidAfterwards ==
  \A k \in DOMAIN script : script[k].kind = "freed" =>
    \A app \in script[k].text \cap installedApps :
      \E j \in DOMAIN script : j < k /\ script[j].kind = "remove" /\ script[j].text = app

SaidIsTrue ==
  \A k \in DOMAIN output : output[k].kind = "freed" => output[k].text \cap installedApps = {}

(* Of an uninstall under way, what was read is true and what will be said  *)
(* will be by then; and nothing runs when nothing was asked for.           *)
MoleInv ==
  /\ installedApps \subseteq Installable
  /\ op = "none" => command = "none"
  /\ command = "uninstall" =>
       /\ script \in Seq(UninstallLine) /\ output \in Seq(UninstallLine)
       /\ SaidAfterwards /\ SaidIsTrue
  /\ OutcomesAreHonest

(* The elements of a finite set, one after the other.                      *)
LEMMA InSomeOrder ==
  ASSUME NEW S, IsFiniteSet(S)
  PROVE  SetToSeq(S) \in Seq(S) /\ \A x \in S : \E k \in DOMAIN SetToSeq(S) : SetToSeq(S)[k] = x
<1> DEFINE n == Cardinality(S)
           s == SetToSeq(S)
<1>1. n \in Nat
  BY FS_CardinalityType
<1>2. PICK f : f \in Bijection(1..n, S)
  BY FS_CardinalityType DEF ExistsBijection
<1>3. f \in [1..n -> S] /\ IsInjective(f)
  BY <1>2 DEF Bijection, Injection, IsInjective
<1>4. s \in [1..n -> S] /\ IsInjective(s)
  BY <1>3 DEF SetToSeq
<1>5. s \in Injection(1..n, S)
  BY <1>4 DEF Injection, IsInjective
<1>6. Cardinality(1..n) = n
  BY <1>1, FS_Interval
<1>7. s \in Surjection(1..n, S)
  BY <1>5, <1>6, FS_Injection
<1> HIDE DEF s
<1>8. s \in Seq(S)
  BY <1>1, <1>4
<1>9. \A x \in S : \E k \in 1..n : s[k] = x
  BY <1>7 DEF Surjection
<1> QED BY <1>4, <1>8, <1>9 DEF s

(* A line is what it was made of.                                          *)
LEMMA LineType ==
  \A kind \in Words, n \in Int : \A text \in Words \cup Installable \cup SUBSET Installable :
    /\ Line(kind, text, n) \in UninstallLine
    /\ Line(kind, text, n).kind = kind /\ Line(kind, text, n).text = text
BY DEF Line, UninstallLine

(* One line for each application of a set.                                 *)
LEMMA OneLineEach ==
  ASSUME NEW how \in Words, NEW some \in SUBSET Installable
  PROVE  LET s == SetToSeq({Line(how, app, 0) : app \in some})
         IN  /\ s \in Seq(UninstallLine)
             /\ \A k \in DOMAIN s : s[k].kind = how
             /\ \A app \in some : \E k \in DOMAIN s : s[k].text = app
<1> DEFINE S == {Line(how, app, 0) : app \in some}
           s == SetToSeq(S)
<1>1. IsFiniteSet(some)
  BY MoleAssumption, FS_Subset DEF Installable
<1>2. IsFiniteSet(S)
  <2> DEFINE made == [app \in some |-> Line(how, app, 0)]
  <2>1. made \in Surjection(some, S)
    BY DEF Surjection
  <2> QED BY <1>1, <2>1, FS_Surjection
<1>3. S \subseteq UninstallLine
  BY LineType
<1>4. s \in Seq(S) /\ \A x \in S : \E k \in DOMAIN s : s[k] = x
  BY <1>2, InSomeOrder
<1>5. \A x \in S : x.kind = how /\ \E app \in some : x.text = app
  BY DEF Line
<1>6. \A app \in some : Line(how, app, 0) \in S /\ Line(how, app, 0).text = app
  BY DEF Line
<1> HIDE DEF s, S
<1>7. \A k \in DOMAIN s : s[k] \in S
  BY <1>4
<1>8. s \in Seq(UninstallLine)
  BY <1>3, <1>4
<1>9. \A app \in some : \E k \in DOMAIN s : s[k].text = app
  BY <1>4, <1>6
<1> QED BY <1>5, <1>7, <1>8, <1>9 DEF s, S

(* The prompt in front of an uninstall.                                    *)
LEMMA PromptLines ==
  ASSUME NEW apps \in SUBSET Installable
  PROVE  LET s == Matched(PlanFor(apps))
         IN  s \in Seq(UninstallLine) /\ \A k \in DOMAIN s : s[k].kind \notin {"freed", "remove"}
<1> DEFINE each == SetToSeq(apps)
           plan == PlanFor(apps)
           front == <<Plain("notice"), Plain("blank"), Line("matched", "matched", Len(plan))>>
           named == [k \in DOMAIN plan |-> Line("name", plan[k].name, k)]
           back == <<Plain("blank"), Plain("prompt")>>
<1>1. IsFiniteSet(apps)
  BY MoleAssumption, FS_Subset DEF Installable
<1>2. each \in Seq(apps)
  BY <1>1, InSomeOrder
<1>3. plan = [k \in DOMAIN each |-> [name |-> each[k], items |-> ItemsOf[each[k]]]]
  BY DEF PlanFor
<1> HIDE DEF each, plan
<1>4. Len(each) \in Nat /\ DOMAIN each = 1..Len(each) /\ \A k \in DOMAIN each : each[k] \in Installable
  BY <1>2
<1>5. DOMAIN plan = 1..Len(each) /\ Len(plan) = Len(each) /\ \A k \in 1..Len(each) : plan[k].name \in Installable
  BY <1>3, <1>4
<1>6. named \in Seq(UninstallLine) /\ \A k \in DOMAIN named : named[k].kind = "name"
  <2>1. \A k \in 1..Len(each) : Line("name", plan[k].name, k) \in UninstallLine
                                /\ Line("name", plan[k].name, k).kind = "name"
    <3>1. "name" \in Words
      BY DEF Words
    <3>2. \A k \in 1..Len(each) : k \in Int /\ plan[k].name \in Words \cup Installable \cup SUBSET Installable
      BY <1>4, <1>5
    <3> QED BY <3>1, <3>2, LineType
  <2> QED BY <1>4, <1>5, <2>1
<1>7. front \in Seq(UninstallLine) /\ \A k \in DOMAIN front : front[k].kind \in {"notice", "blank", "matched"}
  BY <1>4, <1>5, LineType DEF Plain, Words
<1>8. back \in Seq(UninstallLine) /\ \A k \in DOMAIN back : back[k].kind \in {"blank", "prompt"}
  BY LineType DEF Plain, Words
<1>9. Matched(plan) = front \o named \o back
  BY DEF Matched
<1> HIDE DEF front, named, back
<1>10. front \o named \in Seq(UninstallLine)
       /\ \A k \in DOMAIN (front \o named) : (front \o named)[k].kind \notin {"freed", "remove"}
  BY <1>6, <1>7
<1>11. front \o named \o back \in Seq(UninstallLine)
       /\ \A k \in DOMAIN (front \o named \o back) : (front \o named \o back)[k].kind \notin {"freed", "remove"}
  BY <1>8, <1>10
<1> QED BY <1>9, <1>11 DEF plan

(* An uninstall names what it freed once it is gone.                       *)
LEMMA UninstallScript ==
  ASSUME NEW apps \in SUBSET Installable, NEW freed \in SUBSET apps
  PROVE  LET s == Matched(PlanFor(apps)) \o Removing(freed, apps)
         IN  /\ s \in Seq(UninstallLine)
             /\ \A k \in DOMAIN s : s[k].kind = "freed" =>
                  \A app \in s[k].text :
                    \E j \in DOMAIN s : j < k /\ s[j].kind = "remove" /\ s[j].text = app
<1> DEFINE prompt == Matched(PlanFor(apps))
           removals == SetToSeq({Line("remove", app, 0) : app \in freed})
           summary == IF freed = {} THEN <<>> ELSE <<Line("freed", freed, 0)>>
           failures == SetToSeq({Line("failed", app, 0) : app \in apps \ freed})
<1>1. prompt \in Seq(UninstallLine) /\ \A k \in DOMAIN prompt : prompt[k].kind # "freed"
  BY PromptLines
<1>2. /\ removals \in Seq(UninstallLine) /\ \A k \in DOMAIN removals : removals[k].kind = "remove"
      /\ \A app \in freed : \E k \in DOMAIN removals : removals[k].text = app
  <2>1. freed \in SUBSET Installable /\ "remove" \in Words
    BY DEF Words
  <2> QED BY <2>1, OneLineEach
<1>3. failures \in Seq(UninstallLine) /\ \A k \in DOMAIN failures : failures[k].kind = "failed"
  <2>1. apps \ freed \in SUBSET Installable /\ "failed" \in Words
    BY DEF Words
  <2> QED BY <2>1, OneLineEach
<1>4. summary \in Seq(UninstallLine) /\ \A k \in DOMAIN summary : summary[k].text = freed
  <2>1. Line("freed", freed, 0) \in UninstallLine /\ Line("freed", freed, 0).text = freed
    <3>1. "freed" \in Words /\ freed \in Words \cup Installable \cup SUBSET Installable
      BY DEF Words
    <3> QED BY <3>1, LineType
  <2> QED BY <2>1
<1>5. Removing(freed, apps) = removals \o summary \o failures
  BY DEF Removing
<1> HIDE DEF prompt, removals, summary, failures
<1> DEFINE before == prompt \o removals
           s == prompt \o (removals \o summary \o failures)
<1>6. s \in Seq(UninstallLine)
  BY <1>1, <1>2, <1>3, <1>4
<1>7. Len(prompt) \in Nat /\ Len(removals) \in Nat /\ Len(summary) \in Nat /\ Len(failures) \in Nat
  BY <1>1, <1>2, <1>3, <1>4
<1>8. Len(s) = Len(prompt) + Len(removals) + Len(summary) + Len(failures)
  BY <1>1, <1>2, <1>3, <1>4
<1>9. \A k \in 1..Len(prompt) : s[k] = prompt[k]
  BY <1>1, <1>2, <1>3, <1>4
<1>10. \A k \in 1..Len(removals) : s[Len(prompt) + k] = removals[k]
  BY <1>1, <1>2, <1>3, <1>4
<1>11. \A k \in 1..Len(summary) : s[Len(prompt) + Len(removals) + k] = summary[k]
  BY <1>1, <1>2, <1>3, <1>4
<1>12. \A k \in 1..Len(failures) : s[Len(prompt) + Len(removals) + Len(summary) + k] = failures[k]
  BY <1>1, <1>2, <1>3, <1>4
<1>13. DOMAIN s = 1..Len(s)
  BY <1>6
<1> HIDE DEF s
<1>14. ASSUME NEW k \in DOMAIN s, s[k].kind = "freed", NEW app \in s[k].text
       PROVE  \E j \in DOMAIN s : j < k /\ s[j].kind = "remove" /\ s[j].text = app
  <2>1. ~(k <= Len(prompt))
    BY <1>1, <1>9, <1>13, <1>14
  <2>2. ~(k > Len(prompt) /\ k <= Len(prompt) + Len(removals))
    <3> SUFFICES ASSUME k > Len(prompt), k <= Len(prompt) + Len(removals) PROVE FALSE
      OBVIOUS
    <3>1. k - Len(prompt) \in 1..Len(removals) /\ s[Len(prompt) + (k - Len(prompt))] = removals[k - Len(prompt)]
      BY <1>7, <1>10, <1>13
    <3>2. s[k] = removals[k - Len(prompt)]
      BY <1>7, <1>13, <3>1
    <3> QED BY <1>2, <1>14, <3>1, <3>2
  <2>3. ~(k > Len(prompt) + Len(removals) + Len(summary))
    <3> SUFFICES ASSUME k > Len(prompt) + Len(removals) + Len(summary) PROVE FALSE
      OBVIOUS
    <3> DEFINE i == k - (Len(prompt) + Len(removals) + Len(summary))
    <3>1. i \in 1..Len(failures) /\ Len(prompt) + Len(removals) + Len(summary) + i = k
      BY <1>7, <1>8, <1>13
    <3>2. s[k] = failures[i]
      BY <1>12, <3>1
    <3> QED BY <1>3, <1>14, <3>1, <3>2
  <2> DEFINE i == k - (Len(prompt) + Len(removals))
  <2>4. i \in 1..Len(summary) /\ Len(prompt) + Len(removals) + i = k /\ k > Len(prompt) + Len(removals)
    BY <1>7, <1>8, <1>13, <2>1, <2>2, <2>3
  <2>5. s[k] = summary[i]
    BY <1>11, <2>4
  <2>6. app \in freed
    BY <1>4, <1>14, <2>4, <2>5
  <2>7. PICK r \in 1..Len(removals) : removals[r].text = app
    BY <1>2, <2>6
  <2>8. Len(prompt) + r \in DOMAIN s /\ Len(prompt) + r < k /\ s[Len(prompt) + r] = removals[r]
    BY <1>7, <1>8, <1>10, <1>13, <2>4
  <2> QED BY <1>2, <2>7, <2>8
<1>15. s = Matched(PlanFor(apps)) \o Removing(freed, apps)
  BY <1>5 DEF s, prompt
<1> QED BY <1>6, <1>14, <1>15

(* What is not about Mole leaves it alone.                                 *)
LEMMA MoleAlone ==
  ASSUME MoleInv, UNCHANGED moleVars
  PROVE  MoleInv'
BY DEF MoleInv, moleVars, runVars, request, world, SaidAfterwards, SaidIsTrue, OutcomesAreHonest, Kinds

(* As long as there is no result there is nothing to be honest about.      *)
LEMMA NoResultYet ==
  /\ result = NoResult => OutcomesAreHonest
  /\ result' = NoResult => OutcomesAreHonest'
BY DEF OutcomesAreHonest, NoResult

(* A refusal before anything ran is not an outcome of a run.               *)
LEMMA RefusedAtOnce ==
  ASSUME MoleInv, NEW why, ReturnsAtOnce(why), command \notin Executions, UNCHANGED installedApps
  PROVE  MoleInv'
<1>1. result'.kind = "error" /\ command' = command /\ UNCHANGED <<op, script, output>>
  BY DEF ReturnsAtOnce, Returns, Refused
<1> QED BY <1>1 DEF MoleInv, SaidAfterwards, SaidIsTrue, OutcomesAreHonest

(* A line is read: if it says what was freed, that is gone by then.        *)
LEMMA PrintsKeepsInv ==
  ASSUME MoleInv, result = NoResult, Prints
  PROVE  MoleInv'
<1>1. result' = NoResult /\ UNCHANGED <<op, command>> /\ installedApps' \subseteq installedApps
  BY DEF Prints
<1>2. ASSUME command = "uninstall"
      PROVE  script' \in Seq(UninstallLine) /\ output' \in Seq(UninstallLine) /\ SaidAfterwards' /\ SaidIsTrue'
  <2>1. /\ script \in Seq(UninstallLine) /\ output \in Seq(UninstallLine)
        /\ SaidAfterwards /\ SaidIsTrue
    BY <1>2 DEF MoleInv
  <2>2. script # <<>> /\ script' = Tail(script)
    BY DEF Prints
  <2>3. /\ script' \in Seq(UninstallLine) /\ Len(script') = Len(script) - 1 /\ Len(script) \in Nat \ {0}
        /\ \A k \in DOMAIN script' : k + 1 \in DOMAIN script /\ script'[k] = script[k + 1]
        /\ script[1] = Head(script) /\ script[1] \in UninstallLine
        /\ DOMAIN script = 1..Len(script) /\ DOMAIN script' = 1..Len(script')
    BY <2>1, <2>2
  <2>4. output' = output \/ output' = Append(output, script[1])
    BY <2>3 DEF Prints
  <2>5. output' \in Seq(UninstallLine)
    BY <2>1, <2>3, <2>4
  <2>6. SaidAfterwards'
    <3> SUFFICES ASSUME NEW k \in DOMAIN script', script'[k].kind = "freed",
                        NEW app \in script'[k].text \cap installedApps'
                 PROVE  \E j \in DOMAIN script' : j < k /\ script'[j].kind = "remove" /\ script'[j].text = app
      BY DEF SaidAfterwards
    <3>1. k + 1 \in DOMAIN script /\ script[k + 1].kind = "freed" /\ app \in script[k + 1].text \cap installedApps
      BY <1>1, <2>3
    <3>2. PICK j \in DOMAIN script : j < k + 1 /\ script[j].kind = "remove" /\ script[j].text = app
      BY <2>1, <3>1 DEF SaidAfterwards
    <3>3. j # 1
      <4>1. script[1].kind = "remove" => installedApps' = installedApps \ {script[1].text}
        BY <2>3 DEF Prints
      <4> QED BY <3>2, <4>1
    <3>4. j - 1 \in DOMAIN script' /\ j - 1 < k /\ script'[j - 1] = script[j]
      BY <2>3, <3>2, <3>3
    <3> QED BY <3>2, <3>4
  <2>7. SaidIsTrue'
    <3>1. script[1].kind = "freed" => script[1].text \cap installedApps = {}
      <4> SUFFICES ASSUME script[1].kind = "freed", NEW app \in script[1].text \cap installedApps PROVE FALSE
        OBVIOUS
      <4>1. 1 \in DOMAIN script
        BY <2>3
      <4>2. \E j \in DOMAIN script : j < 1
        BY <2>1, <4>1 DEF SaidAfterwards
      <4> QED BY <2>3, <4>2
    <3>2. \A k \in DOMAIN output' : (k \in DOMAIN output /\ output'[k] = output[k]) \/ output'[k] = script[1]
      BY <2>1, <2>3, <2>4
    <3> QED BY <1>1, <2>1, <3>1, <3>2 DEF SaidIsTrue
  <2> QED BY <2>3, <2>5, <2>6, <2>7
<1>3. installedApps' \subseteq Installable /\ (op' = "none" => command' = "none")
  BY <1>1 DEF MoleInv
<1> QED BY <1>1, <1>2, <1>3, NoResultYet DEF MoleInv

(* Applications only disappear, and the rest is not about them.            *)
LEMMA OthersKeepInv ==
  ASSUME MoleInv, result = NoResult, ReadFails \/ MoleStops \/ MoleCancel \/ AppDisappears \/ AnotherDryRun
  PROVE  MoleInv'
<1>1. result' = NoResult /\ installedApps' \subseteq installedApps /\ UNCHANGED <<op, command, script, output>>
  <2>1. CASE ReadFails
    BY <2>1 DEF ReadFails, request, world
  <2>2. CASE MoleStops
    BY <2>2 DEF MoleStops, request, world
  <2>3. CASE MoleCancel
    BY <2>3 DEF MoleCancel, request, world
  <2>4. CASE AppDisappears
    BY <2>4 DEF AppDisappears, request
  <2>5. CASE AnotherDryRun
    BY <2>5 DEF AnotherDryRun, request
  <2> QED BY <2>1, <2>2, <2>3, <2>4, <2>5
<1> QED BY <1>1, NoResultYet DEF MoleInv, SaidAfterwards, SaidIsTrue

(* Mole is started for the names that are left.                            *)
LEMMA SpawnsTells ==
  ASSUME installedApps \subseteq Installable, NEW o, o # "none", NEW apps, Spawns(o, apps),
         result' = NoResult, op' # "none", UNCHANGED installedApps
  PROVE  MoleInv'
<1>1. command' = o /\ output' = <<>>
  BY DEF Spawns
<1>2. ASSUME o = "uninstall"
      PROVE  script' \in Seq(UninstallLine) /\ output' \in Seq(UninstallLine) /\ SaidAfterwards' /\ SaidIsTrue'
  <2> DEFINE some == apps \cap installedApps
  <2>1. PICK freed \in SUBSET some : script' = Matched(PlanFor(some)) \o Removing(freed, some)
    <3>1. Scripts("uninstall", some, planned') =
            {Matched(PlanFor(some)) \o Removing(freed, some) : freed \in SUBSET some}
      BY DEF Scripts, Queries
    <3> HIDE DEF some
    <3>2. script' \in Scripts("uninstall", some, planned')
      BY <1>2 DEF Spawns, some
    <3> QED BY <3>1, <3>2
  <2>2. some \in SUBSET Installable
    OBVIOUS
  <2> HIDE DEF some
  <2>3. /\ script' \in Seq(UninstallLine)
        /\ \A k \in DOMAIN script' : script'[k].kind = "freed" =>
             \A app \in script'[k].text :
               \E j \in DOMAIN script' : j < k /\ script'[j].kind = "remove" /\ script'[j].text = app
    BY <2>1, <2>2, UninstallScript
  <2> QED BY <1>1, <2>3 DEF SaidAfterwards, SaidIsTrue
<1> QED BY <1>1, <1>2, NoResultYet DEF MoleInv

(* An operation of Mole begins.                                            *)
LEMMA BeginKeepsInv ==
  ASSUME MoleInv, NEW o, NEW apps, BeginMole(o, apps)
  PROVE  MoleInv'
<1>1. op = "none" /\ result = NoResult /\ command = "none" /\ UNCHANGED installedApps
  BY DEF BeginMole, world, MoleInv
<1> DEFINE first == IF o \in {"uninstallPreview", "uninstall"} THEN "list" ELSE o
           started == op' = o /\ Spawns(first, apps) /\ UNCHANGED result
<1>2. ReturnsAtOnce("spawn") \/ ReturnsAtOnce("nothing named") \/ started
  BY DEF BeginMole
<1>3. CASE ReturnsAtOnce("spawn") \/ ReturnsAtOnce("nothing named")
  BY <1>1, <1>3, RefusedAtOnce DEF Executions
<1>4. CASE started
  <2>1. first # "uninstall" /\ command' = first /\ (op' = "none" => command' = "none") /\ result' = NoResult
    BY <1>1, <1>4 DEF Spawns
  <2> QED BY <1>1, <2>1, NoResultYet DEF MoleInv
<1> QED BY <1>2, <1>3, <1>4

(* The names are listed first, and a name that is not there is refused.    *)
LEMMA ListedKeepsInv ==
  ASSUME MoleInv, result = NoResult, op # "none", Lists \/ BeginListed
  PROVE  MoleInv'
<1>1. CASE Lists
  <2>1. /\ UNCHANGED <<op, installedApps>> /\ command' \in {"listed", "list"}
        /\ result' = NoResult \/ (result'.kind = "error" /\ command' = "list")
    <3>1. UNCHANGED installedApps /\ command = "list"
      BY <1>1 DEF Lists, world
    <3>2. (command' = "listed" /\ UNCHANGED <<op, result>>) \/ Returns(Refused("not listed"))
      BY <1>1 DEF Lists
    <3>3. CASE command' = "listed" /\ UNCHANGED <<op, result>>
      BY <3>1, <3>3
    <3>4. CASE Returns(Refused("not listed"))
      <4>1. result' = [kind |-> "error", why |-> "not listed"] /\ op' = op /\ command' = command
        BY <3>4 DEF Returns, Refused
      <4> QED BY <3>1, <4>1
    <3> QED BY <3>2, <3>3, <3>4
  <2>2. OutcomesAreHonest'
    BY <2>1, NoResultYet DEF OutcomesAreHonest, Executions
  <2> QED BY <2>1, <2>2 DEF MoleInv
<1>2. CASE BeginListed
  <2>1. command = "listed" /\ UNCHANGED installedApps
    BY <1>2 DEF BeginListed, world
  <2>2. CASE ReturnsAtOnce("spawn")
    BY <2>1, <2>2, RefusedAtOnce DEF Executions
  <2>3. CASE ~ReturnsAtOnce("spawn")
    <3>1. Spawns(op, names) /\ UNCHANGED <<op, result>>
      BY <1>2, <2>3 DEF BeginListed
    <3> QED BY <2>1, <3>1, SpawnsTells DEF MoleInv
  <2> QED BY <2>2, <2>3
<1> QED BY <1>1, <1>2

(* What an outcome is made of.                                             *)
LEMMA SummaryIsHonest ==
  ASSUME MoleInv, command \in Executions
  PROVE  /\ Summary.completion \in {"finished", "partial", "failed"}
         /\ Summary.completion = "finished" /\ command # "optimize" => "failed" \notin Kinds(output)
         /\ Summary.removed \cap installedApps = {}
<1>1. CASE command = "uninstall"
  <2>1. /\ Summary.completion = IF "failed" \in Kinds(output) THEN "partial"
                                ELSE IF {line \in ToSet(output) : line.kind = "freed"} # {} THEN "finished" ELSE "failed"
        /\ Summary.removed = UNION {line.text : line \in {line \in ToSet(output) : line.kind = "freed"}}
    BY <1>1 DEF Summary, UninstallOutcome
  <2>2. \A line \in ToSet(output) : line.kind = "freed" => line.text \cap installedApps = {}
    BY <1>1 DEF MoleInv, SaidIsTrue, ToSet
  <2>3. Summary.removed \cap installedApps = {}
    BY <2>1, <2>2
  <2> QED BY <1>1, <2>1, <2>3
<1>2. CASE command = "cleanup"
  BY <1>2 DEF Summary, CleanupOutcome
<1>3. CASE command = "optimize"
  BY <1>3 DEF Summary
<1> QED BY <1>1, <1>2, <1>3 DEF Executions

(* How the run ended, and what it said, is what is answered.               *)
LEMMA FinishKeepsInv ==
  ASSUME MoleInv, FinishMole
  PROVE  MoleInv'
<1>1. PICK said \in Answers :
        /\ Finishes(said)
        /\ Returns(IF command \in Executions THEN ExecutionOf(said) ELSE PreviewOf(said))
  BY DEF FinishMole
<1>2. /\ UNCHANGED <<child, unread, op, command, script, output, installedApps>>
      /\ answer' = said /\ TellsTheTruth(said)
  BY <1>1 DEF FinishMole, Finishes, Tell, Returns, world
<1>3. result' = IF command \in Executions THEN ExecutionOf(said) ELSE PreviewOf(said)
  BY <1>1 DEF Returns
<1>4. Kinds(output') = Kinds(output)
  BY <1>2
<1>5. CASE command \notin Executions
  <2>1. result'.kind \in {"error", "answer", "preview"}
    BY <1>3, <1>5 DEF PreviewOf, Refused, Offered
  <2>2. OutcomesAreHonest'
    BY <1>2, <1>5, <2>1 DEF OutcomesAreHonest
  <2> QED BY <1>2, <2>2 DEF MoleInv, SaidAfterwards, SaidIsTrue
<1>6. CASE command \in Executions /\ said = "waitFailed" /\ command # "cleanup"
  <2>1. result'.kind = "error"
    BY <1>3, <1>6 DEF ExecutionOf, Refused
  <2>2. OutcomesAreHonest'
    BY <1>2, <1>6, <2>1 DEF OutcomesAreHonest
  <2> QED BY <1>2, <2>2 DEF MoleInv, SaidAfterwards, SaidIsTrue
<1>7. CASE command \in Executions /\ ~(said = "waitFailed" /\ command # "cleanup")
  <2>1. /\ result'.kind = "outcome" /\ result'.removed = Summary.removed
        /\ result'.completion = CASE said = "ok" -> Summary.completion [] said = "cancelled" -> said [] OTHER -> "failed"
    BY <1>3, <1>7 DEF ExecutionOf, Ran
  <2>2. result'.completion = "finished" => said = "ok" /\ Summary.completion = "finished"
    BY <2>1
  <2>3. said = "ok" => child = "exited" /\ ~unread
    BY <1>2 DEF TellsTheTruth
  <2>4. result'.completion = "cancelled" <=> said = "cancelled"
    BY <1>7, <2>1, SummaryIsHonest
  <2>5. OutcomesAreHonest'
    BY <1>2, <1>4, <1>7, <2>1, <2>2, <2>3, <2>4, SummaryIsHonest DEF OutcomesAreHonest
  <2> QED BY <1>2, <2>5 DEF MoleInv, SaidAfterwards, SaidIsTrue
<1> QED BY <1>5, <1>6, <1>7

(* Every step of the composed system keeps it.                             *)
LEMMA MoleStep ==
  ASSUME MoleInv, [BackendsNext]_backendsVars
  PROVE  MoleInv'
<1>1. ASSUME NEW t \in Threads, NEW p \in Prefs, Quietly(Choose(t, p)) PROVE MoleInv'
  BY <1>1, MoleAlone DEF Quietly
<1>2. ASSUME Quietly(Next) PROVE MoleInv'
  BY <1>2, MoleAlone DEF Quietly
<1>3. ASSUME NEW b \in DOMAIN Offers, NEW version \in Versions, Install(b, version) PROVE MoleInv'
  BY <1>3, MoleAlone DEF Install
<1>4. ASSUME NEW b \in DOMAIN Offers, NEW ability \in Offers[b], Ask(ability) PROVE MoleInv'
  BY <1>4, MoleAlone DEF Ask
<1>5. ASSUME NEW o \in Executions, AskReviewed(o) PROVE MoleInv'
  BY <1>5, MoleAlone DEF AskReviewed
<1>6. ASSUME Detect PROVE MoleInv'
  BY <1>6, MoleAlone DEF Detect
<1>7. ASSUME NothingUsable PROVE MoleInv'
  BY <1>7, MoleAlone DEF NothingUsable
<1>8. ASSUME Gate PROVE MoleInv'
  BY <1>8, MoleAlone DEF Gate
<1>9. ASSUME Run PROVE MoleInv'
  <2>1. CASE ask.ability = "scan"
    BY <1>9, <2>1, MoleAlone DEF Run
  <2>2. CASE ask.ability # "scan"
    <3>1. \E apps : BeginMole(ask.ability, apps)
      BY <1>9, <2>2 DEF Run
    <3> QED BY <3>1, BeginKeepsInv
  <2> QED BY <2>1, <2>2
<1>10. ASSUME Collect PROVE MoleInv'
  <2>1. op' = "none" /\ command' = "none" /\ result' = NoResult /\ UNCHANGED installedApps
    BY <1>10 DEF Collect, world
  <2> QED BY <2>1, NoResultYet DEF MoleInv
<1>11. ASSUME Running PROVE MoleInv'
  <2>1. op # "none" /\ result = NoResult /\ MoleNext
    BY <1>11 DEF Running, UnderWay
  <2>2. CASE Prints
    BY <2>1, <2>2, PrintsKeepsInv
  <2>3. CASE ReadFails \/ MoleStops \/ MoleCancel \/ AppDisappears \/ AnotherDryRun
    BY <2>1, <2>3, OthersKeepInv
  <2>4. CASE Lists \/ BeginListed
    BY <2>1, <2>4, ListedKeepsInv
  <2>5. CASE FinishMole
    BY <2>5, FinishKeepsInv
  <2> QED BY <2>1, <2>2, <2>3, <2>4, <2>5 DEF MoleNext
<1>12. ASSUME UNCHANGED backendsVars PROVE MoleInv'
  BY <1>12, MoleAlone DEF backendsVars
<1> QED BY <1>1, <1>2, <1>3, <1>4, <1>5, <1>6, <1>7, <1>8, <1>9, <1>10, <1>11,
    <1>12 DEF BackendsNext, Asking

(* A real run of Mole is finished only if it ended well, was read to the   *)
(* end and nothing in it failed, is cancelled only if it was cancelled,    *)
(* and names nothing as removed that is still there.                       *)
THEOREM OutcomesStayHonest == BackendsSpec => []OutcomesAreHonest
<1>1. BackendsInit => MoleInv
  <2> SUFFICES ASSUME BackendsInit PROVE MoleInv
    OBVIOUS
  <2>1. installedApps = Installable /\ op = "none" /\ command = "none" /\ result = NoResult
    BY DEF BackendsInit, MoleInit, Installable
  <2> QED BY <2>1, NoResultYet DEF MoleInv
<1>2. MoleInv /\ [BackendsNext]_backendsVars => MoleInv'
  BY MoleStep
<1>3. MoleInv => OutcomesAreHonest
  BY DEF MoleInv
<1> QED BY <1>1, <1>2, <1>3, PTL DEF BackendsSpec

=============================================================================
