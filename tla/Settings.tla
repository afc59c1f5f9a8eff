------------------------------ MODULE Settings ------------------------------
(***************************************************************************)
(* The backend preference of crates/app: the copy AppState keeps in memory *)
(* (state.rs, choose) and the file settings.rs writes it to, by way of a   *)
(* staged file beside it with one fixed name.                              *)
(*                                                                         *)
(* Every chooseBackend request runs on a thread of its own, so two saves   *)
(* may overlap.  Files are inodes and directory entries: a thread that has *)
(* the staged file open still writes to that inode after another thread    *)
(* renamed it.  A file's content is the sequence of its cells, each the    *)
(* preference whose text was written there, so a shorter text over a       *)
(* longer one leaves the longer one's tail.                                *)
(***************************************************************************)
EXTENDS Naturals, Sequences, FiniteSets

CONSTANTS Threads,      \* request threads
          Prefs,        \* the preferences that can be chosen
          Default,      \* Preference::default(), itself a legal choice
          Size,         \* cells in a preference's text
          Faults,       \* what the file system may do: "open", "short", "rename"
          MaxChooses, MaxRestarts,
          NoPref

ASSUME SettingsAssumption ==
  /\ Default \in Prefs /\ NoPref \notin Prefs
  /\ Size \in [Prefs -> Nat \ {0}]
  /\ IsFiniteSet(Threads)

VARIABLES memory,       \* AppState::preference
          dir,          \* "target" and "staged" to an inode, 0 when absent
          data,         \* the content of every inode
          thread,       \* where each request thread is in choose()
          chooses, restarts,
          failed,       \* history: since all was last quiet, a save failed or was cut off
          promised,     \* history: the choice every caller was told is stored
          overlapped    \* history: two saves have been under way at once

vars == <<memory, dir, data, thread, chooses, restarts, failed, promised, overlapped>>

Inodes == 1 .. (Cardinality(Threads) + 2)
Idle == [pc |-> "idle", pref |-> NoPref, inode |-> 0]

Text(p) == [k \in 1 .. Size[p] |-> p]
Overlay(old, new) ==
  [k \in 1 .. (IF Len(old) > Len(new) THEN Len(old) ELSE Len(new)) |->
     IF k <= Len(new) THEN new[k] ELSE old[k]]

Parses(text) == \E p \in Prefs : text = Text(p)

\* load_from: a missing file and one that does not parse are both the default.
Load == IF dir["target"] # 0 /\ Parses(data[dir["target"]])
        THEN data[dir["target"]][1] ELSE Default

Quiet(T) == \A t \in T : thread[t] = Idle

Init ==
  /\ dir \in [{"target", "staged"} -> {0, 1}] /\ dir["staged"] = 0
  /\ data \in [Inodes -> {<<>>} \cup {Text(p) : p \in Prefs}]
  /\ \A i \in Inodes : (data[i] # <<>>) <=> (dir["target"] = i)
  /\ memory = Load
  /\ thread = [t \in Threads |-> Idle]
  /\ chooses = 0 /\ restarts = 0
  /\ failed = FALSE /\ promised = NoPref /\ overlapped = FALSE

At(t, pc) == thread[t].pc = pc
Goto(t, pc) == thread' = [thread EXCEPT ![t].pc = pc]

\* choose: the in-memory copy is replaced first, under its own lock.
Choose(t, p) ==
  /\ At(t, "idle") /\ chooses < MaxChooses
  /\ memory' = p
  /\ thread' = [thread EXCEPT ![t] = [pc |-> "open", pref |-> p, inode |-> 0]]
  /\ chooses' = chooses + 1
  /\ failed' = (failed /\ ~Quiet(Threads))
  /\ promised' = NoPref
  /\ overlapped' = (overlapped \/ ~Quiet(Threads))
  /\ UNCHANGED <<dir, data, restarts>>

\* The request's answer: `save_error`, set when the save failed.
Answer(t, ok) ==
  /\ thread' = [thread EXCEPT ![t] = Idle]
  /\ failed' = (failed \/ ~ok)
  /\ promised' = IF Quiet(Threads \ {t}) /\ ~failed' THEN memory ELSE NoPref

Free == {i \in Inodes : /\ i \notin {dir["target"], dir["staged"]}
                        /\ \A t \in Threads : thread[t].inode # i}

OpenAt(t, name) ==
  /\ \E i \in (IF dir[name] # 0 THEN {dir[name]} ELSE Free) :
       /\ dir' = [dir EXCEPT ![name] = i]
       /\ data' = [data EXCEPT ![i] = <<>>]
       /\ thread' = [thread EXCEPT ![t].pc = "write", ![t].inode = i]
  /\ UNCHANGED <<memory, chooses, restarts, failed, promised, overlapped>>

\* Mutant of Open: a plain fs::write on the settings file itself.
OpenInPlace(t) == At(t, "open") /\ OpenAt(t, "target")

\* fs::write, first half: create or truncate `settings.json.tmp`.
Open(t) == At(t, "open") /\ OpenAt(t, "staged")

\* create_dir_all or the open itself fails.
OpenFails(t) ==
  /\ "open" \in Faults /\ At(t, "open")
  /\ Answer(t, FALSE)
  /\ UNCHANGED <<memory, dir, data, chooses, restarts, overlapped>>

\* fs::write, second half: the text goes to the inode that was opened.
Write(t) ==
  /\ At(t, "write")
  /\ data' = [data EXCEPT ![thread[t].inode] = Overlay(@, Text(thread[t].pref))]
  /\ thread' = [thread EXCEPT ![t].pc = "rename", ![t].inode = 0]
  /\ UNCHANGED <<memory, dir, chooses, restarts, failed, promised, overlapped>>

ShortText(t) == \E n \in 0 .. (Size[thread[t].pref] - 1) :
  data' = [data EXCEPT ![thread[t].inode] =
                         Overlay(@, SubSeq(Text(thread[t].pref), 1, n))]

\* A full disk: part of the text is written, and `?` leaves the staged file.
WriteFails(t) ==
  /\ "short" \in Faults /\ At(t, "write")
  /\ ShortText(t)
  /\ Answer(t, FALSE)
  /\ UNCHANGED <<memory, dir, chooses, restarts, overlapped>>

\* fs::rename: whatever has the staged name now becomes the settings file.
Rename(t) ==
  /\ At(t, "rename") /\ dir["staged"] # 0
  /\ dir' = [target |-> dir["staged"], staged |-> 0]
  /\ Answer(t, TRUE)
  /\ UNCHANGED <<memory, data, chooses, restarts, overlapped>>

\* The rename fails: another thread took the staged name, or the system refuses.
RenameFails(t) ==
  /\ At(t, "rename")
  /\ dir["staged"] = 0 \/ "rename" \in Faults
  /\ Goto(t, "tidy")
  /\ UNCHANGED <<memory, dir, data, chooses, restarts, failed, promised, overlapped>>

\* Mutant of Tidy: the rename's error is swallowed with the staged file.
TidySilently(t) ==
  /\ At(t, "tidy")
  /\ dir' = [dir EXCEPT !["staged"] = 0]
  /\ Answer(t, TRUE)
  /\ UNCHANGED <<memory, data, chooses, restarts, overlapped>>

\* inspect_err: the staged name is removed, whoever it belongs to.
Tidy(t) ==
  /\ At(t, "tidy")
  /\ dir' = [dir EXCEPT !["staged"] = 0]
  /\ Answer(t, FALSE)
  /\ UNCHANGED <<memory, data, chooses, restarts, overlapped>>

\* The process ends at any point, and AppState::new loads the file again.
Restart ==
  /\ restarts < MaxRestarts
  /\ restarts' = restarts + 1
  /\ memory' = Load
  /\ thread' = [t \in Threads |-> Idle]
  /\ failed' = (failed \/ ~Quiet(Threads))
  /\ UNCHANGED <<dir, data, chooses, promised, overlapped>>

Next == \/ \E t \in Threads :
             \/ \E p \in Prefs : Choose(t, p)
             \/ Open(t) \/ OpenFails(t) \/ Write(t) \/ WriteFails(t)
             \/ Rename(t) \/ RenameFails(t) \/ Tidy(t)
        \/ Restart

Spec == Init /\ [][Next]_vars

(***************************************************************************)
(* Properties                                                              *)
(***************************************************************************)

\* Every file save_to leaves under the settings name is one whole preference.
WholeFile == dir["target"] # 0 => Parses(data[dir["target"]])

\* "the file on disk is either the old preference or the new one and never neither"
\* (settings.rs:104-105), whenever the process may die or a write may fail, as long
\* as saves come one at a time.  Overlapping saves may leave a file that is not
\* whole, but never behind the back of all their callers: one of them at least is
\* answered with a save_error.
FileIsWhole == WholeFile \/ (overlapped /\ (failed \/ ~Quiet(Threads)))

\* Saved one at a time, a choice whose caller was told of no failure is the one in
\* memory and the one the next launch loads: "the user changes a setting, it appears
\* to take, and it is gone next launch" (settings.rs:15-17) does not happen.
KeptPromise == ~overlapped /\ promised # NoPref => memory = promised /\ Load = promised

=============================================================================
