# Nirmoka, in TLA+

Nirmoka is a disk tool in three layers: a macOS window written in Swift
(`apps/macos`), a private helper process written in Rust (`crates/app`, the
*native service*) that answers JSON-line requests on a pipe, and adapters
(`crates/adapter*`) that drive the installed disk programs (Mole, ncdu, gdu,
rip) as subprocesses. This directory holds models of the parts in which
threads, files, processes and disks interleave, and of the algorithms whose
results the user acts on; the TLC configurations that check them; and the
theorems proved about them.

All paths below are relative to the repository (`src/` in the mapping tables of
`PROJECT.json`). Run a model with `tlc -config X.cfg M.tla` and check a
module's proofs with `tlapm M.tla`, for the eight modules named `...Proofs`.

## 1. Inventory

### The native service (`crates/app/src/native.rs`)

One main thread reads lines; **each request gets a thread of its own**, and
nothing orders two requests that were sent one after the other. All state is in
`AppState` (`state.rs`), one mutex per part, and a mutex is held for one method
call: never across a subprocess or another mutex. So every operation that is
more than one locked call is a sequence of atomic steps which the steps of
other requests interleave with. At the end of input the main thread cancels
everything and drains.

| part | state | operations | what makes it correct |
|---|---|---|---|
| review and confirm (`cleanup.rs`, `uninstall.rs`, `optimization.rs`, `commands.rs:88-371`) | newest review, its token, a preview slot, an execution slot | preview, cancel, prepare, confirm | a run starts only on the review that was approved, once; slots are exclusive and given back; what ran is journalled |
| scan (`scan.rs`, `native.rs:24-63`, `commands.rs:466`) | active slot, last snapshot, `next_id`, latest progress | start, cancel, progress, finish, rows, breakdown | one walk at a time; a failed walk keeps the snapshot; one end report per scan; an answer is about the scan it names |
| operation journal (`deletion.rs`) | id counter, four lists, an append-only file | record ×4, mark undone, load | ids in one order for ever; a recorded operation is there next time |
| undo (`commands.rs:626`, `adapter-rip`) | a copy of the operation, the graveyard, the target path | look up, refuse, restore, look again, mark | what was taken back is marked, and nothing else is |
| Trash (`commands.rs:668-783`, `trash.rs`, `delete.rs`) | one pending confirmation | prepare, confirm | one move per token, inside the scan root, of what the dialog named |
| preference (`state.rs:203`, `settings.rs`) | memory copy, settings file, staged file | choose, load | the file is one whole preference; a choice that could not be kept is reported |
| service life cycle (`native.rs:66-133`) | request threads | read, reply, drain | exits, with nothing running and everything answered |
| what is read off a scan (`categories.rs`, `inventory.rs`, `attribution.rs`) | none but a footprint under way | breakdown, inventories, footprint plan and measurement | every byte counted once; lists agree; a lower bound says that it is one |

### Adapters, registry and core

The registry (`registry.rs`) resolves an ability to a backend: the user's
choice, the platform's order, registration order. Nothing of what is installed
is remembered, so every look runs `--version` again. Every operation of an
adapter starts with such a look of its own. `RunningProcess` (`process.rs`) ties
one child to four threads: the caller, a watcher that polls the cancel token, a
thread that drains stderr, and one that writes stdin. The Mole adapter turns
text into plans and outcomes; it is correct when a plan is never narrower than
Mole's and an outcome never better than what happened. `wire.rs` turns an
export of ncdu or gdu into the arena of `core/src/tree.rs`: every entry once,
hard links counted once per device, no half of a tree.

### Window and CLI

`NativeServiceClient.swift` holds a table of pending replies that three system
queues and the callers take from. `AppModel.swift` holds the screen state,
one Task per request, all on the main actor between two awaits. The CLI is one
thread.

What is hard in this code is listed, each at its line, under "hazards" in
`PROJECT.json`: stale state after an unlock, two requests on one slot, an
append cut short, a restart between two writes, late cancels, late reports,
detections that disagree, output that stops half way, and waiting for a process
that will not end.

## 2. Modules

| module | models | used by |
|---|---|---|
| `Approval` | abstract: an offer is accepted at most once, one run at a time | `Review` (refinement) |
| `Review` | the review protocol; `kind` is cleanup, uninstall or optimize, chosen at the start among `Kinds` | `MCReview`, `ReviewProofs` |
| `ScanPromise` | abstract: slot, snapshot, end reports of the scan service | `Scan` (refinement), `Window` (composition) |
| `Scan` | slot, walker, reporter, reads | `MCScan`, `NativeService` |
| `NativeService` | main loop, request threads and shutdown, over `Scan` | `ServiceClient` |
| `ServiceClient` | the app's end of the two pipes, over `NativeService` | `MCService`, `ServiceProofs` |
| `Journal` | ids, appends with their failures, loading, restarts | `Undo` |
| `Undo` | overlapping undo requests and rip, over `Journal` | `MCJournal`, `JournalProofs` |
| `Trash` | pending slot, validation, a changing file system | `MCTrash`, `TrashProofs` |
| `Settings` | `choose`, the staged save, restarts | `Backends`, `BackendsProofs` |
| `BackendRun` | abstract: what the caller of a subprocess is told | `RunningProcess` (refinement), `Mole` (composition) |
| `RunningProcess` | child, watcher, drainer, stdin writer, caller | `MCRunningProcess`, `ProcessProofs` |
| `MoleOutput` | the four parsers and the writers of what they read | `Mole` |
| `Mole` | the eight operations of the Mole adapter, each a `BackendRun` | `Backends` |
| `Backends` | resolution, the gate, installs; over `Settings` and `Mole` | `MCBackends`, `BackendsProofs` |
| `ScanTree` | the arena: paths, roll-up, sorts, pages | `TreeSink`, `Categories` |
| `TreeSink` | a disk, its export, the parse | `Footprint` |
| `Categories` | the breakdown and the two inventories | `Storage` |
| `Footprint` | plan and measurement of an application's cost on a changing disk | `Storage` |
| `Storage` | all that is read off one scan, together | `MCStorage` |
| `Window` | the window's model over `ScanPromise` and the pending Trash confirmation | `MCWindow`, `WindowProofs` |
| `ReviewProofs`, `TrashProofs`, `ProcessProofs`, `WindowProofs` | theorems about `Review`, `Trash`, `RunningProcess`, `Window` | |
| `ServiceProofs` | theorems about `Scan`, and about `ServiceClient` with its `NativeService` | |
| `JournalProofs` | theorems about `Undo` with its `Journal` | |
| `BackendsProofs` | theorems about `Settings`, `Backends` and `Mole` | |
| `StorageProofs` | theorems about `Storage` with `ScanTree`, `TreeSink`, `Categories` and `Footprint` | |

The definitions carry the source's names; a worker's `pc` names the lock
acquisition or the backend call it does next. Beside a definition stands, where
a property needs one, its *mutant*: the same step with a plausible bug. No
specification uses it; substituted for the original it makes the named property
fail, which shows that the property depends on that code.

### Review

`state` is the six fields of `CleanupState`. A worker is a request thread:
`StartPreview` (claim), `Discover` / `DiscoveryFails` (the dry run, nothing
locked), `Remember`, `FinishPreview`; or `StartExecution` (claim), `Take` /
`TakeRefused`, `CheckVersion`, `ValidateNames` (uninstall), `Spawn` /
`SpawnFails`, `Reap`, `Forget`, `Record`, `FinishExecution`. `Prepare` and the
two cancels are single locked calls. `world` counts runs that ended: a review
carries the count it was discovered at, which is what "fresh" means. `version`
is the installed backend; a package manager may upgrade it at any time. A
review's content is abstracted to whether it lists anything: the paths are never
sent back to the backend.

The three kinds differ exactly where the code does: an optimization drops the
old review as a preview starts and as a token is taken, does not ask whether the
review is empty, and neither forgets nor journals after the run; an uninstall
reads the inventory again; uninstall and optimization answer `Err` when waiting
for the process failed.

### Scan, NativeService and ServiceClient

`Claim` / `StartWalker` / `Release` are `start_native`; `TickLatest`,
`TickEmit`, `WalkEnds`, `Publish`, `ClearLatest`, `Emit` are the walker and the
reporter, one step per lock. The tree's content is left to `Storage`: a
snapshot is the id of the scan that made it. `out` is every event written, in
order, and `ends` a history of those that end a scan, which is what
`ScanPromise` calls `told`. `NativeService` adds the loop of
`run()`: requests of three kinds, the first round of cancels, and the drain,
whose condition is two tests in this order. The six cancel calls are one step,
because the slots they reach behave alike; the operation slot stands for any of
them (its own protocol is `Review`).

`ServiceClient` puts the app at the other end of both pipes. `Enter` and
`Write` are `requestData`; `Receive`, `OutputEnds`, `Terminated` and `GiveUp`
are the four that may take a request out of the table and resume its caller,
each on a queue of its own. The helper may be killed or crash at any moment
(`Killed`), with lines and replies still in the pipes. Events resume nobody and
are `Window`'s.

### Journal and Undo

An entry is its kind, its id and the item it is about; `item` tells apart two
operations that share an id, which the code cannot see. `append` leaves one of
six outcomes in the file, and the next append continues on an unfinished line.
The mutex is held for a whole record call, so an append is one step; being
killed inside it is `KilledInside`.

`Undo` is `undo_delete_in` with rip's `undo`: the operation is copied, the
target tested, rip run, the disk looked at again, the journal marked, and the
state is unlocked in between. The item is buried, buried with something else at
its path, or back; the user may restore it with rip himself.

### Trash

Paths are a flat set; `leadsTo` says what a path resolves to now, and `Change`
lets other programs remove, create and relink. Validation is membership of
`Inside`. Swapping an ancestor directory during the platform's own move is
outside the model, as ADR 0025 says of the code.

### Settings, Backends, Mole

In `Settings` files are inodes with names, so a thread that has the staged file
open keeps writing to that inode after another renamed it; content is a sequence
of cells, so a shorter text over a longer one leaves a tail. A configuration
directory is assumed to exist (without one the choice is for the session and
says so).

`Backends` asks with the preference in memory. `Order` is the three passes of
`resolve_in_order` laid end to end: the choice, the platform's order, the order
of registration; `Candidates` are the places in it that offer the ability and
are still to be detected. `Detect` is one detection of one of them,
`Gate` the one more at the head of the operation, `Run` the spawn; `Install`
may change what is behind a name between any two. What was reviewed is run by
the adapter that prepared it (`AskReviewed`) and must have the version reviewed.

`Mole` runs one operation at a time as a `BackendRun`; `uninstall` and its
preview list the applications first. Mole prints its script line by line, may
stop after any line and end well or badly, a line may be unreadable, a
cancel may come; another dry run may replace the preview file, and applications
may disappear. `MoleOutput` keeps what *kind* of line a line is and abstracts
how it is recognised (markers, prefixes, sizes, colours). The writers beside
the parsers follow the recorded output under `fixtures/mole/1.48.1`; paths with
newlines take several lines, one of which may look like the end of a row.

### RunningProcess and BackendRun

Pipes are counters with a capacity. The child is any program. The caller is
`NcduAdapter::scan`, the model of all adapters' stream-then-finish sequence.
`BackendRun` is what a caller may rely on: it is told once, a cancel is told as
such, a killed child is not blamed, and success means a child that ended well
and whose output was read to its end. `RunningProcess` implements it
(`KeepsRunPromise`) and `Mole` needs none of its threads.

### ScanTree, TreeSink, Categories, Footprint, Storage

A disk is a shape (entries with a parent, a name, a size and perhaps an inode)
and, chosen at the start, what of it exists, where other devices are mounted,
which directories are locked and which entries are skipped. `Begin` is the
request with the check of the scan root; `OpenDir`, `Leaf`, `CloseDir` are the
records of the export as the sink takes them in, with the stacks of open
directories and of devices; `TooDeep` and `Break` every way a parse fails, after
any record. The order of a directory's entries is any order. `Rolled`,
`ChildrenSorted` and `Page` are the roll-up, the four sorts and the page of
rows; `Claims` the one walk that gives each node a category and a consumer, and
`Consumer` the row of one. `Accounted` says the same from the tree, without the
walk: what lies below a node down to the next consumers. `Partitions` compares
the two, the bytes of a row and whether it calls itself complete.
`Applications` and `DeveloperItems` the inventories.

`Footprint` plans (`Plan`, `PlanInstalled`), then measures one path after the
other: from the tree if it has the path, otherwise with a walk, an entry a step,
while others remove things, listings lose entries and the budget runs out. The
places to look at are numbered (`Spots`): the bundle, the locations that carry
the identifier in their order, then the vendor's directories in theirs; `pending`
holds those still to measure and `measured` the rest. `walk.counted` and `missed`
are history.

### ScanPromise and Window

`ScanPromise` is what the window may rely on: one scan holds the slot, a scan
that ends gives it back and owes one report, and only a completed one replaces
the snapshot; reports are sent later, in any order. `Scan` is shown to
implement it (`KeepsScanPromise`), so `Window` needs none of its threads.

`Window` is `AppModel.swift` with its `@MainActor` taken literally: a step is
what a Task does between two awaits. `tasks` is the bag of Tasks waiting for a
request, each with the scan, node and version it captured; `Serve` is the
service's answer, in any order, and `Resume` the rest of the Task, in any order.
Only events keep the order in which they were written. `Scan`, `StartResumes`,
`Poll`, `StatusResumes`, `EventArrives`, `AcceptScan` are the scan button, the
two-hertz poll and the event handler; `Browse`, `RowsResume`,
`DashboardResumes` the browser; `PrepareTrash`, `PrepareResumes`,
`CancelTrashConfirmation`, `ConfirmTrash`, `ConfirmResumes` the Trash dialog.
A request version or a token is only compared for equality with those somebody
still holds, so `Fresh` takes any number nobody holds: exact, and it keeps the
state space finite. The death of the service, the footprint, the review,
application and activity screens, sorting, paging and history are left out, and
the user is taken to browse only from a page that is on screen.

## 3. Runs

| run | instance | shows |
|---|---|---|
| `review` | all three kinds, 2 threads, 2 previews, 2 tokens, lifetime 1, an upgrade; fair | slots given back; tokens bound to the newest review; one run per review; a journal that follows the runs; refinement of `Approval` |
| `scan` | 2 request threads, 2 scans, 2 ticks each; fair | reports and reads stay with their scan; refinement of `ScanPromise`; a claim and a stopped scan end |
| `service` | 2 requests of any kinds, 2 scans, 1 tick, the helper killed or the app closed at any moment; fair | a clean exit, and that it happens; each caller in the app is resumed, once |
| `journal` | 3 operations, 2 restarts, 2 undos by 2 threads, 5 of these together, all faults | ids in order, undo marks are true, a restored item is marked, a failed append costs one record at most |
| `trash` | 2 threads, 3 paths, 3 tokens, 2 scans, 2 changes | one move per token, inside the root, log follows moves |
| `backends` | 3 backends, 3 versions, 1 operation, 2 installs; or 2 overlapping saves, 3 choices, 1 restart, all faults; or every operation of Mole over 2 applications and 2 cleanup plans | resolution is honest under any installs; what runs was reviewed; no narrowed plan is offered; an outcome is no better than what happened; the settings file is whole and a promised choice is kept |
| `process` | pipes of 1 unit, 2 units per pipe, helpers, failing waits; fair | nothing left behind, refinement of `BackendRun`, a cancel is answered, no deadlock |
| `window` | 2 scans, a folder and a file; poll and browsing, or dialogs; fair | the page belongs to the totals beside it and to the place asked for; the dialog names its row, nothing unnamed is moved, the menu is not blocked for ever; scanning and loading end |
| `storage` | 23 entries in four disks, 2 inventory rows, 1 consumer, depth 6, walks of 2 entries, 1 removal | a tree is the whole disk; every page, category and list read off it agrees, but for the two cases below; sizes and headline of a footprint are honest |

Two threads are enough for the races of the review, Trash, undo and settings
states because each pair of conflicting steps has two sides; a third would only
add a refused claim. Two previews and two tokens give a review, its
replacement, a replay of a token and a second token for one review. Two scans
let the reports of one overlap the start, the walk and the end of the next; two
ticks let one fall on each side of it. Three journal operations with two
restarts give an entry before, beside and after a damaged one, and a reuse of
its id; `MaxWork` bounds operations, undos and restarts together, so that two
undos meet two operations and a restart. One-unit pipes with two units to write
make every pipe fill and block.

In `backends`, `trouble` says which one kind of trouble a behaviour has, because
the three kinds touch different variables: saves (with restarts), installs (with
a choice made in memory while an operation resolves), or output that stops.
Two backends that offer *scan* and a third that does not, the choice being one of
either sort or none, and two installs suffice for the choice to appear or vanish
between its detection and the next, and again before the gate. The two cleanup plans have a path of
two lines, the first of which reads like a row, and two sections of one name;
the two applications allow every partial removal. An execution follows one of
the reviews there may be.

In `storage` each size is a power of two, so a sum tells which entries it holds;
`Largest` is below their total, so that roll-up saturates in some scans, and
`MaxDepth`, `MaxConsumers`, `MaxInventory`, `MaxRows` and `WalkBudget` are so
small that each limit is met: an entry deeper than six, a ranking that is
trimmed, pages of two rows, a walk too long for its budget. Hard links lie on
one device and across two, with ncdu (which names devices) and gdu (which does
not). The disks are those of interest: an application with its data under
`~/Library` and a helper in it; a checkout with build output and a built
application; Xcode's data; a directory named `.app` with an application in it.
Scans are asked for at the top, in the home and personal directories, at a file,
at an application, at the helper in it and at the directory named `.app`, so
that the root of a scan is a bundle, or lies in one, in some of them. Locked
directories lie under a consumer that was itself read in full, and under
another consumer than the one above. The order of a directory's entries is any
order.

`Window` is explored for two loads, because the poll and the dialogs together
are too many states. `Browsing` allows one poll and one earlier rows request
beside a new one, and no dialog; `Removing` allows two preparations under way
beside each other and no poll, so that scans are accepted through events. In
both, scans are started, end, fail and are accepted. A load
bounds how many Tasks wait when the user asks again, not how they are answered.
`CHECK_DEADLOCK FALSE` everywhere: a service with no request to serve, and a
bounded run at its bound, may stop; that nothing waits for ever where it should
not is what the liveness properties say.

### Disagreements between code and documentation

Three runs with `expect: violation` check a quoted sentence that the code does
not keep.

| run | sentence | what the code does |
|---|---|---|
| `cleanup_fresh` | a second run must review a fresh discovery (`cleanup.rs:106`) | a dry run older than the run is remembered after `forget` |
| `journal_torn` | not successful until its receipt is durable (`deletion.rs:279`) | a torn line swallows the next, reported, entry |
| `trash_named` | move the exact path it names (`commands.rs:736`) | moves what that path resolves to by then, records the other |

Others the models contain, and their properties allow for, without a run of
their own:

* `commands.rs:320` has a run that started always journalled; an uninstall whose
  process could not be waited for is an `Err` and is not (`Reap`). Likewise
  `adapter-mole/src/lib.rs:692` and `:1192` want every end of a run to be an
  outcome; `run_uninstall` and `execute_optimize_from` turn a failed wait into
  an error (`ExecutionOf`).
* `commands.rs:124` runs the exact version shown; a backend replaced between the
  last detection and the spawn runs instead (`swapped` in `RunsWhatWasReviewed`).
* `registry.rs:162` says that the later passes can never land on the chosen
  backend; each pass detects anew, so they can when it is installed in between,
  and the answer then names it as the one it is instead of (`Detect`).
* `native.rs:108` forwards shutdown to every subprocess-backed operation; two
  commands use a private token nobody can trip (the probes of `NativeService`),
  and `detect()` runs `--version` with no token at all.
* `settings.rs:104` promises the old preference or the new one; two saves share
  the staged name, so overlapping ones may leave a file that is neither, and
  memory and disk may end with different choices (`overlapped`).
* `process.rs:66` says that the watcher killed the child; the flag is the token,
  read last. And only the direct child is killed (`helper`), where
  `docs/adapters.md:204` wants nothing orphaned.
* `docs/adr/0033:28` disables scan-derived removal during scanning; a late
  `finished` event, or a `scanStatus` reply for the scan before, clears
  `isScanning` while the next scan runs (`AppModel.swift:852-868`, `962-966`).
  A `finished` event that comes after the next summary makes `acceptScan` go
  back to the older one for a while. What the service moves is still checked
  against its own scan id.
* rip's `undo` looks where the item is because "returning cancellation would
  leave the journal claiming the item was still deleted", but a run that cannot
  be waited for or read returns before it looks; the item is back, its entry
  says deleted, and every later undo is refused because the path exists
  (`unsaid` in `RestoredIsMarked`).
* gdu's export names no device. Scanning across mounts with it, two files of
  two devices with one inode number count as one (`DeviceIsKnown`).
* The cleanup preview is read from a file with one fixed name, which another dry
  run may have rewritten by then: what is offered is a whole plan, not
  necessarily the one this run made (`planned`).
* A finished optimization is judged by its exit status only; an uninstall whose
  output stops after its summary is finished if Mole exits with 0.
* `attribution.rs:442` says that `plan` touches no directory; it does read
  property lists and directories, and holds the scan lock meanwhile. A listing that fails
  half way loses entries and the walk still calls itself complete
  (`attribution.rs:242`, `missed` in `SizesAreHonest`).
* The root node's name is the whole scan root, so rules that compare a name
  (`node_modules`, `.git`) do not see a scan root of that name. The test for a
  bundle looks at the name's end only, and does: a scan root that is a bundle is
  an application. A bundle directly in it claims nothing (`is_inside_bundle`) but
  is a row of its own because every child of the root is (`categories.rs:249`);
  it inherits the category and is ranked beside the application it belongs to,
  though `categories.rs:128` says that nested bundles stay with the application
  enclosing them (`besides` in `ApplicationsAreRanked`).
* A directory named `.app` and no more is an application to the ranking
  (`categories.rs:136` and `:362`) and none to the list: `inventory.rs:139` wants
  a name before the ending, and its test says so (`named` in
  `ApplicationsAreRanked`).
* Sums of the breakdown wrap where the tree saturates (`Exact`).
* `inventory.rs:139` slices a name four bytes from its end, which panics inside
  a character; names of the models are whole values, so they do not show it.

### Fairness

Threads of the service are scheduled: weak fairness on each thread's steps.
Requests, cancels, upgrades and other programs are never fair. A walk is only
sure to end after a cancel, and a probe of `NativeService` ends by itself
because nobody can tell it. In `ServiceClient` the reading of each pipe, the
main loop and each request are fair, an operation and a walk only once they were
told to stop; neither closing the app nor the helper's death is, so `ResumedOnce`
has as its premise that a reply was written or the helper is gone, and `EofExits`
that the input has ended. In `RunningProcess` the caller, the watcher, the
drainer and the stdin writer are fair and the child is not: a cancel is
answered whatever it does, and `RunIsAnswered` states its premise that the
child and what it left behind end. `FairSpec` of `Review` assumes that a
backend call returns, for which `process` gives the reason (helpers that keep
the pipes open are the exception). In `Window` the requests of a start, the
poll, all other requests and the events are four fair groups: each
runs on a service thread and the main actor, which serve each other's queues;
within a group some task is served, not a particular one. The user and the walk
are not obliged. `RowsSettle` has the premise that the window comes to show the
service's snapshot and stays with it, since rows of a replaced scan are refused.
`journal`, `trash`, `backends` and `storage` check safety only: what they wait
for are subprocesses (`process`) and system calls.

## 4. Proofs

Eight modules hold theorems. Each is about all values of the constants: any
number of threads, requests, paths or rows and any bounds, of which the
assumptions only say that they are of the right sort. All eight follow one
pattern. A conjunction (`...Inv`, `IndInv` for `Review`) is shown to hold
initially and to be kept by every step, one lemma per conjunct or group of
conjuncts, one step of the proof per action; PTL turns this into
`Spec => []Inv`; the properties of the runs follow. A refinement is shown step
by step: each action is an action of the abstract module or a stutter.

| module | theorems about properties of a run | also proved | assumptions |
|---|---|---|---|
| `ReviewProofs` | `TokensNameLatest`, `OneRunPerReview`, `JournalFollowsRuns`, `KeepsPromise` | types; `SlotsOwned` | `KindAssumption`, `WorkerAssumption`, `BoundAssumption` |
| `ServiceProofs` | of `Scan`: `EndIsLastAndOnce`, `AnswersNameTheirScan`, `KeepsScanPromise` | types; who holds the slot | `ScanBounds` |
| | of the service: `ExitIsClean`, and the three of `Scan` | `ClientSpec => Spec` of `Scan`; at most one resumption | `ScanBounds` |
| `JournalProofs` | `IdsInOrder`, `UndoneIsTrue`, `RestoredIsMarked`, `LossIsBounded` | what `load_journal` returns for any file (`ReadInOrder`) | `KindAssumption`, `FaultAssumption`, `JournalBounds` |
| `TrashProofs` | `OneMovePerToken`, `MovesStayInside`, `LogFollowsMoves` | types; the log names what its dialog showed | `PathAssumption`, `TrashBounds` |
| `BackendsProofs` | of `Settings`: `FileIsWhole`, `KeptPromise` | types | `SettingsAssumption` |
| | of `Backends`: `ResolvesHonestly`, `RunsWhatWasReviewed`, and the two of `Settings` for the composition | `BackendsSpec => Spec` of `Settings` | `BackendsAssumption`, `SettingsAssumption` |
| | of `Mole`: `OutcomesAreHonest` | | `MoleAssumption` |
| `ProcessProofs` | `NothingLeftBehind`, `KeepsRunPromise` | types | `CapacityAssumption`, `ProcessBounds` |
| `StorageProofs` | `ScanIsWhole`, `BytesArePartitioned` | types and shape of the growing tree; what sums over finite sets, `AncestorsOf`, `Rolled`, `Claims`, `PathOf`, `ChildrenSorted` and `Page` compute on any tree | `TreeBounds`, `RankAssumption`, `ShapeAssumption`, `DiskAssumption`, `AskedAssumption` |
| | of `Footprint`: `SizesAreHonest`, `HeadlineIsWhatIsKnown` | every planned path is measured once; a path found in the tree is the node's own (`NodeAtIs`, `TrailsName`) | `FootprintAssumption`, `NamesAssumption` |
| `WindowProofs` | `PageIsWhereAsked`, `DialogNamesItsRow`, `MovesAreConfirmed`, `WorkIsUnderWay` | types; `Spec => ScanSpec`; the window never gets ahead of the service | `WindowBounds` |

Induction over data is done with sets of positions. The library's induction
theorems take an operator, which the provers cannot instantiate; but that the
subset order of finite sets has no infinite descent
(`FS_StrictSubsetOrderingWellFounded`) is a first-order fact, and gives every
set of numbers that is not empty its least element (`LeastOf`). What holds for
every line of a file is then shown by looking at the least line it fails for.
This is why `load_journal` is written with positions and ranks and not as a fold.
`StorageProofs` does the same with families of subsets (`SmallestOf`, `OneByOne`),
which makes the library's sums over sets usable (`SumIs`: they are the sum in
whatever order; `SumUnion`, `SumParts`, `SumRenamed`), and with indices along
parents (`Upwards`, `Downwards`, `FromUpExists`), which says what a recursive
function over a tree computes, because a parent has the smaller index.

The constants are as weak as the code has them. Pipes hold at least one unit
(`CapacityAssumption`), because a pipe of none would block every child. A
preference's text has at least one cell and the threads of one process are
finitely many (`SettingsAssumption`). The order of backends names registered
ones, each at most once in the platform's order, and every backend is registered
(`BackendsAssumption`), which is how `Registry` is built. The list Mole gives of
the installed applications is finite (`MoleAssumption`); which they are, the
plans and the reports are any. A disk is any finite forest of entries whose
sizes are `u64` (`ShapeAssumption`); every set of what exists, is mounted, locked
or skipped is allowed (`DiskAssumption`), and so is every depth limit
(`AskedAssumption`). For footprints a disk is also a file system: a directory has
no two entries of one name, and what exists lies in a directory that exists
(`NamesAssumption`); no two locations or vendor directories of an application are
one path and its bundle is none of them, as their places under `~/Library` have
it (`FootprintAssumption`).

The properties are not inductive as they stand. What has to be added:

* **Review.** `OneRunPerReview` does not say that a token about to be used was
  not used before. `PreviewIsNewest`: a running preview has an id that was never
  spent, so remembering it cannot bring a spent review back.
  `HeldWhenNeeded`: between `Take` and `Forget` a worker holds a review that is
  already spent. `LatestUnspent`: a spent review stays on the table only while
  the run that spent it is going, and never for an optimization.
  `OffersAreReal` and `TokensAreOneTime`: tokens come in order, each with a
  review, and one that started a run is not pending. `JournalIsTrue` counts on
  top of this the runs that are still on their way to the journal.
* **Scan.** `SlotIsTheWalk`: the scan in the slot is the one whose thread has not
  published. `ClaimsAreHeld`: a claim has one request, so `Release`, which
  empties the slot whoever holds it, empties its own. `EndsAreDone`: the end is
  the last thing a thread does. `EndsAreSelected`: `ends` is the subsequence of
  the events that are no progress, by an increasing map of positions.
* **Service.** `DrainedInOrder`: the drain looks for threads first and for a scan
  after, and as no line is read any more, no thread comes back in between and
  without one no scan is claimed; in the other order one could be claimed between
  the two tests.
  `TakenOutOnce`: an entered request is in the table and was not resumed, or is
  out of it and was resumed once, although five queues may take it. Since every
  step of the composed system is a step of `Scan` or leaves it alone
  (`ServiceScans`), all that is proved of `Scan` holds of the service.
* **Journal and Undo.** Memory is what a session appended or what loading made
  of a file, so the invariant says the same of both (`EntriesInOrder`,
  `FileInOrder`, and so on) and that they agree (`FileAgrees`: an id of one is
  the id of the same item in the other). `FileNames`: an undo event stands after
  the deletion it belongs to and names no other before it, which is why a lost
  line cannot turn it into a mark of another operation. The file is looked at by
  the positions of its lines: an append spoils the last line or adds one event
  after all others (`AppendFollows`), and loading gives the n-th operation for
  the n-th position (`ReadInOrder`). `LossIsBounded` maps each record that is
  lost to the line it shares, and `AloneSurvives` is why there is one.
* **Trash.** `TokensAreTaken` and `MovesAreSpent`: a token is in the slot or in
  one thread's hands, never in both, and one that can still be used has moved
  nothing. `SlotIsNewest` and `LogNamesTheDialog` tie it to its dialog.
* **Settings.** Nobody serialises the saves. `Crossed` names the states in which
  two of them are between open and rename, or one is without a staged file or
  cleaning up; `StagedIsWhole`: unless saves crossed, the staged file is what
  the saving thread wrote. A rename that succeeds takes the one staged name with
  it, so of saves that crossed at least one fails and says so (`failed`): this is
  why a file that is not whole is never one that nobody was told about.
* **Backends.** `HistoriesBracket`: the histories `always` and `ever` enclose
  what is usable now. `TakenInOrder`: every place passed over that offers the
  ability was unusable at some time since the operation was asked for.
  `GatedIsReviewed`: past the gate the version is a supported one, for what
  changes files the reviewed one, and is still what is installed unless
  something was installed after the gate (`swapped`).
* **Mole.** That an outcome names only what is gone depends on the order of what
  Mole does and on how far it got. `SaidAfterwards`: whatever the script of an
  uninstall says was freed and is still installed is removed by a line that
  comes before; `SaidIsTrue`: of what was said so far nothing is left. A child
  that is killed stops anywhere in its script, and both are kept by every step
  of it (`PrintsKeepsInv`), whatever was asked for and whatever fails.
* **Storage.** `SinkShape`: the stack names nodes that are there, a parent before
  its child, so the arena is a tree at every record and not only at the end.
  `SinkHistory` says from which entry each node was made, that its parent is the
  node of that entry's directory, and that a directory which left the stack has
  everything it lists in the tree; that nothing reachable is missing then follows
  by induction over the disk (`ListsTheDisk`). `SinkDevices`: the device on the
  stack is the one the entry is on as far as the export says (gdu says nothing),
  and `seen` holds exactly the linked files taken in, so a node counts nothing
  only if an earlier one is the same file. `SinkCounts` ties the counters to
  the nodes. The totals of the roll-up are then sums over what lies below, cut
  once (`RolledUp`, `SaturatingFold`: saturating step by step loses nothing more).
  A row of the breakdown accounts for what the tree says it should, because an
  owner is handed down to exactly the nodes between it and the next owners
  (`AccountedIsOwned`).
* **Footprint.** That a size is honest says nothing of a walk that has not ended.
  `WalkInv`: the entries on the stack lie apart from each other and from what was
  counted, so nothing is counted twice; as long as the walk calls itself
  complete, whatever lies in its directory is counted, at or below an entry of
  the stack, gone, or kept back by a failing listing; and as soon as it does not,
  there is a locked or vanished entry to blame. Budget and count add up to the
  budget it began with, which is why a walk that runs out had more to visit.
  `PlanInv`: pending and measured are apart and together what was there when the
  plan was made, so the answer has each path once; `GoneInv`: nothing is gone
  before that. A size out of the tree needs the whole of `WholeInv`, and that
  names lead to the one node of an entry (`NodeIsHonest`).
* **RunningProcess.** `WaitedFor`, `KilledOnRequest`, `ReadToTheEnd`: each thread
  leaves only when what it waits for can no longer change, which is what makes
  the caller's reading of the token, after the joins, the last word.
* **Window.** Tasks wait in a bag and resume in any order, so each property needs
  to know what every Task under way may still do. `RowsAreCurrent`: a Task of the
  current version asked for the place and scan on screen, and one that was
  refused was refused for a scan that is replaced for good, which is why a page
  that stays empty is not one that is wrong. `VersionsAreApart` and
  `PreparationIsShown`: a preparation has a version of its own, and the one of
  the current version, if any, is what is shown as under way, with no dialog
  open. `TokensAreShown`: whoever holds the service's current token (the open
  dialog, an answer on its way, a confirmation on its way) holds it for what the
  service has under it. `SnapshotIsNewest` and `SummariesArePast`: nothing in the
  window names a scan that was not the snapshot before. With `FreshIsFresh` this
  is all that is used of versions and tokens: that one asked for now is held by
  nobody.

Every one of these conjuncts that TLC can evaluate (all but `EndsAreSelected`,
which asks for a map, and the types of Mole's lines, whose texts are of two
sorts) was also checked by TLC as an invariant, on the instances
of the runs.

Only model-checked:

* everything with fairness: that slots are given back, scans end, a cancel is
  answered, loading ends. Liveness and `ENABLED` are out of the prover's reach;
* `PreviewsAreWhole` of `Mole`: the parsers of its previews carry their state in
  folds over the lines of the output, and what such a fold computes for every
  output needs induction over data;
* `ListsAgree` of `Storage`: the rankings and both inventories are sorted with an
  operator the provers do not know.

## 5. Not modelled

* Panics: a request thread that panics keeps its slot and writes no reply, so
  its caller in the app waits for ever. The helper does not catch them, so every
  claim about slots and replies is about threads that return.
* Text: wording, formats, how a kind of line, a version or a JSON record is
  recognised. The apparent size of a file, which follows the same path as its
  disk usage.
* The rest of the window: review, application, activity and footprint screens,
  sorting and paging requests, history, and what it does when the service dies.
* `prepareDelete`, `confirmDelete` and undo are library entry points the service
  does not dispatch at this commit, and no adapter offers a deletion; undo is
  modelled (`Undo`) because journals hold undoable operations, of the others the
  journal call they end in.
* The arguments the ncdu and gdu adapters pass, gdu's refusal of exclusions.
* The CLI, platform integration (`reveal`, `volume`, `icons`), and views: calls
  and layout without state of their own.

## 6. Plan

In order of what matters to the user of the program:

1. `Review`, `Approval`, `ReviewProofs` (done): removal only of what was approved.
2. `Scan`, `NativeService`, `ServiceClient` (done): a real `Review` in place of
   the abstract operation slot is left.
3. `Journal`, `Undo`, `Trash`, `Settings`, `RunningProcess`, `BackendRun` (done).
4. `Backends`, `Mole`, `MoleOutput` (done).
5. `ScanTree`, `TreeSink`, `Categories`, `Footprint`, `Storage` (done).
6. `ScanPromise`, `Window` (done for the scan, the browser and the Trash
   dialog): the review screens against `Approval`, the footprint, and the death
   of the service are left.
7. Theorems (done): all safety properties of `Review`, `Scan`, `NativeService`,
   `Journal`, `Undo`, `Trash`, `Settings`, `Backends`, `RunningProcess` and
   `Window`, and the
   refinements of `Approval`, `ScanPromise` and `BackendRun`; of `Mole`, what a
   real run reports; of `Storage`, that a scan is whole, its categories divide it
   and a footprint is honest. Left: that the
   dialog of `Window` and the thread of `Trash` are one protocol, by showing that
   `Trash` keeps what `ServePrepare` and `ServeConfirm` promise; the parsers of
   Mole's previews, and the rankings of `Storage`.
