# A formal model of SystemDiff

SystemDiff captures the startup-related configuration of a Windows machine
twice and reports what changed in between.  This directory holds a TLA+ model
of it: modules translated from the Rust and TypeScript source, TLC
configurations that check them on small instances, and TLAPS proofs.

Paths below are relative to the root of the repository.  "Session", "storage",
"registry" and so on name the source files `session.rs`, `storage.rs`, ...

## 1. The system

| Part | State it keeps | Operations | Talks to |
|---|---|---|---|
| Desktop page (`apps/desktop/src/App.tsx`) | session view, error, in-flight flag, technical panel | mount effect, start, finish, cancel, retry, toggle details | Tauri commands, asynchronously |
| Tauri entry (`src-tauri/src/lib.rs`) | `DesktopBackendState` | five commands, exit event | session service; workers via `spawn_blocking` |
| Capture session (`src-tauri/src/session.rs`) | `InternalState` under a mutex: Ready, Starting, Capturing, Finishing, Results | `start_capture`, `finish_capture`, `cancel_capture`, `technical_details`, `shutdown_cleanup`, `new` | storage, capture, diff, presentation |
| Session storage (`src-tauri/src/storage.rs`) | directories with a marker and up to two Snapshots; the root lock | create, write, read, remove, clean up, recover, lock | file system, shared by all processes of the app |
| Capture orchestration (`systemdiff-windows/src/lib.rs`, `platform.rs`) | none | `capture_snapshot` | both collectors, `assemble_snapshot` |
| Registry collector (`registry.rs`, `win32.rs`) | budget left, records of the current attempt | collect all Run/RunOnce scopes | registry API, beside every other program |
| Services collector (`services.rs`, `win32_services.rs`) | names, budget left, previous read | enumerate, read each service until two reads agree | service control manager, beside every other program |
| Snapshot document (`systemdiff-core`) | the document | `validate`, `scope_status`, `assemble_snapshot`, decoding | everything |
| Comparison (`systemdiff-diff`) | none | `diff_snapshots` | Snapshot document |
| Reports, presentation (`systemdiff-report`) | none | render text, build the page's groups | Diff document |
| Command line (`systemdiff-cli`) | none | `snapshot`, `diff`, `collectors` | files named by the user |
| Risk interface (`systemdiff-risk`) | none | a trait nothing implements | - |

What is hard about it, and what makes each part correct:

* **Session and storage.** Commands run on different threads with the mutex
  released while they work; a second process may start at any time; any file
  operation may fail and the process may die between two of them.  The
  Snapshots on disk are unredacted, so the part is correct when nobody else
  touches a live capture, when evidence on disk is always where recovery will
  find it, when none is left behind without a word, and when a failed `finish`
  keeps the first Snapshot for a retry.
* **Collectors.** There is no atomic read of a key, a service or a list of
  services.  A collector is correct when what it calls complete was there all
  at once, when what it reports at all was really there, when limits and
  failures show in the coverage, and when it returns although others keep
  writing.
* **Documents and comparison.** An absence is a change only if both sides
  could have seen the artifact.  The parts are correct when every document the
  collectors produce validates, and when no reported change is invented and no
  evidence gets lost.
* **Registry values.** Names and data are any units, text or not.  The part is
  correct when nothing of them is lost or made up, and when the validation
  accepts whatever the collector builds.
* **Views.** The page, the terminal report and the technical text derive what
  they show by separate code.  They are correct when they agree, when their
  counts and notices are those of the comparison, and when different evidence
  looks different.
* **Files of the command line.** Two commands may be given one path, a file may
  grow while it is read, and a command may die half-way.  The part is correct
  when a reported Snapshot stays whole, when only whole documents are compared,
  and when what one command writes the other can read.
* **Page.** Answers come late and from commands of another page.  It is correct
  when it never shows an older state over a newer one and never locks itself.

`PROJECT.json` lists the places where each of these can go wrong (`hazards`),
with the property that would notice it.

## 2. The modules

| Module | Models | Role |
|---|---|---|
| `DesktopSession` | session, storage and the entry's exit event | state machine of several processes and their threads |
| `CaptureLifecycle` | what a session promises | abstract specification |
| `SessionRefinement` | - | refinement mapping, `ImplementsLifecycle` |
| `Snapshots` | `Snapshot::validate`, `scope_status` | operators |
| `SnapshotDiff` | `systemdiff-diff` | operators |
| `DiffCall` | one call of `diff_snapshots` | state machine over its early returns |
| `RegistryRun` | how scope results become a run and a document | operators |
| `RegistryScan` | registry collector | state machine, one step per native call |
| `ScopeCapture` | what a registry scope promises | abstract specification |
| `ScanRefinement` | - | refinement mapping, `ImplementsCapture` |
| `CaptureCompare` | two captures and their comparison | composes `ScopeCapture`, `RegistryRun`, `SnapshotDiff` |
| `ServicesScan` | services collector | state machine, one step per native call |
| `RegistryValue` | decoding and naming of one value, validation of its entry | state machine, one step per string of a list |
| `DesktopUI` | the page, its commands and answers | state machine of page and service |
| `SnapshotFiles` | the commands `snapshot` and `diff` | state machine, one step per file operation |
| `ResultViews` | presentation, terminal report, technical text | extends `DiffCall` with the views of its result |
| `Sums` | evidence counted in bytes | one operator |
| `SessionProofs` | `DesktopSession`, `SessionRefinement` | TLAPS proofs |
| `RegistryScanProofs` | `RegistryScan`, `ScanRefinement`, `RegistryRun` | TLAPS proofs |
| `ServicesScanProofs` | `ServicesScan` | TLAPS proofs |
| `ComparisonProofs` | `Snapshots`, `SnapshotDiff`, `DiffCall`, `ResultViews`, `CaptureCompare` | TLAPS proofs |
| `RegistryValueProofs`, `SnapshotFilesProofs`, `DesktopUIProofs` | the module they are named for | TLAPS proofs |
| `SequenceProofs` | - | lemmas about sequences, sums and sets of numbers |
| `MC...` | - | constants and symmetry for TLC |

Each `map` entry of `PROJECT.json` names the lines a definition stands for.

### DesktopSession

A process is `down`, `launched`, `recovering`, `up`, `stopping`, `stopped` or
`failed` (`phase`).  `stage` and `held` are the `InternalState` and the
`SessionFiles` in it; `task[i][t]` is what thread `t` of process `i` executes
and at which file operation.  A command is a step that claims the state under
the mutex (`StartCommand`, `FinishCommand`, `CancelCommand`), one step per file
operation, each with its failure, and a step that publishes (`StartSucceeds`,
`StartFails`, ...).  `dirs` and `files` are the disk; a file is absent, partial
or complete.  `Crash` ends a process between any two steps: its memory is gone,
its lock is free and the disk stays.  Startup recovery visits entries in any
order, those in `Suspicious` among them, which are no intact session of the
app.  Two history variables carry what the properties need: `told`, the
leftovers a process has reported, and `discarded`, the sessions a cancellation
has begun to remove.

The path, symlink and reparse-point checks of the storage are one refusal.
Power loss (a completed write that does not survive) is not modelled; nor are
foreign files put into a session directory while it is in use, panics, and
entries with names no session has, which recovery skips.

### RegistryScan, ScopeCapture, RegistryRun

`values` is the key as the environment sees it, a sequence in enumeration
order.  `SetValue`, `DeleteValue`, `DeleteKey` and `CreateKey` may happen between any two
native calls.  The scan opens the key, queries count and time of last write,
probes and reads one index after the other with growing buffers, queries again,
and starts over when the two queries differ, up to `MaxAttempts`.  Each call
may fail.  `BoundedRecords::insert` is `Placed` and `Trimmed`;
`build_target_collection` is `Sole`, `Affordable` and `Collection`.

A name stands for its identity hash, and so the order of names is that of
identities.  Each write gives the key a new time of last write; see the hazard
at `win32.rs:556` for the real clock.  The contents of the other scopes are
arbitrary when their turn comes, as nothing relates them.

`ScopeCapture` says the same of a scope in one step: complete means the
content at the moment the scope ends, partial means some of what was there
since it began, and anything else means no records.  `ImplementsCapture` is
checked as a refinement, so `CaptureCompare` may use `ScopeCapture` in place of
the scan.

### ServicesScan

Pages are not a snapshot of the list: a page can repeat a name or miss one.
The parts of a service's configuration are separate native calls, each with
its buffer probe, and other programs change, delete and create the service
between them.  A configuration is reported when two reads in a row agree, or
else omitted with a diagnostic.  `held` and `changes` are history: the
configurations the service had since its read began, and how often it changed.
With the real buffer limit of 8 KiB for each query the limit of evidence for
one service cannot be reached; the model keeps the check and gives the limits
values at which each of them bites.

### Snapshots, SnapshotDiff, DiffCall, CaptureCompare

Documents are records of sequences, so that repetitions exist which `validate`
has to refuse.  `scope_status` and `coverage_index` are two lookups, as in the
code.  `DiffCall` takes any two of the small documents, malformed ones
included.  `CaptureCompare` runs two captures that race with writes, with the
key free to become anything in between, and compares their documents.

### RegistryValue

A unit is one of the units that the code tells apart, or a letter; data is a
sequence of units and perhaps an odd byte.  Numbers are their units and the
order in which their bytes are taken.  `Decode` and `DecodeList` are
`decode_registry_value`, `TakeString` one turn of the loop of
`decode_multi_string`, whose search for the next terminator cannot fail behind
the check that the data ends with two of them.  `Build` is
`observation_from_raw`, `Validate` the checks of `validate_registry_startup_entry`
without those of the hash and of raw evidence, which no collector produces.

### SnapshotFiles

Bytes are counted: a file holds the first `written` bytes of one document and
then `extra` bytes that others appended.  `step` follows a `snapshot` command
from capture over `create_new` to its last write, `at` a `diff` command from
opening its first argument to the comparison; both may stop at any call.  Other
programs remove, move and append.  `sure` is history: the file that a reader
opened had been reported as created.

### ResultViews

A datum stands for an artifact, a record of the fields the views look at.  A
text is a sequence of tokens, so that two texts that look alike are equal.
`Presentation` is what the page receives, `Report` the terminal report,
`TechnicalText` the exact text; each is a record of what is shown for each
change.  `Own` is the restriction the desktop puts on documents: it compares
its own captures, while the command line compares any two files.  Wording,
translation, layout and the order of lines are left out.

### DesktopUI

A command is a message in `calls`, first `sent`, then `running` if the service
accepted it, then answered; the answer is delivered in any order.  A reload
replaces the page and nobody listens to the old calls any more.  The service
is reduced to the view it would answer with; its threads and files are in
`DesktopSession`.  React's development build runs the mount effect twice
(`Mount`, second disjunct).

## 3. What TLC checks

| Run | Instance | Shows |
|---|---|---|
| `session_safety` | 2 processes, 1 worker and the event loop each, 2 session names, 1 suspicious entry | `ExclusiveOwner`, `EvidenceRecoverable`, `NoSilentEvidence`, `BaselineKept`, `SuspiciousUntouched`, and that the session implements `CaptureLifecycle` |
| `session_liveness` | the same with 1 session name, no symmetry | every accepted command is answered; startup and exit end |
| `session_cleanup_retry` | 1 process | violation, see section 6 |
| `registry_scan` | 1 key, 2 names, 2 data, 2 attempts, a failed layout | the document validates; the scan implements `ScopeCapture`: complete is exact, partial is real |
| `registry_scopes` | 2 keys sharing the budget, more values than a scope reads, data over the limit | limits and the budget, no limit taken for completeness, termination |
| `services_scan` | 2 services, pages that repeat, fail or overflow, 3 parts of two values each, 3 reads | the document validates, what is left out shows, a torn configuration needs four changes, termination |
| `services_no_path` | a service with an empty path | violation, see section 6 |
| `diff_call` | all ordered pairs of 626 documents, 88 of them made for the views | warnings agree with classification, evidence is accounted for, direction does not matter; the views agree with each other and with the comparison |
| `capture_compare` | 2 captures of one key, a write during each | no invented change; undisturbed scopes exact |
| `registry_value` | all lists of up to 6 units, all other data of up to 5, all names of up to 3, terminators included | decoding can be reversed, names are kept, entries are refused for a terminator in their name and for nothing else |
| `snapshot_files` | 2 `snapshot` commands, 1 `diff`, 2 paths, 1 file from elsewhere | a reported Snapshot stays whole, only whole documents are decoded, refusals have a reason |
| `desktop_ui` | 3 calls under way, 1 reload, comparisons numbered modulo 2 | no late answer wins, no forbidden command, details fit, no lock-up |

The type invariants of `DiffCall`, `RegistryValue` and `SnapshotFiles`, and
`AppendOnly` and `ReadBounded` of the latter, are in no run: they are proved
(section 4).  That a partial scope reports only values which were there is a
conjunct of `ScopeCapture`, and so part of `ImplementsCapture`.

Why the bounds are enough:

* *Two processes* are the smallest number that can fight over the root.  One
  worker thread and the event loop are two threads that can claim one session;
  a further worker adds no pair of a new kind, since all workers are alike and
  the claim excludes them pairwise.  *Two session names* allow a leftover
  beside a live session and the reuse of a name.
* *Two values and two attempts* allow a shift of indices in an attempt and a
  retry after it.  The code makes three attempts; with `MaxAttempts = 3` the
  run has about 261,000 states and finds nothing more.  Budgets of a few bytes
  make every limit bite: a value over the value limit, two values that fit
  only alone, a scope that leaves nothing for the next.
* *Three parts and three reads* are the numbers of the code.  Changes are
  counted up to `MaxChanges = 4`, which is where the property says the
  protection ends; from then on the history `held` is not kept, as nothing
  asks for it, while the changes go on.  TLC finds a torn observation with
  exactly four changes when all three parts vary, so the bound of the property
  is tight.
* *Three calls* let the two mount effects and a command be under way together.
  Comparisons are numbered modulo two so that a late answer can be told from a
  current one.
* *Six units* hold a list of two strings with both terminators and room for one
  unit too many; *four kinds of units* are those that decoding tells apart.
  *Three units* of a name hold both marks of RunOnce, or a surrogate pair and
  half of another one.
* *A limit of two bytes* has a document at the limit and one that its newline
  takes over it; *one byte appended* takes a whole file past the limit.
* *626 documents* have every status of a scope, malformed and repeated runs,
  scopes and observations.  *88* of them are for the views: a service with each
  of its fields changed in turn, values that some view shows alike (unknown
  start types, a path with a line feed and one with a backslash and an n, the
  word that stands for an absent value), an entry of each decoding, and each
  status of the coverage of services.  A change concerns one artifact and the
  views treat them one by one, so two artifacts in a document are enough to mix
  them up.

No run bounds the number of steps; the numbers above are all that is finite.

### Fairness

`DesktopSession.FairSpec` has weak fairness of each running thread and of a
process's own startup and exit steps: threads are scheduled and file operations
return.  Users need not act and processes need not crash.  `RegistryScan` and `ServicesScan`
have weak fairness of the collector's steps and none of the environment, which
may also write for ever: termination comes from counted attempts.  `DesktopUI`
has weak fairness of the mount effect and of each call: a command that is sent
is served, answered and delivered; clicks and reloads are free.  No strong
fairness is used anywhere.

Deadlock is checked except where the program ends: a collector or
a comparison that has returned, commands that have ended, and a page without a
session service.

## 4. What is proved

Every property of a passing run is proved for all values of the constants,
except liveness (section 5).  TLC checked the inductive invariants before they
were proved.

### Session and storage (`SessionProofs`)

For any sets of processes, workers, session names and suspicious entries,
finite or not.  The only assumption is `ConstantsAssumption`: the event loop is
no worker, `None` is no process and no entry, and a suspicious entry is no
session.

| Theorem | Statement |
|---|---|
| `TypeCorrect` | `Spec => []TypeOK` |
| `OwnershipExclusive` | `Spec => []ExclusiveOwner` |
| `EvidenceAlwaysRecoverable` | `Spec => []EvidenceRecoverable` |
| `SuspiciousNeverTouched` | `Spec => SuspiciousUntouched` |
| `BaselineAlwaysKept` | `Spec => []BaselineKept` |
| `EvidenceNeverSilent` | `Spec => []NoSilentEvidence` |
| `LifecycleImplemented` | `Spec => ImplementsLifecycle` |

*Protocol.* `ExclusiveOwner` is not inductive: that a second thread is idle
follows from what the stage says about the thread that claimed it.
`ProtocolInv` adds three parts.  `SessionInv` ties the stage to whether a
session is held and a task to the session it has, `OwnerInv` ties the phase of
a process to the lock, so that two processes are never both past startup, and
`WorkInv` allows a busy thread only in the stage or phase that its goal claims,
and one such thread per process.  The steps fall into classes with one lemma
each: storage steps change the disk and one program counter
(`StorageStepFrame`), claims, publications, commands, startup, exit and death.

*Disk.* `EvidenceRecoverable` needs to know how far each thread has got:
`StorageInv` is `DiskInv` (foreign entries stay foreign, created directories
hold only files of the app, evidence lies under an intact marker),
`OwnSessionInv` (only recovery handles entries the app did not create) and
`PointInv` (what holds of a directory at each program point: no evidence
before the marker is complete and once it is about to go).  By `OthersIdle`,
from the protocol invariant, a storage step concerns one thread only, and so
does its proof.  `SuspiciousNeverTouched` follows from the same invariant,
since no step past the check of a directory can be at a suspicious entry.

*Evidence.*  `BaselineInv` adds to `BaselineKept` what each task knows of the
first Snapshot: a start that has written it, a finish until it compares, and
that a cancellation has given it up.  `NoSilentEvidence` is a statement about
serving processes; `AccountInv` extends it to recovery, which starts from a list
of all directories and so accounts for whatever a crash left, and to tasks that
are about to report that nothing is left (`GoneOK`).  Both use `OthersIdle` for
the storage steps; for the other steps `BaselineFrame` and `AccountFrame` reduce
the proof to what the one process changes.

*Refinement.*  The state of the lifecycle is the stage of the process that owns
the root, or the command that one of its threads works on; its baseline is the
first Snapshot on the disk, when it can be read.  `MapInv` says so, and
`LifeInv` what a command at each of its points has made of that Snapshot.  A
file operation then is a step of the lifecycle exactly where the first Snapshot
becomes readable or ceases to be, and is `Invisible` everywhere else; claims,
publications and crashes are steps of their own.

### Registry collector (`RegistryScanProofs`)

For any number of scopes, names, data, attempts and limits, under
`ScanAssumption`: the limits are numbers, names are numbers because their
identities have an order, and sizes are numbers.

| Theorem | Statement |
|---|---|
| `RegistryTyped` | `Spec => []TypeOK` |
| `EvidenceWithinBudget` | `Spec => []BudgetRespected` |
| `CompleteIsASnapshot` | `Spec => CompleteIsSnapshot` |
| `CaptureImplemented` | `Spec => ImplementsCapture` |
| `RegistryDocumentValid` | `Spec => []DocumentValid` |

`RegistryInv` has six parts.  `KeyInv` and `ScanInv` are types, with what a
program point knows of its call.  `SnapshotInv` is the heart of it: as long as
nothing was written and nothing skipped, an attempt has read the values before
its index, each once.  Sorting by identity (`Placed`) changes the order and not
the set, so that an attempt which ends with the count it began with has read
the whole key.  `SeenInv` says that whatever was read was there, for partial
scopes, across attempts too.  `ResultInv` and `BudgetInv` are about the scopes
that have ended: their names are distinct, and their bytes and what is left make
up the budget.  That needs lemmas about `Affordable`, which keeps some of the
records and never more bytes than are left.

The refinement has three kinds of steps: writes (`KeyMoves`), steps that end a
scope (`Ends`), and the rest, which the abstract capture does not see
(`Goes`).  Attempts and retries belong to the rest: only the end of a scope
is visible.

The document has one entry for each scope, in order; `DocumentValid` follows
from `ResultInv` and from what joining the lists of observations keeps of them
(`FlattenElements`, `FlattenApart`).

### Services collector (`ServicesScanProofs`)

For any names, values of the parts and limits, under `ServicesAssumption` and
`NoneIsNoConfig`:

| Theorem | Statement |
|---|---|
| `ServicesTyped` | `Spec => []TypeOK` |
| `ServicesDocumentValid` | `Spec => []DocumentValid` |
| `ServicesAccounted` | `Spec => []NothingDroppedSilently` |
| `TornTakesFourChanges` | `MaxChanges >= 4` implies `Spec => TornNeedsFourChanges` |

`ScanInv` adds to the types that names are in identity order and behind all
those that have been dealt with (`ListInv`), so that a name never comes twice,
and what a read has in its hands (`ReadInv`).  That the list can be put into
order at all, however often pages repeat a name, is `OrderedIndexes`.

`TornInv` counts changes.  For each configuration the service never had, and
as long as what has been read agrees with it, the number of changes is at least
what it takes to have shown each part at the time of its read: a part that is
to be shown later than another has to come after the other has gone.  After one
such read there were two changes at least, after two there were four.  The
hypothesis `MaxChanges >= 4` says that the history variable counts that far; it
bounds the counter and not the changes.

### Comparison, views and captures (`ComparisonProofs`)

For documents with any number of runs, scopes and observations, under
`DocumentsAssumption` (lists are lists, and an artifact is not the mark of an
absent one); for the views, also `ArtifactsKnown` (every datum of a document
stands for an artifact), `ArtifactsDistinct`, `ArtifactsKinds` and
`ArtifactsShaped` (what an artifact is made of), and `ServicesNamedByKey`, which
stands for the refusal of a service whose key is not the hash of its name; for
two captures, any number of scopes, names and data under `CompareAssumption`.

| Theorem | Statement |
|---|---|
| `CallTyped` | `Spec => []TypeOK` |
| `EvidenceIsAccounted` | `Spec => []EvidenceAccounted` |
| `WarningsExplain` | `Spec => []WarningsExplainInconclusive` |
| `DirectionDoesNotMatter` | `Spec => []DirectionIndependent` |
| `ViewsTellOneStory` | `ViewsSpec => []ViewsAgree` |
| `NoticesTell` | `ViewsSpec => []NoticesExplain` |
| `QuietIsEqual` | `ViewsSpec => []QuietMeansEqual` |
| `ModifiedIsShown` | `ViewsSpec => []DifferenceShown` |
| `ChangesAreReal` | `CompareSpec => []ChangesReal` |
| `QuietScopesAreExact` | `CompareSpec => []QuietScopesExact` |

`CallInv` says that the call gets past its checks with accepted documents only
and that its result is computed from them.  What remains is about operators:
`scope_status` takes the first match and the indexes keep the last, and both
are the same entry because `validate` refuses repetitions (`RunIndex`,
`CoverageEntry`, `CoverageFound`, `LookupsAgree`).  `WarningOfScope` and
`ObservationCovered` tie the warnings to the classification.

`ViewsInv` adds that a view shows the comparison that has been made, and the
page one of two captures of its own.  Every change has one key, so a section has
one item for each of its changes, and the counts are sums over disjoint kinds.

`ModifiedIsShown` rests on `LiteralInjective`: a literal determines its text,
whatever its length.  No character is spelled as the beginning of another one
(`SpelledApart`), and lists of such spellings are told apart by what they join
to (`FlattenInjective`): at the least place where they differ, what comes before
is the same, so that one spelling would begin the other.  What is not printed as
a literal is equal by the key, or is one of the exceptions that the property
names: control characters in a path or dependency, and two registry names that
a foreign file puts under one key.

`CompareInv` follows two captures: the outcomes of a scope are true to what its
key has held since the scope began (`TrueTo`), at one moment for a complete
scope.  The index of a document that is made of them is computed once
(`ComparedCaptures` is the invariant as a theorem), and the two properties
follow with the lemmas about comparisons.

### Files of the command line (`SnapshotFilesProofs`)

For any number of commands, paths, documents and files from elsewhere and any
limit, under `FilesAssumption` (documents have at least two bytes, and files,
documents and `None` are different things):

| Theorem | Statement |
|---|---|
| `FilesTyped` | `Spec => []TypeOK` |
| `ReportedStayWhole` | `Spec => []ReportedWhole` |
| `FilesAppendOnly` | `Spec => AppendOnly` |
| `DiffsLoadWhole` | `Spec => []LoadedWhole` |
| `ReportedReadable` | `Spec => []RefusedForAReason` |
| `BuffersBounded` | `Spec => []ReadBounded` |

`WritersInv` is about the file each `snapshot` command has created, which no
other one writes: `create_new` makes it fresh, and it fits the limit.
`ReadersInv` is about what a `diff` command has read: no more than is in the
file and one byte over the limit at most (`BufferOK`), that the file it was
sure of is a reported one (`SureOK`), and that decoded files are whole
(`LoadedOK`).  `FilesGrow` keeps the second part true while others write.

### Registry values (`RegistryValueProofs`)

For names and data of any length over any units:

| Theorem | Statement |
|---|---|
| `ValuesTyped` | `Spec => []TypeOK`: the loop stays inside the data |
| `DecodingLossless` | `Spec => []Lossless` |
| `NamesKept` | `Spec => []NameKept` |
| `EntriesRefusedForTerminator` | `Spec => []RefusedForTerminatorOnly` |

`InputsAssumption` says that a name is no longer than the limit, which the
collector ensures; of its units nothing is assumed.  `Built` says what an entry
was built from, `VerdictOfEntry` what validation then says of it (section 6), and
`DigitsGiveUnits` is the arithmetic of the hexadecimal digits.

`WalkInv` is the invariant of the loop over a list: what is before the start of
the next string is text, never has two terminators together, and is what the
strings taken so far come to when they are put behind each other with their
terminators.  A turn of the loop puts one more behind them (`StringPutBehind`,
from `FlattenAppend`).  `WalkedIsList` and `RefusedIsNoList` compare the two ways
the loop ends with `ListData`, which is said of the data as a whole.

### Page (`DesktopUIProofs`)

For any number of calls under way, comparisons and reloads:

| Theorem | Statement |
|---|---|
| `PageTyped` | `Spec => []TypeOK` |
| `PageShowsService` | `Spec => []ViewIsCurrent` |
| `RefusalsNeedReload` | `Spec => []ConflictsNeedReload` |
| `DetailsAlwaysFit` | `Spec => []DetailsFit` |

`OneConversation` is the inductive part: of the calls that are about the state
of the session, the page listens to one at most, and only while a command is in
flight; a call that changes the session is always that one, so nothing changes
behind an answer that is on its way (`Consistent`).  Calls for technical details
do not disturb it (`DetailsApart`).

`DetailsFit` is about a page that was loaded again once at most.  `DetailsInv`
says what the page before can have left behind, one command at most
(`WaitingInv`), what the service can have become since the page's results were
there (`LeftFrom`), and that details which are shown or on their way are those of
these results.  With two reloads the property is false: a start and a finish
that two older pages have left behind can pass a cancellation of the third,
which then shows details of newer results.

### Lemmas about sequences (`SequenceProofs`)

What joining sequences keeps of them (`FlattenElements`, `FlattenApart`,
`FlattenAppend`, `FlattenBegins`) and when it can be undone
(`FlattenInjective`), that a total order numbers its indexes
(`OrderedIndexes`), how a sum changes with its terms (`SumOfChanged`,
`SumOfOneMore`), and that Min and Max choose what they are named for.  Where one
would use induction, these and the lemmas above take the least counterexample
(`NoneLeft`, from the well-foundedness of the natural numbers).

## 5. What is only model-checked

* Liveness (`CommandsAnswer`, `ProcessSettles`, `Finishes` of both collectors,
  `UserIsOffered`): fairness and ENABLED are out of the prover's reach.

The modules with proofs have no RECURSIVE operator: recursion is written as
recursive functions.

## 6. Where code and text disagree

Two disagreements have a run that TLC finds violated:

* **`session_cleanup_retry`.** Cleanup removes the marker before the
  directory.  If removing the directory fails, the notice offers a retry, but
  every retry begins by checking the marker and is refused.
* **`services_no_path`.** A service with an empty binary path passes the
  collector and fails the validation of the document, so the whole capture
  fails; the documentation says that a malformed item is left out.

A third has a run that passes, since its property says what the code does:

* **`registry_value`.** A value name that contains a terminator is kept as it
  is by the collector (`RegistryValue.Build`; `win32.rs` takes every unit of the
  length that the system reports) and refused by `validate` (core
  `lib.rs:614`), so `assemble_snapshot` fails and the whole capture is lost;
  `docs/collectors.md:30` says that invalid data costs one scope at most.
  `RefusedForTerminatorOnly` says that exactly these names are refused, and is
  proved for names of any length: no other name, prefix, type or decoding that
  the collector produces loses a capture.

Others were met while modelling.  The definitions behave as the code does, and
no property states the contrary:

* Which values of an oversized key are kept (`RegistryScan.Trimmed`) depends on
  the order of enumeration when their sizes differ; a test name says it does
  not.  The scope is partial in either case, so no change is invented.
* For a service that could not be confirmed the terminal report
  (`ResultViews.Report`) names the Snapshot without the service as the
  incomplete one, also when it was the other.  Only documents with complete
  service coverage show it, which this version's collector does not produce.
* The page (`ResultViews.Presentation`) shows a change of start from Manual to
  Manual when only the delayed flag of a manual service has changed.
* In the technical text (`ResultViews.TechnicalText`), which is meant to be
  exact, a line feed in a path looks like a backslash and an n.
* `validate` holds the key of a service against its name, but not the key of a
  registry entry.  Of two files of another program that give two names one key,
  names that differ in control characters look the same in the technical text
  (`ResultViews.Renamed`).

One more is recorded as a hazard only, since no text promises the contrary: a
page that is loaded again while the service works keeps showing the busy view
after the work has ended (`App.tsx:369`).

## 7. What is not modelled

* Risk interface: no behaviour.  Scripts, packaging and continuous integration:
  not part of the running program.
* Wording, translation, layout and the order of lines of the views.
* Power loss after a write, of the session's files and of the command line's
  (nothing waits for the disk); a standard output that fails; the constant list
  of the `collectors` command.
* Panics: a panic in a worker leaves the stage busy for good (`session.rs:167`);
  no path is known to panic.
* Two writes to a key within one tick of the registry's clock (`win32.rs:556`),
  which the comparison of count and time of last write cannot notice.
* Checks of single strings (identifiers, timestamps, hashes, lengths of service
  texts), the text of JSON, hashing, privilege and host metadata.

## 8. Plan

Done: all parts of section 2, modelled, checked and proved as far as sections 3
to 5 say.

Left: a theorem that composes `ImplementsCapture` with `ChangesReal`.  That
`CaptureCompare` may use `ScopeCapture` in place of the scan is an argument of
this text so far.
