# Cratebug in TLA+

TLA+ specifications, model-checking configurations and machine-checked proofs
for Cratebug (`src/`), a Go/Wails desktop application that manages Marvel
Rivals mods. Every definition is translated from the Go and TypeScript sources;
`PROJECT.json` gives, per definition, the lines it stands for.

Run a model with `tlc -config <run>.cfg <module>`, the proofs with `tlapm` on
each `*Proofs.tla`.

## The system

Cratebug is one process (a single-instance lock, `main.go`). The React frontend
calls bound Go methods; **Wails runs every call on a goroutine of its own**, and
Go has no lock over mutations: the frontend disables its controls, but with
references that do not cover all of its call sites (installing, the batch
actions). The mod folder is shared with other programs and the game. What is
persistent is the mod folder, one `metadata.json` with a backup, and temporary
staging trees. Everything below follows from that: interleaved calls, scans
that are stale when used, system calls that fail in the middle, kills between
two file operations.

| Component | State | Operations | Interacts with | Hard part, and what makes it correct |
|---|---|---|---|---|
| Discovery scanner (`internal/discovery`) | none | `Scan` | every mutation scans before and after | groups by folder and stem; a result is stale at once |
| Bundle mutation (`internal/mutation`) | the files | enable, disable, rename, priority, move, delete | scanner, game check, trash | several renames make one change: all or nothing, no file overwritten, no success for a part |
| Folder mutation (`folders.go`, `recycle_linux.go`) | the files | create, rename, move, delete folder | scanner, trash | changes the ID of every mod inside; a result must be what happened |
| Organize service (`service_organize.go`) | none | executes, then re-points metadata | mutation, metadata, watcher, frontend | files and metadata change one after the other: the record of a mod follows it |
| Metadata store and gate (`internal/metadata`, `core.go`) | `metadata.json`, backup, quarantine, mutex | load, update, self-heal | every service, library restore | lost updates, kills between file operations, damaged files: no acknowledged change lost |
| Metadata document (`identity.go`, `tags.go`, `settings.go`) | fields of the document | EnsureMod, ReconcileMod, tags, settings | store | identity survives renames, no deleted tag stays assigned |
| Library watcher (`internal/watcher`) | root, pause, quiet delay, suspension, timer, generation, directory watches | SetRoot, SetSuspended, Pause, Resume, Close, event loop, timer | mutations, Tools menu, frontend | late timers, overlapping pauses: own writes silent, others announced |
| Library restore (`internal/backup/restore.go`) | sessions, staging trees, park | Preview, Apply, Discard, CanRetry, cancel | metadata store, scanner, watcher | many renames with rollback, kills, retries: the old library is never lost |
| Library backup (`internal/backup/backup.go`) | the zip being written | Create, cancel | file dialog | a partial zip must not be left, an older one not be lost |
| Install (`internal/install`, `service_install.go`) | staged sessions, the copy under way | stage, preview, apply, cancel, shut down | archives, downloads, scanner, encryption, companion repair | copying with rollback onto a plan made earlier; no truncated bundle offered as whole |
| Encryption, companion PAK (`encryption.go`, `companion.go`) | worker pool, cancel channel, `.cratebug-encrypt-bak` files | rewrite, replace, cancel | UAssetTool | each target reported once; three live files swapped |
| UAssetTool worker (`internal/uassettool`) | child process | start, request, timeout, close | classifier, encryption | a dead, silent or orphaned child |
| Classifier (`internal/modtype`) | cache, pool, channels | Classify, Close | UAssetTool | stale cache entries, replaced workers, a pool of another size |
| Conflict detection (`internal/conflict`) | none | Detect | classifier's cache | union-find in the order of a map |
| Nexus client, downloads (`internal/nexus`, `service_nexus.go`) | pending link, signatures, download and its directory | links, confirm, download, cancel | launch, second instances, window, install | a link at any moment of the start; a dialog closed while its call runs |
| nxm protocol (`internal/urlscheme`, `service_nexus_protocol.go`) | the handler in the registry, displaced owner and opt-out in the document | claim at launch, turn on, turn off, uninstall | metadata store, OS, other applications | two places changed one after the other: what the user turned off stays off, the owner gets it back |
| Signature bypass (`internal/sigbypass`) | files in the game folder | inspect, install, remove | payload | rollback of a partial install |
| Updates | download | check, download, apply | OS | sequential I/O |
| Game detection, secret store, reveal, settings, window | – | – | – | no state that evolves |
| Frontend (`frontend/src/library`) | which dialogs are open, which calls run | what it calls, and what it holds back | every service | its locks decide which calls overlap |

The hazards these parts are exposed to are listed, each at its line, in
`PROJECT.json` under `hazards`, with the properties that cover them.

## Modules

| Module | What it is |
|---|---|
| `ModFiles` | the mod folder and the scanner's view of it: paths, groups, primaries, sidecars |
| `BundleMutation` | one bundle's mutations by several callers, with other programs and the game |
| `AtomicBundle` | what a mutation promises: one indivisible change of a whole bundle |
| `BundleRefinement` | the refinement mapping from the first to the second |
| `MCBundleMutation` | the instance TLC checks |
| `BundleProofs` | proofs about `BundleMutation`, the refinement included |
| `MetadataStore` | the metadata file, its backup, the gate, the restore that goes round it |
| `AtomicDocument` | one document that keeps every acknowledged change |
| `MetadataRefinement` | the mapping: the document is what the next `Load` would return |
| `MetadataProofs` | proofs about the store, the refinement included |
| `Watcher` | the library watcher, the calls that pause or suspend it, the frontend's reaction |
| `LibraryRestore` | applying, cancelling and retrying a staged backup |
| `MCLibraryRestore` | the instance TLC checks |
| `RestoreProofs` | proofs about `LibraryRestore` |
| `Organize` | folders, mods, and the records and tags that follow them; uses what `AtomicBundle` and `AtomicDocument` promise |
| `MCOrganize` | the instance TLC checks |
| `LibraryProofs` | proofs about `Watcher` and `Organize` |
| `Install` | staging, previewing and applying an install, with its rollback |
| `MCInstall` | the instance TLC checks |
| `InstallProofs` | proofs about `Install` |
| `Encryption` | a batch of encryption, decryption or companion cleanup, its pool and its swaps |
| `MCEncryption` | the instance TLC checks |
| `EncryptionProofs` | proofs about `Encryption` |
| `Conflicts` | the conflict detection as operators, and the links it should find |
| `Classifier` | classification with a pool of UAssetTool processes, and the conflict scan on its cache |
| `MCClassifier` | the instance TLC checks |
| `ClassifierProofs` | proofs about `Classifier` and `Conflicts` |
| `Nexus` | links, their way to the window, downloads and the sessions they stage |
| `MCNexus` | the instance TLC checks |
| `Protocol` | the nxm:// handler, the document, other applications |
| `MCProtocol` | the instance TLC checks |
| `NxmProofs` | proofs about `Nexus` and `Protocol` |

Definitions whose comment begins with "Fault:" are the plausible bugs
`PROJECT.json` lists as mutants; no specification uses them. Variables marked
"history" in their declarations are not in the code: they record what
callers were told, or what excuses a property.

### Bundle mutation

`disk` maps each file to its place, so a file can be followed through renames
and its destruction seen; a place is a path (folder, stem, extension) or one of
`Unborn`, `Trashed`, `Overwritten`, `Taken`. Each caller has a program counter
through `Executor.Execute` (`Gate`), the scan and plan (`ScanAndPlan`), the
endpoint check that `bundlePlan.apply` repeats before each move (`Check`), the
move (`TryMove`, and outside Windows the separate `Rename`), the rollback
(`TryUndo`, `Unrename`), the inspection (`Verify`) and the rescan of
`reconcileResult` (`Rescan`). Deletion goes through `Recheck` and `Trash`.
Rename, priority and move to a folder differ only in how the destination stem
is computed and are one request, `relocate`. Scan and plan are one step: the
scan is read-only and what matters is that it is older than the moves.
`AtomicMove` chooses between `MoveFileW` without replacement and
`move_other.go`'s check followed by a replacing rename. Left out: folder
operations (see `Organize`), links, name validation, and the error texts that
list final states.

### Metadata store

A document is the set of changes made to it. `Read`, `Quarantine`, `Fallback`,
`UpdateBackup` and `Write` are the file operations of `Load` and `Save`; a kill
(`Crash`) can come between any two and frees the gate. `Write` is one step
because `writeFileAtomically` writes a temporary file and renames it. `CallRestore` is
`restoreMetadata`, which starts at `Save` without the gate. `Damage` stands for
a primary another program or the disk spoils; `Read` may also find a good one
unreadable once. The history variables `acked`, `restored` and `overlapped`
record what callers were told and whether a restore ran beside a gated call.

### Library watcher

Each method and handler holds `w.mu` and is one step. A timer that fires
(`TimerFires`) becomes a callback that waits for the lock, which `Stop` does
not catch (`Callback`). Events of a replaced fsnotify watcher may still be
delivered (`stale`). `ignoredUntil` is the flag `quiet`, which ends with
`QuietEnds`; **timing assumption**: the events of Cratebug's own writes arrive
before the quiet delay is over, which is what the delay is chosen for.
`BeginMutation`/`EndMutation` are `suppressWatcherResult`, `OpenTools`/
`CloseTools` the Tools menu, `SelectRoot` is `SetModRoot`, `Scan` is
`ScanLibrary`, which corrects the watcher's root, and `Notice` and `HandlerEnds` are
`handleFilesystemChange`. Left out: single directories and noise files.

### Library restore

An entry is a direct child of the library, the park `<root>.restore-park` or a
staging tree, and has an identity, a name and a kind. `Begin` to `Scan` are
`SessionManager.Apply` and `parkAndPlace`, one rename per step, `Unplace`,
`Unpark` and `RolledBack` are `rollbackPark` and the rollback closure. A rename
replaces a file by a file and does not cross volumes (`SameVolume`). After the
verifying scan the park goes entry by entry (`RemoveParked`), may stay (`Clean`),
and `Succeed` removes the staging tree and returns, so a kill can come in the
middle of either. Sessions
leave the manager's map while `Apply` works on them and go back unless the
restore succeeded or its rollback failed. The twelve attempts of
`retryOperation` are one.

### Organize

A folder is a parent and a name (`home`), a mod a folder and a stem (`at`), and
a scanner ID is the path (`ID`), so renaming a folder changes the IDs of the
mods inside, as in the code. `RequestMod`, `ScanMod`, `MoveMod`, `RescanMod` and
`Reconcile` are a call on a mod: the window, the scan, the move (one step, which
is what `AtomicBundle` promises), `reconcileResult`'s rescan and
`executeAndReconcile`'s update of the document (one step, `AtomicDocument`).
`RequestFolder`, `PlanFolder`, `MoveFolder`, `CreateFolder`, `DeleteFolder`,
`RemoveTree`, `VerifyFolder` and `ShowFolder` are the calls of `folders.go`, with the
trash of `recycle_linux.go`: one rename on one device, a copy followed by
`RemoveAll` across devices. `CreateTag`, `RenameTag`, `DeleteTag`, `RequestTag` and
`TagMod` are the tag calls; a tag call carries the ID the window showed
(`RequestTag`) and reaches the gate later (`TagMod`). `ForeignFolder` and
`ForeignMod` are other programs. Which calls run together is what
`LibraryScreen.tsx` allows: calls on different mods, a folder call alone, tag
calls at any time.

### Install

A staging directory maps paths to the files they were copied from; the library
maps slots, a destination and an extension, to contents. `CreateSession`,
`StageLoose`, `StageArchive`, `StagingFails`, `Preview` and `CancelInstall` are
`StageFiles`, `StageArchives` and the session manager; `ApplyInstall`,
`Encrypt`, `Strip`, `Plan`, `PrepareMove`, `Copy`, `RemoveCreated`, `ReturnBackup`,
`EndRollback`, `Rescan` and `Clean` are `service_install.go` and `Apply`: one
step per file, since the window may close (`Shutdown`, `CancelContext`) and other
programs may write (`OtherProgram`) between two copies. `EndRollback` keeps a
created folder whose removal fails, which the code does not report. A staged bundle is
encrypted or repaired in one step; what that does inside is `Encryption`.

### Encryption

`live` and `bak` are the contents of each bundle's live files and of the files
parked under `.cratebug-encrypt-bak`. The main goroutine is `Begin` (the plan,
which reads the `.utoc` files only), `SendLoop` or, for the companion cleanup,
`StripLoop`, the rendezvous `Hand`, and `Return`. A worker goes through
`StartJob`, `Stage` (copy, rewrite, verify, in the temporary directory), and
per file `Park` and `Install`; a failure goes through `ReturnParked` and
`Undo`, success through `Drop`. The files of one bundle are swapped in any order
because the code ranges over a Go map. `Kill` ends the process anywhere and the
files stay. **Assumptions**: UAssetTool refuses a damaged file and a `.utoc` and
`.ucas` of different states, a file's copy may end with half a file or none, and
one batch runs at a time (two overlapping ones share a cancel channel, see
below).

### Classifier and conflicts

`mtime` is the time of a mod's `.pak`, which is the key of the cache, and `version`
the content of its `.utoc`, which is what is listed; `ChangePak` and `ChangeUtoc`
replace or remove them one after the other, in either order. `Stat`, `Pool`,
`Submit`, `Collect` and `Return` are `Classify`; `Start`, `Take`, `AskEncrypted`,
`AskPaths`, `RequestFails` and `End` a goroutine of the pool with its process;
`queue` and `outcomes` are the two channels with their capacities. The two
requests of one listing may see different versions when the `.utoc` is replaced
between them. `Crash` and the failing requests kill or lose the process, which
the goroutine replaces. `Close` and `CloseDone` are the shutdown; it keeps no
mark, so `Begin` may follow it. **Assumption**: the tool writes
one line per request; a request it does not answer is ended by the timeout that
kills the process. `Conflicts` follows `detect.go`: the index, union-find, groups
and relationships. `DetectConflicts` runs it for any order of the shared paths.

### Nexus

`StoreLink` and `EmitLink` are `setLaunchURL`, which decides under a lock
whether to emit and emits after it; `Startup`, `EmitStartup`, `Mount`, `Deliver`,
`TakeFirst`, `Take`, `Ingest`, `ShowFirst` and `Show` bring a link to the dialog.
`BeginCall` to `ClearCancel` are `PrepareNexusInstall`, in the order of its
requests, with the signature that is read, used and dropped (`AskLinks`,
`Spend`), the download (`Open`, `Read`), `StageFile` and `Cleanup`. `Read` may end with EOF although the context is
cancelled. In the window, `Source` gives the install dialog something to
install: `Confirm` a link, `Drop` local files, and `Again` the same source when
the folder to install in has vanished from the library. No source waits for an
open dialog to end: it gets the new one, and its effect makes another call
(`shown` are all its calls). `Answer` puts the session of a call into
`sessionRef`, the one session that `CancelSession` cancels when the dialog is
closed; a call whose dialog is gone, or waits for another call, has its own
thrown away (`CancelLate`). `CloseDialog`, `CancelDownload`, `CancelSession` and
`DialogGoes` are `handleCancel`, `Apply` and `Applied` an install, which closes
the dialog whosever it is by then. The history `crossed` holds the calls of a
dialog that had several sources.

### Protocol

`owner` is the handler in the registry or `mimeapps.list`, `previous` and
`optOut` are in the document. Each step of `Launch`, `TurnOn`, `TurnOff` and
`Uninstall` that reads or writes one of them is an action (`Ask`, `Look`,
`OptOut`, `ReadPrevious`, `Status`, `Delete`, `Write`, `Persist`, `Clear`); a
failing `Persist` after a claim goes through the rollback. The document has four
fields for a handler and no place for its other values: `Stored` says what they
keep of each, and a snapshot with nothing to keep is not saved (`Empty`).
`Foreign` is another application, `Quit` the end of the program, also in the
middle of a call. A write or a delete that fails or dies may leave a part of a
handler (`Parts`, `Blank` without any value), a delete also none.

## What the runs check

A run with the expectation `pass` explores every state of its instance.

| Run | Instance | Shows |
|---|---|---|
| `bundle_racing` | 2 callers, 2 calls of 4 kinds on one three-file bundle, another mod, a new file of another program, 1 failing rename, 1 removal, the game; 1.5 M states | `NoFileOverwritten`: nothing is ever destroyed. `SuccessIsWhole`: success means the whole bundle, although the inspection looks at paths and another call may move the same bundle (two calls; three can break it, see below). |
| `bundle_session` | 1 caller, 4 calls of 7 kinds, 2 failing renames, replacing rename; 9 k states | `FailureIsAtomic`, and `AtomicCalls`: the calls implement `AtomicBundle`. |
| `store_gate` | 2 goroutines, 2 changes, 1 restore, 1 damage, 1 failure, 1 kill; 0.6 M states | `Durable`, `AtMostOneLost`, `OneDocument` (implements `AtomicDocument`), and every call returns. |
| `watch_turns` | 3 roots, one of which does not exist, 2 changes, 2 mutations in turn, 2 clicks, 1 fsnotify failure; 0.2 M states | `RootWatched`, `CancelledStaysSilent`, `OwnWritesSilent`, and an uninterrupted change is announced. |
| `restore_company` | a library of a file and a folder, two backups, a file and a folder of other programs under the same names, one each of failure, leftover park, taken entry, cancellation and kill; 0.8 M states | `NothingLost`, `CancelledMeansIntact`, `RetryMeansComplete`, `SuccessIsWhole`, and a restore left alone succeeds. |
| `organize_calls` | 2 mods, 2 folders of which one does not exist yet, 2 calls, 3 tag calls, 1 foreign change, 1 failure; 2.4 M states | `RecordsFollow`: the record of a mod follows it. `FolderResultTrue`: what a folder call returns is what happened. `TagsKnown`: no deleted tag stays assigned, no two tags share a name. |
| `install_apply` | a session of two loose files of one name from two folders, a Nexus archive with an IoStore bundle and a classic mod, an existing bundle, 2 failures, 1 foreign change, shutdown anywhere; 1.1 M states | `StagedComplete`: no truncated bundle is previewed as whole. `OldSafe`: a replaced file is in the library or the rollback directory. `CleanRollback` and `SuccessIsWhole`: the result is what happened; a rollback may leave empty folders of its own. |
| `encrypt_pool` | 2 bundles, one to clean, 2 workers, 2 batches of 3 kinds, 1 failure, 1 kill, cancels anywhere; 0.8 M states | `Recoverable`: a kill never costs a bundle. `ReportsHonest`: each target is reported once, and truly. `CallReturns`: no send waits for a worker that left. |
| `classify_pool` | 3 mods, calls for 1 and 3 of them so that the pool has 2 and 1 goroutines, one during or after the shutdown, a `.pak` and a `.utoc` replaced in either order, 2 failures; 2.5 M states | `ServedFresh`: nothing from before the last `.pak` is served, and no failure remembered. `NoOrphans`: no process is left behind, but by a call after the shutdown. `ConflictsRight`: groups are the classes of linked mods. `ClassifyReturns`. |
| `nexus_links` | 2 links for one file, 2 calls for links or local files, in two dialogs or one, an install, 1 failure; 2.3 M states | `LinkTaken`: no link waits for ever. `NothingLeft`: no directory is left, and no session but those of a dialog that had several sources. `CancelledFails`: a download cancelled in time is not staged. |
| `protocol` | 4 other handlers (two kept whole, one with a value more, one with only such values) and 2 kinds of remains, 2 calls at a time, 5 calls and launches, 2 foreign changes, 2 failures or crashes; 8.4 M states | `OptOutRespected`: a launch never claims what the user turned off. `OwnerReturned`: who lost the handler gets back what the document keeps of it. |

One run has the expectation `violation` and shows, with a short trace, where the
code does something else than its documents say: in `organize_tags` a mod is
tagged while it is renamed. The tag call carries the old ID, is answered after
the rename was reconciled, and makes a record no mod has, against SPEC.md:254
("Tags and metadata must survive controlled renames and moves.") and the
comment at `LibraryScreen.tsx:1739`.

### Further behaviours met while modelling

They are in the models, or where the models stop, but no run is kept for them.

Mutations and metadata:
- An endpoint check that refuses between two moves returns without the rollback
  (`organize.go:255-262`, against SPEC.md:210).
- A rename onto the stem of a disabled mod fuses the two into an ambiguous group
  (`organize.go:235`, against SPEC.md:146).
- Outside Windows, a file created between `move_other.go`'s check and its rename
  is replaced.
- Three overlapping calls can make a success untrue: while a bundle goes from a
  to c, a second call deletes what has arrived at c and a third brings another
  bundle there; the inspection of the first finds its destinations taken and its
  sources gone (`organize.go:273`). `SuccessIsWhole` is limited to two calls
  (`AtMostTwoCalls`) for that reason.
- The game is looked for once, at the beginning of a call (`executor.go:160`).
- A folder that is renamed or moved orphans the metadata of the mods inside
  (`service_organize.go:89-93`).
- A kill between quarantine and self-heal makes the next `Load` start afresh
  beside a good backup (`store.go:117-131`, against its comment); a second fault
  between `updateBackup`'s copy of a damaged primary and the write loses both.
- An update that loaded before a library restore overwrites the restored
  metadata (`restore.go:296`, against `core.go:40-42`).
- The cross-device trash copies and then removes; what is added in between is
  removed too (`recycle_linux.go`).

Watcher and restore:
- Of two overlapping mutations, the first to end resumes the watcher under the
  other (`watcher.go:181`, against `core.go:174-175`); a foreign change in the
  pause or quiet delay is never shown (`watcher.go:357`, against SPEC.md:132);
  `SetRoot` on a path that is a file leaves the old root selected but unwatched.
- With the library on another volume than the temporary directory no restore can
  succeed (`restore.go:101`, `341`, against SPEC.md:141).
- A kill while the park is being removed leaves a part of the old library in a
  park that the next restore refuses (`restore.go:255`, `211`); the new one is in
  place by then.
- When the verifying scan of a restore fails, the library is rolled back and the
  metadata is not; returning a parked entry replaces a file another program put
  there; an entry another program takes during the placement makes the staged
  tree incomplete for a retry.

Install, encryption, Nexus:
- The shutdown removes every session while `Apply` may still copy from one: a
  partial bundle stays in the library (SPEC.md:208).
- A created folder whose removal fails stays, under the report that all "was
  cleanly rolled back" (`apply.go:238-248`).
- `planEncryption` reads the state of the `.utoc` only (`encryption.go:214`,
  SPEC.md:48).
- A second download or encryption replaces the cancel function or channel of the
  first, and the first to end clears it whosever it is (`service_nexus.go:237`,
  `service_pakrepair.go:68`); `dropLinkSecrets` drops a newer signature as well.
- A link whose event meets the window's first request unanswered shares that
  request's promise (`LibraryScreen.tsx:170`) and waits for the next link.

- The install dialog loses a session when it gets another source while it is open,
  by a confirmed link, dropped or chosen files, or because its folder vanished
  (`LibraryScreen.tsx:613-628`, `657-667`, `993`): the second answer overwrites
  `sessionIdRef` (`InstallPreviewDialog.tsx:128`). An install that ends then closes
  the dialog of the other source.
- A dialog closed before its call has registered the cancel function
  (`service_nexus.go:231-233`) cancels nothing: the file is downloaded and staged,
  and its session thrown away at the end. `CancelledFails` is about the calls that
  could be cancelled.

Classifier:
- A `.utoc` replaced after its `.pak` keeps the old answer: the key is the time
  of the `.pak` (`session.go:54`, `142-148`), the listing comes from the `.utoc`
  (`determine.go:85-94`). `ServedFresh` is about the last `.pak`.
- A `Classify` that waits for `Close`, or comes after it, makes a pool that
  nobody closes (`session.go:151-161`).

Protocol:
- The document keeps command, icon, description and desktop file of a displaced
  handler (`service_nexus_protocol.go:82-87`, `173-178`). Its other values are lost,
  and a handler that has only such values is not given back, against
  `urlscheme.go:42-43` and `199-200` ("value-for-value"), which
  `TestUnregisterRestoresValueForValue` checks with the registrar alone.
- A crash between `Register` and the save of the displaced owner forgets it.
- A turning off that fails in the write and is tried again reports success
  without giving the handler back (USER_GUIDE.md:66, TROUBLESHOOTING.md:15, 53).
- The confirmation names an application, the claim takes the handler from
  whoever has it by then.
- Overlapping clicks on the switch may leave opt-out and registry disagreeing.

### Bounds

- Files: a three-file IoStore bundle has every order of a failing or refused
  move (first, middle, last); a second mod gives the collision; one new file is
  enough to occupy one source or destination.
- Callers: two, the fewest that can interleave; two calls each for the races,
  four in sequence for the session, so that calls work on the result of earlier ones.
- Failures: one where a rollback after it must succeed, two in
  `bundle_session` and `install_apply`, so that a rollback fails as well, and in
  `classify_pool`, so that a replacement process fails too.
- Store: two changes let one be in the backup and one not. One damage, failure and kill
  in every order; the proofs are without these bounds.
- Watcher: two changes make a burst, two mutations a turn after the first; one
  writer keeps them in turn. `OwnWritesAreSilent` is proved for any number of each,
  as long as mutations stay in turn.
- Restore: one failure each, together with one cancellation and one kill, and
  two sessions, so that a restore follows an interrupted one.
- Organize: two calls let one mod move to the place the other has left; three
  tag calls create, assign and delete a tag. Its properties are proved for any
  folders, mods, tags and numbers of calls.
- Encryption: two workers and two bundles make two swaps at once, or one bundle
  waiting when the cancel comes; two batches, so that a batch finds what a kill
  or a failed return left. `AlwaysRecoverable` is proved without these bounds.
- Classifier: two calls of different sizes replace the pool; three jobs fill a
  channel of two; one change of each file of one mod is enough to come in either
  order, to be seen by none, one or both requests of a listing, or to be between
  `Stat` and the answer. Its safety properties are
  proved without these bounds.
- Nexus: two links for one file make two signatures compete; two calls, the second
  of which is made in another dialog while the first still runs, or in the same
  one, which then has two sources. `NothingIsLeft` and
  `CancelledDoFail` are proved for any number of links and calls.
- Protocol: five calls and launches make the longest story: claim, displace,
  turn off, launch, turn on. Handlers differ only in what the document keeps of
  them: all, a part, nothing. Both properties are proved without these bounds.

Deadlock is checked in the bundle and store configurations. The others end: their clicks,
changes, calls and sessions are used up, and a system in which nothing is left
to do may stop; that calls do not stop in the middle is what the liveness
properties say.

### Fairness

- Store: weak fairness of a goroutine's steps; strong fairness of `Lock`,
  because a starving waiter of a Go `sync.Mutex` is handed the lock.
- Watcher: the event loop, timers, callbacks, the frontend's handlers and the
  quiet delay go on; a mutation ends and the Tools menu is closed. No fairness
  for the user, for other programs or for events of a replaced watcher.
- Restore: weak fairness of the steps of a running `Apply`; none for the calls,
  the environment or kills.
- Encryption: weak fairness of the main goroutine, of each worker, and of the
  send meeting some receiver: Go runs goroutines that can run. None for the user
  or for kills, which may nevertheless happen.
- Classifier: weak fairness of the caller and of each goroutine of the pool; a
  request that is not answered ends with the timeout.
- Nexus: startup, the window's mounting, delivered events and answered requests
  go on; no fairness for the user, so nobody has to confirm a link.
- Bundle mutation, organize, install and protocol have safety properties only.

## What is proved

TLAPS checks these for every value of the constants under the modules' named
assumptions (`OffDiskAssumption`, `BundleAssumption`, `StoreAssumption`,
`WatcherAssumption`, `ProtocolAssumption`, `EncryptionAssumption`,
`NexusAssumption`, `RestoreAssumption`, `InstallAssumption`,
`OrganizeAssumption`, `ClassifierAssumption`), which say that the special values
differ, the bounds are numbers, which requests exist (only a relocation has a
destination of its own), and what a library, a backup or a selection looks like
at the start: for `Organize`, that folders form a tree and no two folders or
mods share a path, which a file system gives; for the classifier, that the
library, the listings and the pool are finite and calls name some mod. TLC
evaluates them in every run.

Every safety property of the passing runs is stated by a theorem, `RootWatched`,
`OwnWritesSilent` and those of bundles under a hypothesis on the constants.

Four theorems about bundles have the hypothesis `Alone`: one caller, no removals
by other programs and no file still to be created by one (failing renames and
failing rollbacks are allowed). It is a condition on constants that the instance
of `bundle_session` satisfies, and the one under which the documents promise
atomicity: with a second caller or another program a call can stop between two
moves.

| Theorem | States | Argument |
|---|---|---|
| `BundleProofs!TypeCorrect` | `Spec => []TypeOK` | `BundleInv`: `TypeOK`, and the move index is inside the plan at every step that uses it |
| `BundleProofs!NoClobber` | `AtomicMove => (Spec => []NoFileOverwritten)` | `BundleInv /\ NoFileOverwritten`: its last part says that with `MoveFileW` no caller stands between a check and a replacing rename; a rename to a free path keeps paths distinct |
| `BundleProofs!LoneNoClobber` | `Alone => (Spec => []NoFileOverwritten)` | part of `LoneInv`, below, which gives every move a free destination; no `AtomicMove` |
| `BundleProofs!LoneFailureIsAtomic` | `Alone => (Spec => FailureIsAtomic)` | `LoneInv`: the plan of a call is sound and does what is asked (`GoodPlan`), and the disk is the one the scan saw but for the moves made so far (`Moved`); so each move finds its file and its place (`NextMove`), each undo its way back (`LastMove`), and a rollback that ends has none left |
| `BundleProofs!LoneSuccessIsWhole` | `Alone => (Spec => SuccessIsWhole /\ [][Whole]_vars)` | `LoneInv` after the last move, without the limit on the number of calls |
| `BundleProofs!BundleImplementsAtomic` | `Alone => (Spec => AtomicCalls)` | from `LoneInv` each step of the caller is one of ten effects (`StepEffect`): the last move is `Commit` of the whole bundle, a refusal or a finished rollback is `Fail`, a rollback or a trash that gives up is `Damage` of a part of one bundle, the rest stutters |
| `MetadataProofs!StoreTypeCorrect` | `Spec => []TypeOK` | `StoreInv`: `TypeOK`, and who reaches `Save` has something to save |
| `MetadataProofs!StoreImplementsDocument` | `Spec => OneDocument` | `GateInv`: as long as nothing disturbs the store, whoever is between lock and release holds the gate and what it loaded still is the document, so its write is one `Update`; a restore meets nobody behind the gate, so its write is one `Restore`; other steps stutter |
| `MetadataProofs!StoreDurable` | `Spec => []Durable` | from the refinement: an atomic document loses nothing it promised |
| `MetadataProofs!LossIsBounded` | `Spec => []AtMostOneLost` | `LossInv`: with one damage and no other fault, what the next `Load` would find, and what anyone inside `Load` or `Save` carries, lacks at most one acknowledged change; before the damage nothing is lacking but in the backup |
| `LibraryProofs!WatcherTypeCorrect` | `Spec => []TypeOK` | `TypeOK` is inductive |
| `LibraryProofs!CancelledIsSilent` | `Spec => CancelledStaysSilent` | `GuardInv`: every generation given up is below the current one and no timer is ahead of it, so `Valid` refuses it |
| `LibraryProofs!RootIsWatched` | `NotDirs = {} => (Spec => []RootWatched)` | inductive with `TypeOK` once no path is a file |
| `LibraryProofs!OwnWritesAreSilent` | `(\A v, w \in Writers : v = w) => (Spec => []OwnWritesSilent)` | `SilentInv`: with one mutation at a time the pause covers its writing, and its events are pending only in the pause or the quiet delay that follows, so no timer stands for one |
| `NxmProofs!ProtocolTypeCorrect` | `Spec => []TypeOK` | `TypeOK` is inductive |
| `NxmProofs!OptOutIsRespected` | `Spec => OptOutRespected` | `WishInv`: once a request to turn off has reached the registry, the opt-out is in the document, and no launch that read it before is still on its way to the write |
| `NxmProofs!OwnerIsReturned` | `Spec => OwnerReturned` | `DueInv`: unless excused, one call runs at a time, the document names who is due whenever the registry is not being changed, and a call between the two has him at hand; what is given back is what the document keeps of him (`Kept`) |
| `EncryptionProofs!EncryptionTypeCorrect` | `Spec => []TypeOK` | `TypeOK /\ SwapInv`, below: a job names a bundle only because it was handed out |
| `EncryptionProofs!AlwaysRecoverable` | `Spec => []Recoverable` | `SwapInv`: bundles are handed out once each, so two workers never have one (`Handed`); until a worker begins, a bundle is as the call found it (`Fresh`), hence sound when UAssetTool accepts it; in the swap every file is live or parked as it was, and after the last one all are new (`Swapping`). A step of one worker leaves the bundles of the others alone (`Elsewhere`), so each action is proved for its own bundle only (`OwnBundle`) |
| `EncryptionProofs!ReportsAreHonest` | `Spec => []ReportsHonest` | `HonestInv`: what is reported, what is in work and what is not handed out are disjoint and together the batch; a bundle not reported as done and not in work is as the call found it; an undo returns what its swap took |
| `NxmProofs!NexusTypeCorrect` | `NexusSpec => []NexusTypeOK` | `NexusTypeOK` is inductive |
| `NxmProofs!NothingIsLeft` | `NexusSpec => []NothingLeft` | `DownloadInv`: a directory lives only while its call reads, stages or cleans up; a session until its call has answered, and then as long as the dialog that shows it or its install, unless it is crossed (`SessionsUsed`); a dialog with one call holds that call's session and has cancelled it before it goes (`DialogInv`) |
| `NxmProofs!CancelledDoFail` | `NexusSpec => []CancelledFails` | `DownloadInv`: a call that downloads can be cancelled, was stopped, or lost its cancel function to another one (`Cancellable`), so one that was asked to end while it could be was stopped or is displaced (`AskedStopped`) |
| `RestoreProofs!RestoreTypeCorrect` | `Spec => []TypeOK` | part of `RestoreInv` |
| `RestoreProofs!RetryIsComplete` | `Spec => []RetryMeansComplete` | `RestoreInv`: a staged entry is in its tree, or in the root under a name that a rollback returns |
| `RestoreProofs!LibraryIsNeverLost` | `Spec => NothingLost` | `RestoreInv`: the listed library is in the root, parked or taken; no entry of it is in the root while staged ones are placed, and the park is empty when it is first filled, so no rename replaces one; when the park is removed the backup is in its place |
| `RestoreProofs!CancelledIsIntact` | `Spec => CancelledMeansIntact` | `RestoreInv`: a rollback that ends unbroken has nothing in the park; the metadata is written after the last point at which a cancellation is seen |
| `RestoreProofs!RestoredIsWhole` | `Spec => SuccessIsWhole` | `RestoreInv` after the last placement |
| `InstallProofs!InstallTypeCorrect` | `Spec => []TypeOK` | `TypeOK` of `InstallProofs`, part of `InstallInv` |
| `InstallProofs!StagedIsComplete` | `Spec => []StagedComplete` | `InstallInv`: a stem without an issue is staged with all its companions, and an open session offers what is staged |
| `InstallProofs!OldIsSafe` | `Spec => []OldSafe` | `InstallInv` (`Held`): a slot that differs from the start was empty or is in the rollback directory |
| `InstallProofs!RollbackIsClean` | `Spec => CleanRollback` | `InstallInv`: nothing is changed before the plan; then every difference is recorded as created or saved, and in a folder that existed or was recorded (`Undoable`, `Housed`) |
| `InstallProofs!InstalledIsWhole` | `Spec => SuccessIsWhole` | `InstallInv` (`Planned`): each file of each item is still planned or has arrived, and no two go to one place |
| `LibraryProofs!OrganizeTypeCorrect` | `OrganizeSpec => []OrganizeTypeOK` | `DiskInv`: no set of folders is closed under parents, so no folder is below itself, no two folders are in one place (`Tree`) and no two mods (`MovedOnce`); a folder call knows what it was asked for (`FolderShape`) and runs alone (`Alone`), so what it planned still makes no ring |
| `LibraryProofs!TagsAreKnown` | `OrganizeSpec => []TagsKnown` | `TagInv`: `TagsKnown` with `DiskInv`; a deleted tag is taken from every record in the same update, a call on a mod leaves all tags alone (`ModTags`), and a tag call that waited assigns a tag only if it is in the catalog then |
| `LibraryProofs!FolderResultIsTrue` | `OrganizeSpec => []FolderResultTrue` | `FolderInv`: from the plan on, the folder and its mods are where the scan saw them or were touched (`PlannedHere`); a copy that may be removed is complete (`CopiedAll`); after the change the result already holds (`FolderDone`) and nothing is lost (`NoneLost`) |
| `LibraryProofs!RecordsFollowMods` | `OrganizeSpec => []RecordsFollow` | `RecordInv`: unless an ID was reused, each running call knows its mod: before the move the mod has the call's ID, between move and update it has the new one, nothing else has the old one and no record the new one (`CallsKnow`, `MovedAway`); no two records share an ID or an owner (`RecordsApart`, `OwnersRight`) |
| `ClassifierProofs!ClassifierTypeCorrect` | `Spec => []TypeOK` | `TypeOK` of `ClassifierProofs`, with `Counted` |
| `ClassifierProofs!ServedIsFresh` | `Spec => []ServedFresh` | `PlacesInv`: each job of a call is in one place (not submitted, queued, at a goroutine, answered), and the caller waits for as many answers as there are jobs, so a call that returns has settled every mod; `FreshInv`: no job, request, answer or cache entry carries a version from before the one that was beside its `.pak` |
| `ClassifierProofs!NoneOrphaned` | `Spec => []NoOrphans` | `PoolInv`: a process has a goroutine, a goroutine is of the current pool or of one being closed, a new pool is made only when the old one has ended, and after the shutdown only a later call makes one |
| `ClassifierProofs!ConflictsAreRight` | `Spec => []ConflictsRight` | `RootsRight`: after each step of the folds the paths seen so far have united holders (`Kept`), and no set that no path crosses is joined with the rest (`Within`, `Bordered`); so two mods have one root exactly when `Linked` |

The strengthenings are needed because the properties alone are not inductive:
`Durable` says nothing of the document a goroutine is about to write, nor of
who holds the gate; `NoFileOverwritten` holds in states where a caller is about
to make a replacing rename; nothing in `CancelledStaysSilent` keeps an old
timer from carrying a generation still to come; `OptOutRespected` is about a
step, and says nothing of the launch that makes it; `Recoverable` holds in a
state in which the parked copy about to be dropped is the only good one;
`NothingLeft` says nothing while a call runs; `OwnWritesSilent` holds in a state
in which a timer with an event of Cratebug's own is about to fire; `OldSafe` says
nothing of the move that is about to replace a file; `RetryMeansComplete` says
nothing of the restore that will put its session back; `FailureIsAtomic` and
`AtomicCalls` say nothing of how far a plan is; `FolderResultTrue` says nothing
until the call has ended, and `RecordsFollow` nothing while one waits;
`ServedFresh` holds in a state in which a call is about to return with a job
unanswered.

Two proofs need induction over data, which the library's theorems with operator
parameters cannot give here. It is done with sets instead: paths of folders by
sets of folders closed under parents (`Tree`), folds by well-founded induction
on a set of numbers (`Induct` in `ClassifierProofs`, from `WFMin`), with the
existence of each fold proved as well (`FoldExists`). `Linked` is stated over
closed sets of mods for the same reason.

Only model-checked:
- liveness (`CallsReturn`, `ChangesAnnounced`, `RestoreSucceeds`, `CallReturns`,
  `ClassifyReturns`, `LinkTaken`), which with `ENABLED` is out of the prover's reach;
- `SuccessIsWhole` of bundles for two overlapping calls: it holds because two are
  too few, and a proof would enumerate how they overlap.

## Not modelled

- Library backup: one call that writes a zip and removes it when it fails,
  without a state between calls.
- Signature bypass: two files copied with a rollback in one sequential call, the
  pattern of `Install` on a smaller scale.
- Updates: a version check, a verified download and the start of an installer.
- Game detection: read-only parsing of store manifests.
- Secret store, reveal, settings, window: calls into the operating system
  without a state that several steps could spoil.
- Of modelled components: the watcher's single directories (`trackedDirs`) and
  noise files, links and name validation in mutations, the Nexus account, page
  resolution and rate limits, UAssetTool's JSON, which category a listing
  amounts to, and everything the frontend renders.

## Plan

Done: bundle mutation, metadata store, watcher, library restore, organize,
install, encryption, classifier with conflicts, Nexus, protocol. Next:

1. `WatchTree`: `trackedDirs` against the directories that exist.
2. `BackupArchive`: create, cancel, an older backup at the destination; with
   `LibraryRestore` a round trip from library to library.
3. `PayloadInstall`: the signature bypass.
