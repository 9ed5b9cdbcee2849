# Fetcher launcher: specifications, checks and proofs

TLA+ models of the native Windows launcher of this repository (`launcher/src`, C++17), the TLC
configurations that check them, and TLAPS proofs: about the part that everything else rests on, the
journaled replacement of the installed files, up to its refinement of the abstract promise; about
the commands that use it; and about the legacy migration, the launcher's restart, the package cache
and its cleanup, the profiles, the layouts, installers and load order of a preparation, and the
helper with its `nxm` handler. Every safety property that a passing run checks is also proved.

Run `tlc -config X.cfg M` for a run of the table below and `tlapm M.tla` for the proofs.
`PROJECT.json` maps each definition to the lines it models, and lists the runs, the mutants (one
plausible bug per property, which the property's run detects), the findings and the hazards.

## 1. The system

One installation root holds the game client (`openmw.exe` and its files), the launcher itself
with its tools, and `_fetcher_launcher`, the launcher's own state. Several launcher windows,
`FetcherSetup` and the older PowerShell updater may be started on it.

| Component | State | Operations | Interacts with |
|---|---|---|---|
| Install transaction (`install_transaction.cpp`) | the root's files; `rollback/tx-*` with `transaction.json`, `complete.json`, `restoring.json`, `rolled-back.json`, saved copies | install, undo of a failed install, recovery at start, rollback of a chosen update | called by the update command, the bootstrap and every start; reads the inventories; refuses while the game runs |
| Update command (`native_backend.cpp` check and `command`) | `tools.json`, `client.json`; `mStatus`; the PowerShell state file | startup check, check, update, repair, rollbackUpdate, launch | GitHub release (resolve, package), install transaction, profile content |
| Bootstrap (`bootstrap.cpp`) | the same receipts | first installation of tools, then client | install transaction |
| Legacy migration (`legacy_migration.cpp`) | `migrations/trtd-v1/record.json`, configuration backups, the two legacy folders, every `.cfg` of the root | prepare: restore, stage, finish | called at the end of `prepare()`; the user edits the same configurations |
| Package cache (`package`, `layout`, `verifyPackageCache`) | `downloads/`, `packages/`, `layouts/` with receipts | download, unpack, verify, derive a layout | update command, storage cleanup |
| Storage cleanup (`storage_management.cpp`) | none of its own: it reads every saved reference | scan, clean with the scan's token | package cache, profiles |
| Profiles and settings | `settings.json`, the profile catalog, `pending-profile.json`, `previous-profile.json` | select, review, confirm, roll back | master server, update command |
| Preparation and load order | `profiles/<id>/openmw.cfg`, `prepared.json` | prepare, loadOrder | package cache, legacy migration |
| UMO helper (`umo_helper.cpp`) | the tool's folder and its previous copy, the `nxm` registry values and their backup, the credential, the pending download, the cancellation event | install, connect, forget, download, take over and give back the handler, forward a link, cancel | a foreign program, the registry, other applications, the browser |
| Layouts (`mod_layout.cpp`, `fomod.cpp`, `compatibility_patch.cpp`, `game_assets.cpp`) | a stage under `staging/` until it is renamed into the cache | run an installer's pinned choices, copy, move, remove, patch, restore owned assets | package cache, preparation |
| Launcher window (`main.cpp`, `launcher_runtime.cpp`) | the worker, the busy flag, staged copies | command, restart handshake, stage cleanup | all of the above |
| Platform layer (`native_platform.cpp`) | the named mutex of the root | `InstallLock`, `assertGameStopped`, `writeAtomic`, download, ZIP | all of the above |
| Ping, manifests, archive codec | none | validation or I/O | |
| PowerShell updater, build and publishing scripts | their own state file; the release | | the release assets |

**What is hard.** The process may die between any two writes, and a write may fail because
another program holds the file; what is on disk then is all that the next start knows. The same
undo code serves three callers: recovery, a failed install and a rollback that the user asks for.
Several records describe one fact (the files, their inventory, the receipt, the other updater's
receipt, the status shown) and are written at different times. The publisher replaces release
assets in place, while commands run. The user edits files and configurations at any time. Windows
share a root but not their memory. The list of hazards, each at its line, is in `PROJECT.json`.

**What makes each part correct.**
- Transaction: at most one transaction waits for recovery; whatever waits can be undone; nothing
  is a mixture of builds once nothing waits; no edit is destroyed; protected paths and a running
  game are left alone; seen through recovery, installs and rollbacks are atomic.
- Update command: what it calls current was really published and is really installed; a repair is
  exact; updates arrive in the end.
- Migration: customised files and edited configurations survive; no configuration is left naming
  a folder that was moved away; nothing that is still named is removed; it ends.
- Cache and cleanup: an entry with a receipt is complete; nothing referenced is removed; an
  interrupted removal or unpacking is repaired by the next command.
- Profiles: Play uses what the server advertises now; the selected profile exists; profile and
  server belong together; no stale list or revision blocks Play for ever.
- Preparation: a layout holds what was named, all of it, and loses nothing that was not; an
  installer's output is what its pinned choices call for; the plugins get a usable order exactly
  when there is one and they are within the code's limits.
- UMO: a copy of the tool that worked is not lost by an install; the handler that the user had
  is in place or saved; a cancellation ends the command in progress.
- Window: no stage in use is removed; a window ends only for a new one that shows a whole build;
  no restart hangs or keeps the lock; the page follows the worker.

## 2. Plan

In this order; what is done says so.

1. `InstallTransaction`, with `AtomicInstall` as its abstract specification and
   `InstallTransaction_proofs`. *Done.*
2. `UpdateCommand`, which composes check, update, repair, setup, rollback and launch with
   `AtomicInstall`'s steps. *Done.*
3. `LegacyMigration`. *Done.*
4. `ManagedCache`: the package cache and the storage cleanup on the same state. *Done.*
5. `LauncherApp`: starting, staged copies and their cleanup, worker and page, restart with its
   handshake. *Done.*
6. `Profiles`: discovery, settings and catalog of two windows, each with its copy in memory;
   review, confirm, previous profile, Play. *Done.*
7. `UmoTool` with proofs in `Preparation_proofs`: the renames of the helper, the registry values of the `nxm`
   handler, the supervised adapter and the browser callback. *Done.*
8. `LoadOrder` with `Preparation_proofs`: the walk of `loadOrder()` against a reference definition.
   `ModLayout`, `Fomod` and `PackageLayout`: what `layout()` does to its stage. `Preparation`
   composes them. *Done.*
9. The PowerShell updater on the state of `UpdateCommand`, once the native commands are proved.
10. Proofs: the transaction and its refinement of `AtomicInstall`, then `UpdateCommand`,
   `LegacyMigration`, `LauncherApp`, `UmoTool`, `LoadOrder`, `ManagedCache`, `Profiles`, `ModLayout`
   and `Fomod`. *Done: every safety property that the passing runs check.*

Item 9 is what is left.

## 3. Modules

### InstallTransaction
`files` is the root as a function from paths to contents; contents stand for hashes, because the
code compares hashes exactly where the model compares contents. A retained directory is a record
of `backup`: the journal in its order, the copies and the four marker files. `op` is the command
that holds `InstallLock`, with the step it has reached; there is at most one, since the lock is
taken with a zero timeout. `running` are the windows whose start succeeded, `game` whether
`openmw.exe` of this root runs.

`Open`, `Install` and `Rollback` begin a command. `RecoverNext`, `RecoverRefused` and `RecoverDone` are
`recoverInstallTransactions`; `Plan`, `WriteJournal`, `ApplyFile`, `Commit`, `ApplyFails` and `Abandon` are
`installTransaction`; `Validate`, `Refuse`, `MarkRestoring`, `RestoreFile`, `RemoveReceipt` and
`MarkRolledBack` are `restore()`, wherever it is called from; `WriteReceipt` is the caller's write
of `tools.json` or `client.json`. Each write to disk is a step of its own, and `Crash` is enabled
between any two. `WriteFails` ends a command at a write that failed.

The order of `backups()` (by directory name, so client before tools) is `Precedes`; the order of
the dropped files is any order. `Environment` says what may go wrong besides crashes: `locked`
(writes fail), `damage` (retained copies rot), `editDuring` (edits while a command works),
`rollbackOverPending` (a rollback is asked for while an interrupted update waits). Rollback over
a pending update is what the code does not handle, see section 6.

Copying the old files into the new directory is one step with `Plan`: nobody reads the directory
before `transaction.json` exists.

### AtomicInstall
The promise: an install replaces its files at once and adds a snapshot, a rollback puts a snapshot
back at once and is refused when a file was changed since, and the user edits files. There is no
crash and no journal. `InstallTransaction` implements it under the mapping `SettledTree` (each file
as recovery would leave it: a pending transaction counts for nothing until it is complete) and
`Snapshots` (the completed updates that no rollback has begun on).

### UpdateCommand
The tree and the snapshots of `AtomicInstall`, and around them: `published` (the asset under each
release tag), `receipt`, the command in progress `op`, `status` (the `mStatus` of each window),
`offered` (the builds published while the command ran: history, not code) and `game`.

A command resolves the tools and then the client; where it finds one outdated and may install,
`Package`, `Replace` and `WriteReceipt` follow. `Package` resolves again, as `package()` does;
`FetcherSetup` downloads the asset it resolved. `Report` closes a check or an update. A crash or a failure may come at any
step. `Replace` is `AInstall`, which the refinement justifies (`InstallsAreAtomicCorrect`, `install_live`). `LegacyDigest` is what
the PowerShell updater recorded; no native step changes it. Whether the packages of the profile
are complete is a free choice in a check; an update has either prepared them or failed.

### LegacyMigration
`old` and `retired` hold the two legacy folders, `configs` the game configurations (whether their
data lines name the legacy content, and whether the user has edited them), `saved` the numbered backups,
`record` the journal and `op` the command. `Prepare` starts where the journal's phase says.
`Restore...` is the restore of an interrupted stage, `Scan` to `MarkStaged` the stage,
`Undo...` its exception handler, `FinishCheck` to `MarkFinished` the removal. The preview and the
stage's own scan are one step, because the stage compares the preview's token before it writes.
`Stop` is a crash or an exception anywhere outside the handler. The refusal while the game runs is
`Prepare` not being taken.

### ManagedCache
`archive`, `entry`, `catalog`, `previous` and `config` are what is on disk: the downloads, the
packages and layouts with their receipts and the state of each file, the profiles that are saved,
and the data lines of the generated configuration. `memory` and `preview` are what a window knows:
its catalog and the preview of its last scan. A file of an entry is "same", "changed" (other size or time),
"decayed" (size and time kept, bytes not) or missing, which are the cases that `verifyPackageCache`
and the cleanup tell apart.

`Prepare` to `WriteConfig` is `prepare()` and what calls it (update, repair, launch); `Package...`,
`Download`, `Stage`, `Extract`, `RemoveOld` and `Place` are `package()`, `LayoutHit` to `Derive`
`layout()`. `Accept`, `Return` and `WriteCatalog` change what refers to the cache. `Scan` is the
preview, `Clean` checks the token, `RemoveArchive` and `RemoveEntry` remove one file after the other.
`Fails` and `Reopen` end a command anywhere.

### LauncherApp
A stage bears the name of the process that is started from it. `root` is the launcher's executable,
its interface and what the inventory says of them; `journal` is what recovery would put back, so
`ReplaceExe`, `ReplaceUi` and `ReplaceFails` are an `InstallTransaction` seen at two files:
an undo puts back `Restored`, and refuses over an edit that the journal does not have (`Spoiled`). `proc` has
for each process its phase (a launcher in the root, one that boots from a stage, an open window,
one that closes, a message box) and the step of its main or its worker thread.

`OpenRoot`, `Sweep`, `SweepDone`, `CopyExe`, `CopyUi` and `Spawn` are a start from the root; a staged
process does `Sweep`, `Recover`, `Open`, `Ready`. Both `Recover` (in `wWinMain`, which starts the root's
launcher again when it restored something) and `Open` (the `Backend` of the window) take the lock and recover;
each ends in an error when the lock is taken, over a `Spoiled` transaction, and when it fails
(`RecoverFails`: the game runs, a file is locked). `Command` starts the worker, `Reply` is the return
of that call as the page sees it, `Finished` is `action-complete`. `Compare` to `AwaitFails` are the
worker's comparison and `RestartLauncher`. The directory's order makes cleanup remove the
executable first, which fails while it runs; that is why a stage in use stays whole, and the
mutant of `RunningStageWhole` is the other order.

### Profiles
`advert` is the master's list with the revision that each server advertises; a revision stands for
document and digest. `catalog`, `settings`, `pending` and `previous` are the four files, `window` the
memory of each window (catalog, settings, review, `mServers`), `op` the command that holds the lock,
`game` what the game was started with. Revision 0 is a built-in or imported profile.

`Play` is `launch` up to its discovery; `ReadList`, `ReadManifest`, `DigestMismatch`,
`NoLongerAdvertised` are `syncDiscoveredProfile` and `discoveredProfile`, `KeepPrevious`,
`SaveCatalog` and `SaveSettings` the writes of `acceptProfile`, each a step, and `Prepare` and `Launch`
the rest. `Select`, `Choose`, `Review`, `Confirm` and `Return` are the commands of the player; a command
that changes memory before its first write does so when it begins. After `Fails` the window keeps what
it had in memory; after `Crash` it reads the files again with `Open`, at any time, even while another
window's command is between two writes. The status that may forbid Play is `UpdateCommand`'s,
the packages are `ManagedCache`'s. A source's manifest does not change its server.

### StagedTree, ModLayout, Fomod, PackageLayout
`tree` is a folder under `staging/`: a function from paths to contents, `Dir` or `None`; names are
without case, as the code compares them. `StagedTree` has what the two writers of such a tree share.

`ModLayout` is `applyModActions`: `act` is the operation that was begun last, `todo` the entries that
`copyTree` has still to copy, `before` the tree when it began (history, for the property), `left`
how many operations may follow, `layout` whether the stage is open, placed or given up. `CopyOne` is
one entry, in any order in which a folder comes before its contents, which is all that
`recursive_directory_iterator` promises; the other operations are one step, because the stage is
dropped when one fails. A patch is the contents that it wants and those it makes. `Publish` is the rest
of `layout()`: a stage that is empty or holds a program is not renamed into the cache.

`Fomod` is `installFomod` on the parsed installer `job`: `Hidden` and `RunStep` take one installation
step, `Conditional` queues the conditional files and sorts, `Write` writes one entry, `Finish`
refuses an installer without output. `files` is the queue, `flags` and `consumed` what the steps leave.

`PackageLayout` is `Backend::layout`: an installer or a copy of the package fills the stage, the
operations run on it. A package without either, or with a verified layout, goes straight through.

### LoadOrder and Preparation
A `request` is what `prepare()` hands to `loadOrder()`: the server's content, the enabled local mods,
and for each data folder the masters in the header of each plugin that it has, or `Broken` where
`masters()` refuses the file. `Index` is everything before the walk: the limit on plugins and the form of
their names (`WithinLimits`; `Unsafe` are the names that are not the name of a file), each name once
(`Distinct`), each plugin found, readable, and with all its masters (`Present`). `color` and `order` are the
code's, `stack` stands for the recursion of `visit()`;
`Start`, `Descend`, `Pass`, `Place` and `Cycle` are the walk, `Compare` is the comparison in `prepare()`
with the server's own order. `Preparation` puts the walk behind the layout of a package: a
package that fails ends the preparation before any plugin is ordered.

### UmoTool
`tool`, `previous` and `stage` are the three places of a copy of the helper, each `None`, "partial" or
"whole"; `registry` has the three values of the handler, `backup` the file that keeps the earlier
ones; `pending` is the file whose link the adapter awaits, `cancelled` the event, `op` the command
with its step. `foreign` and `mixed` are history: what other applications last registered, and whether
one replaced the command alone while the rest was Fetcher's.

`Extract` to `Clean` are `installUmo`, one step per rename or removal with its two catch blocks.
`Register` is the three writes of `umoProtocol(true)`, `Restore` those of its recovery and of
`umoProtocol(false)`, each of which may fail. `Ask`, `StopWaiting` and `TimeOut` are `downloadUmo` and the
wait in `runAdapter`; `CallbackReads` and `CallbackSends` are `forwardUmoLink`, a process of its own that
takes no lock, between reading `pending.json` and connecting. `TakeOver` is another application,
`Damage` a copy whose files change, `Crash` the end of the launcher and, with its job, of the adapter.

## 4. Runs

All passing runs together fire every action. Bounds are small because the control depends on
whether two things are the same, not on how many there are: two builds that differ in a replaced,
an added and a dropped file, and a third build to make a second update differ from the first.

| Run | Instance | Shows |
|---|---|---|
| `install_crash` | 2 windows, builds c1 c2 c3 t1, 3 transactions, failing writes, edits while a command works, game | types; `SinglePending`, `PendingRecoverable`, `SettledIsWhole`, `ProtectedUntouched` (c1's inventory lists a protected path) |
| `install_live` | 1 window, c1 c2, 2 transactions, failing writes, edits, one damaged copy | `EditsKept`, the refinement `InstallsAreAtomic`, `RestartRecovers` |
| `stranded_install` | as above, and a rollback over a pending update | refutes `PendingRecoverable` (section 6) |
| `update_safe` | 1 window, 2 client and 2 tools builds, 1 publication, failures, edits | types; `CurrentWasOffered`, `RepairedIsExact`, `UpdatesArrive` |
| `migration_safe` | 2 folders of 2 listed files and one foreign path, 2 configurations, crashes, edits | `StagingRestorable`, `ConfigsResolve`, `CustomFilesKept`, `ConfigEditsKept`, `MigrationEnds` |
| `migration_relinked` | 2 folders of 1 listed file, references and folders that come back | `RemovedUnreferenced` |
| `cache_safe` | 1 window, 2 archives and a layout of both profile versions, failures, one file that rots or is changed | types; `ReferencedKept`, `ModifiedKept`, `LaunchedOnComplete`, `CacheHeals` |
| `repaired_layout` | as above | refutes `RepairIsExact` |
| `launcher_safe` | 3 process identifiers, 2 builds of which one acknowledges, one further start, one update, one crash, edits of the interface, failing replacements and recoveries | types; `RunningStageWhole`, `HandoffIsWhole`, `EditOutlivesRecovery`, `RestartArrives` |
| `profiles_safe` | 2 windows, 2 servers, a built-in and an imported profile for one of them, 3 commands besides Play, one change of what is advertised, one failure or crash | types; `SelectedExists`, `PlaysAdvertised`, `PlayArrives` |
| `preparation_safe` | 3 plugins under 7 profiles, one with a plugin too many and one with a name that is no file name, 9 headers each, one of them broken, a second data folder that may shadow one; 3 package trees under every pair of 156 operations; 1,152 installers of 2 steps with their choices | types; `OrderIsExact`, `LayoutIsExact`, `FomodIsExact` |
| `umo_safe` | 1 other application, 2 files, 1 crash, 2 take-overs, failing steps, a damaged copy | types; `HandlerRestorable`, `HelperKept`, `CancelEnds` |

Every bound is a constant or a named definition: `MaxTx` (transactions made), `MaxBackups` (the
code's 512; 8, never reached), `MaxReleases` (publications), `MaxEdits` (files of the cache that
somebody touches), `MaxOpens`, `MaxCommands` and `MaxCrashes` (what happens to the launcher besides
clicks on "Restart launcher"), and process identifiers, which are used again. One retained copy
may be damaged: recovery stops before it writes, so a second one
changes nothing. Three transactions let an older and a newer update be rolled back in either order.
Windows of `install_crash` are symmetric and declared so. Where commands exclude each other by the
lock and windows share only the disk, one window is enough; `UpdateCommand` and `ManagedCache` keep
a status, a catalog and a preview for each window, and their runs have one window: what
two windows do to each other's saved profiles is the subject of `profiles_safe`. Its `MaxChanges` (3)
lets a window import and accept a manifest while another, which was opened before, selects a server and saves its
older catalog; `MaxPublish` and `MaxMishaps` (1) let one revision change and one thing go wrong
anywhere in that. Play is not bounded. Three process identifiers
are a window, the launcher it starts, and a third that is opened beside them and cleans up.
`launcher_safe` has one update, so what it leaves interrupted is undone by another launcher's recovery; a second update
that undoes it (`ReplaceExe`) is covered by the proofs of its properties, which bound nothing. The
second tools build of `update_safe` is there so that the order tools-then-client matters.
`preparation_safe` looks at every request of its instance, cyclic, absent and shadowed masters
among them; three plugins are the least that have a cycle longer than two and a server order that a
local mod contradicts. `MaxPlugins` (3, the code's 1024) is reached by these and exceeded by one profile
of four, three of the server and a local mod. Paths have at most `MaxDepth` (3) names of two, operations name
paths of at most two, and an operation whose result would not fit is not begun (`InBounds`),
nor is an entry put deeper (`Write`); `MaxEntries` (8, the
code's 100,000) is reached by copies. `MaxActions` (2) lets an operation meet what another one left.
No operation follows an installer there (`MaxAfterFomod` 0): they see a tree, wherever it comes from.
Since a failed layout orders nothing and the order does not depend on the layout, one that
is placed is followed by a small set of requests (`BriefRequests`), and all requests follow a
package that needs none. `MaxTakeOvers` (2) of `umo_safe` lets an application register before the
launcher takes over and again afterwards; `TakeOver` happens between commands, as the edits of the
other modules do. One crash is enough for the handler, whose commands begin from what is on
disk; `Preparation_proofs` has any number of both.
`CHECK_DEADLOCK FALSE` is set for the run of `LauncherApp`, where all windows may be closed.

**Fairness.** `WF_vars(CommandStep)`: a command that holds the lock runs on its own thread and
waits for nobody. `LauncherApp` has `WF_vars(Worker(p))` and `WF_vars(Main(p))` for the two threads of a
process; that a page ever gets ready (`Ready`) is not among them, since the code has a time limit
for just that. `UmoTool` has `WF_vars(CommandNext)`: the worker of its command
goes on, and the adapter that it waits for is bounded by the 20 minutes of `runAdapter`; that the user clicks, a link arrives
or a wait times out (`TimeOut`) is not assumed, so that `CancelEnds` rests on the cancellation alone.
The layout and the load order are safety only. Nothing else is fair: not crashes, not failures, not the user, not the publisher.
The liveness properties say what they need from outside as premises: failures and edits end, the
game is closed, the user opens the launcher (or updates, prepares, clicks) again and again, stated
as fairness of that action where a command that hangs must count as a violation.
`RestartArrives` counts failing recoveries among what ends, and an installed launcher that is not what its
inventory says as outside its promise (`Verified`). It also assumes that no page is stuck (`PageFollowsWorker`), which is not always so
(section 6); `PlayArrives` assumes that no selected server has withdrawn its profile (`Playable`).

## 5. Proofs

Eight proof modules; the constants are arbitrary (any number of builds, paths, windows, launchers,
folders, transactions, crashes and so on), where nothing else is said every `Environment` is
allowed, and every inductive invariant was checked by TLC before it was proved.

| Property of a run | Theorem | Needs besides the assumptions on the constants |
|---|---|---|
| `TypeOK` of `InstallTransaction` | `TypeCorrect` | |
| `SinglePending` | `SinglePendingCorrect` | `SafeEnvironment` |
| `PendingRecoverable` | `RecoveryCorrect` | `SafeEnvironment`, no `damage` |
| `ProtectedUntouched` | `ProtectedUntouchedCorrect` | |
| `EditsKept` | `EditsKeptCorrect` | `EditsBetween` |
| `InstallsAreAtomic`, `SettledIsWhole` | `InstallsAreAtomicCorrect`, `SettledIsWholeCorrect` | `SafeEnvironment`, `EditsBetween` |
| `TypeOK` of `UpdateCommand`, `RepairedIsExact` | `TypeCorrect`, `RepairedIsExactCorrect` | |
| `CurrentWasOffered` | `CurrentWasOfferedCorrect` | `NewerOnly` |
| `CustomFilesKept`, `ConfigEditsKept`, `RemovedUnreferenced` | `...Correct` (and, of no run, `TypeCorrect` of `LegacyMigration`) | |
| `StagingRestorable` | `StagingRestorableCorrect` | no `reinstall` |
| `ConfigsResolve` | `ConfigsResolveCorrect` | no `relink` |
| `TypeOK` of `LauncherApp`, `RunningStageWhole`, `HandoffIsWhole`, `EditOutlivesRecovery` | `TypeCorrect`, `...Correct` | |
| `TypeOK` of `ManagedCache`, `ReferencedKept`, `ModifiedKept`, `LaunchedOnComplete` | `CacheTyped`, `...Correct` | |
| `TypeOK` of `Profiles`, `SelectedExists`, `PlaysAdvertised` | `ProfilesTyped`, `...Correct` | |
| `PrepareTypeOK`, `OrderIsExact` | `PrepareTyped`, `PreparedOrdersAreExact` (of the walk alone: `LoadOrderIsExact`) | |
| `LayoutIsExact`, `FomodIsExact` | `LayoutsAreExact`, `FomodsAreExact` | |
| `TypeOK` of `UmoTool`, `HandlerRestorable`, `HelperKept` | `HelperTyped`, `HandlerIsRestorable`, `HelperIsKept` | |

The hypotheses name what is known to go wrong otherwise, and the runs that check the property
satisfy them. `SafeEnvironment`: no rollback is asked for while an interrupted update waits
(`stranded_install` shows what happens then). `damage`: a copy that rots cannot be put back.
`EditsBetween`: while a command works nobody changes a file that a package may replace, which the
code compares first and replaces afterwards (section 6); other files may change at any time.
`NewerOnly`: the publisher does not put an older asset back (section 6), and what the PowerShell
updater recorded is no newer than what is published. `reinstall` and `relink`: a folder that is
installed again beside its moved copy, and a reference that is written again by hand, are refused
or found by a later command, and the two properties say nothing of them.

**Assumptions on the constants.** TLC evaluates each on every run of its module. `IdentityAssumption`,
`CommandAssumption`, `MigrationAssumption`, `NoneAssumption`, `LauncherAssumption`, `CacheAssumption`, `TreeAssumption`,
`PackagesAssumption`, `BriefAssumption`, `RequestAssumption`, `HeaderAssumption`, `LimitAssumption` and `UmoAssumption` are types and names
that differ. `ProfilesAssumption`: an identifier is "remote-" or "server-" with a digest, or a built-in one, which has
neither form. `OperationAssumption` is what `normalizeModActions` lets through, `InstallerAssumption` what
`validateTree` does: the names of one list differ, an order is one of three, a priority is a number. `BuildAssumption` and `PackageAssumption` say what a package is: it contains its inventory
(`scripts/Build-FetcherTesterTools.ps1` writes it, and the code refuses a package without), the inventory lists
every file that an install may replace with its hash, and so two packages with the same inventory
are the same. `KindAssumption`: client and tools have no path in common, since
`release-root/fetcher-client-protection-policy.json` protects the paths of the tools from the
client, and each may replace its own inventory. `EditAssumption`: what a user
writes differs from what is published, and nobody edits an inventory by hand. `RootAssumption`: the first
launcher finds for each kind a whole build or none, with the user's edits on it; and in `UpdateCommand`
the PowerShell updater recorded the client that it had installed
(`release-root/Update-Fetcher-Simulator.ps1:1544-1548`, `1633`).

**`InstallTransaction_proofs`.** `PendingRecoverable` is not inductive: that a file of a pending
transaction has the old or the new bytes says nothing about the next step. `Inductive` adds that
each journal has one record per path and copies of what it replaces (`JournalsSound`), that a
completion marker implies a journal, that there is only one pending transaction (with two, restoring
one could spoil the other), that all its files are known (`PendingKnown`), and what each step of a
command knows of the transaction it works on (`StepSound`), for instance that nothing is pending
while an install plans. Where copies may rot, only those of the transaction that a command has
validated are known to be sound.

**`AtomicInstall_proofs`.** `PromiseKeepsRootWhole`: `ASpec => []AWhole`. That the files of a kind
belong to one build does not survive a rollback by itself: `AInductive` adds that each snapshot is an
update of one build over one build or none (`UpdateOf`), and that the inventory tells which of
them the root is, so that putting back what fits the files of now gives what was whole then.

**The second half of `InstallTransaction_proofs`.** Four layers on top of the two. `JournalsFormed` (records within `Allowed`, once each,
with no bytes of the user's) needs no assumption on the environment and gives
`ProtectedUntouchedCorrect`. `Progress` says at each step which files of the journal are new and
which are old (before and after `op.at`), which `EditsBetween` makes true, and gives
`EditsKeptCorrect`: what is replaced is what was compared. `Update` says that until it is committed the
journal is exactly the update of the settled root that `AtomicInstall` would make; the
refinement then goes step by step: `Commit` is `AInstall`, `MarkRestoring` of a completed transaction is
`ARollback`, an edit is `AEdit`, and everything else, recovery and undo included, is a stutter. `SettledIsWholeCorrect`
carries `AWhole` back through the mapping. `InstallTransaction` is the only one to write files
in the code, so this is what `UpdateCommand` may build on.

**`UpdateCommand_proofs`.** `RootStaysWhole`: its steps are steps of `AtomicInstall` (`ASpec`), so the root is whole.
`RepairedIsExactCorrect` needs `CommandSound`, what a command has found or done at each step: what it
counts as current is installed and exact, and since it holds the lock only edits, which wait for its end, could
change that. `CurrentWasOfferedCorrect` needs `Ordered`, an argument about age: a record that does not
tell what is installed names a superseded build (`RecordsSound`); so does the PowerShell record, unless no
snapshot could bring it back (`LegacySound`); and a command that has resolved installs nothing older than
any record (`CommandOrdered`).

**`LegacyMigration_proofs`.** `MInductive` relates the journal, the backups and the two places of each folder:
the phase fixes which folders may be retired (`RetiredByRecord`), an open stage has the backups of
its own configurations (`JournalSound`), and each step knows how far it is (`WriteSound`: the first
`at - 1` configurations are rewritten, the others not; `RemoveSound`: no configuration names the old folders
and what is listed for deletion is unchanged). `InOnePlace` and `Referenced` are the two parts that
`reinstall` and `relink` break. `CustomFilesKept` is proved for every step, those of other actors included.

**`LauncherApp_proofs`.** A sweep, a copy and a start go on at the same time in several
processes, the first start without the lock. `Inv` is one invariant of all of them: no two processes prepare
the same stage and nobody runs from it yet (`ChildrenApart`); the lock is held by exactly the step
that should (`LockFits`); a copy that is complete has its interface as long as it has its executable,
because a sweep takes the executable first and then cannot start it (`CopyFits`); a launcher that is awaited runs what
was verified (`Shows`); a live one has both files (`ActiveFits`). The parts take the functions as
parameters (`Fits(P, S, L)`), so that the steps of two processes at once (`Spawn`, `Recover`, `Ready`) are proved as two changes of one.
`EditOutlivesRecovery` goes through the steps that write `root`: whoever puts back `Restored` has seen that it is
not `Spoiled`, and then the edit, if there is one, is in the journal.

**`ManagedCache_proofs`.** For any number of windows, packages, layouts, versions and files, and any environment.
`LaunchedOnComplete` is not inductive: that the packages of a profile are complete when the game starts rests on what
each pass of `prepare()` left behind. `Inductive` says so for every step: the definitions
before the one at hand are usable, in a repair also verified, and what is replaced now belongs to none of them
(`PreparedSoFar`; an archive or a package that two definitions share is usable at the second one and is
not fetched again); a command knows whether it is in the first loop of a repair (`CommandSound`); and a
cleanup has left to remove only what no saved file needs and what its receipt lists unmodified
(`CleaningSound`), which gives `ReferencedKept` and `ModifiedKept` for each removed file.
`RepairIsExactWithoutRot` is about the property that `repaired_layout` refutes: where no file decays unseen it
holds, by `Undecayed`, that what differs from the pinned bytes shows in size or time.

**`Profiles_proofs`.** For any number of windows, servers, manifests and built-in profiles.
`SelectedExists` speaks of one window; a command takes what another window saved, what a review left, or an
older revision. `Sound` holds because an identifier belongs to one server for ever (`Home`): every catalog, in memory or
on disk, names no profile twice and has each at home, settings select a profile with its server, and what is kept as
the previous revision is of the same identifier. `PlaysAdvertised` adds what a launch has seen: at each
step from the acceptance of a revision on, that revision is among those advertised since the launch began.

**`Preparation_proofs`, the order.** For any set of names and any requests.
- `LoadOrderTyped` and `MastersComeFirst`: once `Index` accepted the request, every master has a position;
  what is placed is coloured 2 and nothing else is, nothing is placed twice, and each call on the stack has placed
  the masters that it has passed (`Walk`).
- `AcceptedOrdersAreUsable`: when the walk is over every position is coloured, so the order has them
  all, each once.
- `LoadOrderIsExact`: the other half, that what is refused exceeds the limits or has no usable order. A usable order gives each
  plugin a rank that falls from a plugin to its masters and along the server's list (`Rank`). As long as
  there is one, `Index` accepts what is within the limits, since a usable order has a readable header for each
  plugin; ranks fall along the stack (`Falling`), so `Cycle` cannot happen; and a
  plugin of the server is placed only after those before it (`ServerFirst`), so `Compare` finds the
  server's order. `Compare` filters a list by a recursive function of the community modules; what it keeps is proved by
  induction along the set of its steps (`Upwards`).
- `PrepareOrders`: a preparation is the walk with steps before it that leave it alone.

**`Preparation_proofs`, the stage.** For any names, depth, packages, operations and installers.
- `LayoutsAreExact`: an operation that is done in one step is exact at once; for a copy `StageInv` says what is
  there already and what is still to come (`Copying`), for every order in which `CopyOne` may take the entries and with the
  folders that it makes on the way.
- `FomodsAreExact`: `FomodIsExact` speaks of the end alone, and of flags and choices as a pure function of
  which steps were shown. `InstallerSound` says at each step that the selections used are exactly those of
  the earlier steps that the flags before them show (`Used`); that the flags are those that these leave; and that the
  queue has what is chosen of the parts so far, one part after the other (`Queued`). A step that is shown uses only its own selections, since the names
  of steps differ (`UsesOwn`), so nothing earlier changes. Sorting is stable (`SortIsStable`): of equal priorities the later part
  stays later (`Ranked`). What is joined of the queue has every entry of every directive in that order (`FlattenJoins`),
  and each entry overwrites the earlier ones of its path (`Placed`), so the last stays, which is the highest bid.

**`Preparation_proofs`, the helper.** For any applications, files and environments, any number of crashes and take-overs.
- `HandlerIsRestorable`: the property speaks of the command and of all
  three values in two cases; the invariant `HandlerInv` adds that, while enable, its
  recovery or disable is in progress, the backup holds what was replaced (`Saved`), and which of the
  values a restoration has already put back (`Written`). The command is the first that is written and the last that is given back,
  so what the next command reads (`HandlerOwned`) tells which of the two is the case.
- `HelperIsKept`: `ToolInv` says for each step of an install which places hold a
  whole copy when the install began over one.
- `HelperTyped`: needs both and `SessionInv`, which ties the pending file to the download in progress.

**Model-checked only.** Liveness (`RestartRecovers`, `UpdatesArrive`, `MigrationEnds`, `CacheHeals`, `RestartArrives`,
`PlayArrives`, `CancelEnds`) and what it rests on, `ENABLED`, are out of the prover's reach. The two
properties that a run refutes are proved under the hypotheses without which they fail: `PendingRecoverable`
(`RecoveryCorrect`) and `RepairIsExact` (`RepairIsExactWithoutRot`).

## 6. Findings

Each is a run that TLC refutes.

| Run | What the trace shows |
|---|---|
| `stranded_install` | An update and its undo both fail on a locked file; the user then rolls back an older update; the files now match neither side of the pending one, and every later start refuses. `restoreInstallBackup` does not recover first, as `installTransaction` does. |
| `repaired_layout` | A layout that was derived from a package after the package decayed on disk records the decayed bytes as its own, and survives a repair that extracts the package afresh. Where nothing decays unseen a repair is exact (`RepairIsExactWithoutRot`). |

The properties of these runs that also appear in passing runs hold there under an `Environment`
without the one event concerned.

Seen while modelling, and not a run:
- `check()` takes the client for current when `fetcher-update-state.json`, which a native install does not
  refresh, names the published asset (`native_backend.cpp:889`). The PowerShell updater once recorded
  c1, the native updater installed c2, the publisher puts c1 back: c2 passes for current, although
  "rollback means rebuilding a known-good commit and replacing the affected release assets together.
  Installed users continue launching the same updater BAT file." (`README.md:114`)
  TLC refutes `CurrentWasOffered` when "republish" is added to the
  `Environment` of `update_safe`, which is why that run leaves it out.
- An interrupted deletion of legacy folders never resumes once a migrated configuration was edited, and
  cannot be restored either (`legacy_migration.cpp:357`), although "interrupted deletion resumes
  automatically" (`launcher/LEGACY-TRTD-MIGRATION.md:16`).
- Another application replaces the command alone of Fetcher's handler, as
  `tests/umo_registry_fixture.cpp:75` has it; enabled again, the launcher saves its own description and
  protocol as the "prior values", and disabling gives those back, although
  `launcher/UMO-HELPER.md:47` says that it "retains the exact prior values". `HandlerRestorable` holds for
  the command, and for the rest unless `mixed`.
- The launcher dies, or a recovery fails, after the first registry write of enable: the command is
  Fetcher's, so enabling again returns early (`umo_helper.cpp:368`) and `URL Protocol` is never written.
- Two installations that enable one after the other save each other's command.
- After a crash between the two renames of `installUmo`, or when moving back, or the removal of the new copy
  before that (`umo_helper.cpp:295`), failed too, the only working copy of the helper is in
  `previous-tool`, which the next install removes before its own copy is in place
  (`umo_helper.cpp:280`). `HelperKept` promises a copy to an install that began over a working tool, and nothing after one of those ends.
- An interrupted transaction with an edited file is refused by every start (`install_transaction.cpp:114`), so
  no launcher that a restart starts shows a window until the edit is taken back. In `LauncherApp` only the launcher's own
  files can be spoiled, and then they are not `Verified`; a spoiled transaction of other files keeps a
  restart from arriving as well.
- A crash leaves `stage-*` folders that nothing sweeps, and `pending.json` with a port that nobody listens on.
- A browser link that was checked against one `pending.json` may reach the listener for the next file;
  the archive's hash is what protects the import.
- The worker may end before `{"started": true}` is dispatched (`main.cpp:585-624`); the page then hears
  `action-complete` first, becomes busy afterwards (`ui/index.html:1036`), and no button works any
  more. TLC refutes `PageFollowsWorker` as an invariant of `LauncherApp`.
- "Previous profile revisions are kept" (`launcher/PROFILE-FORMAT.md:25`): when the write of the catalog
  fails, memory has the new revision already, so the next acceptance keeps that one as the previous
  one and the revision on disk is lost. The same happens when another window has saved its own.
- A window that has no server list (the startup request failed) plays a profile that is not
  discovered without asking the master, also after a rollback to an imported revision.
- `startup` calls `prepare()` for the legacy migration without `syncDiscoveredProfile()`, although the
  comment in that function says "on each preparation/Play".
- An imported manifest that changed its server, accepted until just before its settings were written, leaves a
  profile of the new server with the old one selected.
- `restore()` compares all targets and then replaces them one by one; a file that is edited in between is
  overwritten. The same window lies between verification and deletion in `finish()`. `EditsKept`,
  `CustomFilesKept` and `ModifiedKept` are therefore checked for edits between commands.
- The update that makes the 512th retained backup succeeds, and the next start refuses (`backups()`).
- `package()` resolves the release again; the receipt names what was resolved first and the files
  are what was resolved second, if the asset is replaced between the two and then put back.
- Choosing a server or a profile clears `mStatus`, and `launch` looks at nothing else, although
  `launcher/AUTO-UPDATES.md:7-8` says that known updates stop Play.
- What is left of a cache entry whose removal stopped after its receipt is no longer owned
  (`owns()`) and stays until a preparation replaces it.
- A launcher that is started from the root while another window updates it may stage the new
  executable with the old interface: the first start copies without the lock. The window that
  restarts itself does not (`HandoffIsWhole`).
- A rollback target without the handshake counts as started when it waits for input, which a
  message box with an error does too.
- When the launcher that a restart starts finds an interrupted transaction, it recovers it, starts
  the root launcher and ends; the old window reports a failed restart and stays, beside the new one.

## 7. Not modelled

The components that `PROJECT.json` lists as `not_modelled` are planned (section 2) or are data
without control. Of the others these parts are left out: manifest validation and server ping
(`server_ping.cpp` reads replies; its pool of threads keeps nothing), the wizard's window
(`bootstrap_main.cpp`), archive formats, the look of the interface, and `umo/adapter.py`, which runs a library that is
not in this repository: what it does to the files that the launcher reads is modelled.
In the layouts: parsing and validation of installers and operations (`validateTree`,
`normalizeModActions`, `normalizeFilePatch`), whose result the assumptions on the constants state; byte limits, of which the limit
on entries is the model; links inside a stage. In the preparation: `requiredFiles`, a second ordering for
groundcover whose result is dropped, and data folders within a package (`modDataRoots`); a missing required
file, or content that has no usable order once the groundcover is added, can still refuse a preparation that
`OrderIsExact` calls ordered.
The PowerShell updater takes a mutex of another name than the native one; the models assume that
it does not run at the same time. Links and path aliases (`noLinks`, `safeRelative`) are refused by the
code before any step here. Disk space and the temporary files of `writeAtomic` are left out: a write
either happens or fails.
