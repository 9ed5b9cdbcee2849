---------------------------- MODULE ManagedCache ----------------------------
(***************************************************************************)
(* The content-addressed cache below _fetcher_launcher: archives in        *)
(* downloads/, extracted packages/ and derived layouts/, as the update,    *)
(* prepare, launch and profile commands of native_backend.cpp fill it and  *)
(* storage_management.cpp empties it.                                      *)
(*                                                                         *)
(* A package is named by the hash of its archive, a layout by a key made   *)
(* of that hash and a recipe.  A profile is one of a set of versions; what *)
(* matters of it is its package definitions.  Each launcher window has its *)
(* own copy of the catalog in memory.                                      *)
(***************************************************************************)
EXTENDS Integers, Sequences, FiniteSets

CONSTANTS
    Procs,          \* launcher windows on one root
    Hashes,         \* archives
    Layouts,        \* derived layouts
    Source,         \* Layouts -> the package it is made from
    Files,          \* the files of each package or layout
    Versions,       \* versions of the profile
    Definitions,    \* Versions -> the package definitions, in order
    FirstVersion,   \* the one in the first catalog
    MaxEdits,       \* bound: files touched by anybody else in a behaviour
    Environment,    \* which of Disturbances may happen
    None, NoProc

Disturbances == {"failures", "rot"}
Keys == Hashes \cup Layouts
Definition == [hash : Hashes, key : Keys]

\* A file against its record: an edit changes the write time, decay does not.
\* An edit keeps the size; one that does not is found without hashing.
FileStates == {"same", "edited", "decayed", "gone"}

Entry ==
    [receipt : BOOLEAN,             \* .fetcher-package.json
     extra : BOOLEAN,               \* a file the receipt does not list
     file : [Files -> FileStates],
     pinned : BOOLEAN]              \* the recorded bytes are the pinned ones

ASSUME CacheAssumption ==
    /\ Hashes \cap Layouts = {}
    /\ None \notin Keys \cup Versions \cup Entry
    /\ NoProc \notin Procs
    /\ Source \in [Layouts -> Hashes]
    /\ Definitions \in [Versions -> Seq(Definition)]
    /\ \A v \in Versions : \A i \in DOMAIN Definitions[v] :
          LET d == Definitions[v][i]
          IN d.key = d.hash \/ (d.key \in Layouts /\ Source[d.key] = d.hash)
    /\ FirstVersion \in Versions
    /\ MaxEdits \in Nat
    /\ Environment \subseteq Disturbances
    /\ IsFiniteSet(Files)

VARIABLES
    archive,    \* downloads/<hash>.zip
    entry,      \* packages/<hash> and layouts/<key>
    catalog,    \* fetcher-launcher-profiles.json
    previous,   \* previous-profile.json
    config,     \* the data= lines of the profile's generated openmw.cfg
    memory,     \* mCatalog of each window
    preview,    \* mCleanup of each window
    op,         \* the command that holds InstallLock
    game,       \* the game runs
    edits       \* files touched so far

disk == <<archive, entry>>
saved == <<catalog, previous, config>>
windows == <<memory, preview>>
vars == <<disk, saved, windows, op, game, edits>>

Steps == {"idle", "check", "package", "fetch", "replace", "layout", "derive",
          "launch", "catalog", "remove"}

Command ==
    [cmd : {"none", "prepare", "launch", "repair", "profile", "clean"},
     step : Steps,
     proc : Procs \cup {NoProc},
     checking : BOOLEAN,            \* in the first loop of a repair
     at : Nat,                      \* the package definition
     target : Keys \cup {None},     \* the entry to replace
     pinned : BOOLEAN,              \* the stage for it has the pinned bytes
     archives : SUBSET Hashes,      \* what cleanup has left to remove
     entries : SUBSET Keys]

Idle ==
    [cmd |-> "none", step |-> "idle", proc |-> NoProc, checking |-> FALSE,
     at |-> 0, target |-> None, pinned |-> FALSE,
     archives |-> {}, entries |-> {}]

-----------------------------------------------------------------------------
(* What the code reads. *)

Todo == Definitions[memory[op.proc]]
Current == Todo[op.at]
More == op.at <= Len(Todo)

\* Mutant: the receipt is enough.
VerifiedByReceipt(k, full) == entry[k] # None /\ entry[k].receipt

\* verifyPackageCache(): extra files do not matter, unchanged write times are
\* trusted unless all is hashed.
Verified(k, full) ==
    /\ entry[k] # None
    /\ entry[k].receipt
    /\ \A f \in Files : \/ entry[k].file[f] = "same"
                        \/ entry[k].file[f] = "decayed" /\ ~full

\* owns(): exactly the recorded files.
Owns(k) ==
    /\ entry[k].receipt
    /\ ~entry[k].extra
    /\ \A f \in Files : entry[k].file[f] # "gone"

KeysOf(v) == UNION {{d.hash, d.key} : d \in {Definitions[v][i] : i \in DOMAIN Definitions[v]}}
RootsOf(v) == {Definitions[v][i].key : i \in DOMAIN Definitions[v]}

\* Everything saved on disk that names a cache entry.
Named == KeysOf(catalog) \cup (IF previous = None THEN {} ELSE KeysOf(previous)) \cup config
NamedLayouts == {k \in Named \cap Layouts : entry[k] # None}

\* Mutant: what only the previous profile names is not a reference.
ReferencedNow ==
    KeysOf(catalog) \cup config \cup {Source[k] : k \in NamedLayouts}

Referenced == Named \cup {Source[k] : k \in NamedLayouts}

\* A layout that is named but cannot tell its source disables cleanup.
Scannable == \A k \in NamedLayouts : entry[k].receipt

\* scanUnusedCache(): sizes and write times, no hashes.
Scanned ==
    LET unused == {k \in Keys \ Referenced : entry[k] # None /\ Owns(k)}
    IN [references |-> Referenced,
        archives |-> {h \in Hashes \ Referenced : archive[h] # "none"},
        entries |-> unused,
        edited |-> {e \in unused \X Files : entry[e[1]].file[e[2]] = "edited"}]

\* Mutant: cleanup trusts sizes and write times.
UnmodifiedByTime(plan) ==
    /\ \A h \in plan.archives : archive[h] = "good"
    /\ \A k \in plan.entries, f \in Files : entry[k].file[f] # "edited"

\* cleanUnusedCache() hashes every candidate before it removes anything.
Unmodified(plan) ==
    /\ \A h \in plan.archives : archive[h] = "good"
    /\ \A k \in plan.entries, f \in Files : entry[k].file[f] = "same"

-----------------------------------------------------------------------------
(* Commands; each holds InstallLock to its end. *)

Begin(p, cmd, step) ==
    op' = [Idle EXCEPT !.cmd = cmd, !.step = step, !.proc = p, !.at = 1,
                       !.checking = (step = "check")]

Goto(step) == op' = [op EXCEPT !.step = step]
End == op' = Idle

\* "prepare", "launch" and "repair"; what "update" does to the cache is what
\* "prepare" does.
Prepare(p, cmd) ==
    /\ op = Idle
    /\ ~game
    /\ Begin(p, cmd, IF cmd = "repair" THEN "check" ELSE "package")
    /\ UNCHANGED <<disk, saved, windows, game, edits>>

-----------------------------------------------------------------------------
(* The loop of check() over the packages, in a repair: all is hashed. *)

\* Mutant: the next definition is entered where this one was left.
NextPackageInPlace == op' = [op EXCEPT !.at = op.at + 1]

NextPackage == op' = [op EXCEPT !.at = op.at + 1,
                                !.step = IF op.checking THEN "check" ELSE "package"]

CheckFound ==
    /\ op.step = "check"
    /\ More
    /\ Verified(Current.hash, TRUE)
    /\ Verified(Current.key, TRUE)
    /\ NextPackage
    /\ UNCHANGED <<disk, saved, windows, game, edits>>

\* package(d, true) does not look at what is there.
CheckMissing ==
    /\ op.step = "check"
    /\ More
    /\ ~(Verified(Current.hash, TRUE) /\ Verified(Current.key, TRUE))
    /\ Goto("fetch")
    /\ UNCHANGED <<disk, saved, windows, game, edits>>

CheckDone ==
    /\ op.step = "check"
    /\ ~More
    /\ op' = [op EXCEPT !.step = "package", !.at = 1, !.checking = FALSE]
    /\ UNCHANGED <<disk, saved, windows, game, edits>>

-----------------------------------------------------------------------------
(* prepare(): package() and layout() of each definition. *)

PackageHit ==
    /\ op.step = "package"
    /\ More
    /\ Verified(Current.hash, FALSE)
    /\ Goto("layout")
    /\ UNCHANGED <<disk, saved, windows, game, edits>>

PackageMiss ==
    /\ op.step = "package"
    /\ More
    /\ ~Verified(Current.hash, FALSE)
    /\ Goto("fetch")
    /\ UNCHANGED <<disk, saved, windows, game, edits>>

Download ==
    /\ op.step = "fetch"
    /\ archive[Current.hash] # "good"
    /\ archive' = [archive EXCEPT ![Current.hash] = "good"]
    /\ UNCHANGED <<entry, saved, windows, op, game, edits>>

\* The new entry and its receipt are built where nobody looks.
Stage(k, bytesPinned) ==
    op' = [op EXCEPT !.step = "replace", !.target = k, !.pinned = bytesPinned]

Extract ==
    /\ op.step = "fetch"
    /\ archive[Current.hash] = "good"
    /\ Stage(Current.hash, TRUE)
    /\ UNCHANGED <<disk, saved, windows, game, edits>>

\* layout() is only called for a recipe, and hashes all only in a repair.
LayoutHit ==
    /\ op.step = "layout"
    /\ Current.key = Current.hash \/ Verified(Current.key, op.cmd = "repair")
    /\ NextPackage
    /\ UNCHANGED <<disk, saved, windows, game, edits>>

LayoutMiss ==
    /\ op.step = "layout"
    /\ Current.key # Current.hash
    /\ ~Verified(Current.key, op.cmd = "repair")
    /\ Goto("derive")
    /\ UNCHANGED <<disk, saved, windows, game, edits>>

\* The package's files are copied as they are, and the copies recorded.
Derive ==
    /\ op.step = "derive"
    /\ LET raw == entry[Current.hash]
       IN Stage(Current.key, raw.pinned /\ \A f \in Files : raw.file[f] = "same")
    /\ UNCHANGED <<disk, saved, windows, game, edits>>

Without(k, f) == [entry EXCEPT ![k].file[f] = "gone"]
Empty(k) ==
    /\ ~entry[k].receipt
    /\ ~entry[k].extra
    /\ \A f \in Files : entry[k].file[f] = "gone"

\* Mutant: only an entry with a receipt is removed first.
RemoveOldIfRecorded ==
    /\ op.step = "replace"
    /\ LET k == op.target
       IN /\ entry[k] # None
          /\ entry[k].receipt
          /\ entry' = [entry EXCEPT ![k] = None]
    /\ UNCHANGED <<archive, saved, windows, op, game, edits>>

\* remove_all, in any order.
RemoveOld ==
    /\ op.step = "replace"
    /\ LET k == op.target
       IN /\ entry[k] # None
          /\ \/ /\ Empty(k)
                /\ entry' = [entry EXCEPT ![k] = None]
             \/ /\ entry[k].receipt
                /\ entry' = [entry EXCEPT ![k].receipt = FALSE]
             \/ /\ entry[k].extra
                /\ entry' = [entry EXCEPT ![k].extra = FALSE]
             \/ \E f \in Files : /\ entry[k].file[f] # "gone"
                                 /\ entry' = Without(k, f)
    /\ UNCHANGED <<archive, saved, windows, op, game, edits>>

\* The rename.  A preview that lists the old entry no longer matches the new
\* one's write times.
Place ==
    /\ op.step = "replace"
    /\ entry[op.target] = None
    /\ entry' = [entry EXCEPT ![op.target] =
                    [receipt |-> TRUE, extra |-> FALSE, pinned |-> op.pinned,
                     file |-> [f \in Files |-> "same"]]]
    /\ preview' = [p \in Procs |->
                      IF preview[p] # None /\ op.target \in preview[p].entries
                      THEN None ELSE preview[p]]
    /\ IF op.target \in Hashes /\ ~op.checking
       THEN op' = [op EXCEPT !.step = "layout", !.target = None]
       ELSE op' = [op EXCEPT !.at = op.at + 1, !.target = None,
                             !.step = IF op.checking THEN "check" ELSE "package"]
    /\ UNCHANGED <<archive, saved, memory, game, edits>>

\* Every package is there: the configuration names their roots.
WriteConfig ==
    /\ op.step = "package"
    /\ ~More
    /\ config' = RootsOf(memory[op.proc])
    /\ IF op.cmd = "launch" THEN Goto("launch") ELSE End
    /\ UNCHANGED <<disk, catalog, previous, windows, game, edits>>

StartGame ==
    /\ op.step = "launch"
    /\ game' = TRUE
    /\ End
    /\ UNCHANGED <<disk, saved, windows, edits>>

-----------------------------------------------------------------------------
(* Profiles: each window writes the whole of its own catalog. *)

\* acceptProfile(): the version in memory becomes the previous one.
Accept(p, v) ==
    /\ op = Idle
    /\ v # memory[p]
    /\ previous' = memory[p]
    /\ memory' = [memory EXCEPT ![p] = v]
    /\ preview' = [preview EXCEPT ![p] = None]
    /\ Begin(p, "profile", "catalog")
    /\ UNCHANGED <<disk, catalog, config, game, edits>>

\* rollbackProfile
Return(p) ==
    /\ op = Idle
    /\ previous # None
    /\ memory' = [memory EXCEPT ![p] = previous]
    /\ Begin(p, "profile", "catalog")
    /\ UNCHANGED <<disk, saved, preview, game, edits>>

WriteCatalog ==
    /\ op.step = "catalog"
    /\ catalog' = memory[op.proc]
    /\ End
    /\ UNCHANGED <<disk, previous, config, windows, game, edits>>

-----------------------------------------------------------------------------
(* Cleanup. *)

Scan(p) ==
    /\ op = Idle
    /\ preview' = [preview EXCEPT ![p] = IF Scannable THEN Scanned ELSE None]
    /\ UNCHANGED <<disk, saved, memory, op, game, edits>>

Clean(p) ==
    /\ op = Idle
    /\ ~game
    /\ Scannable
    /\ preview[p] = Scanned
    /\ Scanned.archives # {} \/ Scanned.entries # {}
    /\ Unmodified(Scanned)
    /\ op' = [Idle EXCEPT !.cmd = "clean", !.step = "remove", !.proc = p,
                          !.archives = Scanned.archives,
                          !.entries = Scanned.entries]
    /\ preview' = [preview EXCEPT ![p] = None]
    /\ UNCHANGED <<disk, saved, memory, game, edits>>

\* The candidates are sorted: downloads, layouts, packages.
RemoveArchive ==
    /\ op.step = "remove"
    /\ \E h \in op.archives :
          /\ archive' = [archive EXCEPT ![h] = "none"]
          /\ op' = [op EXCEPT !.archives = @ \ {h}]
    /\ UNCHANGED <<entry, saved, windows, game, edits>>

\* The receipt goes after the files, the folder last.
RemoveEntry ==
    /\ op.step = "remove"
    /\ op.archives = {}
    /\ \E k \in op.entries :
          /\ k \in Hashes => op.entries \subseteq Hashes
          /\ \A j \in op.entries \ {k} : entry[j].receipt /\ Owns(j)
          /\ IF Empty(k)
             THEN /\ entry' = [entry EXCEPT ![k] = None]
                  /\ op' = [op EXCEPT !.entries = @ \ {k}]
             ELSE /\ UNCHANGED op
                  /\ IF \A f \in Files : entry[k].file[f] = "gone"
                     THEN entry' = [entry EXCEPT ![k].receipt = FALSE]
                     ELSE \E f \in Files : /\ entry[k].file[f] # "gone"
                                           /\ entry' = Without(k, f)
    /\ UNCHANGED <<archive, saved, windows, game, edits>>

CleanDone ==
    /\ op.step = "remove"
    /\ op.archives = {}
    /\ op.entries = {}
    /\ End
    /\ UNCHANGED <<disk, saved, windows, game, edits>>

-----------------------------------------------------------------------------
(* Everybody else. *)

\* A download, an extraction, a copy, a removal or a write fails.
Fails ==
    /\ op # Idle
    /\ "failures" \in Environment
    /\ End
    /\ UNCHANGED <<disk, saved, windows, game, edits>>

\* A window ends, in the middle of a command or not, and is opened again.
Reopen(p) ==
    /\ op = Idle \/ op.proc = p
    /\ End
    /\ memory' = [memory EXCEPT ![p] = catalog]
    /\ preview' = [preview EXCEPT ![p] = None]
    /\ UNCHANGED <<disk, saved, game, edits>>

GameExit ==
    /\ game
    /\ game' = FALSE
    /\ UNCHANGED <<disk, saved, windows, op, edits>>

\* Bound: between commands, and MaxEdits times.
Touch(k) ==
    /\ op = Idle
    /\ edits < MaxEdits
    /\ edits' = edits + 1
    /\ UNCHANGED <<archive, saved, windows, op, game>>
    /\ entry[k] # None
    /\ \/ /\ ~entry[k].extra
          /\ entry' = [entry EXCEPT ![k].extra = TRUE]
       \/ \E f \in Files, state \in FileStates \ {"same"} :
             /\ entry[k].file[f] = "same"
             /\ state = "decayed" => "rot" \in Environment
             /\ entry' = [entry EXCEPT ![k].file[f] = state]

TouchArchive(h) ==
    /\ op = Idle
    /\ edits < MaxEdits
    /\ edits' = edits + 1
    /\ archive[h] = "good"
    /\ \E state \in {"none", "bad"} : archive' = [archive EXCEPT ![h] = state]
    /\ UNCHANGED <<entry, saved, windows, op, game>>

-----------------------------------------------------------------------------

Init ==
    /\ archive = [h \in Hashes |-> "none"]
    /\ entry = [k \in Keys |-> None]
    /\ catalog = FirstVersion
    /\ previous = None
    /\ config = {}
    /\ memory = [p \in Procs |-> FirstVersion]
    /\ preview = [p \in Procs |-> None]
    /\ op = Idle
    /\ game = FALSE
    /\ edits = 0

CommandStep ==
    \/ CheckFound \/ CheckMissing \/ CheckDone
    \/ PackageHit \/ PackageMiss \/ Download \/ Extract
    \/ LayoutHit \/ LayoutMiss \/ Derive \/ RemoveOld \/ Place
    \/ WriteConfig \/ StartGame \/ WriteCatalog
    \/ RemoveArchive \/ RemoveEntry \/ CleanDone

Next ==
    \/ \E p \in Procs, cmd \in {"prepare", "launch", "repair"} : Prepare(p, cmd)
    \/ \E p \in Procs : Return(p) \/ Scan(p) \/ Clean(p) \/ Reopen(p)
    \/ \E p \in Procs, v \in Versions : Accept(p, v)
    \/ CommandStep
    \/ Fails \/ GameExit
    \/ \E k \in Keys : Touch(k)
    \/ \E h \in Hashes : TouchArchive(h)

\* A command runs on; nothing else has to happen.
Spec == Init /\ [][Next]_vars /\ WF_vars(CommandStep)

-----------------------------------------------------------------------------
(* Properties. *)

TypeOK ==
    /\ archive \in [Hashes -> {"none", "good", "bad"}]
    /\ entry \in [Keys -> Entry \cup {None}]
    /\ catalog \in Versions
    /\ previous \in Versions \cup {None}
    /\ config \subseteq Keys
    /\ memory \in [Procs -> Versions]
    /\ op \in Command
    /\ game \in BOOLEAN
    /\ op.step \in {"check", "package"} => op.at \in 1..(Len(Todo) + 1)
    /\ op.step \in {"fetch", "replace", "layout", "derive"} => op.at \in 1..Len(Todo)
    /\ op.step = "replace" => op.target \in Keys
    /\ edits \in 0..MaxEdits

Cleaning == op.step = "remove"

\* What a saved file needs: the packages and layouts of the current and the
\* previous version, and of the generated configuration, with their sources.
Needed(k) ==
    \/ k \in KeysOf(catalog)
    \/ previous # None /\ k \in KeysOf(previous)
    \/ k \in config
    \/ \E j \in config \cap Layouts : entry[j] # None /\ Source[j] = k

\* A saved reference protects the archive and the package as well as the
\* layout, whatever was saved after the preview (launcher/STORAGE.md:30).
ReferencedKept ==
    [][Cleaning => \A k \in Keys : Needed(k) =>
          entry'[k] = entry[k] /\ (k \in Hashes => archive'[k] = archive[k])]_vars

\* Unknown files and modified content are never removed by cleanup
\* (launcher/STORAGE.md:33-35).
ModifiedKept ==
    [][Cleaning => \A k \in Keys :
          (entry[k] # None /\ (\/ entry[k].extra
                              \/ \E f \in Files : entry[k].file[f] \in {"edited", "decayed"}))
             => entry'[k] = entry[k]]_vars

\* Its receipt and files are there, and none was changed in a way that shows.
Usable(k) ==
    /\ entry[k] # None
    /\ entry[k].receipt
    /\ \A f \in Files : entry[k].file[f] \in {"same", "decayed"}

\* The game starts on complete packages, whatever crashes, cleanups and other
\* windows did to the cache before.
LaunchedOnComplete == [][game' /\ ~game => \A k \in config : Usable(k)]_vars

\* A repair ends with the bytes that the profile pins, in every package and
\* layout it uses (launcher/PROFILE-FORMAT.md:168).
RepairIsExact ==
    (op.cmd = "repair" /\ op.step = "package" /\ ~More) =>
        \A k \in RootsOf(memory[op.proc]) :
            /\ entry[k].pinned
            /\ \A f \in Files : entry[k].file[f] = "same"

Trouble == Fails \/ \E p \in Procs : op # Idle /\ Reopen(p)

Ready == \E p \in Procs : config = RootsOf(memory[p]) /\ \A k \in config : Usable(k)

\* Whatever a crash, a failed removal or a cleanup left behind, a player who
\* prepares whenever that is possible comes to a complete profile.
CacheHeals ==
    (/\ <>[][~Trouble]_vars
     /\ []<>~game
     /\ SF_vars(\E p \in Procs : Prepare(p, "prepare")))
    => []<>Ready

=============================================================================
