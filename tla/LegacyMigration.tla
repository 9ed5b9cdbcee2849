--------------------------- MODULE LegacyMigration ---------------------------
(***************************************************************************)
(* automaticallyMigrateLegacy (launcher/src/legacy_migration.cpp): the old *)
(* Tamriel Rebuilt and Tamriel Data folders are verified, the game         *)
(* configurations that name them are rewritten, the folders are moved to   *)
(* _fetcher_launcher/migrations/trtd-v1/retired and removed there.  A      *)
(* journal, record.json, says how far a migration has come.                *)
(*                                                                         *)
(* The command holds InstallLock throughout.  It may stop after any step:  *)
(* the process dies, or a file cannot be read, written, moved or removed,  *)
(* outside the one handler of stage, which undoes what it did.             *)
(***************************************************************************)
EXTENDS Integers, Sequences, FiniteSets

CONSTANTS
    Folders,        \* the two folders of the built-in inventory
    Known,          \* the paths the inventory lists
    Extra,          \* paths it does not list
    Configs,        \* the .cfg files below the root
    Environment,    \* which of Disturbances may happen
    None

Disturbances == {"failures", "editFiles", "editConfigs", "relink", "reinstall"}

ASSUME MigrationAssumption ==
    /\ Environment \subseteq Disturbances
    /\ Known \cap Extra = {}
    /\ IsFiniteSet(Configs)

VARIABLES
    old,        \* Folders -> the folder in Data Files, or None
    retired,    \* Folders -> the folder in the migration area, or None
    configs,    \* Configs -> content
    saved,      \* configs/<n>.txt, the configuration backups
    record,     \* record.json
    op          \* the command in progress

vars == <<old, retired, configs, saved, record, op>>

Files == Known \cup Extra
Phases == {"none", "staging", "staged", "removing", "finished", "restored"}
Folder == [Files -> {"known", "changed", "foreign", "gone"}]

\* Which content a configuration's data lines name, and whether the user has
\* edited something else in it.
Config == [refs : {"old", "new"}, mine : BOOLEAN]

\* A folder that is not there, and a backup that is not taken.
ASSUME NoneAssumption == None \notin Folder \cup Config

Rewrite == [path : Configs, before : Config]
Slots == 1..Cardinality(Configs)

Steps == {"idle", "restore", "restoring", "preview", "save", "recheck", "write",
          "undo", "finish", "mark", "remove"}

Command ==
    [step : Steps,
     configs : UNION {[1..n -> Rewrite] : n \in 0..Cardinality(Configs)},
     folders : SUBSET Folders,          \* what is to be moved or removed
     moved : SUBSET Folders,
     listed : SUBSET (Folders \X Files),
     at : Nat]

Idle == [step |-> "idle", configs |-> <<>>, folders |-> {}, moved |-> {},
         listed |-> {}, at |-> 1]

-----------------------------------------------------------------------------

Retarget(c) == [c EXCEPT !.refs = "new"]

\* Mutant: a partly removed folder counts as modified.
CleanWhole(folder) == \A x \in Files : folder[x] = IF x \in Known THEN "known" ELSE "gone"

\* inspect: unlisted and changed files are refused, missing ones are not.
Clean(folder) == \A x \in Files : folder[x] \in {"known", "gone"}

Pending ==
    \/ record.phase \in {"staging", "staged", "removing"}
    \/ \E f \in Folders : old[f] # None

Present(place) == {f \in Folders : place[f] # None}

\* The order in which the scan meets the configurations to rewrite.
Scans ==
    LET legacy == {c \in Configs : configs[c].refs = "old"}
        n == Cardinality(legacy)
    IN {s \in [1..n -> legacy] : \A i, j \in 1..n : s[i] = s[j] => i = j}

\* Mutant: restore overwrites what the user wrote meanwhile.
RestorableAnyConfig ==
    \A f \in record.folders : (old[f] = None) # (retired[f] = None)

Restorable ==
    /\ \A i \in DOMAIN record.configs :
          LET r == record.configs[i]
          IN configs[r.path] \in {r.before, Retarget(r.before)}
    /\ \A f \in record.folders : (old[f] = None) # (retired[f] = None)

Fail == op' = Idle /\ UNCHANGED <<old, retired, configs, saved, record>>

Goto(step) ==
    /\ op' = [op EXCEPT !.step = step, !.at = 1]
    /\ UNCHANGED <<old, retired, configs, saved, record>>

\* The content is prepared and the game is closed.
Prepare ==
    /\ op = Idle
    /\ Pending
    /\ Goto(CASE record.phase = "staging" -> "restore"
              [] record.phase \in {"staged", "removing"} -> "finish"
              [] OTHER -> "preview")

-----------------------------------------------------------------------------
(* restore: what an interrupted stage did is undone. *)

RestoreCheck == op.step = "restore" /\ Restorable /\ Goto("restoring")

RestoreRefused == op.step = "restore" /\ ~Restorable /\ Fail

RestoreConfig ==
    /\ op.step = "restoring"
    /\ op.at <= Len(record.configs)
    /\ configs' = [configs EXCEPT ![record.configs[op.at].path] = saved[op.at]]
    /\ op' = [op EXCEPT !.at = op.at + 1]
    /\ UNCHANGED <<old, retired, saved, record>>

RestoreFolder(f) ==
    /\ op.step = "restoring"
    /\ op.at > Len(record.configs)
    /\ f \in record.folders
    /\ retired[f] # None
    /\ old[f] = None
    /\ old' = [old EXCEPT ![f] = retired[f]]
    /\ retired' = [retired EXCEPT ![f] = None]
    /\ UNCHANGED <<configs, saved, record, op>>

\* Mutant: the phase is written before the folders are back.
RestoreDoneEarly ==
    /\ op.step = "restoring"
    /\ op.at > Len(record.configs)
    /\ record' = [record EXCEPT !.phase = "restored"]
    /\ op' = [op EXCEPT !.step = "preview"]
    /\ UNCHANGED <<old, retired, configs, saved>>

RestoreDone ==
    /\ op.step = "restoring"
    /\ op.at > Len(record.configs)
    /\ \A f \in record.folders : retired[f] = None
    /\ record' = [record EXCEPT !.phase = "restored"]
    /\ op' = [op EXCEPT !.step = "preview"]
    /\ UNCHANGED <<old, retired, configs, saved>>

-----------------------------------------------------------------------------
(* preview and stage: stage repeats the scan, with hashes, and compares its  *)
(* token with the preview's, so that the two are one step here.              *)

Scan ==
    /\ op.step = "preview"
    /\ Present(old) # {}
    /\ \A f \in Present(old) : Clean(old[f])
    /\ \E s \in Scans :
          op' = [Idle EXCEPT !.step = "save",
                             !.configs = [i \in DOMAIN s |->
                                [path |-> s[i], before |-> configs[s[i]]]],
                             !.folders = Present(old)]
    /\ UNCHANGED <<old, retired, configs, saved, record>>

\* Nothing to migrate, or something that is not ours: all of it stays.
ScanRefused ==
    /\ op.step = "preview"
    /\ \/ Present(old) = {}
       \/ \E f \in Present(old) : ~Clean(old[f])
    /\ Fail

\* Mutant: the backup is not written.
SaveNothing ==
    /\ op.step = "save"
    /\ op.at <= Len(op.configs)
    /\ op' = [op EXCEPT !.at = op.at + 1]
    /\ UNCHANGED <<old, retired, configs, saved, record>>

SaveConfig ==
    /\ op.step = "save"
    /\ op.at <= Len(op.configs)
    /\ saved' = [saved EXCEPT ![op.at] = op.configs[op.at].before]
    /\ op' = [op EXCEPT !.at = op.at + 1]
    /\ UNCHANGED <<old, retired, configs, record>>

WriteRecord ==
    /\ op.step = "save"
    /\ op.at > Len(op.configs)
    /\ record' = [phase |-> "staging", folders |-> op.folders, configs |-> op.configs]
    /\ op' = [op EXCEPT !.step = "recheck", !.at = 1]
    /\ UNCHANGED <<old, retired, configs, saved>>

Unchanged == \A i \in DOMAIN op.configs : configs[op.configs[i].path] = op.configs[i].before

Recheck == op.step = "recheck" /\ Unchanged /\ Goto("write")

WriteConfig ==
    /\ op.step = "write"
    /\ op.at <= Len(op.configs)
    /\ LET r == op.configs[op.at]
       IN configs' = [configs EXCEPT ![r.path] = Retarget(r.before)]
    /\ op' = [op EXCEPT !.at = op.at + 1]
    /\ UNCHANGED <<old, retired, saved, record>>

MoveFolder(f) ==
    /\ op.step = "write"
    /\ op.at > Len(op.configs)
    /\ f \in op.folders \ op.moved
    /\ old[f] # None
    /\ retired[f] = None
    /\ retired' = [retired EXCEPT ![f] = old[f]]
    /\ old' = [old EXCEPT ![f] = None]
    /\ op' = [op EXCEPT !.moved = @ \cup {f}]
    /\ UNCHANGED <<configs, saved, record>>

MarkStaged ==
    /\ op.step = "write"
    /\ op.at > Len(op.configs)
    /\ op.moved = op.folders
    /\ record' = [record EXCEPT !.phase = "staged"]
    /\ op' = [Idle EXCEPT !.step = "finish"]
    /\ UNCHANGED <<old, retired, configs, saved>>

\* The handler moves the folders back and then rewrites the configurations
\* that were written.
StageFails ==
    /\ \/ op.step = "recheck" /\ ~Unchanged
       \/ op.step \in {"recheck", "write"} /\ "failures" \in Environment
    /\ op' = [op EXCEPT !.step = "undo",
                        !.configs = SubSeq(op.configs, 1, op.at - 1),
                        !.at = 1]
    /\ UNCHANGED <<old, retired, configs, saved, record>>

UndoFolder(f) ==
    /\ op.step = "undo"
    /\ f \in op.moved
    /\ old' = [old EXCEPT ![f] = retired[f]]
    /\ retired' = [retired EXCEPT ![f] = None]
    /\ op' = [op EXCEPT !.moved = @ \ {f}]
    /\ UNCHANGED <<configs, saved, record>>

UndoConfig ==
    /\ op.step = "undo"
    /\ op.moved = {}
    /\ op.at <= Len(op.configs)
    /\ LET r == op.configs[op.at]
       IN /\ configs[r.path] = Retarget(r.before)
          /\ configs' = [configs EXCEPT ![r.path] = r.before]
    /\ op' = [op EXCEPT !.at = op.at + 1]
    /\ UNCHANGED <<old, retired, saved, record>>

UndoDone ==
    /\ op.step = "undo"
    /\ op.moved = {}
    /\ op.at > Len(op.configs)
    /\ record' = [record EXCEPT !.phase = "restored"]
    /\ op' = Idle
    /\ UNCHANGED <<old, retired, configs, saved>>

-----------------------------------------------------------------------------
(* finish: everything is verified once more, then removed. *)

\* Mutants: the retired folders, or the other configurations, are not read.
FinishableUnread ==
    /\ \A c \in Configs : configs[c].refs # "old"
    /\ \A i \in DOMAIN record.configs :
          LET r == record.configs[i] IN configs[r.path] = Retarget(r.before)

FinishableByRecord ==
    /\ \A f \in Present(retired) : Clean(retired[f])
    /\ \A i \in DOMAIN record.configs :
          LET r == record.configs[i] IN configs[r.path] = Retarget(r.before)

Finishable ==
    /\ \A c \in Configs : configs[c].refs # "old"
    /\ \A f \in Present(retired) : Clean(retired[f])
    /\ \A i \in DOMAIN record.configs :
          LET r == record.configs[i] IN configs[r.path] = Retarget(r.before)

FinishCheck ==
    /\ op.step = "finish"
    /\ Finishable
    /\ op' = [Idle EXCEPT !.step = "mark",
                          !.folders = Present(retired),
                          !.listed = {l \in Present(retired) \X Files :
                                         retired[l[1]][l[2]] # "gone"}]
    /\ UNCHANGED <<old, retired, configs, saved, record>>

FinishRefused == op.step = "finish" /\ ~Finishable /\ Fail

MarkRemoving ==
    /\ op.step = "mark"
    /\ record' = [record EXCEPT !.phase = "removing"]
    /\ op' = [op EXCEPT !.step = "remove"]
    /\ UNCHANGED <<old, retired, configs, saved>>

RemoveFile(f, x) ==
    /\ op.step = "remove"
    /\ <<f, x>> \in op.listed
    /\ retired' = [retired EXCEPT ![f][x] = "gone"]
    /\ op' = [op EXCEPT !.listed = @ \ {<<f, x>>}]
    /\ UNCHANGED <<old, configs, saved, record>>

\* The directory itself: that fails when something else is in it by now.
RemoveFolder(f) ==
    /\ op.step = "remove"
    /\ f \in op.folders
    /\ \A x \in Files : retired[f][x] = "gone"
    /\ retired' = [retired EXCEPT ![f] = None]
    /\ op' = [op EXCEPT !.folders = @ \ {f}]
    /\ UNCHANGED <<old, configs, saved, record>>

RemovalStops ==
    /\ op.step = "remove"
    /\ \E f \in op.folders : /\ \A x \in Files : <<f, x>> \notin op.listed
                             /\ \E x \in Files : retired[f][x] # "gone"
    /\ Fail

MarkFinished ==
    /\ op.step = "remove"
    /\ op.folders = {}
    /\ record' = [record EXCEPT !.phase = "finished"]
    /\ op' = Idle
    /\ UNCHANGED <<old, retired, configs, saved>>

-----------------------------------------------------------------------------
(* Everybody else. *)

\* A crash, or an exception outside the handler of stage.
Stop ==
    /\ op # Idle
    /\ "failures" \in Environment
    /\ Fail

\* Bound: while a migration runs nobody edits, but for new files; a change made
\* between its checks and its deletions would be lost.
Undisturbed == op = Idle

\* The user changes a file of a folder, or puts one of his own there.
Customised(x) == IF x \in Known THEN "changed" ELSE "foreign"

EditFile(f, x) ==
    /\ Undisturbed \/ x \in Extra
    /\ "editFiles" \in Environment
    /\ UNCHANGED <<configs, saved, record, op>>
    /\ \/ /\ old[f] # None
          /\ old' = [old EXCEPT ![f][x] = Customised(x)]
          /\ UNCHANGED retired
       \/ /\ retired[f] # None
          /\ retired' = [retired EXCEPT ![f][x] = Customised(x)]
          /\ UNCHANGED old

EditConfig(c) ==
    /\ Undisturbed
    /\ "editConfigs" \in Environment
    /\ configs' = [configs EXCEPT ![c].mine = TRUE]
    /\ UNCHANGED <<old, retired, saved, record, op>>

Relink(c) ==
    /\ Undisturbed
    /\ "relink" \in Environment
    /\ configs' = [configs EXCEPT ![c].refs = "old"]
    /\ UNCHANGED <<old, retired, saved, record, op>>

\* Other tools install the old content again.
Original == [x \in Files |-> IF x \in Known THEN "known" ELSE "gone"]

Reinstall(f) ==
    /\ Undisturbed
    /\ "reinstall" \in Environment
    /\ old[f] = None
    /\ old' = [old EXCEPT ![f] = Original]
    /\ UNCHANGED <<retired, configs, saved, record, op>>

-----------------------------------------------------------------------------

Init ==
    /\ old = [f \in Folders |-> Original]
    /\ retired = [f \in Folders |-> None]
    /\ configs \in [Configs -> [refs : {"old", "new"}, mine : {FALSE}]]
    /\ saved = [i \in Slots |-> None]
    /\ record = [phase |-> "none", folders |-> {}, configs |-> <<>>]
    /\ op = Idle

CommandStep ==
    \/ RestoreCheck \/ RestoreRefused \/ RestoreConfig \/ RestoreDone
    \/ Scan \/ ScanRefused \/ SaveConfig \/ WriteRecord \/ Recheck
    \/ WriteConfig \/ MarkStaged \/ StageFails \/ UndoConfig \/ UndoDone
    \/ FinishCheck \/ FinishRefused \/ MarkRemoving \/ RemovalStops \/ MarkFinished
    \/ \E f \in Folders : RestoreFolder(f) \/ MoveFolder(f) \/ UndoFolder(f)
                          \/ RemoveFolder(f)
    \/ \E f \in Folders, x \in Files : RemoveFile(f, x)

Interference ==
    \/ \E f \in Folders : Reinstall(f) \/ \E x \in Files : EditFile(f, x)
    \/ \E c \in Configs : EditConfig(c) \/ Relink(c)

Next == Prepare \/ CommandStep \/ Stop \/ Interference

\* A migration that has begun runs on.
Spec == Init /\ [][Next]_vars /\ WF_vars(CommandStep)

-----------------------------------------------------------------------------
(* Properties. *)

TypeOK ==
    /\ old \in [Folders -> Folder \cup {None}]
    /\ retired \in [Folders -> Folder \cup {None}]
    /\ configs \in [Configs -> Config]
    /\ saved \in [Slots -> Config \cup {None}]
    /\ record.phase \in Phases
    /\ record.folders \subseteq Folders
    /\ op \in Command

Holds(f, x, c) ==
    \/ old[f] # None /\ old[f][x] = c
    \/ retired[f] # None /\ retired[f][x] = c

\* The user's own files in the legacy folders, and those he changed, survive
\* every migration, restore and removal, interrupted or not: extra files and
\* changed data prevent deletion (launcher/LEGACY-TRTD-MIGRATION.md:36-37).
CustomFilesKept ==
    [][\A f \in Folders, x \in Files :
          Holds(f, x, Customised(x)) => Holds(f, x, Customised(x))']_vars

\* No configuration is overwritten unless a backup has its bytes, or the bytes
\* it was migrated from: what the user wrote meanwhile stays.
ConfigEditsKept ==
    [][op' # op => \A c \in Configs : configs'[c] # configs[c] =>
          \E i \in Slots : /\ saved[i] # None
                           /\ configs[c] \in {saved[i], Retarget(saved[i])}]_vars

\* Unless a stage is to be restored, a configuration that names the legacy
\* folders finds them in place.
ConfigsResolve ==
    record.phase # "staging" =>
        \A c \in Configs : configs[c].refs = "old" =>
            \A f \in Folders : old[f] # None

\* A staging journal can be restored: its backups are those of its
\* configurations and each of its folders is in one place.  Only an edit of a
\* configuration prevents it.
StagingRestorable ==
    record.phase = "staging" =>
        /\ \A f \in record.folders : (old[f] = None) # (retired[f] = None)
        /\ \A i \in DOMAIN record.configs :
              LET r == record.configs[i]
              IN /\ saved[i] = r.before
                 /\ \/ configs[r.path] \in {r.before, Retarget(r.before)}
                    \/ configs[r.path].mine # r.before.mine

\* Nothing is removed while a configuration of the root names it, whichever
\* way the reference came back (legacy_migration.cpp:324-328).
RemovedUnreferenced ==
    [][\A f \in Folders : (op' # op /\ op.step = "remove" /\ retired'[f] # retired[f])
          => \A c \in Configs : configs[c].refs # "old"]_vars

\* A refusal is the step of a failure, and is not one.
Refused == RestoreRefused \/ ScanRefused \/ FinishRefused \/ RemovalStops
Trouble == (Stop /\ ~Refused) \/ StageFails \/ Interference

Calm == <>[][~Trouble]_vars
KeepsPreparing == []<><<Prepare>>_vars

\* What migration may not touch and waits for.
Obstructed ==
    \/ \E f \in Folders, x \in Files : Holds(f, x, Customised(x))
    \/ \E i \in DOMAIN record.configs :
          configs[record.configs[i].path].mine # record.configs[i].before.mine

\* Interrupted anywhere, a migration is completed by later preparations unless
\* the user's own changes are in its way.
MigrationEnds ==
    Calm /\ KeepsPreparing => <>[](~Pending \/ Obstructed)

=============================================================================
