-------------------------- MODULE InstallTransaction --------------------------
(***************************************************************************)
(* The journaled install and rollback of client and tools builds           *)
(* (launcher/src/install_transaction.cpp), under the per-root mutex        *)
(* InstallLock and the game check of native_platform.cpp.                  *)
(*                                                                         *)
(* A file is its content: hashes are compared in the code exactly where    *)
(* contents are compared here.  The content of an inventory file stands    *)
(* for the list of paths in it.  A retained backup directory               *)
(* _fetcher_launcher/rollback/tx-<kind>-<stamp> is a number, in the order  *)
(* the directories are made; `made' counts them.                           *)
(*                                                                         *)
(* Between two launcher steps the process may die (Crash), another program *)
(* may hold a file so that replacing it fails ("locked"), the user may     *)
(* edit files, and retained backups may be damaged ("damage").             *)
(***************************************************************************)
EXTENDS Integers, Sequences, FiniteSets

CONSTANTS
    Procs,          \* launcher processes on one installation root
    Paths,          \* the files of the root that matter, by relative path
    Contents,       \* what a file may hold
    Absent,         \* the code's empty hash: no such file
    Damaged,        \* a backup copy that no longer has its recorded hash
    Builds,         \* the published client and tools packages
    KindOf,         \* Builds -> Kinds
    Inventory,      \* Builds -> the inventory's paths, in order
    Image,          \* Builds -> [Paths -> content], Absent when not shipped
    Manifest,       \* Kinds -> the inventory file of that kind
    Allowed,        \* Kinds -> the paths allowed() lets a build own
    InitialFiles,   \* the root as the first launcher finds it
    Editable,       \* paths the user edits
    UserContents,   \* what the user puts there
    MaxTx,          \* bound: backup directories made in a behaviour
    MaxBackups,     \* the code's 512: retained directories backups() accepts
    Environment,    \* which of Disturbances may happen
    NoBuild, NoProc

Kinds == {"client", "tools"}
Disturbances == {"locked", "damage", "editDuring", "rollbackOverPending"}
Published == Contents \cup {Absent}
Stored == Published \cup {Damaged}
Ids == 1..MaxTx

ASSUME IdentityAssumption ==
    /\ Absent \notin Contents
    /\ Damaged \notin Published
    /\ NoBuild \notin Builds
    /\ NoProc \notin Procs
    /\ MaxTx \in Nat
    /\ MaxBackups \in Nat
    /\ Environment \subseteq Disturbances

ASSUME BuildAssumption ==
    /\ KindOf \in [Builds -> Kinds]
    /\ Inventory \in [Builds -> Seq(Paths)]
    /\ Image \in [Builds -> [Paths -> Published]]
    /\ Manifest \in [Kinds -> Paths]
    /\ Allowed \in [Kinds -> SUBSET Paths]
    /\ InitialFiles \in [Paths -> Published]
    /\ UserContents \subseteq Contents
    /\ Editable \subseteq Paths
    /\ IsFiniteSet(Paths)

\* What the user writes is told apart from what any build ships, and nobody
\* edits an inventory file by hand.
ASSUME EditAssumption ==
    /\ \A b \in Builds, p \in Paths : Image[b][p] \notin UserContents
    /\ \A k \in Kinds : Manifest[k] \notin Editable

\* The kinds of packages have no path in common: allowed() takes its tools list
\* from the code, and the protection policy of the release keeps every one of
\* these paths from the client.  Each kind may replace its own inventory.
ASSUME KindAssumption ==
    /\ \A k \in Kinds : Manifest[k] \in Allowed[k]
    /\ \A j, k \in Kinds : j # k => Allowed[j] \cap Allowed[k] = {}

\* A package holds its inventory, and the inventory lists every file of the
\* package with its hash: it tells what the whole package is.
ASSUME PackageAssumption ==
    /\ \A b \in Builds : Image[b][Manifest[KindOf[b]]] # Absent
    /\ \A b \in Builds : \A p \in Allowed[KindOf[b]] :
          Image[b][p] # Absent =>
             p = Manifest[KindOf[b]] \/ \E i \in DOMAIN Inventory[b] : Inventory[b][i] = p
    /\ \A b, c \in Builds :
          (/\ KindOf[b] = KindOf[c]
           /\ Image[b][Manifest[KindOf[b]]] = Image[c][Manifest[KindOf[b]]])
             => \A p \in Allowed[KindOf[b]] : Image[b][p] = Image[c][p]

\* The first launcher finds, for each kind, a whole build or nothing, with what
\* the user has edited since.
ASSUME RootAssumption ==
    \A k \in Kinds :
        /\ InitialFiles[Manifest[k]] \notin UserContents
        /\ \/ \A p \in Allowed[k] : InitialFiles[p] \in {Absent} \cup UserContents
           \/ \E b \in Builds :
                 /\ KindOf[b] = k
                 /\ \A p \in Allowed[k] : InitialFiles[p] \in {Image[b][p]} \cup UserContents

VARIABLES
    files,      \* the installation root
    backup,     \* the retained backup directories
    made,       \* how many of them exist
    receipt,    \* tools.json and client.json: the build last recorded
    op,         \* the command that holds InstallLock, and where it is
    running,    \* launcher processes whose startup recovery succeeded
    game        \* openmw.exe of this root runs

vars == <<files, backup, made, receipt, op, running, game>>

Entry == [path : Paths, before : Stored, after : Stored]

Backup ==
    [kind : Kinds,
     journal : Seq(Entry),                      \* transaction.json
     saved : [Paths -> Stored],                \* files/
     written : BOOLEAN,                         \* transaction.json exists
     complete : BOOLEAN,                        \* complete.json exists
     restoring : BOOLEAN,                       \* restoring.json exists
     rolledBack : BOOLEAN]                      \* rolled-back.json exists

Steps == {"idle", "recover", "plan", "journal", "apply", "receipt",
          "validate", "restoring", "restore", "forget"}

Command ==
    [step : Steps,
     caller : {"none", "open", "install", "undo", "rollback"},
     proc : Procs \cup {NoProc},
     tx : Ids \cup {0},
     build : Builds \cup {NoBuild},
     at : Int]

Blank ==
    [kind |-> "client", journal |-> <<>>, saved |-> [p \in Paths |-> Absent],
     written |-> FALSE, complete |-> FALSE, restoring |-> FALSE,
     rolledBack |-> FALSE]

Idle ==
    [step |-> "idle", caller |-> "none", proc |-> NoProc, tx |-> 0,
     build |-> NoBuild, at |-> 0]

-----------------------------------------------------------------------------
(* What the code reads. *)

\* The paths a build ships, the inventory file aside.
Shipped(b) == {Inventory[b][i] : i \in DOMAIN Inventory[b]}

\* The paths of the inventory found in the root.
Listed(k) ==
    UNION {Shipped(b) : b \in {c \in Builds : /\ KindOf[c] = k
                                              /\ Image[c][Manifest[k]] = files[Manifest[k]]}}

\* Mutant: an old inventory may remove any path.
DroppedUnfiltered(b) == Listed(KindOf[b]) \ (Shipped(b) \cup {Manifest[KindOf[b]]})

\* Files of the old inventory that the new build lacks and may remove.
Dropped(b) == (Listed(KindOf[b]) \cap Allowed[KindOf[b]])
                 \ (Shipped(b) \cup {Manifest[KindOf[b]]})

\* The record order: the inventory's, then the dropped files, the inventory
\* file last.
Orders(b) ==
    LET touched == Shipped(b) \cup Dropped(b) \cup {Manifest[KindOf[b]]}
        n == Cardinality(touched)
    IN {o \in [1..n -> touched] :
          /\ \A i, j \in 1..n : o[i] = o[j] => i = j
          /\ \A i \in 1..Len(Inventory[b]) : o[i] = Inventory[b][i]
          /\ o[n] = Manifest[KindOf[b]]}

\* Mutant: complete.json settles a transaction, even one being rolled back.
IsPendingUntilComplete(t) ==
    backup[t].written /\ ~backup[t].rolledBack /\ ~backup[t].complete

\* A transaction recovery still has to undo.
IsPending(t) ==
    /\ backup[t].written
    /\ ~backup[t].rolledBack
    /\ backup[t].complete => backup[t].restoring

Pending == {t \in 1..made : IsPending(t)}

\* backups() sorts by directory name: tx-client-* before tx-tools-*.
Precedes(t, u) ==
    IF backup[t].kind = backup[u].kind THEN t <= u ELSE backup[t].kind = "client"

\* Mutants: the current file is not looked at; recovery expects only the new
\* bytes.
RestorableIgnoringEdits(t) ==
    \A i \in DOMAIN backup[t].journal :
        LET r == backup[t].journal[i]
        IN r.before # Absent => backup[t].saved[r.path] = r.before

RestorableIfReplaced(t) ==
    \A i \in DOMAIN backup[t].journal :
        LET r == backup[t].journal[i] IN files[r.path] = r.after

\* restore() checks every copy and every current file before it writes.
Restorable(t) ==
    \A i \in DOMAIN backup[t].journal :
        LET r == backup[t].journal[i]
        IN /\ r.before # Absent => backup[t].saved[r.path] = r.before
           /\ files[r.path] \in {r.before, r.after}

-----------------------------------------------------------------------------
(* Commands: each takes InstallLock with a zero timeout, so one at a time. *)

Fail == /\ op' = Idle
        /\ UNCHANGED <<files, backup, made, receipt, running, game>>

Begin(step, caller, p, t, b) ==
    op' = [step |-> step, caller |-> caller, proc |-> p, tx |-> t, build |-> b,
           at |-> 0]

Move(step, t, i) ==
    op' = [step |-> step, caller |-> op.caller, proc |-> op.proc, tx |-> t,
           build |-> op.build, at |-> i]

Goto(step) == Move(step, op.tx, op.at)

\* wWinMain and the Backend constructor: recovery before anything is shown.
Open(p) ==
    /\ op = Idle
    /\ p \notin running
    /\ Begin("recover", "open", p, 0, NoBuild)
    /\ UNCHANGED <<files, backup, made, receipt, running, game>>

\* Mutant: an install does not recover first.
InstallAtOnce(p, b) ==
    /\ op = Idle
    /\ p \in running
    /\ ~game
    /\ Begin("plan", "install", p, 0, b)
    /\ UNCHANGED <<files, backup, made, receipt, running, game>>

\* installTransaction: the game must be stopped, then recovery runs first.
Install(p, b) ==
    /\ op = Idle
    /\ p \in running
    /\ ~game
    /\ Begin("recover", "install", p, 0, b)
    /\ UNCHANGED <<files, backup, made, receipt, running, game>>

\* restoreInstallBackup: any completed update may be chosen; recovery of an
\* interrupted one does not run first.
Rollback(p, t) ==
    /\ op = Idle
    /\ p \in running
    /\ ~game
    /\ backup[t].complete
    /\ ~backup[t].rolledBack
    /\ Pending \subseteq {t} \/ "rollbackOverPending" \in Environment
    /\ Begin("validate", "rollback", p, t, NoBuild)
    /\ UNCHANGED <<files, backup, made, receipt, running, game>>
-----------------------------------------------------------------------------
(* recoverInstallTransactions: undo what is pending, oldest name first. *)

RecoverNext ==
    /\ op.step = "recover"
    /\ made <= MaxBackups
    /\ ~game
    /\ \E t \in Pending :
          /\ \A u \in Pending : Precedes(t, u)
          /\ Move("validate", t, 0)
    /\ UNCHANGED <<files, backup, made, receipt, running, game>>

RecoverRefused ==
    /\ op.step = "recover"
    /\ made > MaxBackups \/ (Pending # {} /\ game)
    /\ Fail

RecoverDone ==
    /\ op.step = "recover"
    /\ made <= MaxBackups
    /\ Pending = {}
    /\ IF op.caller = "open"
       THEN /\ running' = running \cup {op.proc}
            /\ op' = Idle
       ELSE /\ Goto("plan")
            /\ UNCHANGED running
    /\ UNCHANGED <<files, backup, made, receipt, game>>

-----------------------------------------------------------------------------
(* installTransaction, once nothing is pending. *)

\* Mutant: only the files the build ships are copied, not those it drops.
PlannedWithoutDropped(b, o) ==
    [kind |-> KindOf[b],
     journal |-> [i \in DOMAIN o |->
        [path |-> o[i], before |-> files[o[i]], after |-> Image[b][o[i]]]],
     saved |-> [p \in Paths |->
        IF p \in Shipped(b) \cup {Manifest[KindOf[b]]} THEN files[p] ELSE Absent],
     written |-> FALSE, complete |-> FALSE, restoring |-> FALSE,
     rolledBack |-> FALSE]

\* The records, with what is there before and the copy of it.
Planned(b, o) ==
    [kind |-> KindOf[b],
     journal |-> [i \in DOMAIN o |->
        [path |-> o[i], before |-> files[o[i]], after |-> Image[b][o[i]]]],
     saved |-> [p \in Paths |->
        IF \E i \in DOMAIN o : o[i] = p THEN files[p] ELSE Absent],
     written |-> FALSE, complete |-> FALSE, restoring |-> FALSE,
     rolledBack |-> FALSE]

\* The stage is verified, the records are laid out, and every affected file
\* is hashed and copied.  Until transaction.json exists nobody reads the new
\* directory, so how far the copying got does not matter.
Plan ==
    /\ op.step = "plan"
    /\ made < MaxTx
    /\ Shipped(op.build) \subseteq Allowed[KindOf[op.build]]
    /\ made' = made + 1
    /\ \E o \in Orders(op.build) :
          backup' = [backup EXCEPT ![made + 1] = Planned(op.build, o)]
    /\ Move("journal", made + 1, 0)
    /\ UNCHANGED <<files, receipt, running, game>>

\* A bad package, a full disk or a failed copy: nothing was replaced yet.
Abandon ==
    /\ op.step \in {"plan", "journal"}
    /\ Fail

WriteJournal ==
    /\ op.step = "journal"
    /\ backup' = [backup EXCEPT ![op.tx].written = TRUE]
    /\ Move("apply", op.tx, 1)
    /\ UNCHANGED <<files, made, receipt, running, game>>

\* Mutant: files the new build lacks are left in place.
ApplyFileKeepingDropped ==
    /\ op.step = "apply"
    /\ op.at <= Len(backup[op.tx].journal)
    /\ LET r == backup[op.tx].journal[op.at]
       IN files' = IF r.after = Absent THEN files
                                       ELSE [files EXCEPT ![r.path] = r.after]
    /\ Move("apply", op.tx, op.at + 1)
    /\ UNCHANGED <<backup, made, receipt, running, game>>

ApplyFile ==
    /\ op.step = "apply"
    /\ op.at <= Len(backup[op.tx].journal)
    /\ LET r == backup[op.tx].journal[op.at]
       IN files' = [files EXCEPT ![r.path] = r.after]
    /\ Move("apply", op.tx, op.at + 1)
    /\ UNCHANGED <<backup, made, receipt, running, game>>

\* A file cannot be replaced, or complete.json cannot be written: the handler
\* restores the backup with the same code that recovery uses.
ApplyFails ==
    /\ op.step = "apply"
    /\ "locked" \in Environment
    /\ Begin("validate", "undo", op.proc, op.tx, op.build)
    /\ UNCHANGED <<files, backup, made, receipt, running, game>>

Commit ==
    /\ op.step = "apply"
    /\ op.at > Len(backup[op.tx].journal)
    /\ backup' = [backup EXCEPT ![op.tx].complete = TRUE]
    /\ Goto("receipt")
    /\ UNCHANGED <<files, made, receipt, running, game>>

\* The caller records the build it installed, after the transaction.
WriteReceipt ==
    /\ op.step = "receipt"
    /\ receipt' = [receipt EXCEPT ![KindOf[op.build]] = op.build]
    /\ op' = Idle
    /\ UNCHANGED <<files, backup, made, running, game>>

-----------------------------------------------------------------------------
(* restore(): for recovery, for the failed install and for a rollback. *)

Validate ==
    /\ op.step = "validate"
    /\ Restorable(op.tx)
    /\ Goto("restoring")
    /\ UNCHANGED <<files, backup, made, receipt, running, game>>

Refuse ==
    /\ op.step = "validate"
    /\ ~Restorable(op.tx)
    /\ Fail

\* Mutant: the reverse loop starts one past the last record.
MarkRestoringPastEnd ==
    /\ op.step = "restoring"
    /\ backup' = [backup EXCEPT ![op.tx].restoring = TRUE]
    /\ Move("restore", op.tx, Len(backup[op.tx].journal) + 1)
    /\ UNCHANGED <<files, made, receipt, running, game>>

MarkRestoring ==
    /\ op.step = "restoring"
    /\ backup' = [backup EXCEPT ![op.tx].restoring = TRUE]
    /\ Move("restore", op.tx, Len(backup[op.tx].journal))
    /\ UNCHANGED <<files, made, receipt, running, game>>

\* In reverse order, every record, whether or not it still has the old bytes.
RestoreFile ==
    /\ op.step = "restore"
    /\ op.at > 0
    /\ LET r == backup[op.tx].journal[op.at]
       IN files' = [files EXCEPT ![r.path] =
                      IF r.before = Absent THEN Absent
                                           ELSE backup[op.tx].saved[r.path]]
    /\ Move("restore", op.tx, op.at - 1)
    /\ UNCHANGED <<backup, made, receipt, running, game>>

RemoveReceipt ==
    /\ op.step = "restore"
    /\ op.at = 0
    /\ receipt' = [receipt EXCEPT ![backup[op.tx].kind] = NoBuild]
    /\ Goto("forget")
    /\ UNCHANGED <<files, backup, made, running, game>>

MarkRolledBack ==
    /\ op.step = "forget"
    /\ backup' = [backup EXCEPT ![op.tx].rolledBack = TRUE]
    /\ IF op.caller \in {"open", "install"} THEN Move("recover", 0, 0)
                                            ELSE op' = Idle
    /\ UNCHANGED <<files, made, receipt, running, game>>

\* A write of restore() or of the receipt fails; the command ends there.
WriteFails ==
    /\ op.step \in {"receipt", "restoring", "restore", "forget"}
    /\ "locked" \in Environment
    /\ Fail

-----------------------------------------------------------------------------
(* Everybody else. *)

\* The process holding the lock dies; the next one gets the abandoned mutex.
Crash ==
    /\ op # Idle
    /\ op' = Idle
    /\ running' = running \ {op.proc}
    /\ UNCHANGED <<files, backup, made, receipt, game>>

Close(p) ==
    /\ p \in running
    /\ p # op.proc
    /\ running' = running \ {p}
    /\ UNCHANGED <<files, backup, made, receipt, op, game>>

Play(p) ==
    /\ op = Idle
    /\ p \in running
    /\ ~game
    /\ game' = TRUE
    /\ UNCHANGED <<files, backup, made, receipt, op, running>>

GameExit ==
    /\ game
    /\ game' = FALSE
    /\ UNCHANGED <<files, backup, made, receipt, op, running>>

Edit(p, c) ==
    /\ op = Idle \/ "editDuring" \in Environment
    /\ files[p] # c
    /\ files' = [files EXCEPT ![p] = c]
    /\ UNCHANGED <<backup, made, receipt, op, running, game>>

\* Bound: one damaged copy.
Damage(t, p) ==
    /\ op = Idle
    /\ "damage" \in Environment
    /\ \A u \in Ids, q \in Paths : backup[u].saved[q] # Damaged
    /\ backup[t].saved[p] \in Contents
    /\ backup' = [backup EXCEPT ![t].saved[p] = Damaged]
    /\ UNCHANGED <<files, made, receipt, op, running, game>>

-----------------------------------------------------------------------------

Init ==
    /\ files = InitialFiles
    /\ backup = [t \in Ids |-> Blank]
    /\ made = 0
    /\ receipt = [k \in Kinds |-> NoBuild]
    /\ op = Idle
    /\ running = {}
    /\ game = FALSE

\* The steps of the command that holds the lock.
CommandStep ==
    \/ RecoverNext \/ RecoverRefused \/ RecoverDone
    \/ Plan \/ Abandon \/ WriteJournal \/ ApplyFile \/ ApplyFails \/ Commit
    \/ WriteReceipt
    \/ Validate \/ Refuse \/ MarkRestoring \/ RestoreFile \/ RemoveReceipt
    \/ MarkRolledBack \/ WriteFails

Next ==
    \/ \E p \in Procs : Open(p) \/ Close(p) \/ Play(p)
    \/ \E p \in Procs, b \in Builds : Install(p, b)
    \/ \E p \in Procs, t \in 1..made : Rollback(p, t)
    \/ CommandStep
    \/ Crash
    \/ GameExit
    \/ \E p \in Editable, c \in UserContents : Edit(p, c)
    \/ \E t \in 1..made, p \in Paths : Damage(t, p)

\* A command that has the lock runs on: it waits for nobody.
Spec == Init /\ [][Next]_vars /\ WF_vars(CommandStep)

-----------------------------------------------------------------------------
(* Properties. *)

\* What a command's record holds at each step.
CommandOK ==
    /\ op.step # "idle" => op.proc \in Procs
    /\ op.step = "recover" => op.caller \in {"open", "install"}
    /\ op.step = "plan" => op.caller = "install"
    /\ op.caller = "install" => op.build \in Builds
    /\ op.step \in {"journal", "apply", "validate", "restoring", "restore", "forget"} =>
          op.tx \in Ids
    /\ op.step = "apply" => op.at \in 1..(Len(backup[op.tx].journal) + 1)
    /\ op.step = "restore" => op.at \in 0..Len(backup[op.tx].journal)

TypeOK ==
    /\ files \in [Paths -> Stored]
    /\ backup \in [Ids -> Backup]
    /\ made \in 0..MaxTx
    /\ receipt \in [Kinds -> Builds \cup {NoBuild}]
    /\ op \in Command /\ CommandOK
    /\ running \subseteq Procs
    /\ game \in BOOLEAN

\* Whatever was interrupted, and wherever, at most one transaction waits for
\* recovery: a second one would be restored over the first one's files.
SinglePending == \A t, u \in Pending : t = u

\* A transaction recovery has to undo can be undone: its copies are there and
\* every file it touches holds the old or the new bytes.  Only an edit of the
\* user's makes recovery stop (install_transaction.cpp:109-111).
PendingRecoverable ==
    \A t \in Pending :
        \/ Restorable(t)
        \/ \E i \in DOMAIN backup[t].journal :
              files[backup[t].journal[i].path] \in UserContents

\* The files of one kind are those of one build, or none are there, but for
\* the user's edits.
Whole(k) ==
    \/ \E b \in Builds :
          /\ KindOf[b] = k
          /\ \A p \in Allowed[k] : files[p] \in {Image[b][p]} \cup UserContents
    \/ \A p \in Allowed[k] : files[p] \in {Absent} \cup UserContents

\* Once nothing waits for recovery, no kind is a mixture of two builds, however
\* many installs, rollbacks and crashes led there.
SettledIsWhole ==
    Pending = {} => \A k \in Kinds : Whole(k)

\* The launcher never destroys a user's edit: a file of the user's that an
\* install or a rollback replaces has its content kept in a backup.
EditsKept ==
    [][\A p \in Paths :
          (op' # op /\ files'[p] # files[p] /\ files[p] \in UserContents)
             => \E t \in 1..made' : backup'[t].saved[p] = files[p]]_vars

\* A path outside allowed() is nobody's but the user's, whatever an old or a
\* new inventory lists.
ProtectedUntouched ==
    [][op' # op => \A p \in Paths \ UNION {Allowed[k] : k \in Kinds} :
                       files'[p] = files[p]]_vars

\* What may go wrong from outside.  A refusal to start is the step of a crash
\* of the starting process, and is not one.
Disturbance ==
    \/ Crash /\ ~Refuse /\ ~RecoverRefused
    \/ ApplyFails \/ WriteFails
    \/ \E p \in Editable, c \in UserContents : Edit(p, c)
    \/ \E t \in 1..made, p \in Paths : Damage(t, p)

\* A journal without a completion marker is restored on restart: once files
\* can be written again, the game is closed and the launcher keeps being
\* opened, nothing stays pending that an edit or a damaged copy does not keep
\* from being undone (launcher/UPGRADE-ACCEPTANCE.md:67).
Spoiled(t) ==
    \E i \in DOMAIN backup[t].journal :
        LET path == backup[t].journal[i].path
        IN files[path] \in UserContents \/ backup[t].saved[path] = Damaged

RestartRecovers ==
    (/\ <>[]~game
     /\ <>[][~Disturbance]_vars
     /\ []<><<\E p \in Procs : Open(p)>>_vars)
    => []<>(\A t \in Pending : Spoiled(t))

-----------------------------------------------------------------------------
(* The promise: see AtomicInstall. *)

PathsOf(t) == {backup[t].journal[i].path : i \in DOMAIN backup[t].journal}

EntryOf(t, p) ==
    CHOOSE r \in {backup[t].journal[i] : i \in DOMAIN backup[t].journal} : r.path = p

\* The root as recovery would leave it: a pending transaction counts for
\* nothing until its completion marker, a rollback counts as soon as it is
\* marked, and a later edit of the user's stands.
SettledTree ==
    [p \in Paths |->
        IF \E t \in Pending : p \in PathsOf(t)
        THEN LET t == CHOOSE u \in Pending : p \in PathsOf(u)
                 r == EntryOf(t, p)
             IN IF files[p] \in {r.before, r.after} THEN r.before ELSE files[p]
        ELSE files[p]]

\* The updates listInstallBackups() offers, less those being rolled back.
Snapshots ==
    {[id |-> t,
      before |-> [p \in PathsOf(t) |-> EntryOf(t, p).before],
      after |-> [p \in PathsOf(t) |-> EntryOf(t, p).after]] :
        t \in {u \in 1..made : backup[u].complete /\ ~backup[u].restoring}}

Atomic == INSTANCE AtomicInstall
              WITH tree <- SettledTree, snapshots <- Snapshots,
                   Ships <- [b \in Builds |-> Shipped(b)]

\* Installs and rollbacks are atomic across crashes, failures and restarts:
\* the files, seen through recovery, change only as AtomicInstall allows.
InstallsAreAtomic == Atomic!ASpec

=============================================================================
