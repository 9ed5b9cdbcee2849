---------------------------- MODULE LauncherApp ----------------------------
(***************************************************************************)
(* The launcher's processes on one root: main.cpp and launcher_runtime.cpp.*)
(* FetcherLauncher.exe in the root copies itself and its interface to a    *)
(* stage of its own and starts the copy, which opens the window.  A window *)
(* runs one command at a time on a worker thread; when the command changed *)
(* the launcher's own files, the worker stages and starts the new launcher,*)
(* waits for it to show its interface, and ends the window.                *)
(*                                                                         *)
(* A stage bears the name of the process that is started from it.  The     *)
(* executable of a running process cannot be deleted; its interface can.   *)
(* What a command does to the launcher's files is the two replacements and *)
(* the undo of InstallTransaction, seen at the executable and the          *)
(* interface.                                                              *)
(***************************************************************************)
EXTENDS Integers, FiniteSets

CONSTANTS
    Procs,          \* process identifiers, 1..n; reused when nothing is left
    Builds,         \* builds of the launcher
    Acknowledging,  \* those whose inventory says launcherRestartHandshake
    FirstBuild,
    Edited,         \* an interface that the user has changed
    Commands,       \* what is asked of a window, some of CommandKinds
    MaxOpens,       \* bound: further starts by the user
    MaxCommands,    \* bound: commands other than "restart"
    MaxCrashes,     \* bound: processes that die
    Environment,    \* which of Disturbances may happen
    None

CommandKinds == {"other", "update", "restart"}
Disturbances == {"crashes", "failures", "edits"}

\* The launcher's files in the root: two of them, and the build its inventory lists.
Installed == [exe : Builds, ui : Builds \cup {Edited}, inventory : Builds]

ASSUME LauncherAssumption ==
    /\ Procs \subseteq Nat \ {0}
    /\ IsFiniteSet(Procs)
    /\ Acknowledging \subseteq Builds
    /\ FirstBuild \in Builds
    /\ Edited \notin Builds
    /\ None \notin Builds /\ None \notin Procs /\ None # Edited /\ None \notin Installed
    /\ {MaxOpens, MaxCommands, MaxCrashes} \subseteq Nat
    /\ Commands \subseteq CommandKinds
    /\ Environment \subseteq Disturbances

VARIABLES
    root,       \* the launcher's files in the root
    journal,    \* what recovery would put back, if anything
    lock,       \* who holds InstallLock
    stage,      \* LauncherStaging/stage-*
    proc,       \* the processes
    spent       \* what happened that is bounded

vars == <<root, journal, lock, stage, proc, spent>>

Runtimes == [exe : Builds \cup {None}, ui : Builds \cup {Edited, None}]
Nothing == [exe |-> None, ui |-> None]

Stage == [dir : BOOLEAN, files : Runtimes]
NoStage == [dir |-> FALSE, files |-> Nothing]

Process ==
    [phase : {"gone", "root", "boot", "open", "window", "closing", "error"},
     step : {"none", "sweep", "recover", "open", "command", "work", "replaced",
             "compare", "stage", "copyExe", "copyUi", "check", "spawn", "await", "handed"},
     image : Runtimes,              \* what it runs and shows
     todo : SUBSET Procs,           \* stages it has still to sweep
     cmd : CommandKinds \cup {"none"},
     ok : BOOLEAN,
     child : Procs \cup {None},     \* the launcher it stages and starts
     target : Runtimes,             \* what it installs, or verified
     ready : BOOLEAN,               \* the child's acknowledgement
     busy : BOOLEAN,                \* the page's busy
     button : BOOLEAN,              \* restartRequired: the page has "Restart launcher"
     calling : BOOLEAN]             \* Command's reply is not dispatched yet

Ended(image) ==
    [phase |-> "gone", step |-> "none", image |-> image, todo |-> {}, cmd |-> "none",
     ok |-> TRUE, child |-> None, target |-> Nothing, ready |-> FALSE,
     busy |-> FALSE, button |-> FALSE, calling |-> FALSE]

Alive(p) == proc[p].phase # "gone"
Running(p) == proc[p].phase \notin {"gone", "root"}
Works(p) == proc[p].phase \in {"window", "closing"}

Least(S) == CHOOSE c \in S : \A d \in S : c <= d

\* Bound: identifiers for a process that is started from the root, and for a
\* new stage and the process started from it.
Unused == {c \in Procs : ~Alive(c) /\ \A p \in Procs : proc[p].child # c}
Free == {c \in Unused : ~stage[c].dir}
NewProc == Least(Unused)
NewStage == Least(Free)

Dirs == {s \in Procs : stage[s].dir}

\* restore() puts back what the journal has.  It refuses when a file is neither
\* what it was before the interrupted replacement nor what it was to become:
\* that is an edit of the interface which the journal does not have.
Restored == IF journal = None THEN root ELSE journal
Spoiled == journal # None /\ root.ui = Edited /\ journal.ui # Edited

Unlocked(p) == IF lock = p THEN None ELSE lock

Started(phase, image, todo) ==
    [Ended(image) EXCEPT !.phase = phase, !.step = "sweep", !.todo = todo]

Goto(p, step) == proc' = [proc EXCEPT ![p].step = step]
Gone(p) == [proc EXCEPT ![p] = Ended(IF \E q \in Procs : proc[q].child = p
                                     THEN proc[p].image ELSE Nothing)]
Error(p) == [proc EXCEPT ![p] = [Ended(proc[p].image) EXCEPT !.phase = "error"]]

-----------------------------------------------------------------------------
(* Starting.  Both launchers first remove the stages nobody runs from.     *)

\* The user opens FetcherLauncher.exe.
OpenRoot ==
    /\ Unused # {}
    /\ spent.opens < MaxOpens
    /\ spent' = [spent EXCEPT !.opens = @ + 1]
    /\ proc' = [proc EXCEPT ![NewProc] =
                   Started("root", [exe |-> root.exe, ui |-> None], Dirs)]
    /\ UNCHANGED <<root, journal, lock, stage>>

\* Mutant: the interface is removed before the executable.
SweepUiFirst(p, s) ==
    /\ proc[p].step = "sweep"
    /\ proc[p].todo # {}
    /\ s = Least(proc[p].todo)
    /\ IF stage[s].files.ui # None
       THEN /\ stage' = [stage EXCEPT ![s].files.ui = None]
            /\ UNCHANGED proc
       ELSE /\ stage' = IF Running(s) THEN stage ELSE [stage EXCEPT ![s] = NoStage]
            /\ proc' = [proc EXCEPT ![p].todo = @ \ {s}]
    /\ UNCHANGED <<root, journal, lock, spent>>

\* remove_all in the order of the directory: the executable comes first, and
\* when it cannot be deleted the stage is given up.
Sweep(p, s) ==
    /\ proc[p].step = "sweep"
    /\ proc[p].todo # {}
    /\ s = Least(proc[p].todo)
    /\ \/ /\ Running(s)
          /\ UNCHANGED stage
          /\ proc' = [proc EXCEPT ![p].todo = @ \ {s}]
       \/ /\ ~Running(s)
          /\ stage[s].files.exe # None
          /\ stage' = [stage EXCEPT ![s].files.exe = None]
          /\ UNCHANGED proc
       \/ /\ ~Running(s)
          /\ stage[s].files.exe = None
          /\ stage[s].files.ui # None
          /\ stage' = [stage EXCEPT ![s].files.ui = None]
          /\ UNCHANGED proc
       \/ /\ ~Running(s)
          /\ stage[s].files = Nothing
          /\ stage' = [stage EXCEPT ![s] = NoStage]
          /\ proc' = [proc EXCEPT ![p].todo = @ \ {s}]
    /\ UNCHANGED <<root, journal, lock, spent>>

SweepDone(p) ==
    /\ proc[p].step = "sweep"
    /\ proc[p].todo = {}
    /\ IF proc[p].phase = "boot"
       THEN /\ Goto(p, "recover")
            /\ UNCHANGED stage
       ELSE IF Free = {}
       THEN /\ proc' = Error(p)
            /\ UNCHANGED stage
       ELSE /\ stage' = [stage EXCEPT ![NewStage].dir = TRUE]
            /\ proc' = [proc EXCEPT ![p].child = NewStage, ![p].step = "copyExe"]
    /\ UNCHANGED <<root, journal, lock, spent>>

\* Mutant: recovery puts the old bytes back over an edit.
RecoverOverEdit(p) ==
    /\ proc[p].step = "recover"
    /\ IF lock # None \/ (journal # None /\ Unused = {})
       THEN /\ proc' = Error(p)
            /\ UNCHANGED <<root, journal>>
       ELSE IF journal = None
       THEN /\ Goto(p, "open")
            /\ UNCHANGED <<root, journal>>
       ELSE /\ root' = Restored
            /\ journal' = None
            /\ proc' = [Gone(p) EXCEPT ![NewProc] =
                           Started("root", [exe |-> journal.exe, ui |-> None], Dirs)]
    /\ UNCHANGED <<lock, stage, spent>>

\* recoverInstallTransactions(): what it restores may be the launcher itself,
\* so the one in the root is started in its place.  A launcher that cannot lock
\* or cannot restore says so and opens no window.
Recover(p) ==
    /\ proc[p].step = "recover"
    /\ IF lock # None \/ Spoiled \/ (journal # None /\ Unused = {})
       THEN /\ proc' = Error(p)
            /\ UNCHANGED <<root, journal>>
       ELSE IF journal = None
       THEN /\ Goto(p, "open")
            /\ UNCHANGED <<root, journal>>
       ELSE /\ root' = Restored
            /\ journal' = None
            /\ proc' = [Gone(p) EXCEPT ![NewProc] =
                           Started("root", [exe |-> journal.exe, ui |-> None], Dirs)]
    /\ UNCHANGED <<lock, stage, spent>>

\* The window opens with whatever interface is in the stage.  Its Backend recovers
\* once more (native_backend.cpp:273), and starts no other launcher for what it
\* restores.
Open(p) ==
    /\ proc[p].step = "open"
    /\ IF lock # None \/ Spoiled
       THEN /\ proc' = Error(p)
            /\ UNCHANGED <<root, journal>>
       ELSE /\ root' = Restored
            /\ journal' = None
            /\ proc' = [proc EXCEPT ![p].phase = "open", ![p].step = "none",
                                    ![p].image.ui = stage[p].files.ui]
    /\ UNCHANGED <<lock, stage, spent>>

\* The game runs, or a file cannot be written: either recovery may fail, before or
\* after the one replacement that it has to make, that of the executable.
RecoverFails(p) ==
    /\ "failures" \in Environment
    /\ proc[p].step \in {"recover", "open"}
    /\ lock = None
    /\ journal # None
    /\ root' = root \/ (~Spoiled /\ root' = Restored)
    /\ proc' = Error(p)
    /\ UNCHANGED <<journal, lock, stage, spent>>

\* fetcherUiReady: the page is there.
Ready(p) ==
    /\ proc[p].phase = "open"
    /\ proc[p].image.ui # None
    /\ proc' = [q \in Procs |->
                   IF q = p THEN [proc[p] EXCEPT !.phase = "window"]
                   ELSE IF proc[q].child = p /\ proc[q].step = "await"
                   THEN [proc[q] EXCEPT !.ready = TRUE]
                   ELSE proc[q]]
    /\ UNCHANGED <<root, journal, lock, stage, spent>>

-----------------------------------------------------------------------------
(* The page and Command().  What is dispatched reaches the page in order,  *)
(* so an event counts as delivered when it is posted.                      *)

\* The thread that Command starts may be faster than Command's own reply.
Command(p, cmd) ==
    /\ proc[p].phase = "window"
    /\ proc[p].step = "none"
    /\ ~proc[p].busy
    /\ ~proc[p].calling
    /\ IF cmd = "restart"
       THEN /\ proc[p].button
            /\ UNCHANGED spent
       ELSE /\ spent.commands < MaxCommands
            /\ spent' = [spent EXCEPT !.commands = @ + 1]
    /\ proc' = [proc EXCEPT ![p].step = IF cmd = "restart" THEN "compare" ELSE "command",
                            ![p].cmd = cmd, ![p].ok = TRUE, ![p].calling = TRUE]
    /\ UNCHANGED <<root, journal, lock, stage>>

\* {"started": true} makes the page busy, whenever it comes.
Reply(p) ==
    /\ proc[p].calling
    /\ proc' = [proc EXCEPT ![p].calling = FALSE, ![p].busy = TRUE]
    /\ UNCHANGED <<root, journal, lock, stage, spent>>

\* action-complete, with what was found on the way; nothing is posted to a
\* window that closes.
Finished(p, changed) ==
    [proc EXCEPT ![p].step = "none", ![p].cmd = "none", ![p].child = None,
                 ![p].target = Nothing, ![p].ready = FALSE, ![p].busy = FALSE,
                 ![p].button = changed /\ proc[p].phase = "window"]

-----------------------------------------------------------------------------
(* The worker: Backend::command() under InstallLock.                       *)

Lock(p) ==
    /\ proc[p].step = "command"
    /\ IF lock = None
       THEN /\ lock' = p
            /\ Goto(p, "work")
       ELSE /\ UNCHANGED lock
            /\ proc' = [proc EXCEPT ![p].step = "compare", ![p].ok = FALSE]
    /\ UNCHANGED <<root, journal, stage, spent>>

\* A command that leaves the launcher's files alone, or fails before them: at
\* any time, or since undoing an interrupted update would lose an edit.
Work(p) ==
    /\ proc[p].step = "work"
    /\ lock' = None
    /\ \E ok \in BOOLEAN :
          /\ ok \/ "failures" \in Environment \/ (proc[p].cmd = "update" /\ Spoiled)
          /\ proc' = [proc EXCEPT ![p].step = "compare", ![p].ok = ok]
    /\ UNCHANGED <<root, journal, stage, spent>>

\* An update or a repair replaces the executable; an interrupted one is undone
\* first.  (A rollback over an interrupted update is in InstallTransaction.)
ReplaceExe(p, b) ==
    /\ proc[p].step = "work"
    /\ proc[p].cmd = "update"
    /\ ~Spoiled
    /\ journal' = Restored
    /\ root' = [Restored EXCEPT !.exe = b]
    /\ proc' = [proc EXCEPT ![p].step = "replaced",
                            ![p].target = [exe |-> b, ui |-> b]]
    /\ UNCHANGED <<lock, stage, spent>>

\* The rest; the client's part of the update may still fail.
ReplaceUi(p) ==
    /\ proc[p].step = "replaced"
    /\ LET b == proc[p].target.exe
       IN root' = [exe |-> b, ui |-> b, inventory |-> b]
    /\ journal' = None
    /\ lock' = None
    /\ \E ok \in BOOLEAN :
          /\ ok \/ "failures" \in Environment
          /\ proc' = [proc EXCEPT ![p].step = "compare", ![p].ok = ok, ![p].target = Nothing]
    /\ UNCHANGED <<stage, spent>>

\* The undo may fail as well, at its start or at its end, and over an edit it
\* refuses.
ReplaceFails(p) ==
    /\ "failures" \in Environment
    /\ proc[p].step = "replaced"
    /\ \/ UNCHANGED <<root, journal>>
       \/ /\ ~Spoiled
          /\ root' = Restored
          /\ journal' \in {None, journal}
    /\ lock' = None
    /\ proc' = [proc EXCEPT ![p].step = "compare", ![p].ok = FALSE, ![p].target = Nothing]
    /\ UNCHANGED <<stage, spent>>

-----------------------------------------------------------------------------
(* The worker: has the launcher changed, and RestartLauncher().            *)

Changed(p) == proc[p].image # [exe |-> root.exe, ui |-> root.ui]

\* Mutant: only the executable's inventory entry is compared.
VerifiedExe == root.exe = root.inventory

Verified == root.exe = root.inventory /\ root.ui = root.inventory

Compare(p) ==
    /\ proc[p].step = "compare"
    /\ IF proc[p].ok /\ Changed(p) /\ proc[p].cmd \in {"update", "restart"}
       THEN proc' = [proc EXCEPT ![p].step = "stage", ![p].busy = proc[p].phase = "window"]
       ELSE proc' = Finished(p, Changed(p))
    /\ UNCHANGED <<root, journal, lock, stage, spent>>

StageRuntime(p) ==
    /\ proc[p].step = "stage"
    /\ lock = None
    /\ Verified
    /\ Free # {}
    /\ lock' = p
    /\ stage' = [stage EXCEPT ![NewStage].dir = TRUE]
    /\ proc' = [proc EXCEPT ![p].step = "copyExe", ![p].child = NewStage,
                            ![p].target = [exe |-> root.exe, ui |-> root.ui]]
    /\ UNCHANGED <<root, journal, spent>>

StageRefused(p) ==
    /\ proc[p].step = "stage"
    /\ lock # None \/ ~Verified \/ Free = {}
    /\ proc' = Finished(p, TRUE)
    /\ UNCHANGED <<root, journal, lock, stage, spent>>

\* A restart makes the directory again when a sweep has removed it; the first
\* start fails.
CopyExe(p) ==
    /\ proc[p].step = "copyExe"
    /\ IF stage[proc[p].child].dir \/ Works(p)
       THEN /\ stage' = [stage EXCEPT ![proc[p].child] =
                            [dir |-> TRUE, files |-> [@.files EXCEPT !.exe = root.exe]]]
            /\ Goto(p, "copyUi")
       ELSE /\ UNCHANGED stage
            /\ proc' = Error(p)
    /\ UNCHANGED <<root, journal, lock, spent>>

CopyUi(p) ==
    /\ proc[p].step = "copyUi"
    /\ IF stage[proc[p].child].dir \/ Works(p)
       THEN /\ stage' = [stage EXCEPT ![proc[p].child] =
                            [dir |-> TRUE, files |-> [@.files EXCEPT !.ui = root.ui]]]
            /\ Goto(p, IF Works(p) THEN "check" ELSE "spawn")
       ELSE /\ UNCHANGED stage
            /\ proc' = Error(p)
    /\ UNCHANGED <<root, journal, lock, spent>>

\* Mutant: the lock is not released before the new launcher starts.
CheckStageKeepingLock(p) ==
    /\ proc[p].step = "check"
    /\ Goto(p, "spawn")
    /\ UNCHANGED <<root, journal, lock, stage, spent>>

\* The copies are hashed again; then the lock is released.
CheckStage(p) ==
    /\ proc[p].step = "check"
    /\ lock' = None
    /\ IF stage[proc[p].child].files = proc[p].target
       THEN /\ Goto(p, "spawn")
            /\ UNCHANGED stage
       ELSE /\ stage' = [stage EXCEPT ![proc[p].child] = NoStage]
            /\ proc' = Finished(p, TRUE)
    /\ UNCHANGED <<root, journal, spent>>

\* CreateProcess.  The root's launcher ends here; a restart waits.
Spawn(p) ==
    /\ proc[p].step = "spawn"
    /\ LET c == proc[p].child
           runs == Started("boot", [exe |-> stage[c].files.exe, ui |-> None], Dirs \ {c})
       IN IF stage[c].files.exe = None
          THEN proc' = IF Works(p) THEN Finished(p, TRUE) ELSE Error(p)
          ELSE IF Works(p)
          THEN proc' = [proc EXCEPT ![c] = runs, ![p].step = "await"]
          ELSE proc' = [Gone(p) EXCEPT ![c] = runs]
    /\ UNCHANGED <<root, journal, lock, stage, spent>>

\* Older launchers cannot acknowledge: they count when they wait for input.
Answered(p) ==
    IF proc[p].target.exe \in Acknowledging THEN proc[p].ready
    ELSE proc[proc[p].child].phase \in {"open", "window", "error"}

AwaitAnswer(p) ==
    /\ proc[p].step = "await"
    /\ Answered(p)
    /\ Goto(p, "handed")
    /\ UNCHANGED <<root, journal, lock, stage, spent>>

\* The child has ended, or 15 seconds have passed.
AwaitFails(p) ==
    /\ proc[p].step = "await"
    /\ ~Answered(p)
    /\ proc' = Finished(p, TRUE)
    /\ UNCHANGED <<root, journal, lock, stage, spent>>

-----------------------------------------------------------------------------
(* Ends.                                                                   *)

\* The worker is joined before the process ends.
Exit(p) ==
    /\ \/ proc[p].phase \in {"window", "closing"} /\ proc[p].step = "handed"
       \/ proc[p].phase = "closing" /\ proc[p].step = "none"
    /\ proc' = Gone(p)
    /\ UNCHANGED <<root, journal, lock, stage, spent>>

\* Mutant: closing ends the process and does not wait for the worker.
CloseAtOnce(p) ==
    /\ proc[p].phase \in {"open", "window", "error"}
    /\ proc' = Gone(p)
    /\ UNCHANGED <<root, journal, lock, stage, spent>>

\* The user closes the window or the message box.
Close(p) ==
    /\ ~proc[p].calling
    /\ \/ /\ proc[p].phase \in {"open", "window"}
          /\ proc' = [proc EXCEPT ![p].phase = "closing", ![p].busy = FALSE,
                                  ![p].button = FALSE]
       \/ /\ proc[p].phase = "error"
          /\ proc' = Gone(p)
    /\ UNCHANGED <<root, journal, lock, stage, spent>>

\* Also what an exception of state() on the worker thread does.
Crash(p) ==
    /\ "crashes" \in Environment
    /\ Alive(p)
    /\ spent.crashes < MaxCrashes
    /\ spent' = [spent EXCEPT !.crashes = @ + 1]
    /\ proc' = Gone(p)
    /\ lock' = Unlocked(p)
    /\ UNCHANGED <<root, journal, stage>>

\* Bound: one interface file is changed.
Edit ==
    /\ "edits" \in Environment
    /\ root.ui # Edited
    /\ root' = [root EXCEPT !.ui = Edited]
    /\ UNCHANGED <<journal, lock, stage, proc, spent>>

-----------------------------------------------------------------------------

\* One window is open.
Init ==
    LET first == Least(Procs)
        whole == [exe |-> FirstBuild, ui |-> FirstBuild]
    IN /\ spent = [opens |-> 0, commands |-> 0, crashes |-> 0]
       /\ root = [exe |-> FirstBuild, ui |-> FirstBuild, inventory |-> FirstBuild]
       /\ journal = None
       /\ lock = None
       /\ stage = [s \in Procs |-> IF s = first THEN [dir |-> TRUE, files |-> whole]
                                                ELSE NoStage]
       /\ proc = [p \in Procs |-> IF p = first
                                  THEN [Ended(whole) EXCEPT !.phase = "window"]
                                  ELSE Ended(Nothing)]

Worker(p) ==
    \/ Lock(p) \/ Work(p) \/ (\E b \in Builds : ReplaceExe(p, b)) \/ ReplaceUi(p)
    \/ ReplaceFails(p)
    \/ Compare(p) \/ StageRuntime(p) \/ StageRefused(p) \/ CopyExe(p) \/ CopyUi(p)
    \/ CheckStage(p) \/ Spawn(p) \/ AwaitAnswer(p) \/ AwaitFails(p)

Main(p) ==
    \/ (\E s \in Procs : Sweep(p, s)) \/ SweepDone(p) \/ Recover(p) \/ RecoverFails(p)
    \/ Open(p) \/ Reply(p) \/ Exit(p)

Next ==
    \/ OpenRoot \/ Edit
    \/ \E p \in Procs : Worker(p) \/ Main(p) \/ Ready(p) \/ Close(p) \/ Crash(p)
    \/ \E p \in Procs, cmd \in Commands : Command(p, cmd)

\* Both threads of a process run on.  A page may never get ready, and nobody
\* need open, click or close anything.
Spec ==
    /\ Init /\ [][Next]_vars
    /\ \A p \in Procs : WF_vars(Worker(p)) /\ WF_vars(Main(p))

-----------------------------------------------------------------------------
(* Properties.                                                             *)

TypeOK ==
    /\ root \in Installed
    /\ journal = None \/ journal \in Installed
    /\ lock \in Procs \cup {None}
    /\ stage \in [Procs -> Stage]
    /\ proc \in [Procs -> Process]
    /\ spent \in [opens : 0..MaxOpens, commands : 0..MaxCommands, crashes : 0..MaxCrashes]
    /\ lock # None => Works(lock)
    /\ \A p \in Procs : proc[p].step \in {"copyExe", "copyUi", "check", "spawn", "await"}
                          => proc[p].child # None

\* An active launcher is never removed by the cleanup of another one
\* (main.cpp:436): all of what it was started from stays.
RunningStageWhole ==
    \A p \in Procs : proc[p].phase \in {"boot", "open", "window", "closing"}
        => stage[p].files.exe # None /\ stage[p].files.ui # None

\* A window ends itself for a new one only when that one shows the interface
\* and runs the executable of one build, as the installed inventory lists
\* them (launcher/AUTO-UPDATES.md:15-19).
HandoffIsWhole ==
    [][\A p \in Procs :
          (/\ proc[p].step = "await"
           /\ proc'[p].step = "handed"
           /\ proc[p].target.exe \in Acknowledging)
             => \E b \in Builds : proc[proc[p].child].image = [exe |-> b, ui |-> b]]_vars

\* "Recovery stopped to preserve that edit" (install_transaction.cpp:114): whoever
\* crashed, failed, or recovers in another process, an edit of the interface goes
\* only when a command replaces the interface and completes, never in an undo.
EditOutlivesRecovery ==
    [][root.ui = Edited /\ root'.ui # Edited
          => \E p \in Procs : /\ proc[p].step = "replaced"
                              /\ root'.ui = proc[p].target.exe
                              /\ journal' = None]_vars

\* When nothing is under way, the page lets the user act: "a failed handoff
\* leaves the original window open with an error and Restart launcher retry
\* button" (launcher/AUTO-UPDATES.md:19-20).
PageFollowsWorker ==
    \A p \in Procs :
        (/\ proc[p].phase = "window"
         /\ proc[p].step = "none"
         /\ ~proc[p].calling)
        => ~proc[p].busy

Slow(p) ==
    /\ proc[p].step = "await"
    /\ proc[proc[p].child].phase \in {"boot", "open", "window"}
    /\ AwaitFails(p)

Meddling ==
    \/ OpenRoot \/ Edit
    \/ \E p \in Procs : \/ Crash(p) \/ RecoverFails(p) \/ Slow(p)
                         \/ (proc[p].phase # "error" /\ Close(p))
                         \/ \E cmd \in Commands \ {"restart"} : Command(p, cmd)

\* "Restart launcher" works: when it is clicked whenever that is possible,
\* pages get ready, nobody meddles for ever and no page is stuck
\* (PageFollowsWorker), no window keeps asking for it.
RestartArrives ==
    (/\ []PageFollowsWorker
     /\ <>[][~Meddling]_vars
     /\ <>[](Verified /\ Free # {})
     /\ \A p \in Procs : SF_vars(Command(p, "restart")) /\ WF_vars(Ready(p)))
    => []<>(\A p \in Procs : ~proc[p].button)

=============================================================================
