------------------------------ MODULE UmoTool ------------------------------
(***************************************************************************)
(* The external UMO helper that fetches archives from Nexus, and the        *)
(* user's handler of nxm links (umo_helper.cpp): installing the tool over a *)
(* working copy, taking over the registered handler and giving it back,     *)
(* the supervised adapter process with its cancellation, and the browser    *)
(* callback, a process of its own that takes no lock.  Each command holds   *)
(* the installation's lock (native_backend.cpp:988), so there is one.       *)
(*                                                                         *)
(* A copy of the tool is Nothing, "partial" or "whole" (verifyTool accepts  *)
(* it).  The adapter and its UMO library are external: what they do to the  *)
(* files that this code reads is modelled, and nothing else.                *)
(***************************************************************************)
EXTENDS Naturals

CONSTANTS
    Nothing,        \* no copy, no file, no backup
    Ours,           \* the value that this launcher registers
    Applications,   \* other programs that register as the handler
    Files,          \* Nexus files that a profile asks for
    MaxCrashes,     \* bound: deaths of the launcher
    MaxTakeOvers,   \* bound: registrations by other applications
    Environment     \* of "failures", "damage"

\* The values of nxm that are set: under the key of its command, and two under
\* its own.
Values == {"command", "description", "protocol"}
Registry == [Values -> Applications \cup {Nothing, Ours}]

ASSUME UmoAssumption ==
    /\ Ours \notin Applications \cup {Nothing}
    /\ Nothing \notin {"partial", "whole"}
    /\ Nothing \notin Registry
    /\ MaxCrashes \in Nat /\ MaxTakeOvers \in Nat

VARIABLES
    tool,       \* tool-<version>
    previous,   \* previous-tool
    stage,      \* the stage of the install in progress
    registry,   \* the three values of the handler
    foreign,    \* what the other applications put there (history)
    mixed,      \* whether one replaced the command alone of ours (history)
    backup,     \* nxm-backup.json
    credential, \* whether credential.bin is there
    pending,    \* pending.json: the file whose link is awaited
    cancelled,  \* the cancellation event
    callback,   \* the file of the link that a callback process has checked
    op,         \* the command in progress
    crashes, takeOvers

copies == <<tool, previous, stage>>
handler == <<registry, foreign, mixed, backup>>
session == <<credential, pending, callback>>
bounds == <<crashes, takeOvers>>
vars == <<copies, handler, session, cancelled, op, bounds>>

RegisteredBy(a) == [v \in Values |-> a]
Fails == "failures" \in Environment     \* a call of Windows may fail

Op(cmd, step, had, file) == [cmd |-> cmd, step |-> step, had |-> had, file |-> file]
Idle == op.cmd = "idle"
At(cmd, step) == op.cmd = cmd /\ op.step = step
Goto(step) == op' = Op(op.cmd, step, op.had, op.file)

\* The command ends; had stays only when it promises something to the next.
End(kept) == op' = Op("idle", "idle", op.had /\ kept, Nothing)

Init ==
    /\ tool = Nothing /\ previous = Nothing /\ stage = Nothing
    /\ \E a \in Applications \cup {Nothing} :
          registry = RegisteredBy(a) /\ foreign = RegisteredBy(a)
    /\ mixed = FALSE /\ backup = Nothing
    /\ credential = FALSE /\ pending = Nothing /\ cancelled = FALSE
    /\ callback = Nothing
    /\ op = Op("idle", "idle", FALSE, Nothing)
    /\ crashes = 0 /\ takeOvers = 0

\* resetUmoCancellation() comes before the command's own thread.
Begin(cmd, step, file) ==
    /\ Idle
    /\ op' = Op(cmd, step, tool = "whole", file)
    /\ cancelled' = FALSE

-----------------------------------------------------------------------------
(***************************************************************************)
(* runAdapter: the tool is verified, then the adapter runs under a job      *)
(* until it ends, the event is set or 20 minutes have passed.               *)
(***************************************************************************)
AdapterFails == tool # "whole" \/ cancelled \/ Fails
AdapterRuns == tool = "whole" /\ ~cancelled

-----------------------------------------------------------------------------
(***************************************************************************)
(* installUmo.                                                              *)
(***************************************************************************)
BeginInstall ==
    /\ Begin("install", "extract", Nothing)
    /\ UNCHANGED <<copies, handler, session, bounds>>

\* Mutant: an extraction that stopped partway is taken for a whole one.
ExtractUnchecked ==
    /\ At("install", "extract")
    /\ stage' \in {"partial", "whole"} /\ Goto("dropOld")
    /\ UNCHANGED <<tool, previous, handler, session, cancelled, bounds>>

\* The downloads, the extraction and the receipt, into a stage of its own.
Extract ==
    /\ At("install", "extract")
    /\ \/ stage = Nothing /\ stage' = "partial" /\ UNCHANGED op
       \/ stage = "partial" /\ stage' = "whole" /\ Goto("dropOld")
       \/ Fails /\ UNCHANGED stage /\ Goto("clean")
    /\ UNCHANGED <<tool, previous, handler, session, cancelled, bounds>>

\* removeManaged of previous-tool, which may stop partway.
DropOld ==
    /\ At("install", "dropOld")
    /\ \/ previous' = Nothing /\ Goto("moveAside")
       \/ Fails /\ previous # Nothing /\ previous' = "partial" /\ Goto("clean")
    /\ UNCHANGED <<tool, stage, handler, session, cancelled, bounds>>

\* Mutant: the old tool is removed to make room for the new one.
RemoveAside ==
    /\ At("install", "moveAside")
    /\ tool' = Nothing /\ Goto("putStage")
    /\ UNCHANGED <<previous, stage, handler, session, cancelled, bounds>>

MoveAside ==
    /\ At("install", "moveAside")
    /\ \/ previous' = tool /\ tool' = Nothing /\ Goto("putStage")
       \/ Fails /\ tool # Nothing /\ UNCHANGED <<tool, previous>> /\ Goto("clean")
    /\ UNCHANGED <<stage, handler, session, cancelled, bounds>>

PutStage ==
    /\ At("install", "putStage")
    /\ \/ tool' = stage /\ stage' = Nothing /\ Goto("probe")
       \/ Fails /\ UNCHANGED <<tool, stage>> /\ Goto("moveBack")
    /\ UNCHANGED <<previous, handler, session, cancelled, bounds>>

Probe ==
    /\ At("install", "probe")
    /\ \/ AdapterRuns /\ Goto("dropPrevious")
       \/ AdapterFails /\ Goto("removeTool")
    /\ UNCHANGED <<copies, handler, session, cancelled, bounds>>

\* A removal that fails leaves the catch block: nothing is moved back.
RemoveTool ==
    /\ At("install", "removeTool")
    /\ \/ tool' = Nothing /\ Goto("moveBack") /\ UNCHANGED previous
       \/ Fails /\ tool' = "partial" /\ End(FALSE) /\ UNCHANGED previous
    /\ UNCHANGED <<stage, handler, session, cancelled, bounds>>

\* "if (fs::exists(previous)) fs::rename(previous, tool);"
MoveBack ==
    /\ At("install", "moveBack")
    /\ \/ /\ previous # Nothing
          /\ tool' = previous /\ previous' = Nothing /\ Goto("clean")
       \/ /\ previous = Nothing
          /\ UNCHANGED <<tool, previous>> /\ Goto("clean")
       \/ /\ Fails /\ previous # Nothing
          /\ UNCHANGED <<tool, previous>>
          /\ op' = Op(op.cmd, "clean", FALSE, Nothing)
    /\ UNCHANGED <<stage, handler, session, cancelled, bounds>>

DropPrevious ==
    /\ At("install", "dropPrevious")
    /\ \/ previous' = Nothing /\ End(TRUE)
       \/ Fails /\ previous # Nothing /\ previous' = "partial" /\ Goto("clean")
    /\ UNCHANGED <<tool, stage, handler, session, cancelled, bounds>>

\* The outer catch block; what it cannot remove stays under its own name.
Clean ==
    /\ At("install", "clean")
    /\ stage' = Nothing
    /\ End(TRUE)
    /\ UNCHANGED <<tool, previous, handler, session, cancelled, bounds>>

-----------------------------------------------------------------------------
(***************************************************************************)
(* umoProtocol.                                                             *)
(***************************************************************************)
HandlerOwned == registry["command"] = Ours

\* Already enabled, or the helper is not there: nothing changes.
BeginEnable ==
    /\ tool = "whole" /\ ~HandlerOwned
    /\ Begin("enable", "command", Nothing)
    /\ backup' = registry
    /\ UNCHANGED <<copies, registry, foreign, mixed, session, bounds>>

\* The order of the three writes: the command is the first that is registered
\* and the last that is restored.
After(step) ==
    CASE step = "command" -> "description" [] step = "description" -> "protocol"
      [] step = "protocol" -> "done"

\* Mutant: the command is given back between the other two values.
RestoredOutOfOrder(step) ==
    CASE step = "description" -> "command" [] step = "command" -> "protocol"
      [] step = "protocol" -> "removeBackup"

Restored(step) ==
    CASE step = "description" -> "protocol" [] step = "protocol" -> "command"
      [] step = "command" -> "removeBackup"

Register ==
    /\ op.cmd = "enable" /\ op.step \in Values
    /\ \/ /\ registry' = [registry EXCEPT ![op.step] = Ours]
          /\ IF After(op.step) = "done" THEN End(TRUE) ELSE Goto(After(op.step))
       \/ /\ Fails
          /\ op' = Op("recover", "description", op.had, Nothing)
          /\ UNCHANGED registry
    /\ UNCHANGED <<copies, foreign, mixed, backup, session, cancelled, bounds>>

\* "Another application now handles NXM links; its setting was kept."
BeginDisable ==
    /\ backup # Nothing /\ HandlerOwned
    /\ Begin("disable", "description", Nothing)
    /\ UNCHANGED <<copies, handler, session, bounds>>

\* The recovery of enable and the restoration of disable make the same writes;
\* a write that fails ends either, with the saved values kept.
Restore ==
    /\ op.cmd \in {"recover", "disable"} /\ op.step \in Values
    /\ \/ /\ registry' = [registry EXCEPT ![op.step] = backup[op.step]]
          /\ Goto(Restored(op.step))
       \/ Fails /\ End(TRUE) /\ UNCHANGED registry
    /\ UNCHANGED <<copies, foreign, mixed, backup, session, cancelled, bounds>>

RemoveBackup ==
    /\ op.cmd \in {"recover", "disable"} /\ op.step = "removeBackup"
    /\ \/ backup' = Nothing
       \/ Fails /\ UNCHANGED backup
    /\ End(TRUE)
    /\ UNCHANGED <<copies, registry, foreign, mixed, session, cancelled, bounds>>

-----------------------------------------------------------------------------
(***************************************************************************)
(* connectUmo, forgetUmo and downloadUmo.                                   *)
(***************************************************************************)
BeginConnect ==
    /\ Begin("connect", "run", Nothing)
    /\ UNCHANGED <<copies, handler, session, bounds>>

\* The adapter writes the credential before it ends.
Connect ==
    /\ At("connect", "run")
    /\ \/ AdapterRuns /\ credential' = TRUE
       \/ AdapterFails /\ UNCHANGED credential
    /\ End(TRUE)
    /\ UNCHANGED <<copies, handler, pending, callback, cancelled, bounds>>

Forget ==
    /\ Begin("idle", "idle", Nothing)
    /\ credential' = FALSE
    /\ UNCHANGED <<copies, handler, pending, callback, bounds>>

BeginDownload(file) ==
    /\ Begin("download", "ask", file)
    /\ UNCHANGED <<copies, handler, session, bounds>>

\* Mutant: the event is reset by the worker when it starts to wait.
AskResetting ==
    /\ At("download", "ask")
    /\ \/ /\ AdapterRuns \/ cancelled
          /\ pending' = op.file /\ Goto("wait") /\ cancelled' = FALSE
       \/ /\ AdapterFails
          /\ pending' = Nothing /\ End(TRUE) /\ UNCHANGED cancelled
    /\ UNCHANGED <<copies, handler, credential, callback, bounds>>

\* A free account needs the handler, and then waits for the user's click.
Ask ==
    /\ At("download", "ask")
    /\ \/ /\ AdapterRuns /\ credential /\ HandlerOwned
          /\ pending' = op.file /\ Goto("wait")
       \/ /\ AdapterRuns /\ End(TRUE) /\ UNCHANGED pending
       \/ /\ AdapterFails \/ ~credential \/ ~HandlerOwned
          /\ pending' = Nothing /\ End(TRUE)
    /\ UNCHANGED <<copies, handler, credential, callback, cancelled, bounds>>

\* The process is killed with its job, and downloadUmo removes pending.json.
StopWaiting ==
    /\ At("download", "wait")
    /\ cancelled
    /\ pending' = Nothing
    /\ End(TRUE)
    /\ UNCHANGED <<copies, handler, credential, callback, cancelled, bounds>>

\* The adapter's own limit of 10 minutes, or the caller's of 20.
TimeOut ==
    /\ At("download", "wait")
    /\ pending' = Nothing
    /\ End(TRUE)
    /\ UNCHANGED <<copies, handler, credential, callback, cancelled, bounds>>

-----------------------------------------------------------------------------
(***************************************************************************)
(* forwardUmoLink, in the process that the browser starts for a link.       *)
(***************************************************************************)
CallbackReads ==
    /\ callback = Nothing /\ HandlerOwned
    /\ pending # Nothing
    /\ callback' = pending
    /\ UNCHANGED <<copies, handler, credential, pending, cancelled, op, bounds>>

\* The waiting process takes the link and ends, or refuses it, or there is none:
\* "UMO is no longer waiting for this download."  It may be waiting for another
\* file by now, on the same port; the archive is compared with the pinned hash.
CallbackSends ==
    /\ callback # Nothing
    /\ callback' = Nothing
    /\ \/ At("download", "wait") /\ pending' = Nothing /\ End(TRUE)
       \/ UNCHANGED <<pending, op>>
    /\ UNCHANGED <<copies, handler, credential, cancelled, bounds>>
-----------------------------------------------------------------------------
(***************************************************************************)
(* The user, other applications and the machine.                            *)
(***************************************************************************)
Cancel ==
    /\ ~cancelled
    /\ cancelled' = TRUE
    /\ UNCHANGED <<copies, handler, session, op, bounds>>

\* Another application registers itself, between two commands: all three values,
\* or the command alone, as tests/umo_registry_fixture.cpp:75 has it.
TakeOver(a, taken) ==
    /\ Idle
    /\ takeOvers < MaxTakeOvers /\ takeOvers' = takeOvers + 1
    /\ registry' = [v \in Values |-> IF v \in taken THEN a ELSE registry[v]]
    /\ foreign' = [v \in Values |-> IF v \in taken THEN a ELSE foreign[v]]
    /\ mixed' = (taken # Values /\ (mixed \/ HandlerOwned))
    /\ UNCHANGED <<copies, backup, session, cancelled, op, crashes>>

Damage ==
    /\ "damage" \in Environment
    /\ Idle /\ tool = "whole"
    /\ tool' = "partial"
    /\ op' = Op("idle", "idle", FALSE, Nothing)
    /\ UNCHANGED <<previous, stage, handler, session, cancelled, bounds>>

\* A removal that was under way is left partway; the stage keeps a name that
\* no later install uses; the adapter dies with its job.
Crash ==
    /\ ~Idle
    /\ crashes < MaxCrashes /\ crashes' = crashes + 1
    /\ \/ UNCHANGED <<tool, previous>>
       \/ /\ op.step \in {"dropOld", "dropPrevious"} /\ previous # Nothing
          /\ previous' = "partial" /\ UNCHANGED tool
       \/ op.step = "removeTool" /\ tool' = "partial" /\ UNCHANGED previous
    /\ stage' = Nothing
    /\ End(FALSE)
    /\ cancelled' = FALSE
    /\ UNCHANGED <<handler, session, takeOvers>>

InstallNext ==
    \/ Extract \/ DropOld \/ MoveAside \/ PutStage \/ Probe \/ RemoveTool \/ MoveBack
    \/ DropPrevious \/ Clean

CommandNext ==
    \/ InstallNext \/ Register \/ Restore \/ RemoveBackup
    \/ Connect \/ Ask \/ StopWaiting

Next ==
    \/ CommandNext
    \/ BeginInstall \/ BeginEnable \/ BeginDisable \/ BeginConnect \/ Forget
    \/ \E file \in Files : BeginDownload(file)
    \/ TimeOut \/ CallbackReads \/ CallbackSends \/ Cancel \/ Damage \/ Crash
    \/ \E a \in Applications, taken \in {Values, {"command"}} : TakeOver(a, taken)

\* The worker thread takes its next step; nobody has to click or to cancel.
Spec == Init /\ [][Next]_vars /\ WF_vars(CommandNext)

-----------------------------------------------------------------------------
TypeOK ==
    /\ {tool, previous, stage} \subseteq {Nothing, "partial", "whole"}
    /\ registry \in Registry /\ foreign \in Registry
    /\ mixed \in BOOLEAN
    /\ backup \in {Nothing} \cup Registry
    /\ credential \in BOOLEAN /\ cancelled \in BOOLEAN
    /\ {pending, callback} \subseteq Files \cup {Nothing}
    /\ At("download", "wait") => pending = op.file
    /\ op.step \in {"probe", "dropPrevious"} => tool = "whole"

\* The command that this launcher replaced can always be given back: while the
\* handler is its own it is saved, and otherwise it is in place.  So are the
\* other two values, whichever write failed or was the last before a crash,
\* unless another application replaced the command alone (umo_helper.cpp:379-414).
HandlerRestorable ==
    /\ IF HandlerOwned THEN backup # Nothing /\ backup["command"] = foreign["command"]
                ELSE registry["command"] = foreign["command"]
    /\ ~mixed => IF HandlerOwned THEN backup = foreign ELSE registry = foreign

\* An install over a working copy keeps one, and when it fails the copy is in
\* its place again (umo_helper.cpp:282-306).  Nothing is promised once moving it
\* back, or removing the new copy before that (295), failed too, or after a crash.
HelperKept ==
    op.had => IF Idle THEN tool = "whole" ELSE "whole" \in {tool, previous}

\* A cancellation ends whatever command is in progress
\* (umo_helper.cpp:191-199, main.cpp:575-590).
CancelEnds == (~Idle /\ cancelled) ~> Idle
=============================================================================
