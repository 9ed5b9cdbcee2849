---------------------------- MODULE UpdateCommand ----------------------------
(***************************************************************************)
(* Backend::check (launcher/src/native_backend.cpp) and the commands       *)
(* around it: startup, check, update, repair, rollbackUpdate, launch, and  *)
(* bootstrapInstall of bootstrap.cpp, on one installation root.            *)
(*                                                                         *)
(* A command holds InstallLock from its first to its last step, so there   *)
(* is one at a time; the publisher replaces the release assets whenever he *)
(* likes.  Replacing files is the one step AInstall of AtomicInstall,      *)
(* which InstallTransaction implements.                                    *)
(***************************************************************************)
EXTENDS AtomicInstall

CONSTANTS
    Procs,          \* launcher windows
    Size,           \* content -> file size
    Executable,     \* openmw.exe
    LegacyDigest,   \* the client recorded in fetcher-update-state.json
    FirstReleases,  \* Kinds -> the build published at first
    Rank,           \* Builds -> Nat: the order in which builds are made
    Environment,    \* which of Disturbances may happen
    MaxReleases,    \* bound: assets published in a behaviour
    NoBuild, NoProc

Kinds == {"tools", "client"}
Disturbances == {"republish", "failures"}
BuildsOf(k) == {b \in Builds : KindOf[b] = k}
AnyBuild == Builds \cup {NoBuild}

ASSUME CommandAssumption ==
    /\ NoBuild \notin Builds
    /\ NoProc \notin Procs
    /\ KindOf \in [Builds -> Kinds]
    /\ FirstReleases \in [Kinds -> Builds]
    /\ \A k \in Kinds : KindOf[FirstReleases[k]] = k
    /\ LegacyDigest \in BuildsOf("client") \cup {NoBuild}
    /\ Rank \in [Builds -> Nat]
    /\ MaxReleases \in Nat
    /\ Environment \subseteq Disturbances

\* What InstallTransaction assumes of the packages; and the build of the tools
\* lists its own files only, each of which the client's policy protects.
ASSUME PackageAssumption ==
    /\ PackagesSound
    /\ DOMAIN Allowed = Kinds
    /\ \A b \in Builds : Ships[b] \subseteq Paths
    /\ \A b \in BuildsOf("tools") : Ships[b] \cap Allowed["client"] = {}

\* The root is a whole one, and the PowerShell updater recorded the client it
\* had installed.
ASSUME RootAssumption ==
    /\ RootSound
    /\ \A p \in Paths : InitialFiles[p] \in
          UserContents \cup {Absent} \cup {Image[b][p] : b \in Builds}
    /\ LegacyDigest \in Builds =>
          InitialFiles[Manifest["client"]] = Image[LegacyDigest][Manifest["client"]]

VARIABLES
    published,      \* Kinds -> the build whose asset the release has now
    releases,       \* assets published so far
    receipt,        \* tools.json and client.json
    op,             \* the command in progress
    offered,        \* builds published at some time of that command
    status,         \* mStatus of each window
    game            \* the game runs

vars == <<tree, snapshots, published, releases, receipt, op, offered, status, game>>

Statuses == {"none", "current", "updateAvailable", "checkFailed", "restored",
             "profileUnavailable"}
Modes == {"none", "startup", "check", "update", "repair", "setup"}
Steps == {"idle", "resolve", "package", "install", "receipt", "content"}

Command ==
    [step : Steps, mode : Modes, proc : Procs \cup {NoProc},
     kind : Kinds,                  \* what is being brought up to date
     toolsOnly : BOOLEAN,           \* no server requirements to be had
     ref : [Kinds -> AnyBuild],     \* what resolve() returned
     build : AnyBuild,              \* what package() unpacked
     current : SUBSET Kinds]        \* toolsCurrent and clientCurrent

Idle ==
    [step |-> "idle", mode |-> "none", proc |-> NoProc, kind |-> "tools",
     toolsOnly |-> FALSE, ref |-> [k \in Kinds |-> NoBuild],
     build |-> NoBuild, current |-> {}]

Installs == op.mode \in {"update", "repair", "setup"}

-----------------------------------------------------------------------------
(* What a check reads. *)

\* Mutant: the hash is never compared.
VerifiedBySize(k, hash) ==
    \E b \in BuildsOf(k) :
        /\ tree[Manifest[k]] = Image[b][Manifest[k]]
        /\ Ships[b] # {}
        /\ \A p \in Ships[b] : tree[p] # Absent /\ Size[tree[p]] = Size[Image[b][p]]

\* verifyFiles on the inventory found in the root: sizes, and hashes when asked.
Verified(k, hash) ==
    \E b \in BuildsOf(k) :
        /\ tree[Manifest[k]] = Image[b][Manifest[k]]
        /\ Ships[b] # {}
        /\ \A p \in Ships[b] :
              /\ tree[p] # Absent
              /\ Size[tree[p]] = Size[Image[b][p]]
              /\ hash => tree[p] = Image[b][p]

\* toolsCurrent: files are looked at for a repair only.
ToolsCurrent(b) ==
    /\ receipt["tools"] = b
    /\ op.mode = "repair" => Verified("tools", TRUE)

\* clientCurrent: the native receipt or the PowerShell updater's state names
\* the asset, and the installed inventory verifies.
ClientCurrent(b) ==
    /\ receipt["client"] = b \/ LegacyDigest = b
    /\ tree[Executable] # Absent
    /\ Verified("client", op.mode = "repair")

UpToDate(k, b) ==
    /\ op.mode # "setup"
    /\ IF k = "tools" THEN ToolsCurrent(b) ELSE ClientCurrent(b)

-----------------------------------------------------------------------------
(* A command. *)

Start(p, mode, toolsOnly) ==
    /\ op = Idle
    /\ op' = [Idle EXCEPT !.step = "resolve", !.mode = mode, !.proc = p,
                          !.toolsOnly = toolsOnly]
    /\ offered' = {published[k] : k \in Kinds}
    /\ UNCHANGED <<tree, snapshots, published, releases, receipt, status, game>>

\* startup runs once, in a window that has checked nothing yet.
Startup(p) == status[p] = "none" /\ Start(p, "startup", FALSE)

Check(p) == Start(p, "check", FALSE)

\* An unavailable server document still lets the tools be updated.
Update(p, mode, toolsOnly) == ~game /\ Start(p, mode, toolsOnly)

\* FetcherSetup: both packages, whatever is there.
Setup == ~game /\ Start(NoProc, "setup", FALSE)

\* Tools first, then the client; then the profile's packages.
Continue(ref, current) ==
    op' = [op EXCEPT !.step = IF op.kind = "tools" /\ ~op.toolsOnly THEN "resolve"
                                                                   ELSE "content",
                     !.kind = "client",
                     !.ref = ref,
                     !.current = current]

\* resolve() asks GitHub; the receipts and files decide what to do.
Resolved == [op.ref EXCEPT ![op.kind] = published[op.kind]]

FoundCurrent ==
    /\ op.step = "resolve"
    /\ UpToDate(op.kind, published[op.kind])
    /\ Continue(Resolved, op.current \cup {op.kind})
    /\ UNCHANGED <<tree, snapshots, published, releases, receipt, offered, status, game>>

FoundOutdated ==
    /\ op.step = "resolve"
    /\ ~UpToDate(op.kind, published[op.kind])
    /\ IF Installs THEN op' = [op EXCEPT !.step = "package", !.ref = Resolved]
                   ELSE Continue(Resolved, op.current)
    /\ UNCHANGED <<tree, snapshots, published, releases, receipt, offered, status, game>>

\* Mutant: the receipt is written before the package is installed.
PackageAndReceipt ==
    /\ op.step = "package"
    /\ op' = [op EXCEPT !.step = "install",
                        !.build = IF op.mode = "setup" THEN op.ref[op.kind]
                                                       ELSE published[op.kind]]
    /\ receipt' = [receipt EXCEPT ![op.kind] = op.ref[op.kind]]
    /\ UNCHANGED <<tree, snapshots, published, releases, offered, status, game>>

\* Mutant: package() is always asked for the client.
PackageOfClient ==
    /\ op.step = "package"
    /\ op' = [op EXCEPT !.step = "install",
                        !.build = IF op.mode = "setup" THEN op.ref[op.kind]
                                                       ELSE published["client"]]
    /\ UNCHANGED <<tree, snapshots, published, releases, receipt, offered, status, game>>

\* package() resolves once more; bootstrapInstall downloads what it resolved.
Package ==
    /\ op.step = "package"
    /\ op' = [op EXCEPT !.step = "install",
                        !.build = IF op.mode = "setup" THEN op.ref[op.kind]
                                                       ELSE published[op.kind]]
    /\ UNCHANGED <<tree, snapshots, published, releases, receipt, offered, status, game>>

Replace ==
    /\ op.step = "install"
    /\ AInstall(op.build)
    /\ op' = [op EXCEPT !.step = "receipt"]
    /\ UNCHANGED <<published, releases, receipt, offered, status, game>>

WriteReceipt ==
    /\ op.step = "receipt"
    /\ receipt' = [receipt EXCEPT ![op.kind] = op.ref[op.kind]]
    /\ Continue(op.ref, op.current \cup {op.kind})
    /\ UNCHANGED <<tree, snapshots, published, releases, offered, status, game>>

Finish(report) ==
    /\ status' = [status EXCEPT ![op.proc] = report]
    /\ op' = Idle
    /\ offered' = {}

\* The packages of the profile: a check may find some missing, an update has
\* fetched and prepared them all or has failed.
Report ==
    /\ op.step = "content"
    /\ op.mode # "setup"
    /\ IF op.toolsOnly THEN Finish("profileUnavailable")
       ELSE \E mods \in IF Installs THEN {TRUE} ELSE BOOLEAN :
               Finish(IF mods /\ op.current = Kinds THEN "current"
                                                    ELSE "updateAvailable")
    /\ UNCHANGED <<tree, snapshots, published, releases, receipt, game>>

SetupDone ==
    /\ op.step = "content"
    /\ op.mode = "setup"
    /\ op' = Idle
    /\ offered' = {}
    /\ UNCHANGED <<tree, snapshots, published, releases, receipt, status, game>>

\* A request, a download, a write or a transaction (undone) fails.
Fails ==
    /\ op # Idle
    /\ "failures" \in Environment
    /\ IF op.mode = "startup" THEN Finish("checkFailed")
       ELSE op' = Idle /\ offered' = {} /\ UNCHANGED status
    /\ UNCHANGED <<tree, snapshots, published, releases, receipt, game>>

\* The process dies; its window is opened again when somebody needs it.
Crash ==
    /\ op # Idle
    /\ "failures" \in Environment
    /\ op' = Idle
    /\ offered' = {}
    /\ status' = [p \in Procs |-> IF p = op.proc THEN "none" ELSE status[p]]
    /\ UNCHANGED <<tree, snapshots, published, releases, receipt, game>>

-----------------------------------------------------------------------------
(* Commands of one step. *)

\* rollbackUpdate, and restoreInstallBackup's removal of the receipt.
Rollback(p, s) ==
    /\ op = Idle
    /\ ~game
    /\ ARollback(s)
    /\ receipt' = [receipt EXCEPT ![IF Manifest["tools"] \in DOMAIN s.before
                                    THEN "tools" ELSE "client"] = NoBuild]
    /\ status' = [status EXCEPT ![p] = "restored"]
    /\ UNCHANGED <<published, releases, op, offered, game>>

\* selectServer, profile, confirmProfile and rollbackProfile: mStatus = Json().
Select(p) ==
    /\ op = Idle
    /\ status' = [status EXCEPT ![p] = "none"]
    /\ UNCHANGED <<tree, snapshots, published, releases, receipt, op, offered, game>>

Reopen(p) ==
    /\ op = Idle
    /\ status' = [status EXCEPT ![p] = "none"]
    /\ UNCHANGED <<tree, snapshots, published, releases, receipt, op, offered, game>>

Launch(p) ==
    /\ op = Idle
    /\ ~game
    /\ status[p] \in {"none", "current", "checkFailed"}
    /\ game' = TRUE
    /\ UNCHANGED <<tree, snapshots, published, releases, receipt, op, offered, status>>

GameExit ==
    /\ game
    /\ game' = FALSE
    /\ UNCHANGED <<tree, snapshots, published, releases, receipt, op, offered, status>>

Edit(p, c) ==
    /\ op = Idle
    /\ AEdit(p, c)
    /\ UNCHANGED <<published, releases, receipt, op, offered, status, game>>

\* The publisher replaces an asset under its stable tag: a newer build, or,
\* when he rolls back, an older one.
Publish(b) ==
    /\ releases < MaxReleases
    /\ IF "republish" \in Environment THEN published[KindOf[b]] # b
       ELSE Rank[b] > Rank[published[KindOf[b]]]
    /\ published' = [published EXCEPT ![KindOf[b]] = b]
    /\ releases' = releases + 1
    /\ offered' = IF op = Idle THEN {} ELSE offered \cup {b}
    /\ UNCHANGED <<tree, snapshots, receipt, op, status, game>>

-----------------------------------------------------------------------------

Init ==
    /\ AInit
    /\ published = FirstReleases
    /\ releases = 0
    /\ receipt = [k \in Kinds |-> NoBuild]
    /\ op = Idle
    /\ offered = {}
    /\ status = [p \in Procs |-> "none"]
    /\ game = FALSE

CommandStep ==
    FoundCurrent \/ FoundOutdated \/ Package \/ Replace \/ WriteReceipt \/ Report \/ SetupDone

Next ==
    \/ \E p \in Procs : Startup(p) \/ Check(p) \/ Select(p) \/ Reopen(p)
                        \/ Launch(p)
    \/ Setup
    \/ \E p \in Procs, mode \in {"update", "repair"}, t \in BOOLEAN : Update(p, mode, t)
    \/ \E p \in Procs, s \in snapshots : Rollback(p, s)
    \/ CommandStep
    \/ Fails \/ Crash
    \/ GameExit
    \/ \E p \in Editable, c \in UserContents : Edit(p, c)
    \/ \E b \in Builds : Publish(b)

\* A command that has the lock runs on.
Spec == Init /\ [][Next]_vars /\ WF_vars(CommandStep)

-----------------------------------------------------------------------------
(* Properties. *)

TypeOK ==
    /\ tree \in [Paths -> UNION {{Image[b][p] : b \in Builds, p \in Paths},
                                 UserContents, {Absent}}]
    /\ published \in [Kinds -> Builds]
    /\ releases \in 0..MaxReleases
    /\ receipt \in [Kinds -> AnyBuild]
    /\ op \in Command
    /\ op.step \in {"package", "install", "receipt"} => op.ref[op.kind] \in BuildsOf(op.kind)
    /\ op.step = "install" => op.build \in BuildsOf(op.kind)
    /\ offered \subseteq Builds
    /\ status \in [Procs -> Statuses]
    /\ game \in BOOLEAN

Installed(b) == tree[Manifest[KindOf[b]]] = Image[b][Manifest[KindOf[b]]]

\* What a command takes for current is a build that was published while the
\* command ran (native_backend.cpp:851-905): no receipt left behind by a crash,
\* a failed write, a second resolve() or a rollback makes an older build pass.
CurrentWasOffered ==
    op.step = "content" =>
        \A k \in op.current : \E b \in offered : KindOf[b] = k /\ Installed(b)

\* A repair that calls the client or the tools current leaves every file of the
\* installed inventory with the published bytes, whatever was edited before.
RepairedIsExact ==
    op.step = "content" /\ op.mode = "repair" =>
        \A k \in op.current : \E b \in BuildsOf(k) :
            Installed(b) /\ \A p \in Ships[b] : tree[p] = Image[b][p]

Trouble ==
    \/ Fails \/ Crash
    \/ \E p \in Procs, s \in snapshots : Rollback(p, s)
    \/ \E p \in Editable, c \in UserContents : Edit(p, c)
    \/ \E b \in Builds : Publish(b)

\* Once publishing, rollbacks, edits and failures have ended, updating again
\* and again installs what is published, whatever the crashes before left in
\* the receipts.
UpdatesArrive ==
    (/\ <>[][~Trouble]_vars
     /\ []<><<\E p \in Procs : Update(p, "update", FALSE)>>_vars)
    => <>[](\A k \in Kinds : Installed(published[k]))

=============================================================================
