------------------------- MODULE UpdateCommand_proofs -------------------------
(***************************************************************************)
(* Proofs about UpdateCommand, for every value of its constants.           *)
(***************************************************************************)
EXTENDS UpdateCommand, AtomicInstall_proofs

\* Assets are only replaced by newer ones.
OlderOrSame(b, c) == b = c \/ Rank[b] < Rank[c]

NewerOnly ==
    /\ "republish" \notin Environment
    /\ LegacyDigest \in Builds => OlderOrSame(LegacyDigest, FirstReleases["client"])

\* The builds that the root's records name: the receipt, and what the
\* PowerShell updater left.
Recorded(k) == ({receipt[k]} \cup (IF k = "client" THEN {LegacyDigest} ELSE {})) \ {NoBuild}

Superseded(b) == Rank[b] < Rank[published[KindOf[b]]]

\* A record that no longer tells what is installed names a build that is not
\* published any more.
RecordsSound ==
    \A k \in Kinds : \A r \in Recorded(k) :
        /\ r \in BuildsOf(k)
        /\ OlderOrSame(r, published[k])
        /\ Installed(r) \/ Superseded(r)

\* A rollback leaves fetcher-update-state.json alone: no update that it may
\* undo makes the client recorded there the published one again.
LegacySound ==
    LegacyDigest \in Builds =>
        \/ Superseded(LegacyDigest)
        \/ \A s \in snapshots : Manifest["client"] \in DOMAIN s.before =>
              s.before[Manifest["client"]] = Image[LegacyDigest][Manifest["client"]]

Exact(b) == \A p \in Ships[b] : tree[p] = Image[b][p]

\* What a command has found or done so far.
CommandSound ==
    LET k == op.kind
    IN /\ op.step # "idle" => \A j \in Kinds : published[j] \in offered
       /\ op.step = "idle" => op = Idle
       /\ op.step \in {"resolve", "package", "install", "receipt"} =>
             k \notin op.current /\ (k = "tools" => op.current = {})
       /\ op.mode = "repair" =>
             \A j \in op.current : \E b \in BuildsOf(j) : Installed(b) /\ Exact(b)
       /\ op.step \in {"package", "install", "receipt"} => op.ref[k] \in BuildsOf(k) \cap offered
       /\ op.step \in {"install", "receipt"} => op.build \in BuildsOf(k) \cap offered
       /\ op.step = "receipt" => Installed(op.build) /\ Exact(op.build)

\* What it takes for current was published meanwhile.
CommandFound == \A j \in op.current : \E b \in offered : KindOf[b] = j /\ Installed(b)

\* How old the builds are that a command found.
CommandOrdered ==
    LET k == op.kind
    IN /\ op.step = "package" =>
             /\ OlderOrSame(op.ref[k], published[k])
             /\ \A r \in Recorded(k) : OlderOrSame(r, op.ref[k])
       /\ op.step \in {"install", "receipt"} =>
             /\ OlderOrSame(op.ref[k], op.build)
             /\ OlderOrSame(op.build, published[k])
       /\ op.step = "install" => \A r \in Recorded(k) : OlderOrSame(r, op.build)

Ordered == RecordsSound /\ LegacySound /\ CommandOrdered /\ CommandFound

\* The files, the types and the kinds: what every step keeps, whatever is
\* published.
Sound ==
    /\ AInductive
    /\ TypeOK
    /\ \A k \in Kinds : KindOf[published[k]] = k

-----------------------------------------------------------------------------
(* Type correctness. *)

\* Whatever the launcher does to the files, it is an install, a rollback or an
\* edit of AtomicInstall.
LEMMA FilesStep == TypeOK /\ [Next]_vars => [ANext]_avars
<1> SUFFICES ASSUME TypeOK, [Next]_vars PROVE [ANext]_avars
  OBVIOUS
<1>1. CASE Replace
  <2>1. op.build \in Builds
    BY <1>1 DEF Replace, TypeOK, BuildsOf
  <2> QED
    BY <1>1, <2>1 DEF Replace, ANext
<1>2. CASE \E p \in Procs, s \in snapshots : Rollback(p, s)
  BY <1>2 DEF Rollback, ANext
<1>3. CASE \E p \in Editable, c \in UserContents : Edit(p, c)
  BY <1>3 DEF Edit, ANext
<1>4. CASE ~Replace /\ ~(\E p \in Procs, s \in snapshots : Rollback(p, s))
           /\ ~(\E p \in Editable, c \in UserContents : Edit(p, c))
  BY <1>4
  DEF vars, avars, Next, CommandStep, Startup, Check, Select, Reopen, Launch, Setup, Update,
      Start, FoundCurrent, FoundOutdated, Package, WriteReceipt, Report, SetupDone, Fails,
      Crash, GameExit, Publish
<1> QED
  BY <1>1, <1>2, <1>3, <1>4

\* What the files can hold.
LEMMA BytesType ==
    AInductive => tree \in [Paths -> UNION {{Image[b][p] : b \in Builds, p \in Paths},
                                            UserContents, {Absent}}]
<1> DEFINE bytes == UNION {{Image[b][p] : b \in Builds, p \in Paths}, UserContents, {Absent}}
<1>1. \A p \in Paths : InitialFiles[p] \in bytes
  BY RootAssumption
<1>2. \A b \in Builds, p \in Paths : Image[b][p] \in bytes
  OBVIOUS
<1>3. UserContents \subseteq bytes
  OBVIOUS
<1> HIDE DEF bytes
<1>4. Bytes \subseteq bytes
  BY <1>1, <1>2, <1>3 DEF Bytes
<1>5. AInductive => tree \in [Paths -> bytes]
  BY <1>4 DEF AInductive
<1> QED
  BY <1>5 DEF bytes

\* BytesType, for the state a step leads to.
LEMMA BytesTypeNext ==
    (AInductive => tree \in [Paths -> UNION {{Image[b][p] : b \in Builds, p \in Paths},
                                             UserContents, {Absent}}])'
BY BytesType, PTL

\* Doing nothing is a command.
LEMMA IdleType ==
    /\ Idle \in Command
    /\ Idle.step = "idle" /\ Idle.mode = "none" /\ Idle.current = {}
BY CommandAssumption DEF Idle, Command, Steps, Modes, Kinds, AnyBuild

\* A command begins with nothing found.
LEMMA StartType ==
    ASSUME NEW p \in Procs \cup {NoProc}, NEW mode \in Modes, NEW t \in BOOLEAN,
           Start(p, mode, t)
    PROVE  /\ op = Idle /\ op' \in Command
           /\ op'.step = "resolve" /\ op'.mode = mode /\ op'.proc = p /\ op'.kind = "tools"
           /\ op'.current = {}
           /\ op'.ref = [k \in Kinds |-> NoBuild]
           /\ op' # Idle
           /\ offered' = {published[k] : k \in Kinds}
           /\ UNCHANGED <<tree, snapshots, published, releases, receipt, status, game>>
<1>1. op' = [step |-> "resolve", mode |-> mode, proc |-> p, kind |-> "tools",
             toolsOnly |-> t, ref |-> [k \in Kinds |-> NoBuild], build |-> NoBuild,
             current |-> {}]
  BY DEF Start, Idle
<1>2. [k \in Kinds |-> NoBuild] \in [Kinds -> AnyBuild]
  BY DEF AnyBuild
<1>3. op' \in Command
  BY <1>1, <1>2 DEF Command, Steps, Kinds, AnyBuild
<1> QED
  BY <1>1, <1>3 DEF Start, Idle

\* Going on to the client or to the content, a command keeps what it is.
LEMMA ContinueType ==
    ASSUME op \in Command, NEW ref \in [Kinds -> AnyBuild], NEW current \in SUBSET Kinds,
           Continue(ref, current)
    PROVE  /\ op' \in Command
           /\ op'.step = IF op.kind = "tools" /\ ~op.toolsOnly THEN "resolve" ELSE "content"
           /\ op'.mode = op.mode /\ op'.proc = op.proc /\ op'.kind = "client"
           /\ op'.ref = ref /\ op'.current = current
<1>1. op' = [step |-> IF op.kind = "tools" /\ ~op.toolsOnly THEN "resolve" ELSE "content",
             mode |-> op.mode, proc |-> op.proc, kind |-> "client",
             toolsOnly |-> op.toolsOnly, ref |-> ref, build |-> op.build,
             current |-> current]
  BY DEF Continue, Command
<1>2. (IF op.kind = "tools" /\ ~op.toolsOnly THEN "resolve" ELSE "content") \in Steps
  BY DEF Steps
<1>3. op' \in Command
  BY <1>1, <1>2 DEF Command, Kinds
<1> QED
  BY <1>1, <1>3

\* The build resolved for the kind at hand is the published one.
LEMMA ResolvedType ==
    ASSUME op \in Command, published \in [Kinds -> Builds]
    PROVE  /\ Resolved \in [Kinds -> AnyBuild]
           /\ op.kind \in Kinds /\ Resolved[op.kind] = published[op.kind]
BY DEF Resolved, Command, AnyBuild

\* The step of a command that downloads, and the one after it.
LEMMA OnTheWayType ==
    ASSUME op \in Command, NEW s \in Steps
    PROVE  /\ \A ref \in [Kinds -> AnyBuild] : op' = [op EXCEPT !.step = s, !.ref = ref] =>
                 /\ op' \in Command /\ op'.step = s /\ op'.ref = ref
                 /\ op'.mode = op.mode /\ op'.proc = op.proc /\ op'.kind = op.kind
                 /\ op'.build = op.build /\ op'.current = op.current
           /\ \A b \in AnyBuild : op' = [op EXCEPT !.step = s, !.build = b] =>
                 /\ op' \in Command /\ op'.step = s /\ op'.ref = op.ref
                 /\ op'.mode = op.mode /\ op'.proc = op.proc /\ op'.kind = op.kind
                 /\ op'.build = b /\ op'.current = op.current
           /\ op' = [op EXCEPT !.step = s] =>
                 /\ op' \in Command /\ op'.step = s /\ op'.ref = op.ref
                 /\ op'.mode = op.mode /\ op'.proc = op.proc /\ op'.kind = op.kind
                 /\ op'.build = op.build /\ op'.current = op.current
<1>1. ASSUME NEW ref \in [Kinds -> AnyBuild], op' = [op EXCEPT !.step = s, !.ref = ref]
      PROVE  /\ op' \in Command /\ op'.step = s /\ op'.ref = ref
             /\ op'.mode = op.mode /\ op'.proc = op.proc /\ op'.kind = op.kind
             /\ op'.build = op.build /\ op'.current = op.current
  BY <1>1 DEF Command
<1>2. ASSUME NEW b \in AnyBuild, op' = [op EXCEPT !.step = s, !.build = b]
      PROVE  /\ op' \in Command /\ op'.step = s /\ op'.ref = op.ref
             /\ op'.mode = op.mode /\ op'.proc = op.proc /\ op'.kind = op.kind
             /\ op'.build = b /\ op'.current = op.current
  BY <1>2 DEF Command
<1>3. ASSUME op' = [op EXCEPT !.step = s]
      PROVE  /\ op' \in Command /\ op'.step = s /\ op'.ref = op.ref
             /\ op'.mode = op.mode /\ op'.proc = op.proc /\ op'.kind = op.kind
             /\ op'.build = op.build /\ op'.current = op.current
  BY <1>3 DEF Command
<1> QED
  BY <1>1, <1>2, <1>3

\* A root that no command has run in yet is sound.
LEMMA SoundInit == Init => Sound
<1> SUFFICES ASSUME Init PROVE Sound
  OBVIOUS
<1>1. AInductive
  BY PackageAssumption, RootAssumption, AInductiveInit DEF Init
<1>2. /\ published = FirstReleases /\ releases = 0 /\ receipt = [k \in Kinds |-> NoBuild]
      /\ op = Idle /\ offered = {} /\ status = [p \in Procs |-> "none"] /\ game = FALSE
  BY DEF Init
<1>3. TypeOK
  <2>1. tree \in [Paths -> UNION {{Image[b][p] : b \in Builds, p \in Paths},
                                  UserContents, {Absent}}]
    BY <1>1, BytesType
  <2>2. published \in [Kinds -> Builds] /\ releases \in 0..MaxReleases
    BY <1>2, CommandAssumption
  <2>3. receipt \in [Kinds -> AnyBuild] /\ status \in [Procs -> Statuses]
    BY <1>2 DEF AnyBuild, Statuses
  <2>4. op \in Command /\ op.step = "idle" /\ offered \subseteq Builds /\ game \in BOOLEAN
    BY <1>2, IdleType
  <2> QED
    BY <2>1, <2>2, <2>3, <2>4 DEF TypeOK
<1>4. \A k \in Kinds : KindOf[published[k]] = k
  BY <1>2, CommandAssumption
<1> QED
  BY <1>1, <1>3, <1>4 DEF Sound

\* Each step keeps the types, and the files whole.
LEMMA SoundNext ==
    ASSUME Sound, [Next]_vars
    PROVE  Sound'
<1> USE CommandAssumption, IdleType DEF AnyBuild
<1>types. /\ TypeOK /\ AInductive /\ op \in Command /\ published \in [Kinds -> Builds]
          /\ receipt \in [Kinds -> AnyBuild] /\ offered \subseteq Builds
          /\ status \in [Procs -> Statuses] /\ releases \in 0..MaxReleases /\ game \in BOOLEAN
          /\ \A k \in Kinds : KindOf[published[k]] = k
  BY DEF Sound, TypeOK
<1>steps. /\ Steps = {"idle", "resolve", "package", "install", "receipt", "content"}
          /\ Modes = {"none", "startup", "check", "update", "repair", "setup"}
          /\ Kinds = {"tools", "client"}
  BY DEF Steps, Modes, Kinds
<1>fields. /\ op.step \in Steps /\ op.mode \in Modes /\ op.proc \in Procs \cup {NoProc}
           /\ op.kind \in Kinds /\ op.ref \in [Kinds -> AnyBuild] /\ op.build \in AnyBuild
           /\ op.current \in SUBSET Kinds
  BY <1>types DEF Command
<1>files. AInductive'
  BY <1>types, FilesStep, PackageAssumption, AInductiveNext
<1>tree. tree' \in [Paths -> UNION {{Image[b][p] : b \in Builds, p \in Paths},
                                    UserContents, {Absent}}]
  BY <1>files, BytesTypeNext
<1> DEFINE Commands ==
             /\ op \in Command
             /\ op.step \in {"package", "install", "receipt"} =>
                   op.ref[op.kind] \in BuildsOf(op.kind)
             /\ op.step = "install" => op.build \in BuildsOf(op.kind)
           Others ==
             /\ published \in [Kinds -> Builds] /\ releases \in 0..MaxReleases
             /\ receipt \in [Kinds -> AnyBuild] /\ offered \subseteq Builds
             /\ status \in [Procs -> Statuses] /\ game \in BOOLEAN
             /\ \A k \in Kinds : KindOf[published[k]] = k
<1>all. ASSUME Commands', Others' PROVE Sound'
  BY <1>all, <1>files, <1>tree DEF Sound, TypeOK
<1>commands. Commands
  BY <1>types DEF TypeOK
<1>1. CASE UNCHANGED vars
  BY <1>1, <1>all, <1>types, <1>commands DEF vars
<1>2. ASSUME NEW p \in Procs \cup {NoProc}, NEW mode \in Modes, NEW t \in BOOLEAN,
             Start(p, mode, t)
      PROVE  Sound'
  <2>1. /\ op' \in Command /\ op'.step = "resolve"
        /\ offered' = {published[k] : k \in Kinds}
        /\ UNCHANGED <<published, releases, receipt, status, game>>
    BY <1>2, StartType
  <2>2. Commands'
    BY <2>1
  <2>3. Others'
    BY <1>types, <2>1
  <2> QED
    BY <1>all, <2>2, <2>3
<1>3. ASSUME NEW p \in Procs, \/ Startup(p) \/ Check(p)
                              \/ \E mode \in {"update", "repair"}, t \in BOOLEAN : Update(p, mode, t)
      PROVE  Sound'
  BY <1>2, <1>3, <1>steps, ZenonT(40) DEF Startup, Check, Update
<1>4. CASE Setup
  BY <1>2, <1>4, <1>steps DEF Setup
<1>5. ASSUME NEW p \in Procs, Select(p) \/ Reopen(p) \/ Launch(p) PROVE Sound'
  <2>1. Commands'
    BY <1>5, <1>commands DEF Select, Reopen, Launch
  <2>2. Others'
    BY <1>5, <1>types DEF Select, Reopen, Launch, Statuses
  <2> QED
    BY <1>all, <2>1, <2>2
<1>6. ASSUME NEW p \in Procs, NEW s \in snapshots, Rollback(p, s) PROVE Sound'
  <2>1. Commands'
    BY <1>6, <1>commands DEF Rollback
  <2>2. receipt' \in [Kinds -> AnyBuild] /\ status' \in [Procs -> Statuses]
    BY <1>6, <1>types, <1>steps DEF Rollback, Statuses
  <2>3. Others'
    BY <1>6, <1>types, <2>2 DEF Rollback
  <2> QED
    BY <1>all, <2>1, <2>3
<1>7. CASE FoundCurrent \/ (FoundOutdated /\ ~Installs)
  <2>1. PICK current \in SUBSET Kinds : Continue(Resolved, current)
    BY <1>7, <1>fields DEF FoundCurrent, FoundOutdated
  <2>2. op' \in Command /\ op'.step \in {"resolve", "content"}
    BY <1>types, <2>1, ContinueType, ResolvedType
  <2>3. Commands'
    BY <2>2
  <2>4. Others'
    BY <1>7, <1>types DEF FoundCurrent, FoundOutdated
  <2> QED
    BY <1>all, <2>3, <2>4
<1>8. CASE FoundOutdated /\ Installs
  <2>1. op' \in Command /\ op'.step = "package" /\ op'.kind = op.kind /\ op'.ref = Resolved
    BY <1>8, <1>steps, <1>types, OnTheWayType, ResolvedType DEF FoundOutdated
  <2>2. Resolved[op.kind] \in BuildsOf(op.kind)
    BY <1>types, ResolvedType DEF BuildsOf
  <2>3. Commands'
    BY <2>1, <2>2
  <2>4. Others'
    BY <1>8, <1>types DEF FoundOutdated
  <2> QED
    BY <1>all, <2>3, <2>4
<1>9. CASE Package
  <2>1. PICK b \in Builds : /\ b = IF op.mode = "setup" THEN op.ref[op.kind]
                                                        ELSE published[op.kind]
                            /\ b \in BuildsOf(op.kind)
    BY <1>9, <1>fields, <1>types, <1>commands DEF Package, BuildsOf
  <2>2. op' = [op EXCEPT !.step = "install", !.build = b]
    BY <1>9, <2>1 DEF Package
  <2>3. op' \in Command /\ op'.step = "install" /\ op'.kind = op.kind /\ op'.ref = op.ref
        /\ op'.build = b
    BY <1>steps, <1>types, <2>2, OnTheWayType
  <2>4. Commands'
    BY <1>9, <1>commands, <2>1, <2>3 DEF Package
  <2>5. Others'
    BY <1>9, <1>types DEF Package
  <2> QED
    BY <1>all, <2>4, <2>5
<1>10. CASE Replace
  <2>1. op' \in Command /\ op'.step = "receipt" /\ op'.kind = op.kind /\ op'.ref = op.ref
    BY <1>10, <1>steps, <1>types, OnTheWayType DEF Replace
  <2>2. Commands'
    BY <1>10, <1>commands, <2>1 DEF Replace
  <2>3. Others'
    BY <1>10, <1>types DEF Replace
  <2> QED
    BY <1>all, <2>2, <2>3
<1>11. CASE WriteReceipt
  <2>1. op.current \cup {op.kind} \in SUBSET Kinds
    BY <1>fields
  <2>2. op' \in Command /\ op'.step \in {"resolve", "content"}
    BY <1>11, <1>fields, <1>types, <2>1, ContinueType DEF WriteReceipt
  <2>3. Commands'
    BY <2>2
  <2>4. receipt' \in [Kinds -> AnyBuild]
    BY <1>11, <1>fields, <1>types DEF WriteReceipt
  <2>5. Others'
    BY <1>11, <1>types, <2>4 DEF WriteReceipt
  <2> QED
    BY <1>all, <2>3, <2>5
<1>12. CASE Report \/ SetupDone \/ Fails \/ Crash
  <2>1. op' = Idle /\ offered' = {} /\ UNCHANGED <<published, releases, receipt, game>>
    BY <1>12 DEF Report, SetupDone, Fails, Crash, Finish
  <2>2. status' \in [Procs -> Statuses]
    <3>1. CASE UNCHANGED status
      BY <3>1, <1>types
    <3>2. CASE \E report \in Statuses : Finish(report)
      BY <3>2, <1>types DEF Finish
    <3>3. CASE Report
      BY <3>2, <3>3 DEF Report, Statuses
    <3>4. CASE SetupDone
      BY <3>1, <3>4 DEF SetupDone
    <3>5. CASE Fails
      BY <3>1, <3>2, <3>5 DEF Fails, Statuses
    <3>6. CASE Crash
      BY <3>6, <1>types DEF Crash, Statuses
    <3> QED
      BY <1>12, <3>3, <3>4, <3>5, <3>6
  <2>3. Commands'
    BY <2>1
  <2>4. Others'
    BY <1>types, <2>1, <2>2
  <2> QED
    BY <1>all, <2>3, <2>4
<1>13. CASE GameExit \/ \E p \in Editable, c \in UserContents : Edit(p, c)
  <2>1. Commands'
    BY <1>13, <1>commands DEF GameExit, Edit
  <2>2. Others'
    BY <1>13, <1>types DEF GameExit, Edit
  <2> QED
    BY <1>all, <2>1, <2>2
<1>14. ASSUME NEW b \in Builds, Publish(b) PROVE Sound'
  <2>1. Commands'
    BY <1>14, <1>commands DEF Publish
  <2>2. published' \in [Kinds -> Builds] /\ \A k \in Kinds : KindOf[published'[k]] = k
    BY <1>14, <1>types DEF Publish
  <2>3. releases' \in 0..MaxReleases /\ offered' \subseteq Builds
    BY <1>14, <1>types DEF Publish
  <2>4. Others'
    BY <1>14, <1>types, <2>2, <2>3 DEF Publish
  <2> QED
    BY <1>all, <2>1, <2>4
<1> QED
  BY <1>1, <1>3, <1>4, <1>5, <1>6, <1>7, <1>8, <1>9, <1>10, <1>11, <1>12, <1>13, <1>14
  DEF Next, CommandStep

\* So does every behaviour.
THEOREM SoundCorrect == Spec => []Sound
<1>1. Sound /\ [Next]_vars => Sound'
  BY SoundNext
<1> QED
  BY <1>1, SoundInit, PTL DEF Spec

\* The types are right, whoever publishes, edits or crashes.
THEOREM TypeCorrect == Spec => []TypeOK
<1>1. Sound => TypeOK
  BY DEF Sound
<1> QED
  BY <1>1, SoundCorrect, PTL

-----------------------------------------------------------------------------
(* What a command did. *)

\* An install leaves the whole package, and the files of no other kind.
LEMMA InstallExact ==
    ASSUME Sound, NEW b \in Builds, AInstall(b)
    PROVE  /\ Installed(b)' /\ Exact(b)'
           /\ \A c \in Builds : KindOf[c] # KindOf[b] =>
                 /\ Installed(c)' <=> Installed(c)
                 /\ KindOf[c] = "tools" /\ Exact(c) => Exact(c)'
<1> DEFINE k == KindOf[b]
<1>1. /\ \A c \in Builds : KindOf[c] \in Kinds
      /\ \A j \in Kinds : Manifest[j] \in Allowed[j] /\ Allowed[j] \subseteq Paths
      /\ \A i, j \in Kinds : i # j => Allowed[i] \cap Allowed[j] = {}
  BY CommandAssumption, PackageAssumption DEF PackagesSound
<1>2. /\ \A c \in Builds : Ships[c] \subseteq Paths
      /\ \A c \in Builds : KindOf[c] = "tools" => Ships[c] \cap Allowed["client"] = {}
  BY PackageAssumption DEF BuildsOf
<1>3. /\ Ships[b] \subseteq Touched(b) /\ Manifest[k] \in Touched(b)
      /\ Touched(b) \subseteq Allowed[k]
  BY <1>1 DEF Touched, AInstall
<1>4. tree' = [p \in Paths |-> IF p \in Touched(b) THEN Image[b][p] ELSE tree[p]]
  BY DEF AInstall
<1>5. Installed(b)' /\ Exact(b)'
  BY <1>1, <1>2, <1>3, <1>4 DEF Installed, Exact
<1>6. \A p \in Paths \ Allowed[k] : tree'[p] = tree[p]
  BY <1>3, <1>4
<1>7. ASSUME NEW c \in Builds, KindOf[c] # k
      PROVE  /\ Installed(c)' <=> Installed(c)
             /\ KindOf[c] = "tools" /\ Exact(c) => Exact(c)'
  <2>1. Manifest[KindOf[c]] \in Paths \ Allowed[k]
    BY <1>1, <1>7
  <2>2. Installed(c)' <=> Installed(c)
    BY <1>6, <2>1 DEF Installed
  <2>3. KindOf[c] = "tools" => Ships[c] \subseteq Paths \ Allowed[k]
    BY <1>1, <1>2, <1>7 DEF Kinds
  <2>4. KindOf[c] = "tools" /\ Exact(c) => Exact(c)'
    BY <1>6, <2>3 DEF Exact
  <2> QED
    BY <2>2, <2>4
<1> QED
  BY <1>5, <1>7

\* No command has begun.
LEMMA CommandSoundInit == Init => CommandSound
BY IdleType DEF Init, CommandSound

\* Files that no step changes stay what they were.
LEMMA FilesSame ==
    ASSUME UNCHANGED tree
    PROVE  \A b \in Builds : (Installed(b)' <=> Installed(b)) /\ (Exact(b)' <=> Exact(b))
BY DEF Installed, Exact

\* A command that goes on has been right about one more kind.
LEMMA ContinueSound ==
    ASSUME Sound, CommandSound, op.step \in {"resolve", "receipt"},
           NEW ref \in [Kinds -> AnyBuild], NEW current \in SUBSET Kinds,
           Continue(ref, current),
           UNCHANGED <<tree, offered, published>>,
           current \subseteq op.current \cup {op.kind},
           op.mode = "repair" /\ op.kind \in current =>
              \E b \in BuildsOf(op.kind) : Installed(b) /\ Exact(b)
    PROVE  CommandSound'
<1>1. /\ op \in Command /\ op.kind \in Kinds
      /\ \A b \in Builds : (Installed(b)' <=> Installed(b)) /\ (Exact(b)' <=> Exact(b))
  BY FilesSame DEF Sound, TypeOK, Command
<1>2. /\ op'.step = IF op.kind = "tools" /\ ~op.toolsOnly THEN "resolve" ELSE "content"
      /\ op'.mode = op.mode /\ op'.kind = "client" /\ op'.current = current
  BY <1>1, ContinueType
<1>3. /\ \A j \in Kinds : published[j] \in offered
      /\ op.kind \notin op.current /\ (op.kind = "tools" => op.current = {})
      /\ op.mode = "repair" =>
            \A j \in op.current : \E b \in BuildsOf(j) : Installed(b) /\ Exact(b)
  BY DEF CommandSound
<1>4. op'.mode = "repair" =>
            \A j \in op'.current : \E b \in BuildsOf(j) : Installed(b)' /\ Exact(b)'
  BY <1>1, <1>2, <1>3 DEF BuildsOf
<1>5. op'.step = "resolve" => "client" \notin op'.current
  BY <1>2, <1>3
<1>6. \A j \in Kinds : published'[j] \in offered'
  BY <1>3
<1>7. /\ op'.step # "idle" => \A j \in Kinds : published'[j] \in offered'
      /\ op'.step # "idle"
      /\ op'.step \in {"resolve", "package", "install", "receipt"} =>
             op'.kind \notin op'.current /\ (op'.kind = "tools" => op'.current = {})
      /\ op'.step \notin {"package", "install", "receipt"}
  BY <1>2, <1>5, <1>6
<1> QED
  BY <1>4, <1>7 DEF CommandSound

\* Each step keeps it, whatever is published, edited or undone meanwhile.
LEMMA CommandSoundNext ==
    ASSUME Sound, CommandSound, [Next]_vars
    PROVE  CommandSound'
<1>types. /\ op \in Command /\ op.kind \in Kinds /\ op.step \in Steps
          /\ published \in [Kinds -> Builds]
          /\ \A k \in Kinds : KindOf[published[k]] = k
          /\ op.ref \in [Kinds -> AnyBuild] /\ op.current \in SUBSET Kinds
  BY DEF Sound, TypeOK, Command
<1>idle. op = Idle => op.step = "idle" /\ op.mode = "none" /\ op.current = {}
  BY IdleType
<1>sound. /\ op.step # "idle" => \A j \in Kinds : published[j] \in offered
          /\ op.step = "idle" => op = Idle
          /\ op.step \in {"resolve", "package", "install", "receipt"} =>
                op.kind \notin op.current /\ (op.kind = "tools" => op.current = {})
          /\ op.mode = "repair" =>
                \A j \in op.current : \E b \in BuildsOf(j) : Installed(b) /\ Exact(b)
          /\ op.step \in {"package", "install", "receipt"} =>
                op.ref[op.kind] \in BuildsOf(op.kind) \cap offered
          /\ op.step \in {"install", "receipt"} => op.build \in BuildsOf(op.kind) \cap offered
          /\ op.step = "receipt" => Installed(op.build) /\ Exact(op.build)
  BY DEF CommandSound
<1>done. ASSUME op' = Idle PROVE CommandSound'
  BY <1>done, IdleType DEF CommandSound
<1>same. ASSUME UNCHANGED <<tree, op>>, offered \subseteq offered',
                op.step # "idle" => \A j \in Kinds : published'[j] \in offered'
         PROVE  CommandSound'
  <2>1. \A b \in Builds : (Installed(b)' <=> Installed(b)) /\ (Exact(b)' <=> Exact(b))
    BY <1>same, FilesSame
  <2> QED
    BY <1>same, <1>sound, <2>1 DEF CommandSound, BuildsOf
<1>1. CASE UNCHANGED vars
  BY <1>1, <1>same, <1>sound DEF vars
<1>2. ASSUME NEW p \in Procs \cup {NoProc}, NEW mode \in Modes, NEW t \in BOOLEAN,
             Start(p, mode, t)
      PROVE  CommandSound'
  <2>1. /\ op'.step = "resolve" /\ op'.kind = "tools" /\ op'.current = {}
        /\ \A j \in Kinds : published'[j] \in offered'
    BY <1>2, StartType
  <2> QED
    BY <2>1 DEF CommandSound
<1>3. ASSUME NEW p \in Procs, \/ Startup(p) \/ Check(p)
                              \/ \E mode \in {"update", "repair"}, t \in BOOLEAN : Update(p, mode, t)
      PROVE  CommandSound'
  BY <1>2, <1>3 DEF Startup, Check, Update, Modes
<1>4. CASE Setup
  BY <1>2, <1>4 DEF Setup, Modes
<1>5. ASSUME NEW p \in Procs, \/ Select(p) \/ Reopen(p) \/ Launch(p)
                              \/ \E s \in snapshots : Rollback(p, s)
      PROVE  CommandSound'
  BY <1>5, <1>done DEF Select, Reopen, Launch, Rollback
<1>6. CASE GameExit \/ \E p \in Editable, c \in UserContents : Edit(p, c)
  BY <1>6, <1>done, <1>same, <1>sound DEF GameExit, Edit
<1>7. CASE Report \/ SetupDone \/ Fails \/ Crash
  BY <1>7, <1>done DEF Report, SetupDone, Fails, Crash, Finish
<1>8. ASSUME NEW b \in Builds, Publish(b) PROVE CommandSound'
  <2>1. CASE op = Idle
    BY <1>8, <2>1, <1>done DEF Publish
  <2>2. CASE op # Idle
    <3>1. \A j \in Kinds : published'[j] \in {published[j], b}
      BY <1>8, <1>types DEF Publish
    <3> QED
      BY <1>8, <2>2, <3>1, <1>same, <1>sound DEF Publish
  <2> QED
    BY <2>1, <2>2
<1>9. CASE FoundCurrent
  <2>1. op.mode = "repair" => \E b \in BuildsOf(op.kind) : Installed(b) /\ Exact(b)
    <3>1. op.mode = "repair" => Verified(op.kind, TRUE)
      BY <1>9, <1>types DEF FoundCurrent, UpToDate, ToolsCurrent, ClientCurrent, Kinds
    <3> QED
      BY <3>1 DEF Verified, Installed, Exact, BuildsOf
  <2>2. Resolved \in [Kinds -> AnyBuild] /\ op.current \cup {op.kind} \in SUBSET Kinds
    BY <1>types, ResolvedType
  <2> QED
    BY <1>9, <2>1, <2>2, ContinueSound DEF FoundCurrent
<1>10. CASE FoundOutdated /\ ~Installs
  <2>1. Resolved \in [Kinds -> AnyBuild]
    BY <1>types, ResolvedType
  <2>2. op.kind \notin op.current /\ Continue(Resolved, op.current)
        /\ op.step \in {"resolve", "receipt"} /\ UNCHANGED <<tree, offered, published>>
    BY <1>10, <1>sound DEF FoundOutdated
  <2> QED
    BY <1>types, <2>1, <2>2, ContinueSound
<1>11. CASE FoundOutdated /\ Installs
  <2>1. /\ op'.step = "package" /\ op'.kind = op.kind /\ op'.mode = op.mode
        /\ op'.current = op.current /\ op'.ref = Resolved /\ UNCHANGED <<tree, offered, published>>
        /\ op.step = "resolve"
    BY <1>11, <1>types, OnTheWayType, ResolvedType DEF FoundOutdated, Steps
  <2>2. Resolved[op.kind] \in BuildsOf(op.kind) \cap offered
    BY <1>types, <1>sound, <2>1, ResolvedType DEF BuildsOf
  <2>3. \A b \in Builds : (Installed(b)' <=> Installed(b)) /\ (Exact(b)' <=> Exact(b))
    BY <2>1, FilesSame
  <2> QED
    BY <1>sound, <2>1, <2>2, <2>3 DEF CommandSound, BuildsOf
<1>12. CASE Package
  <2>1. PICK b \in Builds : /\ b = IF op.mode = "setup" THEN op.ref[op.kind]
                                                        ELSE published[op.kind]
                            /\ b \in BuildsOf(op.kind) \cap offered
    BY <1>12, <1>types, <1>sound DEF Package, BuildsOf
  <2>2. op' = [op EXCEPT !.step = "install", !.build = b]
    BY <1>12, <2>1 DEF Package
  <2>3. /\ op'.step = "install" /\ op'.kind = op.kind /\ op'.mode = op.mode
        /\ op'.current = op.current /\ op'.ref = op.ref /\ op'.build = b
        /\ UNCHANGED <<tree, offered, published>> /\ op.step = "package"
    BY <1>12, <1>types, <2>2, OnTheWayType DEF Package, Steps, AnyBuild
  <2>4. \A c \in Builds : (Installed(c)' <=> Installed(c)) /\ (Exact(c)' <=> Exact(c))
    BY <2>3, FilesSame
  <2> QED
    BY <1>sound, <2>1, <2>3, <2>4 DEF CommandSound, BuildsOf
<1>13. CASE Replace
  <2>1. /\ op'.step = "receipt" /\ op'.kind = op.kind /\ op'.mode = op.mode
        /\ op'.current = op.current /\ op'.ref = op.ref /\ op'.build = op.build
        /\ UNCHANGED <<offered, published>> /\ op.step = "install"
    BY <1>13, <1>types, OnTheWayType DEF Replace, Steps
  <2>2. PICK b \in Builds : b = op.build /\ KindOf[b] = op.kind /\ AInstall(b)
    BY <1>13, <1>sound DEF Replace, BuildsOf
  <2>3. /\ Installed(b)' /\ Exact(b)'
        /\ \A c \in Builds : KindOf[c] # op.kind =>
              /\ Installed(c)' <=> Installed(c)
              /\ KindOf[c] = "tools" /\ Exact(c) => Exact(c)'
    BY <2>2, InstallExact
  <2>4. \A j \in op.current : j = "tools" /\ op.kind = "client"
    BY <1>types, <1>sound, <2>1 DEF Kinds
  <2>5. op'.mode = "repair" =>
            \A j \in op'.current : \E c \in BuildsOf(j) : Installed(c)' /\ Exact(c)'
    BY <1>sound, <2>1, <2>3, <2>4 DEF BuildsOf
  <2>6. op'.build = b
    BY <2>1, <2>2
  <2>7. Installed(op.build)' /\ Exact(op.build)'
    BY <2>3, <2>6 DEF Installed, Exact
  <2> QED
    BY <1>sound, <2>1, <2>5, <2>7 DEF CommandSound
<1>14. CASE WriteReceipt
  <2>1. op.mode = "repair" => \E b \in BuildsOf(op.kind) : Installed(b) /\ Exact(b)
    BY <1>14, <1>sound DEF WriteReceipt
  <2>2. op.current \cup {op.kind} \in SUBSET Kinds
    BY <1>types
  <2> QED
    BY <1>14, <1>types, <2>1, <2>2, ContinueSound DEF WriteReceipt
<1> QED
  BY <1>1, <1>3, <1>4, <1>5, <1>6, <1>7, <1>8, <1>9, <1>10, <1>11, <1>12, <1>13, <1>14
  DEF Next, CommandStep

\* What a command found or did, in every behaviour.
THEOREM CommandSoundCorrect == Spec => [](Sound /\ CommandSound)
<1>1. Init => Sound /\ CommandSound
  BY SoundInit, CommandSoundInit
<1>2. (Sound /\ CommandSound) /\ [Next]_vars => (Sound /\ CommandSound)'
  BY SoundNext, CommandSoundNext
<1> QED
  BY <1>1, <1>2, PTL DEF Spec

\* A repair leaves every file of what it calls current with the bytes of its
\* build: nothing between the verification, or the install, of the tools and the
\* report on the client can change them, whatever is published meanwhile.
THEOREM RepairedIsExactCorrect == Spec => []RepairedIsExact
<1>1. CommandSound => RepairedIsExact
  BY DEF CommandSound, RepairedIsExact, Exact
<1> QED
  BY <1>1, CommandSoundCorrect, PTL

-----------------------------------------------------------------------------
(* What the records tell, when assets are only replaced by newer ones. *)

\* Releases are ordered by their age.
LEMMA OlderTransitive ==
    \A a, b, c \in Builds : OlderOrSame(a, b) /\ OlderOrSame(b, c) => OlderOrSame(a, c)
BY CommandAssumption DEF OlderOrSame

\* The steps that change a file, a record or a release.
LEMMA RecordSteps ==
    ASSUME [Next]_vars
    PROVE  \/ UNCHANGED <<tree, snapshots, receipt, published>>
           \/ Replace \/ WriteReceipt
           \/ \E p \in Procs, s \in snapshots : Rollback(p, s)
           \/ \E p \in Editable, c \in UserContents : Edit(p, c)
           \/ \E b \in Builds : Publish(b)
BY DEF vars, Next, CommandStep, Startup, Check, Select, Reopen, Launch, Setup, Update,
       Start, FoundCurrent, FoundOutdated, Package, Report, SetupDone, Fails, Crash, GameExit

\* The steps that take a command on; any other begins or ends one.
LEMMA CommandSteps ==
    ASSUME Sound, [Next]_vars
    PROVE  \/ UNCHANGED <<op, tree, published, offered, receipt>>
           \/ op' = Idle
           \/ op'.step = "resolve" /\ op'.current = {}
           \/ FoundCurrent \/ FoundOutdated \/ Package \/ Replace \/ WriteReceipt
           \/ (op # Idle /\ \E b \in Builds : Publish(b))
<1>1. ASSUME NEW p \in Procs \cup {NoProc}, NEW mode \in Modes, NEW t \in BOOLEAN,
             Start(p, mode, t)
      PROVE  op'.step = "resolve" /\ op'.current = {}
  BY <1>1, StartType
<1>2. ASSUME NEW p \in Procs, \/ Startup(p) \/ Check(p)
                              \/ \E mode \in {"update", "repair"}, t \in BOOLEAN : Update(p, mode, t)
      PROVE  op'.step = "resolve" /\ op'.current = {}
  BY <1>1, <1>2 DEF Startup, Check, Update, Modes
<1>3. CASE Setup
  BY <1>1, <1>3 DEF Setup, Modes
<1>4. ASSUME NEW p \in Procs, \/ Select(p) \/ Reopen(p) \/ Launch(p)
                              \/ \E s \in snapshots : Rollback(p, s)
      PROVE  op' = Idle
  BY <1>4 DEF Select, Reopen, Launch, Rollback
<1>5. CASE GameExit \/ \E p \in Editable, c \in UserContents : Edit(p, c)
  BY <1>5 DEF GameExit, Edit
<1>6. CASE Report \/ SetupDone \/ Fails \/ Crash
  BY <1>6 DEF Report, SetupDone, Fails, Crash, Finish
<1>7. ASSUME NEW b \in Builds, Publish(b), op = Idle PROVE op' = Idle
  BY <1>7 DEF Publish
<1>8. CASE UNCHANGED vars
  BY <1>8 DEF vars
<1> QED
  BY <1>2, <1>3, <1>4, <1>5, <1>6, <1>7, <1>8 DEF Next, CommandStep

\* The kind of an update is told by the inventory that it replaced, and its
\* rollback leaves the files of every other kind.
LEMMA RollbackOf ==
    ASSUME Sound, NEW s \in snapshots, ARollback(s)
    PROVE  \E k \in Kinds :
              /\ k = IF Manifest["tools"] \in DOMAIN s.before THEN "tools" ELSE "client"
              /\ Manifest[k] \in DOMAIN s.before
              /\ tree'[Manifest[k]] = s.before[Manifest[k]]
              /\ \A c \in Builds : KindOf[c] # k => (Installed(c)' <=> Installed(c))
<1>1. /\ \A c \in Builds : KindOf[c] \in Kinds
      /\ \A j \in Kinds : Manifest[j] \in Allowed[j] /\ Allowed[j] \subseteq Paths
      /\ \A i, j \in Kinds : i # j => Allowed[i] \cap Allowed[j] = {}
  BY CommandAssumption, PackageAssumption DEF PackagesSound
<1>2. PICK b \in Builds : \E g \in Shapes(KindOf[b]) : UpdateOf(s, b, g)
  BY DEF Sound, AInductive
<1>3. DOMAIN s.before \subseteq Allowed[KindOf[b]] /\ Manifest[KindOf[b]] \in DOMAIN s.before
  BY <1>2 DEF UpdateOf
<1>4. tree' = [p \in Paths |-> IF p \in DOMAIN s.before THEN s.before[p] ELSE tree[p]]
  BY DEF ARollback
<1>5. KindOf[b] = IF Manifest["tools"] \in DOMAIN s.before THEN "tools" ELSE "client"
  BY <1>1, <1>3 DEF Kinds
<1>6. \A c \in Builds : KindOf[c] # KindOf[b] => (Installed(c)' <=> Installed(c))
  BY <1>1, <1>3, <1>4 DEF Installed
<1>7. tree'[Manifest[KindOf[b]]] = s.before[Manifest[KindOf[b]]]
  BY <1>1, <1>3, <1>4
<1> QED
  BY <1>1, <1>3, <1>5, <1>6, <1>7

\* What a user edits is no package's inventory: the installed build stays.
LEMMA EditKeepsInstalled ==
    ASSUME Sound, NEW p \in Editable, NEW c \in UserContents, AEdit(p, c)
    PROVE  \A b \in Builds : Installed(b)' <=> Installed(b)
<1>1. \A b \in Builds : KindOf[b] \in Kinds /\ Manifest[KindOf[b]] \in Paths
                        /\ Manifest[KindOf[b]] \notin Editable
  BY CommandAssumption, PackageAssumption DEF PackagesSound
<1>2. tree \in [Paths -> Bytes]
  BY DEF Sound, AInductive
<1> QED
  BY <1>1, <1>2 DEF AEdit, Installed

\* The first releases are offered and recorded nowhere yet.
LEMMA OrderedInit ==
    ASSUME NewerOnly, Init
    PROVE  Ordered
<1>1. /\ tree = InitialFiles /\ snapshots = {} /\ published = FirstReleases
      /\ receipt = [k \in Kinds |-> NoBuild] /\ op = Idle
  BY DEF Init, AInit
<1>2. ASSUME NEW k \in Kinds, NEW r \in Recorded(k)
      PROVE  r \in BuildsOf(k) /\ OlderOrSame(r, published[k]) /\ Installed(r)
  <2>1. k = "client" /\ r = LegacyDigest /\ r # NoBuild
    BY <1>1, <1>2 DEF Recorded
  <2>2. r \in BuildsOf("client") /\ r \in Builds /\ KindOf[r] = "client"
    BY <2>1, CommandAssumption DEF BuildsOf
  <2> QED
    BY <1>1, <2>1, <2>2, RootAssumption DEF NewerOnly, Installed
<1>3. RecordsSound
  BY <1>2 DEF RecordsSound
<1>4. LegacySound /\ CommandOrdered /\ CommandFound
  BY <1>1, IdleType DEF LegacySound, CommandOrdered, CommandFound
<1> QED
  BY <1>3, <1>4 DEF Ordered

\* A record that an install makes wrong is an old one.
LEMMA RecordsSoundNext ==
    ASSUME NewerOnly, Sound, CommandSound, Ordered, [Next]_vars
    PROVE  RecordsSound'
<1>types. /\ op \in Command /\ op.kind \in Kinds /\ published \in [Kinds -> Builds]
          /\ \A k \in Kinds : KindOf[published[k]] = k
          /\ receipt \in [Kinds -> AnyBuild] /\ op.ref \in [Kinds -> AnyBuild]
          /\ Rank \in [Builds -> Nat] /\ \A b \in Builds : KindOf[b] \in Kinds
  BY CommandAssumption DEF Sound, TypeOK, Command
<1>old. \A k \in Kinds : \A r \in Recorded(k) :
           /\ r \in Builds /\ KindOf[r] = k
           /\ OlderOrSame(r, published[k])
           /\ Installed(r) \/ Superseded(r)
  BY DEF Ordered, RecordsSound, BuildsOf
<1>quiet. ASSUME UNCHANGED <<receipt, published>>, \A b \in Builds : Installed(b)' <=> Installed(b)
          PROVE  RecordsSound'
  <2>1. \A k \in Kinds : Recorded(k)' = Recorded(k)
    BY <1>quiet DEF Recorded
  <2> QED
    BY <1>quiet, <1>old, <2>1 DEF RecordsSound, BuildsOf, Superseded
<1>1. CASE UNCHANGED <<tree, snapshots, receipt, published>>
  BY <1>1, <1>quiet, FilesSame
<1>2. CASE \E p \in Editable, c \in UserContents : Edit(p, c)
  BY <1>2, <1>quiet, EditKeepsInstalled DEF Edit
<1>3. CASE Replace
  <2>1. PICK b \in Builds : b = op.build /\ KindOf[b] = op.kind /\ AInstall(b)
    BY <1>3 DEF CommandSound, Replace, BuildsOf
  <2>2. /\ Installed(b)'
        /\ \A c \in Builds : KindOf[c] # op.kind => (Installed(c)' <=> Installed(c))
        /\ UNCHANGED <<receipt, published>>
    BY <1>3, <2>1, InstallExact DEF Replace
  <2>3. /\ \A r \in Recorded(op.kind) : OlderOrSame(r, b)
        /\ OlderOrSame(b, published[op.kind])
    BY <1>3, <2>1 DEF Ordered, CommandOrdered, Replace
  <2>4. \A k \in Kinds : Recorded(k)' = Recorded(k)
    BY <2>2 DEF Recorded
  <2>5. ASSUME NEW r \in Recorded(op.kind) PROVE Installed(r)' \/ Superseded(r)
    <3>1. r \in Builds /\ KindOf[r] = op.kind
      BY <1>old, <1>types
    <3>2. CASE r = b
      BY <2>2, <3>2
    <3>3. CASE Rank[r] < Rank[b]
      BY <1>types, <2>1, <2>3, <3>1, <3>3 DEF OlderOrSame, Superseded
    <3> QED
      BY <2>3, <3>2, <3>3 DEF OlderOrSame
  <2> QED
    BY <1>types, <1>old, <2>2, <2>4, <2>5 DEF RecordsSound, BuildsOf, Superseded
<1>4. CASE WriteReceipt
  <2>1. PICK b \in Builds : b = op.build /\ KindOf[b] = op.kind /\ Installed(b)
    BY <1>4 DEF CommandSound, WriteReceipt, BuildsOf
  <2>2. PICK r \in Builds : r = op.ref[op.kind] /\ KindOf[r] = op.kind
    BY <1>4 DEF CommandSound, WriteReceipt, BuildsOf
  <2>3. OlderOrSame(r, b) /\ OlderOrSame(b, published[op.kind])
    BY <1>4, <2>1, <2>2 DEF Ordered, CommandOrdered, WriteReceipt
  <2>4. receipt' = [receipt EXCEPT ![op.kind] = r] /\ UNCHANGED <<tree, published>>
    BY <1>4, <2>2 DEF WriteReceipt
  <2>5. OlderOrSame(r, published[op.kind])
    BY <1>types, <2>3, OlderTransitive
  <2>6. Installed(r) \/ Superseded(r)
    <3>1. CASE r = b
      BY <2>1, <3>1
    <3>2. CASE Rank[r] < Rank[b]
      BY <1>types, <2>2, <2>3, <3>2 DEF OlderOrSame, Superseded
    <3> QED
      BY <2>3, <3>1, <3>2 DEF OlderOrSame
  <2>7. \A k \in Kinds : Recorded(k)' \subseteq Recorded(k) \cup (IF k = op.kind THEN {r} ELSE {})
    BY <1>types, <2>4 DEF Recorded
  <2>8. \A c \in Builds : Installed(c)' <=> Installed(c)
    BY <2>4, FilesSame
  <2>9. ASSUME NEW k \in Kinds, NEW q \in Recorded(k)'
        PROVE  /\ q \in Builds /\ KindOf[q] = k
               /\ OlderOrSame(q, published[k])
               /\ Installed(q) \/ Superseded(q)
    <3>1. q \in Recorded(k) \/ (q = r /\ k = op.kind)
      BY <2>7
    <3> QED
      BY <1>old, <2>2, <2>5, <2>6, <3>1
  <2> QED
    BY <2>4, <2>8, <2>9 DEF RecordsSound, BuildsOf, Superseded
<1>5. ASSUME NEW p \in Procs, NEW s \in snapshots, Rollback(p, s) PROVE RecordsSound'
  <2>1. PICK k \in Kinds :
              /\ k = IF Manifest["tools"] \in DOMAIN s.before THEN "tools" ELSE "client"
              /\ Manifest[k] \in DOMAIN s.before
              /\ tree'[Manifest[k]] = s.before[Manifest[k]]
              /\ \A c \in Builds : KindOf[c] # k => (Installed(c)' <=> Installed(c))
    BY <1>5, RollbackOf DEF Rollback
  <2>2. receipt' = [receipt EXCEPT ![k] = NoBuild] /\ published' = published
    BY <1>5, <2>1 DEF Rollback
  <2>3. ASSUME NEW j \in Kinds, NEW q \in Recorded(j)'
        PROVE  q \in Recorded(j) /\ (j = k => j = "client" /\ q = LegacyDigest)
    BY <1>types, <2>2, <2>3 DEF Recorded
  <2>4. ASSUME NEW q \in Recorded(k)' PROVE Installed(q)' \/ Superseded(q)
    <3>1. k = "client" /\ q = LegacyDigest /\ q \in Builds /\ KindOf[q] = "client"
      BY <1>old, <2>3, <2>4
    <3>2. \/ Superseded(q)
          \/ s.before[Manifest["client"]] = Image[q][Manifest["client"]]
      BY <2>1, <3>1 DEF Ordered, LegacySound
    <3> QED
      BY <2>1, <3>1, <3>2 DEF Installed
  <2>5. ASSUME NEW j \in Kinds, NEW q \in Recorded(j)'
        PROVE  /\ q \in Builds /\ KindOf[q] = j
               /\ OlderOrSame(q, published[j])
               /\ Installed(q)' \/ Superseded(q)
    BY <1>old, <2>1, <2>3, <2>4, <2>5
  <2> QED
    BY <2>2, <2>5 DEF RecordsSound, BuildsOf, Superseded
<1>6. ASSUME NEW b \in Builds, Publish(b) PROVE RecordsSound'
  <2>1. /\ published' = [published EXCEPT ![KindOf[b]] = b]
        /\ Rank[b] > Rank[published[KindOf[b]]]
        /\ UNCHANGED <<tree, receipt>>
    BY <1>6 DEF Publish, NewerOnly
  <2>2. \A k \in Kinds : OlderOrSame(published[k], published'[k])
    BY <1>types, <2>1 DEF OlderOrSame
  <2>3. \A k \in Kinds : published'[k] \in Builds
    BY <1>types, <2>1
  <2>4. \A k \in Kinds : Recorded(k)' = Recorded(k)
    BY <2>1 DEF Recorded
  <2>5. \A c \in Builds : Installed(c)' <=> Installed(c)
    BY <2>1, FilesSame
  <2>6. ASSUME NEW k \in Kinds, NEW r \in Recorded(k)
        PROVE  /\ OlderOrSame(r, published'[k])
               /\ Superseded(r) => Superseded(r)'
    <3>1. r \in Builds /\ KindOf[r] = k /\ OlderOrSame(r, published[k])
      BY <1>old
    <3>2. OlderOrSame(r, published'[k])
      BY <1>types, <2>2, <2>3, <3>1, OlderTransitive
    <3>3. Superseded(r) => Superseded(r)'
      BY <1>types, <2>2, <2>3, <3>1 DEF OlderOrSame, Superseded
    <3> QED
      BY <3>2, <3>3
  <2> QED
    BY <1>old, <2>4, <2>5, <2>6 DEF RecordsSound, BuildsOf
<1> QED
  BY <1>1, <1>2, <1>3, <1>4, <1>5, <1>6, RecordSteps

\* No update over the client of the PowerShell updater's record hides it from
\* a rollback before a newer one is published.
LEMMA LegacySoundNext ==
    ASSUME NewerOnly, Sound, CommandSound, Ordered, [Next]_vars
    PROVE  LegacySound'
<1> SUFFICES ASSUME LegacyDigest \in Builds
             PROVE  \/ Superseded(LegacyDigest)'
                    \/ \A s \in snapshots' : Manifest["client"] \in DOMAIN s.before =>
                         s.before[Manifest["client"]] = Image[LegacyDigest][Manifest["client"]]
  BY DEF LegacySound
<1>types. /\ LegacyDigest # NoBuild /\ KindOf[LegacyDigest] = "client" /\ "client" \in Kinds
          /\ published \in [Kinds -> Builds] /\ Rank \in [Builds -> Nat]
          /\ \A b \in Builds : KindOf[b] \in Kinds
  BY CommandAssumption DEF Sound, TypeOK, BuildsOf, Kinds
<1>old. \/ Superseded(LegacyDigest)
        \/ \A s \in snapshots : Manifest["client"] \in DOMAIN s.before =>
              s.before[Manifest["client"]] = Image[LegacyDigest][Manifest["client"]]
  BY DEF Ordered, LegacySound
<1>1. CASE UNCHANGED published /\ snapshots' \subseteq snapshots
  BY <1>1, <1>old DEF Superseded
<1>2. ASSUME NEW p \in Procs, NEW s \in snapshots, Rollback(p, s)
      PROVE  UNCHANGED published /\ snapshots' \subseteq snapshots
  BY <1>2 DEF Rollback, ARollback
<1>3. WriteReceipt \/ (\E p \in Editable, c \in UserContents : Edit(p, c))
         => UNCHANGED published /\ snapshots' \subseteq snapshots
  BY DEF WriteReceipt, Edit, AEdit
<1>4. ASSUME NEW b \in Builds, Publish(b)
      PROVE  UNCHANGED snapshots /\ (Superseded(LegacyDigest) => Superseded(LegacyDigest)')
  <2>1. /\ published' = [published EXCEPT ![KindOf[b]] = b]
        /\ Rank[b] > Rank[published[KindOf[b]]]
        /\ UNCHANGED snapshots
    BY <1>4 DEF Publish, NewerOnly
  <2> QED
    BY <1>types, <2>1 DEF Superseded
<1>5. CASE Replace
  <2>1. PICK b \in Builds : KindOf[b] = op.kind /\ AInstall(b) /\ published' = published
    BY <1>5 DEF CommandSound, Replace, BuildsOf
  <2>2. PICK t \in Ids : snapshots' = snapshots \cup
             {[id |-> t,
               before |-> [p \in Touched(b) |-> tree[p]],
               after |-> [p \in Touched(b) |-> Image[b][p]]]}
    BY <2>1 DEF AInstall
  <2>3. LegacyDigest \in Recorded("client")
    BY <1>types DEF Recorded
  <2>4. Installed(LegacyDigest) \/ Superseded(LegacyDigest)
    BY <1>types, <2>3 DEF Ordered, RecordsSound
  <2>5. Installed(LegacyDigest) =>
           tree[Manifest["client"]] = Image[LegacyDigest][Manifest["client"]]
    BY <1>types DEF Installed
  <2>6. ASSUME NEW s \in snapshots', Manifest["client"] \in DOMAIN s.before, s \notin snapshots
        PROVE  s.before[Manifest["client"]] = tree[Manifest["client"]]
    BY <2>2, <2>6
  <2> QED
    BY <1>old, <2>1, <2>4, <2>5, <2>6 DEF Superseded
<1>6. CASE UNCHANGED <<tree, snapshots, receipt, published>>
  BY <1>1, <1>6
<1> QED
  BY <1>1, <1>2, <1>3, <1>4, <1>5, <1>6, <1>old, RecordSteps

\* What a command resolves is never older than a record of the root.
LEMMA CommandOrderedNext ==
    ASSUME NewerOnly, Sound, CommandSound, Ordered, [Next]_vars
    PROVE  CommandOrdered'
<1>types. /\ op \in Command /\ op.kind \in Kinds /\ published \in [Kinds -> Builds]
          /\ \A k \in Kinds : KindOf[published[k]] = k
          /\ op.ref \in [Kinds -> AnyBuild]
          /\ Rank \in [Builds -> Nat]
  BY CommandAssumption DEF Sound, TypeOK, Command
<1>records. \A r \in Recorded(op.kind) : r \in Builds /\ OlderOrSame(r, published[op.kind])
  BY <1>types DEF Ordered, RecordsSound, BuildsOf
<1>old. /\ op.step = "package" =>
             /\ OlderOrSame(op.ref[op.kind], published[op.kind])
             /\ \A r \in Recorded(op.kind) : OlderOrSame(r, op.ref[op.kind])
        /\ op.step \in {"install", "receipt"} =>
             /\ OlderOrSame(op.ref[op.kind], op.build)
             /\ OlderOrSame(op.build, published[op.kind])
        /\ op.step = "install" => \A r \in Recorded(op.kind) : OlderOrSame(r, op.build)
        /\ op.step \in {"package", "install", "receipt"} => op.ref[op.kind] \in Builds
        /\ op.step \in {"install", "receipt"} => op.build \in Builds
  BY DEF Ordered, CommandOrdered, CommandSound, BuildsOf
<1>1. CASE UNCHANGED <<op, tree, published, offered, receipt>>
  BY <1>1, <1>old DEF CommandOrdered, Recorded
<1>2. CASE op' = Idle \/ op'.step \in {"resolve", "content"}
  BY <1>2, IdleType DEF CommandOrdered
<1>3. ASSUME \E ref \in [Kinds -> AnyBuild], current \in SUBSET Kinds : Continue(ref, current)
      PROVE  op'.step \in {"resolve", "content"}
  BY <1>types, <1>3, ContinueType
<1>4. CASE FoundCurrent \/ WriteReceipt \/ (FoundOutdated /\ ~Installs)
  <2>1. op.current \cup {op.kind} \in SUBSET Kinds /\ op.current \in SUBSET Kinds
    BY <1>types DEF Command
  <2>2. Resolved \in [Kinds -> AnyBuild]
    BY <1>types, ResolvedType
  <2>3. \E ref \in [Kinds -> AnyBuild], current \in SUBSET Kinds : Continue(ref, current)
    BY <1>4, <1>types, <2>1, <2>2 DEF FoundCurrent, WriteReceipt, FoundOutdated
  <2> QED
    BY <1>2, <1>3, <2>3
<1>5. CASE FoundOutdated /\ Installs
  <2>1. /\ op'.step = "package" /\ op'.kind = op.kind
        /\ op'.ref = Resolved /\ UNCHANGED <<published, receipt>>
    BY <1>5, <1>types, OnTheWayType, ResolvedType DEF FoundOutdated, Steps
  <2>2. op'.ref[op'.kind] = published[op.kind]
    BY <1>types, <2>1, ResolvedType
  <2>3. OlderOrSame(op'.ref[op'.kind], published'[op'.kind])
    BY <2>1, <2>2 DEF OlderOrSame
  <2>4. Recorded(op.kind)' = Recorded(op.kind)
    BY <2>1 DEF Recorded
  <2>5. \A r \in Recorded(op.kind)' : OlderOrSame(r, op'.ref[op'.kind])
    BY <1>records, <2>2, <2>4
  <2> QED
    BY <2>1, <2>3, <2>5 DEF CommandOrdered, Recorded
<1>6. CASE Package
  <2>1. PICK b \in Builds : b = IF op.mode = "setup" THEN op.ref[op.kind]
                                                     ELSE published[op.kind]
    BY <1>6, <1>types, <1>old DEF Package
  <2>2. op' = [op EXCEPT !.step = "install", !.build = b]
    BY <1>6, <2>1 DEF Package
  <2>3. /\ op'.step = "install" /\ op'.kind = op.kind /\ op'.ref = op.ref /\ op'.build = b
        /\ UNCHANGED <<published, receipt>> /\ op.step = "package"
    BY <1>6, <1>types, <2>2, OnTheWayType DEF Package, Steps, AnyBuild
  <2>4. /\ OlderOrSame(op.ref[op.kind], b) /\ OlderOrSame(b, published[op.kind])
    BY <1>old, <2>1, <2>3 DEF OlderOrSame
  <2>5. \A r \in Recorded(op.kind) : OlderOrSame(r, b)
    BY <1>old, <1>records, <2>3, <2>4, OlderTransitive
  <2> QED
    BY <2>3, <2>4, <2>5 DEF CommandOrdered, Recorded
<1>7. CASE Replace
  <2>1. /\ op'.step = "receipt" /\ op'.kind = op.kind /\ op'.ref = op.ref
        /\ op'.build = op.build /\ UNCHANGED published /\ op.step = "install"
    BY <1>7, <1>types, OnTheWayType DEF Replace, Steps
  <2> QED
    BY <1>old, <2>1 DEF CommandOrdered
<1>8. ASSUME NEW b \in Builds, Publish(b) PROVE CommandOrdered'
  <2>1. /\ published' = [published EXCEPT ![KindOf[b]] = b]
        /\ Rank[b] > Rank[published[KindOf[b]]]
        /\ UNCHANGED <<op, receipt>>
    BY <1>8 DEF Publish, NewerOnly
  <2>2. OlderOrSame(published[op.kind], published'[op.kind]) /\ published'[op.kind] \in Builds
    BY <1>types, <2>1 DEF OlderOrSame
  <2>3. \A r \in Builds : OlderOrSame(r, published[op.kind]) => OlderOrSame(r, published'[op.kind])
    BY <1>types, <2>2, OlderTransitive
  <2> QED
    BY <1>old, <2>1, <2>3 DEF CommandOrdered, Recorded
<1> QED
  BY <1>1, <1>2, <1>4, <1>5, <1>6, <1>7, <1>8, CommandSteps

\* What is found current is what is published just then.
LEMMA CommandFoundNext ==
    ASSUME NewerOnly, Sound, CommandSound, Ordered, [Next]_vars
    PROVE  CommandFound'
<1>types. /\ op \in Command /\ op.kind \in Kinds /\ published \in [Kinds -> Builds]
          /\ \A k \in Kinds : KindOf[published[k]] = k
          /\ op.ref \in [Kinds -> AnyBuild] /\ op.current \in SUBSET Kinds
          /\ Rank \in [Builds -> Nat] /\ offered \subseteq Builds
  BY CommandAssumption DEF Sound, TypeOK, Command
<1>old. \A j \in op.current : \E b \in offered : KindOf[b] = j /\ Installed(b)
  BY DEF Ordered, CommandFound
<1>same. ASSUME UNCHANGED tree, offered \subseteq offered',
                \A j \in op'.current : \/ j \in op.current
                                       \/ \E b \in offered : KindOf[b] = j /\ Installed(b)
         PROVE  CommandFound'
  <2>1. \A b \in Builds : Installed(b)' <=> Installed(b)
    BY <1>same, FilesSame
  <2> QED
    BY <1>same, <1>old, <1>types, <2>1 DEF CommandFound
<1>continue. ASSUME NEW ref \in [Kinds -> AnyBuild], NEW current \in SUBSET Kinds,
                    Continue(ref, current)
             PROVE  op'.current = current
  BY <1>types, <1>continue, ContinueType
<1>1. CASE UNCHANGED <<op, tree, published, offered, receipt>>
  BY <1>1, <1>same
<1>2. CASE op' = Idle \/ (op'.step = "resolve" /\ op'.current = {})
  BY <1>2, IdleType DEF CommandFound
<1>3. CASE FoundCurrent
  <2>1. PICK b \in Builds : b = published[op.kind] /\ KindOf[b] = op.kind
    BY <1>types
  <2>2. b \in offered
    BY <1>3, <1>types, <2>1 DEF CommandSound, FoundCurrent
  <2>3. b \in Recorded(op.kind)
    <3>1. \/ receipt[op.kind] = b
          \/ op.kind = "client" /\ LegacyDigest = b
      BY <1>3, <1>types, <2>1
      DEF FoundCurrent, UpToDate, ToolsCurrent, ClientCurrent, Kinds
    <3> QED
      BY <3>1, CommandAssumption DEF Recorded
  <2>4. ~Superseded(b)
    BY <1>types, <2>1 DEF Superseded
  <2>5. Installed(b)
    BY <1>types, <2>3, <2>4 DEF Ordered, RecordsSound
  <2>6. Resolved \in [Kinds -> AnyBuild] /\ op.current \cup {op.kind} \in SUBSET Kinds
    BY <1>types, ResolvedType
  <2>7. op'.current = op.current \cup {op.kind} /\ UNCHANGED <<tree, offered>>
    BY <1>3, <1>continue, <2>6 DEF FoundCurrent
  <2> QED
    BY <1>same, <2>1, <2>2, <2>5, <2>7
<1>4. CASE FoundOutdated
  <2>1. Resolved \in [Kinds -> AnyBuild]
    BY <1>types, ResolvedType
  <2>2. op'.current = op.current /\ UNCHANGED <<tree, offered>>
    BY <1>4, <1>continue, <1>types, <2>1, OnTheWayType DEF FoundOutdated, Steps
  <2> QED
    BY <1>same, <2>2
<1>5. CASE Package
  <2>1. PICK b \in AnyBuild : b = IF op.mode = "setup" THEN op.ref[op.kind]
                                                       ELSE published[op.kind]
    BY <1>types DEF AnyBuild
  <2>2. op' = [op EXCEPT !.step = "install", !.build = b]
    BY <1>5, <2>1 DEF Package
  <2>3. op'.current = op.current /\ UNCHANGED <<tree, offered>>
    BY <1>5, <1>types, <2>2, OnTheWayType DEF Package, Steps
  <2> QED
    BY <1>same, <2>3
<1>6. CASE Replace
  <2>1. PICK b \in Builds : KindOf[b] = op.kind /\ AInstall(b)
    BY <1>6 DEF CommandSound, Replace, BuildsOf
  <2>2. \A c \in Builds : KindOf[c] # op.kind => (Installed(c)' <=> Installed(c))
    BY <2>1, InstallExact
  <2>3. op'.current = op.current /\ offered' = offered /\ op.kind \notin op.current
    BY <1>6, <1>types, OnTheWayType DEF CommandSound, Replace, Steps
  <2> QED
    BY <1>old, <1>types, <2>2, <2>3 DEF CommandFound
<1>7. CASE WriteReceipt
  <2>1. \E b \in offered : KindOf[b] = op.kind /\ Installed(b)
    BY <1>7 DEF CommandSound, WriteReceipt, BuildsOf
  <2>2. op.current \cup {op.kind} \in SUBSET Kinds
    BY <1>types
  <2>3. op'.current = op.current \cup {op.kind} /\ UNCHANGED <<tree, offered>>
    BY <1>7, <1>continue, <1>types, <2>2 DEF WriteReceipt
  <2> QED
    BY <1>same, <2>1, <2>3
<1>8. ASSUME op # Idle, NEW b \in Builds, Publish(b) PROVE CommandFound'
  BY <1>8, <1>same DEF Publish
<1> QED
  BY <1>1, <1>2, <1>3, <1>4, <1>5, <1>6, <1>7, <1>8, CommandSteps

\* What the records tell, in every behaviour.
THEOREM OrderedCorrect ==
    ASSUME NewerOnly PROVE Spec => [](Sound /\ CommandSound /\ Ordered)
<1>1. Init => Sound /\ CommandSound /\ Ordered
  BY SoundInit, CommandSoundInit, OrderedInit
<1>2. (Sound /\ CommandSound /\ Ordered) /\ [Next]_vars => (Sound /\ CommandSound /\ Ordered)'
  BY SoundNext, CommandSoundNext, RecordsSoundNext, LegacySoundNext, CommandOrderedNext,
     CommandFoundNext
  DEF Ordered
<1> QED
  BY <1>1, <1>2, PTL DEF Spec

\* A command never takes an older build for current: no receipt that a crash, a
\* failed write, a second resolve() or a rollback left names a published build
\* that is not the installed one.
THEOREM CurrentWasOfferedCorrect ==
    ASSUME NewerOnly PROVE Spec => []CurrentWasOffered
<1>1. CommandFound => CurrentWasOffered
  BY DEF CommandFound, CurrentWasOffered
<1> QED
  BY <1>1, OrderedCorrect, PTL DEF Ordered

-----------------------------------------------------------------------------
(* The files of the root. *)

\* Whatever commands, publishers and users do, the files of the root behave as
\* AtomicInstall promises, and are never a mixture of two builds of a kind.
THEOREM RootStaysWhole == Spec => ASpec /\ []AWhole
<1>1. Init => AInit
  BY DEF Init
<1>2. TypeOK /\ [Next]_vars => [ANext]_avars
  BY FilesStep
<1>3. Spec => ASpec
  BY <1>1, <1>2, TypeCorrect, PTL DEF Spec, ASpec
<1>4. Sound => AWhole
  BY DEF Sound, AInductive
<1> QED
  BY <1>3, <1>4, SoundCorrect, PTL
=============================================================================
