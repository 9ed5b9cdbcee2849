------------------------ MODULE LegacyMigration_proofs ------------------------
(***************************************************************************)
(* Proofs about LegacyMigration, for every value of its constants.         *)
(***************************************************************************)
EXTENDS LegacyMigration, FiniteSetTheorems, SequenceTheorems, TLAPS

Rewrites == UNION {[1..n -> Rewrite] : n \in 0..Cardinality(Configs)}

Record == [phase : Phases, folders : SUBSET Folders, configs : Rewrites]

\* Extra files are not of the inventory, wherever they are.
Places == [Folders -> {g \in Folder : \A x \in Extra : g[x] # "known"} \cup {None}]

Typed ==
    /\ old \in Places
    /\ retired \in Places
    /\ configs \in [Configs -> Config]
    /\ saved \in [Slots -> Config \cup {None}]
    /\ record \in Record
    /\ op \in Command

\* A list of rewrites: one for each of some configurations, of the legacy
\* references that they had.
Formed(list) ==
    /\ \A i, j \in DOMAIN list : list[i].path = list[j].path => i = j
    /\ \A i \in DOMAIN list : list[i].before.refs = "old"

Covered(list) ==
    \A c \in Configs : configs[c].refs = "old" => \E i \in DOMAIN list : list[i].path = c

\* How far the journal says the migration is, at each step of a command.
InPhase ==
    /\ op.step \in {"restore", "restoring", "recheck", "write", "undo"} => record.phase = "staging"
    /\ op.step \in {"preview", "save"} => record.phase \in {"none", "finished", "restored"}
    /\ op.step \in {"finish", "mark"} => record.phase \in {"staged", "removing"}
    /\ op.step = "remove" => record.phase = "removing"

\* Only folders of a journal that is not closed are retired.
RetiredByRecord ==
    /\ record.phase \in {"none", "finished", "restored"} => Present(retired) = {}
    /\ record.phase = "staging" => Present(retired) \subseteq record.folders

JournalSound ==
    record.phase = "staging" =>
        /\ Formed(record.configs)
        /\ \A i \in DOMAIN record.configs : saved[i] = record.configs[i].before
        /\ record.folders \subseteq Present(old) \cup Present(retired)

\* What a command knows of the files and the journal while nobody else changes
\* a configuration.
RestoringSound ==
    op.step = "restoring" =>
        /\ op.at >= 1
        /\ \A i \in DOMAIN record.configs : i >= op.at =>
              LET r == record.configs[i]
              IN configs[r.path] \in {r.before, Retarget(r.before)}

SaveSound ==
    op.step = "save" =>
        /\ Formed(op.configs)
        /\ op.at \in 1..(Len(op.configs) + 1)
        /\ \A i \in DOMAIN op.configs : i < op.at => saved[i] = op.configs[i].before
        /\ op.folders = Present(old)
        /\ op.moved = {}
        /\ Covered(op.configs)

StageSound ==
    op.step \in {"recheck", "write", "undo"} =>
        /\ op.folders = record.folders
        /\ op.at \in 1..(Len(op.configs) + 1)
        /\ op.moved = Present(retired)
        /\ Present(old) \cap op.moved = {}
        /\ Len(op.configs) <= Len(record.configs)
        /\ \A i \in DOMAIN op.configs : op.configs[i] = record.configs[i]

WriteSound ==
    op.step \in {"recheck", "write"} =>
        /\ op.configs = record.configs
        /\ Covered(op.configs)
        /\ op.step = "recheck" => op.at = 1
        /\ op.step = "write" => \A i \in DOMAIN op.configs :
              LET r == op.configs[i]
              IN configs[r.path] = IF i < op.at THEN Retarget(r.before) ELSE r.before

RemoveSound ==
    op.step \in {"mark", "remove"} =>
        /\ \A c \in Configs : configs[c].refs # "old"
        /\ op.folders = Present(retired)
        /\ \A l \in op.listed : /\ retired[l[1]] # None
                                /\ l[2] \in Known
                                /\ retired[l[1]][l[2]] = "known"

MInductive ==
    /\ Typed /\ InPhase /\ RetiredByRecord /\ JournalSound /\ RestoringSound
    /\ SaveSound /\ StageSound /\ WriteSound /\ RemoveSound

\* Unless somebody links them again, the references leave with the folders.
Referenced ==
    /\ record.phase = "staging" =>
          /\ Covered(record.configs)
          /\ record.configs # <<>> => record.folders = Folders
    /\ record.phase \in {"staged", "removing"} => \A c \in Configs : configs[c].refs = "new"
    /\ record.phase \in {"none", "finished", "restored"} =>
          \A c \in Configs : configs[c].refs = "old" => Present(old) = Folders
    /\ op.step = "save" /\ op.configs # <<>> => op.folders = Folders

\* Unless somebody installs them again, each folder is in one place.
InOnePlace == Present(old) \cap Present(retired) = {}

-----------------------------------------------------------------------------
(* Types. *)

\* The fields of a command, and what a list of rewrites is.
LEMMA RewritesType ==
    /\ Command = [step : Steps, configs : Rewrites, folders : SUBSET Folders,
                  moved : SUBSET Folders, listed : SUBSET (Folders \X Files), at : Nat]
    /\ \A list \in Rewrites : /\ Len(list) \in Nat /\ Len(list) <= Cardinality(Configs)
                              /\ DOMAIN list = 1..Len(list)
                              /\ \A i \in DOMAIN list : list[i] \in Rewrite
                              /\ list \in Seq(Rewrite)
    /\ <<>> \in Rewrites /\ Len(<<>>) = 0
    /\ Cardinality(Configs) \in Nat
<1>1. Command = [step : Steps, configs : Rewrites, folders : SUBSET Folders,
                 moved : SUBSET Folders, listed : SUBSET (Folders \X Files), at : Nat]
  BY DEF Command, Rewrites
<1>2. Cardinality(Configs) \in Nat
  BY MigrationAssumption, FS_CardinalityType
<1>3. ASSUME NEW list \in Rewrites
      PROVE  /\ Len(list) \in Nat /\ Len(list) <= Cardinality(Configs)
             /\ DOMAIN list = 1..Len(list)
             /\ \A i \in DOMAIN list : list[i] \in Rewrite
             /\ list \in Seq(Rewrite)
  <2>1. PICK n \in 0..Cardinality(Configs) : list \in [1..n -> Rewrite]
    BY DEF Rewrites
  <2>2. list \in Seq(Rewrite)
    BY <1>2, <2>1, SeqDef
  <2>3. Len(list) \in Nat /\ 1..Len(list) = 1..n
    BY <1>2, <2>1, <2>2, LenProperties
  <2>4. Len(list) = n
    BY <1>2, <2>3
  <2> QED
    BY <1>2, <2>1, <2>2, <2>4
<1>4. <<>> \in [1..0 -> Rewrite] /\ Len(<<>>) = 0
  OBVIOUS
<1>5. <<>> \in Rewrites
  BY <1>2, <1>4 DEF Rewrites
<1> QED
  BY <1>1, <1>2, <1>3, <1>4, <1>5

\* The beginning of a list is a list.
LEMMA BeginningType ==
    ASSUME NEW list \in Rewrites, NEW n \in 0..Len(list)
    PROVE  /\ SubSeq(list, 1, n) \in Rewrites
           /\ Len(SubSeq(list, 1, n)) = n
           /\ \A i \in 1..n : SubSeq(list, 1, n)[i] = list[i]
<1>1. list \in Seq(Rewrite) /\ Len(list) \in Nat /\ Len(list) <= Cardinality(Configs)
      /\ Cardinality(Configs) \in Nat
  BY RewritesType
<1>2. /\ SubSeq(list, 1, n) \in Seq(Rewrite)
      /\ Len(SubSeq(list, 1, n)) = n
      /\ \A i \in 1..n : SubSeq(list, 1, n)[i] = list[i]
  BY <1>1, SubSeqProperties
<1>3. SubSeq(list, 1, n) \in [1..n -> Rewrite]
  BY <1>2, LenProperties
<1> QED
  BY <1>1, <1>2, <1>3 DEF Rewrites

\* Doing nothing is a command.
LEMMA IdleType == Idle \in Command /\ Idle.step = "idle"
BY RewritesType DEF Idle, Steps

\* The scan: one rewrite for each configuration that has a legacy reference.
LEMMA ScanType ==
    ASSUME configs \in [Configs -> Config], NEW s \in Scans,
           NEW list, list = [i \in DOMAIN s |-> [path |-> s[i], before |-> configs[s[i]]]]
    PROVE  /\ list \in Rewrites
           /\ Formed(list)
           /\ Covered(list)
           /\ list # <<>> => \E c \in Configs : configs[c].refs = "old"
<1> DEFINE legacy == {c \in Configs : configs[c].refs = "old"}
           n == Cardinality(legacy)
<1>1. IsFiniteSet(legacy) /\ n \in Nat /\ n <= Cardinality(Configs) /\ Cardinality(Configs) \in Nat
  BY MigrationAssumption, FS_Subset, FS_CardinalityType
<1>2. s \in [1..n -> legacy] /\ \A i, j \in 1..n : s[i] = s[j] => i = j
  BY DEF Scans
<1> HIDE DEF n
<1>3. list \in [1..n -> Rewrite]
  BY <1>2 DEF Rewrite
<1>4. list \in Rewrites
  BY <1>1, <1>3 DEF Rewrites
<1>5. Formed(list)
  BY <1>2, <1>3 DEF Formed
<1>6. \A c \in legacy : \E i \in 1..n : s[i] = c
  <2>1. s \in Injection(1..n, legacy)
    BY <1>2 DEF Injection, IsInjective
  <2>2. Cardinality(1..n) = n
    BY <1>1, FS_Interval
  <2>3. s \in Surjection(1..n, legacy)
    BY <1>1, <2>1, <2>2, FS_Injection DEF n
  <2> QED
    BY <2>3 DEF Surjection
<1>7. Covered(list)
  BY <1>2, <1>3, <1>6 DEF Covered
<1>8. list # <<>> => \E c \in Configs : configs[c].refs = "old"
  <2>1. CASE n = 0
    BY <1>3, <2>1
  <2>2. CASE n # 0
    <3>1. s[1] \in legacy
      BY <1>1, <1>2, <2>2
    <3> QED
      BY <3>1
  <2> QED
    BY <2>1, <2>2
<1> QED
  BY <1>4, <1>5, <1>7, <1>8

\* The next step of a command begins with its first item.
LEMMA GotoType ==
    ASSUME op \in Command, NEW step \in Steps, Goto(step)
    PROVE  /\ op' \in Command /\ op'.step = step /\ op'.at = 1
           /\ op'.configs = op.configs /\ op'.folders = op.folders
           /\ op'.moved = op.moved /\ op'.listed = op.listed
<1>1. op' = [step |-> step, configs |-> op.configs, folders |-> op.folders,
             moved |-> op.moved, listed |-> op.listed, at |-> 1]
  BY DEF Goto, Command
<1> QED
  BY <1>1 DEF Command

\* The next item of a step.
LEMMA AdvanceType ==
    ASSUME op \in Command, op' = [op EXCEPT !.at = op.at + 1]
    PROVE  /\ op' \in Command /\ op'.step = op.step /\ op'.at = op.at + 1
           /\ op'.configs = op.configs /\ op'.folders = op.folders
           /\ op'.moved = op.moved /\ op'.listed = op.listed
<1>1. op' = [step |-> op.step, configs |-> op.configs, folders |-> op.folders,
             moved |-> op.moved, listed |-> op.listed, at |-> op.at + 1]
  BY DEF Command
<1>2. op.at + 1 \in Nat
  BY DEF Command
<1> QED
  BY <1>1, <1>2 DEF Command

\* Another set of moved folders.
LEMMA MovedType ==
    ASSUME op \in Command, NEW moved \in SUBSET Folders, op' = [op EXCEPT !.moved = moved]
    PROVE  /\ op' \in Command /\ op'.step = op.step /\ op'.at = op.at
           /\ op'.configs = op.configs /\ op'.folders = op.folders
           /\ op'.moved = moved /\ op'.listed = op.listed
BY RewritesType

\* The journal moves to another phase and keeps what it lists.
LEMMA PhaseType ==
    ASSUME record \in Record, NEW phase \in Phases, record' = [record EXCEPT !.phase = phase]
    PROVE  /\ record' \in Record /\ record'.phase = phase
           /\ record'.folders = record.folders /\ record'.configs = record.configs
BY DEF Record

\* What a user, or the removal, does to a file.
WithFile(place, f, x, c) == [place EXCEPT ![f][x] = c]

\* It leaves the folders where they are, and every other file.
OneFile(place, next, f, x) ==
    /\ next \in Places
    /\ \A g \in Folders : next[g] # None <=> place[g] # None
    /\ \A g \in Folders \ {f} : next[g] = place[g]
    /\ \A y \in Files \ {x} : next[f][y] = place[f][y]

\* A file is changed, put there or taken away in a folder that is present.
LEMMA FileType ==
    ASSUME NEW place \in Places, NEW f \in Folders, place[f] # None, NEW x \in Files,
           NEW c \in {"changed", "foreign", "gone"},
           NEW next, next = WithFile(place, f, x, c)
    PROVE  OneFile(place, next, f, x) /\ next[f][x] = c
<1>1. PICK folder \in Folder : folder = place[f] /\ \A y \in Extra : folder[y] # "known"
  BY DEF Places
<1>2. PICK new \in Folder : new = [folder EXCEPT ![x] = c]
  BY <1>1 DEF Folder
<1>3. \A y \in Extra : new[y] # "known"
  BY <1>1, <1>2 DEF Folder, Files
<1>4. next = [place EXCEPT ![f] = new]
  BY <1>1, <1>2 DEF WithFile
<1>5. new # None
  BY NoneAssumption
<1>6. [place EXCEPT ![f] = new] \in Places
  BY <1>3 DEF Places
<1>7. \A g \in Folders : [place EXCEPT ![f] = new][g] # None <=> place[g] # None
  BY <1>5 DEF Places
<1>8. \A y \in Files \ {x} : new[y] = place[f][y]
  BY <1>1, <1>2 DEF Folder
<1>9. /\ [place EXCEPT ![f] = new][f] = new
      /\ \A g \in Folders \ {f} : [place EXCEPT ![f] = new][g] = place[g]
  BY DEF Places
<1>10. \A y \in Files \ {x} : next[f][y] = place[f][y]
  BY <1>4, <1>8, <1>9
<1>11. next[f][x] = c
  BY <1>2, <1>4, <1>9 DEF Folder
<1> QED
  BY <1>4, <1>6, <1>7, <1>9, <1>10, <1>11 DEF OneFile

-----------------------------------------------------------------------------
(* The steps of a migration. *)

\* An installation from before the migration satisfies the invariant.
LEMMA MInductiveInit == Init => MInductive
<1> SUFFICES ASSUME Init PROVE MInductive
  OBVIOUS
<1>1. /\ old = [f \in Folders |-> Original] /\ retired = [f \in Folders |-> None]
      /\ record = [phase |-> "none", folders |-> {}, configs |-> <<>>] /\ op = Idle
      /\ saved = [i \in Slots |-> None]
      /\ configs \in [Configs -> [refs : {"old", "new"}, mine : {FALSE}]]
  BY DEF Init
<1>2. Original \in Folder /\ \A x \in Extra : Original[x] # "known"
  BY MigrationAssumption DEF Original, Folder, Files
<1>3. old \in Places /\ retired \in Places
  BY <1>1, <1>2 DEF Places
<1>4. configs \in [Configs -> Config]
  BY <1>1 DEF Config
<1>5. record \in Record
  BY <1>1, RewritesType DEF Record, Phases
<1>6. Typed
  BY <1>1, <1>3, <1>4, <1>5, IdleType DEF Typed
<1>7. Present(retired) = {}
  BY <1>1 DEF Present
<1> QED
  BY <1>1, <1>6, <1>7, IdleType
  DEF MInductive, InPhase, RetiredByRecord, JournalSound, RestoringSound, SaveSound,
      StageSound, WriteSound, RemoveSound

\* A command may stop after any step.
LEMMA FailKeeps ==
    ASSUME MInductive, Fail
    PROVE  MInductive'
<1>1. op'.step = "idle" /\ op' \in Command /\ UNCHANGED <<old, retired, configs, saved, record>>
  BY IdleType DEF Fail
<1>2. Typed' /\ RetiredByRecord' /\ JournalSound'
  BY <1>1 DEF MInductive, Typed, RetiredByRecord, JournalSound, Present, Formed
<1> QED
  BY <1>1, <1>2
  DEF MInductive, InPhase, RestoringSound, SaveSound, StageSound, WriteSound, RemoveSound

\* Each step of a command begins where the one before it ended.
LEMMA GotoKeeps ==
    ASSUME MInductive, Prepare \/ RestoreCheck \/ Recheck
    PROVE  MInductive'
<1>1. op \in Command /\ op.step \in Steps /\ record.phase \in Phases
  BY RewritesType DEF MInductive, Typed, Record
<1>2. ASSUME NEW step \in Steps, Goto(step)
      PROVE  /\ Typed' /\ RetiredByRecord' /\ JournalSound'
             /\ op'.step = step /\ op'.at = 1 /\ op'.configs = op.configs
             /\ op'.folders = op.folders /\ op'.moved = op.moved
             /\ UNCHANGED <<old, retired, configs, saved, record>>
  <2>1. /\ op' \in Command /\ op'.step = step /\ op'.at = 1 /\ op'.configs = op.configs
        /\ op'.folders = op.folders /\ op'.moved = op.moved
    BY <1>1, <1>2, GotoType
  <2>2. UNCHANGED <<old, retired, configs, saved, record>>
    BY <1>2 DEF Goto
  <2>3. Typed' /\ RetiredByRecord' /\ JournalSound'
    BY <2>1, <2>2 DEF MInductive, Typed, RetiredByRecord, JournalSound, Present, Formed
  <2> QED
    BY <2>1, <2>2, <2>3
<1>3. CASE Prepare
  <2>1. PICK step \in {"restore", "finish", "preview"} :
           /\ Goto(step)
           /\ step = "restore" => record.phase = "staging"
           /\ step = "finish" => record.phase \in {"staged", "removing"}
           /\ step = "preview" => record.phase \in {"none", "finished", "restored"}
    BY <1>1, <1>3 DEF Prepare, Phases
  <2>2. /\ Typed' /\ RetiredByRecord' /\ JournalSound'
        /\ op'.step = step /\ record' = record
    BY <1>2, <2>1 DEF Steps
  <2> QED
    BY <2>1, <2>2
    DEF MInductive, InPhase, RestoringSound, SaveSound, StageSound, WriteSound, RemoveSound
<1>4. CASE RestoreCheck
  <2>1. /\ Typed' /\ RetiredByRecord' /\ JournalSound'
        /\ op'.step = "restoring" /\ op'.at = 1 /\ UNCHANGED <<configs, record>>
        /\ record.phase = "staging" /\ Restorable
    BY <1>2, <1>4 DEF RestoreCheck, Steps, MInductive, InPhase
  <2>2. RestoringSound'
    BY <2>1 DEF RestoringSound, Restorable
  <2> QED
    BY <2>1, <2>2
    DEF MInductive, InPhase, SaveSound, StageSound, WriteSound, RemoveSound
<1>5. CASE Recheck
  <2>1. /\ Typed' /\ RetiredByRecord' /\ JournalSound'
        /\ op'.step = "write" /\ op'.at = 1 /\ op'.configs = op.configs
        /\ op'.folders = op.folders /\ op'.moved = op.moved
        /\ UNCHANGED <<old, retired, configs, record>>
        /\ op.step = "recheck" /\ Unchanged /\ record.phase = "staging"
    BY <1>2, <1>5 DEF Recheck, Steps, MInductive, InPhase
  <2>2. Len(op.configs) \in Nat /\ DOMAIN op.configs = 1..Len(op.configs)
    BY <1>1, RewritesType
  <2>3. StageSound'
    BY <2>1, <2>2 DEF MInductive, StageSound, Present
  <2>4. WriteSound'
    BY <2>1, <2>2 DEF MInductive, WriteSound, Unchanged, Covered
  <2> QED
    BY <2>1, <2>3, <2>4 DEF MInductive, InPhase, RestoringSound, SaveSound, RemoveSound
<1> QED
  BY <1>3, <1>4, <1>5

\* What the journal says is put back, file by file.
LEMMA RestoreKeeps ==
    ASSUME MInductive,
           RestoreConfig \/ (\E f \in Folders : RestoreFolder(f)) \/ RestoreDone
    PROVE  MInductive'
<1>1. /\ op \in Command /\ record \in Record /\ configs \in [Configs -> Config]
      /\ old \in Places /\ retired \in Places /\ saved \in [Slots -> Config \cup {None}]
      /\ op.at \in Nat
  BY RewritesType DEF MInductive, Typed
<1>2. record.phase = "staging" /\ op.step = "restoring" /\ op.at >= 1
  BY DEF MInductive, InPhase, RestoringSound, RestoreConfig, RestoreFolder, RestoreDone
<1>3. /\ record.configs \in Rewrites /\ DOMAIN record.configs = 1..Len(record.configs)
      /\ Len(record.configs) \in Nat
      /\ \A i \in DOMAIN record.configs : record.configs[i] \in Rewrite
  BY <1>1, RewritesType DEF Record
<1>4. /\ Formed(record.configs)
      /\ \A i \in DOMAIN record.configs : saved[i] = record.configs[i].before
      /\ record.folders \subseteq Present(old) \cup Present(retired)
  BY <1>2 DEF MInductive, JournalSound
<1>5. CASE RestoreConfig
  <2>1. PICK i \in DOMAIN record.configs, r \in Rewrite :
           i = op.at /\ r = record.configs[i] /\ saved[i] = r.before
    BY <1>1, <1>2, <1>3, <1>4, <1>5 DEF RestoreConfig
  <2>2. configs' = [configs EXCEPT ![r.path] = r.before]
    BY <1>5, <2>1 DEF RestoreConfig
  <2>3. configs' \in [Configs -> Config]
    BY <1>1, <2>2 DEF Rewrite
  <2>4. /\ op' \in Command /\ op'.step = "restoring" /\ op'.at = op.at + 1
        /\ UNCHANGED <<old, retired, saved, record>>
    BY <1>1, <1>2, <1>5, AdvanceType DEF RestoreConfig
  <2>5. Typed'
    BY <1>1, <2>3, <2>4 DEF MInductive, Typed
  <2>6. RetiredByRecord' /\ JournalSound'
    BY <2>4 DEF MInductive, RetiredByRecord, JournalSound, Present, Formed
  <2>7. ASSUME NEW j \in DOMAIN record.configs, j >= op.at + 1
        PROVE  configs'[record.configs[j].path]
                  \in {record.configs[j].before, Retarget(record.configs[j].before)}
    <3>1. record.configs[j].path # r.path /\ record.configs[j].path \in Configs
      BY <1>1, <1>3, <1>4, <2>1, <2>7 DEF Formed, Rewrite
    <3>2. configs'[record.configs[j].path] = configs[record.configs[j].path]
      BY <1>1, <2>2, <3>1
    <3> QED
      BY <1>1, <1>2, <1>3, <2>7, <3>2 DEF MInductive, RestoringSound
  <2>8. RestoringSound'
    BY <1>1, <2>4, <2>7 DEF RestoringSound
  <2> QED
    BY <1>2, <2>4, <2>5, <2>6, <2>8
    DEF MInductive, InPhase, SaveSound, StageSound, WriteSound, RemoveSound
<1>6. ASSUME NEW f \in Folders, RestoreFolder(f) PROVE MInductive'
  <2>1. /\ old' = [old EXCEPT ![f] = retired[f]] /\ retired' = [retired EXCEPT ![f] = None]
        /\ UNCHANGED <<configs, saved, record, op>>
        /\ retired[f] # None /\ f \in record.folders
    BY <1>6 DEF RestoreFolder
  <2>2. old' \in Places /\ retired' \in Places
    BY <1>1, <2>1 DEF Places
  <2>3. Typed'
    BY <2>1, <2>2 DEF MInductive, Typed
  <2>4. /\ Present(old)' = Present(old) \cup {f}
        /\ Present(retired)' = Present(retired) \ {f}
    BY <1>1, <2>1 DEF Places, Present
  <2>5. RetiredByRecord' /\ JournalSound'
    BY <1>4, <2>1, <2>4 DEF MInductive, RetiredByRecord, JournalSound, Formed
  <2>6. RestoringSound'
    BY <2>1 DEF MInductive, RestoringSound
  <2> QED
    BY <1>2, <2>1, <2>3, <2>5, <2>6
    DEF MInductive, InPhase, SaveSound, StageSound, WriteSound, RemoveSound
<1>7. CASE RestoreDone
  <2>1. /\ record' \in Record /\ record'.phase = "restored"
        /\ UNCHANGED <<old, retired, configs, saved>>
    BY <1>1, <1>7, PhaseType DEF RestoreDone, Phases
  <2>2. op' \in Command /\ op'.step = "preview"
    BY <1>1, <1>7, RewritesType DEF RestoreDone, Steps
  <2>3. Present(retired)' = {}
    <3>1. Present(retired) \subseteq record.folders
      BY <1>2 DEF MInductive, RetiredByRecord
    <3>2. \A f \in record.folders : retired[f] = None
      BY <1>7 DEF RestoreDone
    <3> QED
      BY <2>1, <3>1, <3>2 DEF Present
  <2>4. Typed'
    BY <1>1, <2>1, <2>2 DEF Typed
  <2> QED
    BY <2>1, <2>2, <2>3, <2>4
    DEF MInductive, InPhase, RetiredByRecord, JournalSound, RestoringSound, SaveSound,
        StageSound, WriteSound, RemoveSound
<1> QED
  BY <1>5, <1>6, <1>7

\* The scan and the backups it leaves.
LEMMA SaveKeeps ==
    ASSUME MInductive, Scan \/ SaveConfig \/ WriteRecord
    PROVE  MInductive'
<1>1. /\ op \in Command /\ record \in Record /\ configs \in [Configs -> Config]
      /\ saved \in [Slots -> Config \cup {None}] /\ op.at \in Nat
      /\ op.configs \in Rewrites /\ Len(op.configs) \in Nat
      /\ DOMAIN op.configs = 1..Len(op.configs) /\ op.folders \in SUBSET Folders
      /\ \A i \in DOMAIN op.configs : op.configs[i] \in Rewrite
  BY RewritesType DEF MInductive, Typed
<1>2. record.phase \in {"none", "finished", "restored"} /\ Present(retired) = {}
  BY DEF MInductive, InPhase, RetiredByRecord, Scan, SaveConfig, WriteRecord
<1>3. CASE Scan
  <2>1. PICK s \in Scans :
          op' = [Idle EXCEPT !.step = "save",
                             !.configs = [i \in DOMAIN s |->
                                [path |-> s[i], before |-> configs[s[i]]]],
                             !.folders = Present(old)]
    BY <1>3 DEF Scan
  <2>2. PICK list \in Rewrites :
           /\ list = [i \in DOMAIN s |-> [path |-> s[i], before |-> configs[s[i]]]]
           /\ Formed(list) /\ Covered(list)
    <3> DEFINE l == [i \in DOMAIN s |-> [path |-> s[i], before |-> configs[s[i]]]]
    <3>1. l \in Rewrites /\ Formed(l) /\ Covered(l)
      BY <1>1, ScanType
    <3> QED
      BY <3>1
  <2>3. op' = [step |-> "save", configs |-> list, folders |-> Present(old), moved |-> {},
               listed |-> {}, at |-> 1]
    BY <2>1, <2>2 DEF Idle
  <2>4. Len(list) \in Nat
    BY RewritesType
  <2>5. UNCHANGED <<old, retired, configs, saved, record>>
    BY <1>3 DEF Scan
  <2>6. op' \in Command /\ op'.step = "save"
    BY <2>3, RewritesType DEF Steps, Present
  <2>7. Typed' /\ RetiredByRecord' /\ JournalSound'
    BY <2>5, <2>6 DEF MInductive, Typed, RetiredByRecord, JournalSound, Present, Formed
  <2>8. SaveSound'
    BY <2>2, <2>3, <2>4, <2>5 DEF SaveSound, Formed, Covered, Present
  <2> QED
    BY <1>2, <2>5, <2>6, <2>7, <2>8
    DEF MInductive, InPhase, RestoringSound, StageSound, WriteSound, RemoveSound
<1>4. CASE SaveConfig
  <2>1. /\ op.step = "save" /\ op.at <= Len(op.configs) /\ Formed(op.configs)
        /\ op.at \in 1..(Len(op.configs) + 1) /\ op.folders = Present(old) /\ op.moved = {}
        /\ Covered(op.configs)
        /\ \A i \in DOMAIN op.configs : i < op.at => saved[i] = op.configs[i].before
    BY <1>4 DEF MInductive, SaveSound, SaveConfig
  <2>2. PICK i \in DOMAIN op.configs, r \in Rewrite : i = op.at /\ r = op.configs[i]
    BY <1>1, <2>1
  <2>3. saved' = [saved EXCEPT ![i] = r.before]
    BY <1>4, <2>2 DEF SaveConfig
  <2>4. /\ op' \in Command /\ op'.step = "save" /\ op'.at = op.at + 1
        /\ op'.configs = op.configs /\ op'.folders = op.folders /\ op'.moved = op.moved
        /\ UNCHANGED <<old, retired, configs, record>>
    BY <1>1, <1>4, <2>1, AdvanceType DEF SaveConfig
  <2>5. saved' \in [Slots -> Config \cup {None}]
    BY <1>1, <2>3 DEF Rewrite
  <2>6. Typed' /\ RetiredByRecord' /\ JournalSound'
    BY <1>2, <2>4, <2>5 DEF MInductive, Typed, RetiredByRecord, JournalSound, Present
  <2>7. i \in Slots
    <3>1. Len(op.configs) <= Cardinality(Configs) /\ Cardinality(Configs) \in Nat
      BY <1>1, RewritesType
    <3> QED
      BY <1>1, <2>2, <3>1 DEF Slots
  <2>8. \A j \in DOMAIN op.configs : j < op.at + 1 => saved'[j] = op.configs[j].before
    BY <1>1, <2>1, <2>2, <2>3, <2>7
  <2>9. SaveSound'
    <3>1. op'.at \in 1..(Len(op'.configs) + 1)
      BY <1>1, <2>1, <2>4
    <3>2. op'.folders = Present(old)' /\ op'.moved = {}
      BY <2>1, <2>4 DEF Present
    <3>3. \A j \in DOMAIN op'.configs : j < op'.at => saved'[j] = op'.configs[j].before
      BY <2>4, <2>8
    <3>4. Covered(op.configs)' /\ Formed(op.configs)'
      BY <2>1, <2>4 DEF Covered, Formed
    <3> QED
      BY <3>1, <3>2, <3>3, <3>4 DEF SaveSound
  <2> QED
    BY <1>2, <2>4, <2>6, <2>9
    DEF MInductive, InPhase, RestoringSound, StageSound, WriteSound, RemoveSound
<1>5. CASE WriteRecord
  <2>1. /\ op.step = "save" /\ op.at > Len(op.configs) /\ Formed(op.configs)
        /\ op.folders = Present(old) /\ op.moved = {} /\ Covered(op.configs)
        /\ \A i \in DOMAIN op.configs : i < op.at => saved[i] = op.configs[i].before
    BY <1>5 DEF MInductive, SaveSound, WriteRecord
  <2>2. /\ record' = [phase |-> "staging", folders |-> op.folders, configs |-> op.configs]
        /\ op' = [op EXCEPT !.step = "recheck", !.at = 1]
        /\ UNCHANGED <<old, retired, configs, saved>>
    BY <1>5 DEF WriteRecord
  <2>3. op' = [step |-> "recheck", configs |-> op.configs, folders |-> op.folders,
               moved |-> op.moved, listed |-> op.listed, at |-> 1]
    BY <1>1, <2>2 DEF Command
  <2>4. op' \in Command
    BY <1>1, <2>3 DEF Command, Steps
  <2>5. record' \in Record /\ record'.phase = "staging" /\ record'.folders = op.folders
        /\ record'.configs = op.configs
    BY <1>1, <2>2 DEF Record, Phases
  <2>6. Typed'
    BY <2>2, <2>4, <2>5 DEF MInductive, Typed
  <2>7. RetiredByRecord'
    BY <1>2, <2>2, <2>5 DEF RetiredByRecord, Present
  <2>8. \A i \in DOMAIN op.configs : saved[i] = op.configs[i].before
    BY <1>1, <2>1
  <2>9. JournalSound'
    BY <2>1, <2>2, <2>5, <2>8 DEF JournalSound, Present, Formed
  <2>10. StageSound'
    BY <1>1, <1>2, <2>1, <2>2, <2>3, <2>5 DEF StageSound, Present
  <2>11. WriteSound'
    BY <2>1, <2>2, <2>3, <2>5 DEF WriteSound, Covered
  <2> QED
    BY <2>3, <2>5, <2>6, <2>7, <2>9, <2>10, <2>11
    DEF MInductive, InPhase, RestoringSound, SaveSound, RemoveSound
<1> QED
  BY <1>3, <1>4, <1>5

\* The configurations and the folders, in order, until all of it is staged.
LEMMA WriteKeeps ==
    ASSUME MInductive, WriteConfig \/ (\E f \in Folders : MoveFolder(f)) \/ MarkStaged
    PROVE  MInductive'
<1>1. /\ op \in Command /\ record \in Record /\ configs \in [Configs -> Config]
      /\ old \in Places /\ retired \in Places
      /\ saved \in [Slots -> Config \cup {None}] /\ op.at \in Nat
      /\ op.configs \in Rewrites /\ Len(op.configs) \in Nat
      /\ DOMAIN op.configs = 1..Len(op.configs)
      /\ op.moved \in SUBSET Folders
      /\ \A i \in DOMAIN op.configs : op.configs[i] \in Rewrite
  BY RewritesType DEF MInductive, Typed
<1>2. op.step = "write" /\ record.phase = "staging" /\ Present(retired) \subseteq record.folders
  BY DEF MInductive, InPhase, RetiredByRecord, WriteConfig, MoveFolder, MarkStaged
<1>3. /\ op.folders = record.folders /\ op.at \in 1..(Len(op.configs) + 1)
      /\ op.moved = Present(retired) /\ Present(old) \cap op.moved = {}
      /\ op.configs = record.configs /\ Covered(op.configs) /\ Formed(op.configs)
      /\ \A i \in DOMAIN op.configs :
            LET r == op.configs[i]
            IN configs[r.path] = IF i < op.at THEN Retarget(r.before) ELSE r.before
      /\ record.folders \subseteq Present(old) \cup Present(retired)
  BY <1>2 DEF MInductive, StageSound, WriteSound, JournalSound
<1>4. CASE WriteConfig
  <2>1. PICK i \in DOMAIN op.configs, r \in Rewrite : i = op.at /\ r = op.configs[i]
    BY <1>1, <1>3, <1>4 DEF WriteConfig
  <2>2. configs' = [configs EXCEPT ![r.path] = Retarget(r.before)]
    BY <1>4, <2>1 DEF WriteConfig
  <2>3. Retarget(r.before) \in Config /\ Retarget(r.before).refs = "new" /\ r.path \in Configs
    BY DEF Rewrite, Config, Retarget
  <2>4. configs' \in [Configs -> Config]
    BY <1>1, <2>2, <2>3
  <2>5. /\ op' \in Command /\ op'.step = "write" /\ op'.at = op.at + 1
        /\ op'.configs = op.configs /\ op'.folders = op.folders /\ op'.moved = op.moved
        /\ UNCHANGED <<old, retired, saved, record>>
    BY <1>1, <1>2, <1>4, AdvanceType DEF WriteConfig
  <2>6. Typed' /\ RetiredByRecord' /\ JournalSound'
    BY <2>4, <2>5 DEF MInductive, Typed, RetiredByRecord, JournalSound, Present, Formed
  <2>7. op.at + 1 \in 1..(Len(op.configs) + 1)
    BY <1>1, <1>3, <2>1
  <2>8. StageSound'
    BY <1>2, <2>5, <2>7 DEF MInductive, StageSound, Present
  <2>9. ASSUME NEW j \in DOMAIN op.configs, NEW q \in Rewrite, q = op.configs[j]
        PROVE  configs'[q.path] = IF j < op.at + 1 THEN Retarget(q.before) ELSE q.before
    <3>1. CASE j = i
      BY <1>1, <2>1, <2>2, <2>3, <2>9, <3>1
    <3>2. CASE j # i
      <4>1. q.path # r.path /\ q.path \in Configs
        BY <1>3, <2>1, <2>9, <3>2 DEF Formed, Rewrite
      <4>2. configs'[q.path] = configs[q.path]
        BY <1>1, <2>2, <4>1
      <4>3. j < op.at + 1 <=> j < op.at
        BY <1>1, <2>1, <3>2
      <4> QED
        BY <1>3, <2>9, <4>2, <4>3
    <3> QED
      BY <3>1, <3>2
  <2>10. Covered(op.configs)'
    BY <1>1, <1>3, <2>2, <2>3, <2>5 DEF Covered
  <2>11. \A j \in DOMAIN op'.configs :
            LET q == op'.configs[j]
            IN configs'[q.path] = IF j < op'.at THEN Retarget(q.before) ELSE q.before
    BY <1>1, <2>5, <2>9
  <2>12. WriteSound'
    BY <1>3, <2>5, <2>10, <2>11 DEF WriteSound
  <2> QED
    BY <1>2, <2>5, <2>6, <2>8, <2>12
    DEF MInductive, InPhase, RestoringSound, SaveSound, RemoveSound
<1>5. ASSUME NEW f \in Folders, MoveFolder(f) PROVE MInductive'
  <2>1. /\ old' = [old EXCEPT ![f] = None] /\ retired' = [retired EXCEPT ![f] = old[f]]
        /\ old[f] # None /\ f \in op.folders
        /\ op' = [op EXCEPT !.moved = op.moved \cup {f}]
        /\ UNCHANGED <<configs, saved, record>>
    BY <1>5 DEF MoveFolder
  <2>2. old' \in Places /\ retired' \in Places
    BY <1>1, <2>1 DEF Places
  <2>3. /\ op' \in Command /\ op'.step = "write" /\ op'.at = op.at
        /\ op'.configs = op.configs /\ op'.folders = op.folders
        /\ op'.moved = op.moved \cup {f}
    <3>1. op.moved \cup {f} \in SUBSET Folders
      BY <1>1
    <3> QED
      BY <1>1, <1>2, <2>1, <3>1, MovedType
  <2>4. Typed'
    BY <2>1, <2>2, <2>3 DEF MInductive, Typed
  <2>5. /\ Present(old)' = Present(old) \ {f}
        /\ Present(retired)' = Present(retired) \cup {f}
    BY <1>1, <2>1 DEF Places, Present
  <2>6. RetiredByRecord'
    BY <1>2, <1>3, <2>1, <2>5 DEF RetiredByRecord
  <2>7. JournalSound'
    BY <1>2, <1>3, <2>1, <2>5 DEF MInductive, JournalSound, Formed
  <2>8. StageSound'
    BY <1>2, <1>3, <2>1, <2>3, <2>5 DEF MInductive, StageSound
  <2>9. WriteSound'
    BY <1>2, <1>3, <2>1, <2>3 DEF WriteSound, Covered
  <2> QED
    BY <1>2, <2>1, <2>3, <2>4, <2>6, <2>7, <2>8, <2>9
    DEF MInductive, InPhase, RestoringSound, SaveSound, RemoveSound
<1>6. CASE MarkStaged
  <2>1. /\ record' \in Record /\ record'.phase = "staged"
        /\ UNCHANGED <<old, retired, configs, saved>>
    BY <1>1, <1>6, PhaseType DEF MarkStaged, Phases
  <2>2. op' \in Command /\ op'.step = "finish"
    BY <1>6, IdleType, RewritesType DEF MarkStaged, Steps, Idle
  <2>3. Typed'
    BY <1>1, <2>1, <2>2 DEF Typed
  <2> QED
    BY <2>1, <2>2, <2>3
    DEF MInductive, InPhase, RetiredByRecord, JournalSound, RestoringSound, SaveSound,
        StageSound, WriteSound, RemoveSound
<1> QED
  BY <1>4, <1>5, <1>6

\* The handler of stage: the folders, then the configurations that were written.
LEMMA UndoKeeps ==
    ASSUME MInductive,
           StageFails \/ (\E f \in Folders : UndoFolder(f)) \/ UndoConfig \/ UndoDone
    PROVE  MInductive'
<1>1. /\ op \in Command /\ record \in Record /\ configs \in [Configs -> Config]
      /\ old \in Places /\ retired \in Places
      /\ saved \in [Slots -> Config \cup {None}] /\ op.at \in Nat
      /\ op.configs \in Rewrites /\ Len(op.configs) \in Nat
      /\ DOMAIN op.configs = 1..Len(op.configs)
      /\ op.moved \in SUBSET Folders
      /\ \A i \in DOMAIN op.configs : op.configs[i] \in Rewrite
  BY RewritesType DEF MInductive, Typed
<1>2. /\ op.step \in {"recheck", "write", "undo"} /\ record.phase = "staging"
      /\ Present(retired) \subseteq record.folders
  BY DEF MInductive, InPhase, RetiredByRecord, StageFails, UndoFolder, UndoConfig, UndoDone
<1>3. /\ op.folders = record.folders /\ op.at \in 1..(Len(op.configs) + 1)
      /\ op.moved = Present(retired) /\ Present(old) \cap op.moved = {}
      /\ Len(op.configs) <= Len(record.configs)
      /\ \A i \in DOMAIN op.configs : op.configs[i] = record.configs[i]
      /\ record.folders \subseteq Present(old) \cup Present(retired)
  BY <1>2 DEF MInductive, StageSound, JournalSound
<1>4. CASE StageFails
  <2>1. PICK n \in 0..Len(op.configs) : n = op.at - 1
    BY <1>1, <1>3
  <2>2. PICK list \in Rewrites : /\ list = SubSeq(op.configs, 1, n)
                                 /\ Len(list) = n
                                 /\ \A i \in 1..n : list[i] = op.configs[i]
    BY <1>1, BeginningType
  <2>3. op' = [op EXCEPT !.step = "undo", !.configs = list, !.at = 1]
    BY <1>4, <2>1, <2>2 DEF StageFails
  <2>4. op' = [step |-> "undo", configs |-> list, folders |-> op.folders, moved |-> op.moved,
               listed |-> op.listed, at |-> 1]
    BY <1>1, <2>3 DEF Command
  <2>5. op' \in Command
    BY <1>1, <2>4, RewritesType DEF Steps
  <2>6. UNCHANGED <<old, retired, configs, saved, record>>
    BY <1>4 DEF StageFails
  <2>7. Typed' /\ RetiredByRecord' /\ JournalSound'
    BY <2>5, <2>6 DEF MInductive, Typed, RetiredByRecord, JournalSound, Present, Formed
  <2>8. Len(record.configs) \in Nat /\ DOMAIN list = 1..n
    BY <1>1, <2>2, RewritesType DEF Record
  <2>9. /\ 1 \in 1..(n + 1) /\ n <= Len(record.configs)
        /\ \A i \in 1..n : list[i] = record.configs[i]
    <3>1. 1 \in 1..(n + 1) /\ n <= Len(op.configs) /\ 1..n \subseteq 1..Len(op.configs)
      BY <1>1
    <3>2. n <= Len(record.configs)
      BY <1>1, <1>3, <2>8, <3>1
    <3>3. ASSUME NEW i \in 1..n PROVE list[i] = record.configs[i]
      <4>1. i \in DOMAIN op.configs
        BY <1>1, <3>1
      <4> QED
        BY <1>3, <2>2, <4>1
    <3> QED
      BY <3>1, <3>2, <3>3
  <2>10. StageSound'
    BY <1>3, <2>2, <2>4, <2>6, <2>8, <2>9 DEF StageSound, Present
  <2> QED
    BY <1>2, <2>4, <2>6, <2>7, <2>10
    DEF MInductive, InPhase, RestoringSound, SaveSound, WriteSound, RemoveSound
<1>5. ASSUME NEW f \in Folders, UndoFolder(f) PROVE MInductive'
  <2>1. /\ old' = [old EXCEPT ![f] = retired[f]] /\ retired' = [retired EXCEPT ![f] = None]
        /\ op.step = "undo" /\ f \in op.moved /\ retired[f] # None
        /\ op' = [op EXCEPT !.moved = op.moved \ {f}]
        /\ UNCHANGED <<configs, saved, record>>
    BY <1>3, <1>5 DEF UndoFolder, Present
  <2>2. old' \in Places /\ retired' \in Places
    BY <1>1, <2>1 DEF Places
  <2>3. /\ op' \in Command /\ op'.step = "undo" /\ op'.at = op.at
        /\ op'.configs = op.configs /\ op'.folders = op.folders
        /\ op'.moved = op.moved \ {f}
    <3>1. op.moved \ {f} \in SUBSET Folders
      BY <1>1
    <3> QED
      BY <1>1, <2>1, <3>1, MovedType
  <2>4. Typed'
    BY <2>1, <2>2, <2>3 DEF MInductive, Typed
  <2>5. /\ Present(old)' = Present(old) \cup {f}
        /\ Present(retired)' = Present(retired) \ {f}
    BY <1>1, <2>1 DEF Places, Present
  <2>6. RetiredByRecord'
    BY <1>2, <2>1, <2>5 DEF RetiredByRecord
  <2>7. JournalSound'
    BY <1>2, <1>3, <2>1, <2>5 DEF MInductive, JournalSound, Formed
  <2>8. StageSound'
    BY <1>3, <2>1, <2>3, <2>5 DEF StageSound
  <2> QED
    BY <1>2, <2>1, <2>3, <2>4, <2>6, <2>7, <2>8
    DEF MInductive, InPhase, RestoringSound, SaveSound, WriteSound, RemoveSound
<1>6. CASE UndoConfig
  <2>1. PICK i \in DOMAIN op.configs, r \in Rewrite : i = op.at /\ r = op.configs[i]
    BY <1>1, <1>3, <1>6 DEF UndoConfig
  <2>2. configs' = [configs EXCEPT ![r.path] = r.before]
    BY <1>6, <2>1 DEF UndoConfig
  <2>3. configs' \in [Configs -> Config]
    BY <1>1, <2>2 DEF Rewrite
  <2>4. /\ op' \in Command /\ op'.step = "undo" /\ op'.at = op.at + 1
        /\ op'.configs = op.configs /\ op'.folders = op.folders /\ op'.moved = op.moved
        /\ UNCHANGED <<old, retired, saved, record>>
    BY <1>1, <1>6, AdvanceType DEF UndoConfig
  <2>5. Typed' /\ RetiredByRecord' /\ JournalSound'
    BY <2>3, <2>4 DEF MInductive, Typed, RetiredByRecord, JournalSound, Present, Formed
  <2>6. op.at + 1 \in 1..(Len(op.configs) + 1)
    BY <1>1, <1>3, <2>1
  <2>7. StageSound'
    BY <1>3, <2>4, <2>6 DEF StageSound, Present
  <2> QED
    BY <1>2, <2>4, <2>5, <2>7
    DEF MInductive, InPhase, RestoringSound, SaveSound, WriteSound, RemoveSound
<1>7. CASE UndoDone
  <2>1. /\ record' \in Record /\ record'.phase = "restored"
        /\ UNCHANGED <<old, retired, configs, saved>>
    BY <1>1, <1>7, PhaseType DEF UndoDone, Phases
  <2>2. op' \in Command /\ op'.step = "idle"
    BY <1>7, IdleType DEF UndoDone
  <2>3. Present(retired)' = {}
    BY <1>3, <1>7, <2>1 DEF UndoDone, Present
  <2>4. Typed'
    BY <1>1, <2>1, <2>2 DEF Typed
  <2> QED
    BY <2>1, <2>2, <2>3, <2>4
    DEF MInductive, InPhase, RetiredByRecord, JournalSound, RestoringSound, SaveSound,
        StageSound, WriteSound, RemoveSound
<1> QED
  BY <1>4, <1>5, <1>6, <1>7

\* The removal: what is listed is of the inventory and as it came.
LEMMA RemoveKeeps ==
    ASSUME MInductive,
           \/ FinishCheck \/ MarkRemoving \/ MarkFinished
           \/ \E f \in Folders : RemoveFolder(f)
           \/ \E f \in Folders, x \in Files : RemoveFile(f, x)
    PROVE  MInductive'
<1>1. /\ op \in Command /\ record \in Record /\ configs \in [Configs -> Config]
      /\ old \in Places /\ retired \in Places
      /\ saved \in [Slots -> Config \cup {None}]
      /\ op.listed \subseteq Folders \X Files /\ op.folders \subseteq Folders
  BY RewritesType DEF MInductive, Typed
<1>2. /\ record.phase \in {"staged", "removing"}
      /\ op.step = "remove" => record.phase = "removing"
  BY DEF MInductive, InPhase, FinishCheck, MarkRemoving, MarkFinished, RemoveFolder, RemoveFile
<1>3. op.step \in {"mark", "remove"} =>
         /\ \A c \in Configs : configs[c].refs # "old"
         /\ op.folders = Present(retired)
         /\ \A l \in op.listed : /\ retired[l[1]] # None
                                 /\ l[2] \in Known
                                 /\ retired[l[1]][l[2]] = "known"
  BY DEF MInductive, RemoveSound
<1>4. ASSUME op'.step \in {"mark", "remove"}, Typed', RemoveSound',
             record'.phase \in {"staged", "removing"},
             op'.step = "remove" => record'.phase = "removing"
      PROVE  MInductive'
  BY <1>4 DEF MInductive, InPhase, RetiredByRecord, JournalSound, RestoringSound, SaveSound,
              StageSound, WriteSound
<1>5. CASE FinishCheck
  <2>1. PICK listed \in SUBSET (Folders \X Files) :
           listed = {l \in Present(retired) \X Files : retired[l[1]][l[2]] # "gone"}
    BY DEF Present
  <2>2. op' = [step |-> "mark", configs |-> <<>>, folders |-> Present(retired), moved |-> {},
               listed |-> listed, at |-> 1]
    BY <1>5, <2>1 DEF FinishCheck, Idle
  <2>3. op' \in Command
    BY <2>2, RewritesType DEF Steps, Present
  <2>4. UNCHANGED <<old, retired, configs, saved, record>> /\ Finishable
    BY <1>5 DEF FinishCheck
  <2>5. Typed'
    BY <2>3, <2>4 DEF MInductive, Typed
  <2>6. ASSUME NEW f \in Present(retired), NEW x \in Files, retired[f][x] # "gone"
        PROVE  retired[f] # None /\ x \in Known /\ retired[f][x] = "known"
    <3>1. retired[f] # None /\ retired[f][x] = "known"
      BY <2>4, <2>6 DEF Finishable, Clean, Present
    <3>2. \A y \in Extra : retired[f][y] # "known"
      BY <1>1, <3>1 DEF Places, Present
    <3> QED
      BY <3>1, <3>2 DEF Files
  <2>7. \A l \in listed : retired[l[1]] # None /\ l[2] \in Known /\ retired[l[1]][l[2]] = "known"
    BY <2>1, <2>6
  <2>8. RemoveSound'
    BY <2>2, <2>4, <2>7 DEF RemoveSound, Finishable, Present
  <2> QED
    BY <1>2, <1>4, <2>2, <2>4, <2>5, <2>8
<1>6. CASE MarkRemoving
  <2>1. /\ record' \in Record /\ record'.phase = "removing"
        /\ UNCHANGED <<old, retired, configs, saved>>
    BY <1>1, <1>6, PhaseType DEF MarkRemoving, Phases
  <2>2. /\ op' \in Command /\ op'.step = "remove"
        /\ op'.folders = op.folders /\ op'.listed = op.listed
    BY <1>1, <1>6, RewritesType DEF MarkRemoving, Steps
  <2>3. Typed'
    BY <1>1, <2>1, <2>2 DEF Typed
  <2>4. RemoveSound'
    BY <1>3, <1>6, <2>1, <2>2 DEF RemoveSound, MarkRemoving, Present
  <2> QED
    BY <1>4, <2>1, <2>2, <2>3, <2>4
<1>7. ASSUME NEW f \in Folders, NEW x \in Files, RemoveFile(f, x) PROVE MInductive'
  <2>1. /\ op.step = "remove" /\ <<f, x>> \in op.listed
        /\ retired' = [retired EXCEPT ![f][x] = "gone"]
        /\ op' = [op EXCEPT !.listed = op.listed \ {<<f, x>>}]
        /\ UNCHANGED <<old, configs, saved, record>>
    BY <1>7 DEF RemoveFile
  <2>2. retired[f] # None
    BY <1>3, <2>1
  <2>3. /\ retired' \in Places
        /\ \A g \in Folders : retired'[g] # None <=> retired[g] # None
        /\ \A g \in Folders \ {f} : retired'[g] = retired[g]
        /\ \A y \in Files \ {x} : retired'[f][y] = retired[f][y]
    <3>1. PICK p \in Places : p = retired
      BY <1>1
    <3>2. retired' = WithFile(p, f, x, "gone") /\ p[f] # None
      BY <2>1, <2>2, <3>1 DEF WithFile
    <3>3. OneFile(p, retired', f, x)
      BY <3>2, FileType
    <3> QED
      BY <3>1, <3>3 DEF OneFile
  <2>4. op' = [step |-> op.step, configs |-> op.configs, folders |-> op.folders,
               moved |-> op.moved, listed |-> op.listed \ {<<f, x>>}, at |-> op.at]
    BY <1>1, <2>1 DEF Command
  <2>5. op' \in Command
    BY <1>1, <2>4 DEF Command
  <2>6. Typed'
    BY <2>1, <2>3, <2>5 DEF MInductive, Typed
  <2>7. Present(retired)' = Present(retired)
    BY <2>3 DEF Present
  <2>8. ASSUME NEW g \in Folders, NEW y \in Files, <<g, y>> \in op.listed \ {<<f, x>>}
        PROVE  retired'[g] # None /\ y \in Known /\ retired'[g][y] = "known"
    <3>1. retired[g] # None /\ y \in Known /\ retired[g][y] = "known"
      BY <1>3, <2>1, <2>8
    <3> QED
      BY <2>3, <2>8, <3>1
  <2>9. \A l \in op'.listed : /\ retired'[l[1]] # None
                              /\ l[2] \in Known
                              /\ retired'[l[1]][l[2]] = "known"
    <3> SUFFICES ASSUME NEW l \in op.listed \ {<<f, x>>}
                 PROVE  /\ retired'[l[1]] # None
                        /\ l[2] \in Known
                        /\ retired'[l[1]][l[2]] = "known"
      BY <2>4
    <3>1. l[1] \in Folders /\ l[2] \in Files /\ l = <<l[1], l[2]>>
      BY <1>1
    <3> QED
      BY <2>8, <3>1
  <2>10. op'.folders = Present(retired)'
    BY <1>3, <2>1, <2>4, <2>7
  <2>11. RemoveSound'
    BY <1>3, <2>1, <2>9, <2>10 DEF RemoveSound
  <2> QED
    BY <1>2, <1>4, <2>1, <2>4, <2>6, <2>11
<1>8. ASSUME NEW f \in Folders, RemoveFolder(f) PROVE MInductive'
  <2>1. /\ op.step = "remove" /\ f \in op.folders /\ \A x \in Files : retired[f][x] = "gone"
        /\ retired' = [retired EXCEPT ![f] = None]
        /\ op' = [op EXCEPT !.folders = op.folders \ {f}]
        /\ UNCHANGED <<old, configs, saved, record>>
    BY <1>8 DEF RemoveFolder
  <2>2. /\ retired' \in Places /\ Present(retired)' = Present(retired) \ {f}
        /\ \A g \in Folders \ {f} : retired'[g] = retired[g]
    BY <1>1, <2>1 DEF Places, Present
  <2>3. op' = [step |-> op.step, configs |-> op.configs, folders |-> op.folders \ {f},
               moved |-> op.moved, listed |-> op.listed, at |-> op.at]
    BY <1>1, <2>1 DEF Command
  <2>4. op' \in Command
    BY <1>1, <2>3 DEF Command
  <2>5. Typed'
    BY <2>1, <2>2, <2>4 DEF MInductive, Typed
  <2>6. \A l \in op.listed : l[1] \in Folders \ {f}
    BY <1>1, <1>3, <2>1
  <2>7. RemoveSound'
    BY <1>3, <2>1, <2>2, <2>3, <2>6 DEF RemoveSound
  <2> QED
    BY <1>2, <1>4, <2>1, <2>3, <2>5, <2>7
<1>9. CASE MarkFinished
  <2>1. /\ record' \in Record /\ record'.phase = "finished"
        /\ UNCHANGED <<old, retired, configs, saved>>
    BY <1>1, <1>9, PhaseType DEF MarkFinished, Phases
  <2>2. op' \in Command /\ op'.step = "idle"
    BY <1>9, IdleType DEF MarkFinished
  <2>3. Present(retired)' = {}
    BY <1>3, <1>9, <2>1 DEF MarkFinished, Present
  <2>4. Typed'
    BY <1>1, <2>1, <2>2 DEF Typed
  <2> QED
    BY <2>1, <2>2, <2>3, <2>4
    DEF MInductive, InPhase, RetiredByRecord, JournalSound, RestoringSound, SaveSound,
        StageSound, WriteSound, RemoveSound
<1> QED
  BY <1>5, <1>6, <1>7, <1>8, <1>9

\* Everybody else: a new file may come at any time, any other change between
\* commands only.
LEMMA InterferenceKeeps ==
    ASSUME MInductive, Interference
    PROVE  MInductive'
<1>1. /\ record \in Record /\ configs \in [Configs -> Config]
      /\ old \in Places /\ retired \in Places /\ op \in Command
  BY DEF MInductive, Typed
<1>2. ASSUME op = Idle, Typed', UNCHANGED <<op, saved, record>>,
             Present(retired)' = Present(retired), Present(old) \subseteq Present(old)'
      PROVE  MInductive'
  <2>1. op'.step = "idle"
    BY <1>2, IdleType
  <2>2. RetiredByRecord' /\ JournalSound'
    BY <1>2 DEF MInductive, RetiredByRecord, JournalSound, Formed
  <2> QED
    BY <1>2, <2>1, <2>2
    DEF MInductive, InPhase, RestoringSound, SaveSound, StageSound, WriteSound, RemoveSound
<1>3. ASSUME NEW c \in Configs, EditConfig(c) \/ Relink(c) PROVE MInductive'
  <2>1. op = Idle /\ UNCHANGED <<old, retired, saved, record, op>>
    BY <1>3 DEF EditConfig, Relink, Undisturbed
  <2>2. configs[c] \in Config
    BY <1>1
  <2>3. [configs[c] EXCEPT !.mine = TRUE] \in Config /\ [configs[c] EXCEPT !.refs = "old"] \in Config
    BY <2>2 DEF Config
  <2>4. configs' \in [Configs -> Config]
    BY <1>1, <1>3, <2>3 DEF EditConfig, Relink
  <2> QED
    BY <1>2, <2>1, <2>4 DEF MInductive, Typed, Present
<1>4. ASSUME NEW f \in Folders, Reinstall(f) PROVE MInductive'
  <2>1. /\ op = Idle /\ UNCHANGED <<retired, configs, saved, record, op>>
        /\ old' = [old EXCEPT ![f] = Original]
    BY <1>4 DEF Reinstall, Undisturbed
  <2>2. Original \in Folder /\ \A x \in Extra : Original[x] # "known"
    BY MigrationAssumption DEF Original, Folder, Files
  <2>3. old' \in Places
    BY <1>1, <2>1, <2>2 DEF Places
  <2>4. Present(old) \subseteq Present(old)'
    BY <1>1, <2>1, <2>2, NoneAssumption DEF Places, Present
  <2> QED
    BY <1>2, <2>1, <2>3, <2>4 DEF MInductive, Typed, Present
<1>5. ASSUME NEW f \in Folders, NEW x \in Files, EditFile(f, x) PROVE MInductive'
  <2>1. UNCHANGED <<configs, saved, record, op>> /\ (op = Idle \/ x \in Extra)
    BY <1>5 DEF EditFile, Undisturbed
  <2>2. PICK c \in {"changed", "foreign", "gone"} : c = Customised(x)
    BY DEF Customised
  <2>3. /\ old' \in Places /\ Present(old)' = Present(old)
        /\ retired' \in Places /\ Present(retired)' = Present(retired)
        /\ \A g \in Folders \ {f} : retired'[g] = retired[g]
        /\ \A y \in Files \ {x} : retired'[f][y] = retired[f][y]
    <3>1. CASE old[f] # None /\ old' = [old EXCEPT ![f][x] = Customised(x)] /\ UNCHANGED retired
      <4>1. PICK p \in Places : p = old
        BY <1>1
      <4>2. old' = WithFile(p, f, x, c) /\ p[f] # None
        BY <2>2, <3>1, <4>1 DEF WithFile
      <4>3. OneFile(p, old', f, x)
        BY <4>2, FileType
      <4> QED
        BY <1>1, <3>1, <4>1, <4>3 DEF OneFile, Present
    <3>2. CASE retired[f] # None /\ retired' = [retired EXCEPT ![f][x] = Customised(x)]
               /\ UNCHANGED old
      <4>1. PICK p \in Places : p = retired
        BY <1>1
      <4>2. retired' = WithFile(p, f, x, c) /\ p[f] # None
        BY <2>2, <3>2, <4>1 DEF WithFile
      <4>3. OneFile(p, retired', f, x)
        BY <4>2, FileType
      <4> QED
        BY <1>1, <3>2, <4>1, <4>3 DEF OneFile, Present
    <3> QED
      BY <1>5, <3>1, <3>2 DEF EditFile
  <2>4. Typed'
    BY <2>1, <2>3 DEF MInductive, Typed
  <2>5. CASE op = Idle
    BY <1>2, <2>1, <2>3, <2>4, <2>5
  <2>6. CASE op # Idle
    <3>1. x \in Extra
      BY <2>1, <2>6
    <3>2. RetiredByRecord' /\ JournalSound'
      BY <2>1, <2>3 DEF MInductive, RetiredByRecord, JournalSound, Formed
    <3>3. SaveSound' /\ StageSound' /\ WriteSound'
      BY <2>1, <2>3 DEF MInductive, SaveSound, StageSound, WriteSound, Formed, Covered
    <3>4. ASSUME op.step \in {"mark", "remove"}, NEW l \in op.listed
          PROVE  retired'[l[1]] # None /\ l[2] \in Known /\ retired'[l[1]][l[2]] = "known"
      <4>1. l[1] \in Folders /\ l[2] \in Files
        BY <1>1, RewritesType
      <4>2. retired[l[1]] # None /\ l[2] \in Known /\ retired[l[1]][l[2]] = "known"
        BY <3>4 DEF MInductive, RemoveSound
      <4>3. l[2] # x
        BY <3>1, <4>2, MigrationAssumption
      <4>4. retired'[l[1]] # None
        BY <2>3, <4>1, <4>2 DEF Present
      <4> QED
        BY <2>3, <4>1, <4>2, <4>3, <4>4
    <3>5. RemoveSound'
      BY <2>1, <2>3, <3>4 DEF MInductive, RemoveSound
    <3>6. InPhase' /\ RestoringSound'
      BY <2>1 DEF MInductive, InPhase, RestoringSound
    <3> QED
      BY <2>4, <3>2, <3>3, <3>5, <3>6 DEF MInductive
  <2> QED
    BY <2>5, <2>6
<1> QED
  BY <1>3, <1>4, <1>5 DEF Interference

\* Every step keeps the invariant.
LEMMA MInductiveNext ==
    ASSUME MInductive, [Next]_vars
    PROVE  MInductive'
<1>1. CASE UNCHANGED vars
  BY <1>1
  DEF vars, MInductive, Typed, InPhase, RetiredByRecord, JournalSound, RestoringSound,
      SaveSound, StageSound, WriteSound, RemoveSound, Formed, Covered, Present
<1>2. RestoreRefused \/ ScanRefused \/ FinishRefused \/ RemovalStops \/ Stop => Fail
  BY DEF RestoreRefused, ScanRefused, FinishRefused, RemovalStops, Stop
<1> QED
  BY <1>1, <1>2, FailKeeps, GotoKeeps, RestoreKeeps, SaveKeeps, WriteKeeps, UndoKeeps,
     RemoveKeeps, InterferenceKeeps
  DEF Next, CommandStep

\* What a migration can rely on, whoever installs, links, edits or fails.
THEOREM MInductiveCorrect == Spec => []MInductive
<1>1. MInductive /\ [Next]_vars => MInductive'
  BY MInductiveNext
<1> QED
  BY <1>1, MInductiveInit, PTL DEF Spec

\* The types are right, whoever installs, links, edits or fails.
THEOREM TypeCorrect == Spec => []TypeOK
<1>1. MInductive => TypeOK
  BY DEF MInductive, Typed, TypeOK, Places, Record
<1> QED
  BY <1>1, MInductiveCorrect, PTL

-----------------------------------------------------------------------------
(* What no step does. *)

\* A file of the user's, or one he changed, is moved with its folder and never
\* listed for removal: the listed files are as they came, and nobody changes a
\* file of the inventory while a command runs.
LEMMA CustomFileKept ==
    ASSUME MInductive, [Next]_vars, NEW f \in Folders, NEW x \in Files,
           Holds(f, x, Customised(x))
    PROVE  Holds(f, x, Customised(x))'
<1> DEFINE c == Customised(x)
<1>1. c \in {"changed", "foreign"}
  BY DEF Customised
<1>2. old \in Places /\ retired \in Places
  BY DEF MInductive, Typed
<1>3. Customised(x)' = c
  BY DEF Customised
<1>4. (old[f] # None /\ old[f][x] = c) \/ (retired[f] # None /\ retired[f][x] = c)
  BY DEF Holds
<1> HIDE DEF c
<1>5. ASSUME UNCHANGED <<old, retired>> PROVE Holds(f, x, Customised(x))'
  BY <1>3, <1>4, <1>5 DEF Holds
<1>6. ASSUME NEW g \in Folders, RestoreFolder(g) PROVE Holds(f, x, Customised(x))'
  <2>1. /\ old' = [old EXCEPT ![g] = retired[g]] /\ retired' = [retired EXCEPT ![g] = None]
        /\ old[g] = None /\ retired[g] # None
    BY <1>6 DEF RestoreFolder
  <2> QED
    BY <1>2, <1>3, <1>4, <2>1 DEF Holds, Places
<1>7. ASSUME NEW g \in Folders, MoveFolder(g) PROVE Holds(f, x, Customised(x))'
  <2>1. /\ old' = [old EXCEPT ![g] = None] /\ retired' = [retired EXCEPT ![g] = old[g]]
        /\ old[g] # None /\ retired[g] = None
    BY <1>7 DEF MoveFolder
  <2> QED
    BY <1>2, <1>3, <1>4, <2>1 DEF Holds, Places
<1>8. ASSUME NEW g \in Folders, UndoFolder(g) PROVE Holds(f, x, Customised(x))'
  <2>1. /\ old' = [old EXCEPT ![g] = retired[g]] /\ retired' = [retired EXCEPT ![g] = None]
        /\ g \in op.moved /\ op.step = "undo"
    BY <1>8 DEF UndoFolder
  <2>2. retired[g] # None /\ old[g] = None
    BY <2>1 DEF MInductive, StageSound, Present
  <2> QED
    BY <1>2, <1>3, <1>4, <2>1, <2>2 DEF Holds, Places
<1>9. ASSUME NEW g \in Folders, NEW y \in Files, RemoveFile(g, y)
      PROVE  Holds(f, x, Customised(x))'
  <2>1. /\ <<g, y>> \in op.listed /\ op.step = "remove" /\ old' = old
        /\ retired' = [retired EXCEPT ![g][y] = "gone"]
    BY <1>9 DEF RemoveFile
  <2>2. retired[g] # None /\ y \in Known /\ retired[g][y] = "known"
    BY <2>1 DEF MInductive, RemoveSound
  <2>3. PICK p \in Places : p = retired
    BY <1>2
  <2>4. retired' = WithFile(p, g, y, "gone") /\ p[g] # None
    BY <2>1, <2>2, <2>3 DEF WithFile
  <2>5. OneFile(p, retired', g, y)
    BY <2>4, FileType
  <2>6. CASE f = g /\ x = y
    BY <1>1, <1>3, <1>4, <2>1, <2>2, <2>6 DEF Holds
  <2>7. CASE f # g \/ x # y
    BY <1>3, <1>4, <2>1, <2>3, <2>5, <2>7 DEF Holds, OneFile
  <2> QED
    BY <2>6, <2>7
<1>10. ASSUME NEW g \in Folders, RemoveFolder(g) PROVE Holds(f, x, Customised(x))'
  <2>1. /\ \A y \in Files : retired[g][y] = "gone"
        /\ retired' = [retired EXCEPT ![g] = None] /\ old' = old
    BY <1>10 DEF RemoveFolder
  <2> QED
    BY <1>1, <1>2, <1>3, <1>4, <2>1 DEF Holds, Places
<1>11. ASSUME NEW g \in Folders, NEW y \in Files, EditFile(g, y)
       PROVE  Holds(f, x, Customised(x))'
  <2>1. PICK d \in {"changed", "foreign", "gone"} : d = Customised(y)
    BY DEF Customised
  <2>2. CASE old[g] # None /\ old' = [old EXCEPT ![g][y] = Customised(y)] /\ UNCHANGED retired
    <3>1. PICK p \in Places : p = old
      BY <1>2
    <3>2. old' = WithFile(p, g, y, d) /\ p[g] # None
      BY <2>1, <2>2, <3>1 DEF WithFile
    <3>3. OneFile(p, old', g, y) /\ old'[g][y] = d
      BY <3>2, FileType
    <3>4. old[f] # None /\ old[f][x] = c => old'[f] # None /\ old'[f][x] = c
      <4>1. CASE f = g /\ x = y
        BY <2>1, <3>1, <3>3, <4>1 DEF OneFile, c
      <4>2. CASE f # g \/ x # y
        BY <3>1, <3>3, <4>2 DEF OneFile
      <4> QED
        BY <4>1, <4>2
    <3> QED
      BY <1>3, <1>4, <2>2, <3>4 DEF Holds
  <2>3. CASE retired[g] # None /\ retired' = [retired EXCEPT ![g][y] = Customised(y)]
             /\ UNCHANGED old
    <3>1. PICK p \in Places : p = retired
      BY <1>2
    <3>2. retired' = WithFile(p, g, y, d) /\ p[g] # None
      BY <2>1, <2>3, <3>1 DEF WithFile
    <3>3. OneFile(p, retired', g, y) /\ retired'[g][y] = d
      BY <3>2, FileType
    <3>4. retired[f] # None /\ retired[f][x] = c => retired'[f] # None /\ retired'[f][x] = c
      <4>1. CASE f = g /\ x = y
        BY <2>1, <3>1, <3>3, <4>1 DEF OneFile, c
      <4>2. CASE f # g \/ x # y
        BY <3>1, <3>3, <4>2 DEF OneFile
      <4> QED
        BY <4>1, <4>2
    <3> QED
      BY <1>3, <1>4, <2>3, <3>4 DEF Holds
  <2> QED
    BY <1>11, <2>2, <2>3 DEF EditFile
<1>12. ASSUME NEW g \in Folders, Reinstall(g) PROVE Holds(f, x, Customised(x))'
  <2>1. old' = [old EXCEPT ![g] = Original] /\ retired' = retired /\ old[g] = None
    BY <1>12 DEF Reinstall
  <2> QED
    BY <1>2, <1>3, <1>4, <2>1 DEF Holds, Places
<1>13. CASE \/ Prepare \/ RestoreCheck \/ RestoreRefused \/ RestoreConfig \/ RestoreDone
            \/ Scan \/ ScanRefused \/ SaveConfig \/ WriteRecord \/ Recheck
            \/ WriteConfig \/ MarkStaged \/ StageFails \/ UndoConfig \/ UndoDone
  BY <1>5, <1>13
  DEF Prepare, RestoreCheck, RestoreRefused, RestoreConfig, RestoreDone, Scan, ScanRefused,
      SaveConfig, WriteRecord, Recheck, WriteConfig, MarkStaged, StageFails, UndoConfig,
      UndoDone, Goto, Fail
<1>14. CASE \/ FinishCheck \/ FinishRefused \/ MarkRemoving \/ RemovalStops \/ MarkFinished
            \/ Stop \/ (\E d \in Configs : EditConfig(d) \/ Relink(d)) \/ UNCHANGED vars
  BY <1>5, <1>14
  DEF FinishCheck, FinishRefused, MarkRemoving, RemovalStops, MarkFinished, Stop, EditConfig,
      Relink, vars, Fail
<1> QED
  BY <1>6, <1>7, <1>8, <1>9, <1>10, <1>11, <1>12, <1>13, <1>14
  DEF Next, CommandStep, Interference

\* The user's own files in the legacy folders, and those he changed, are never
\* lost, wherever a command stops and whatever others install.
THEOREM CustomFilesKeptCorrect == Spec => CustomFilesKept
<1>1. MInductive /\ [Next]_vars =>
         [\A f \in Folders, x \in Files :
             Holds(f, x, Customised(x)) => Holds(f, x, Customised(x))']_vars
  BY CustomFileKept
<1> QED
  BY <1>1, MInductiveCorrect, PTL DEF Spec, CustomFilesKept

\* A command writes a configuration from its backup, or over the bytes that it
\* backed up, rewritten or not.
LEMMA ConfigEditKept ==
    ASSUME MInductive, [Next]_vars, op' # op, NEW c \in Configs, configs'[c] # configs[c]
    PROVE  \E i \in Slots : saved[i] # None /\ configs[c] \in {saved[i], Retarget(saved[i])}
<1>1. /\ op \in Command /\ record \in Record /\ configs \in [Configs -> Config]
      /\ op.at \in Nat /\ Cardinality(Configs) \in Nat
  BY RewritesType DEF MInductive, Typed
<1>2. ASSUME NEW list \in Rewrites
      PROVE  /\ DOMAIN list = 1..Len(list) /\ Len(list) \in Nat
             /\ \A i \in DOMAIN list : i \in Slots /\ list[i] \in Rewrite
  BY <1>1, <1>2, RewritesType DEF Slots
<1>3. op.configs \in Rewrites /\ record.configs \in Rewrites
  BY <1>1, RewritesType DEF Record
<1>4. \A r \in Rewrite : r.before # None /\ r.path \in Configs
  BY NoneAssumption DEF Rewrite
<1>5. ASSUME record.phase = "staging", NEW i \in DOMAIN record.configs
      PROVE  i \in Slots /\ saved[i] = record.configs[i].before /\ saved[i] # None
  BY <1>2, <1>3, <1>4, <1>5 DEF MInductive, JournalSound
<1>6. CASE RestoreConfig
  <2>1. record.phase = "staging" /\ op.at >= 1 /\ op.at <= Len(record.configs)
    BY <1>6 DEF MInductive, InPhase, RestoringSound, RestoreConfig
  <2>2. PICK i \in DOMAIN record.configs : i = op.at
    BY <1>1, <1>2, <1>3, <2>1
  <2>3. PICK r \in Rewrite : r = record.configs[i]
    BY <1>2, <1>3
  <2>4. c = r.path
    BY <1>1, <1>4, <1>6, <2>2, <2>3 DEF RestoreConfig
  <2>5. configs[r.path] \in {r.before, Retarget(r.before)}
    BY <1>1, <1>6, <2>2, <2>3 DEF MInductive, RestoringSound, RestoreConfig
  <2> QED
    BY <1>5, <2>1, <2>3, <2>4, <2>5
<1>7. CASE WriteConfig \/ UndoConfig
  <2>1. /\ record.phase = "staging" /\ op.step \in {"write", "undo"}
        /\ op.at \in 1..(Len(op.configs) + 1) /\ op.at <= Len(op.configs)
        /\ \A i \in DOMAIN op.configs : op.configs[i] = record.configs[i]
        /\ Len(op.configs) <= Len(record.configs)
    BY <1>7 DEF MInductive, InPhase, StageSound, WriteConfig, UndoConfig
  <2>2. PICK i \in DOMAIN op.configs : i = op.at
    BY <1>1, <1>2, <1>3, <2>1
  <2>3. PICK r \in Rewrite : r = op.configs[i] /\ r = record.configs[i]
    BY <1>2, <1>3, <2>1
  <2>4. c = r.path
    BY <1>1, <1>4, <1>7, <2>2, <2>3 DEF WriteConfig, UndoConfig
  <2>5. CASE WriteConfig
    <3>1. configs[r.path] = r.before
      BY <1>1, <2>1, <2>2, <2>3, <2>5 DEF MInductive, WriteSound, WriteConfig
    <3>2. i \in DOMAIN record.configs
      BY <1>2, <1>3, <2>1
    <3> QED
      BY <1>5, <2>1, <2>3, <2>4, <3>1, <3>2
  <2>6. CASE UndoConfig
    <3>1. configs[r.path] = Retarget(r.before)
      BY <2>2, <2>3, <2>6 DEF UndoConfig
    <3>2. i \in DOMAIN record.configs
      BY <1>2, <1>3, <2>1
    <3> QED
      BY <1>5, <2>1, <2>3, <2>4, <3>1, <3>2
  <2> QED
    BY <1>7, <2>5, <2>6
<1>8. CASE \/ Prepare \/ RestoreCheck \/ RestoreRefused \/ RestoreDone
           \/ Scan \/ ScanRefused \/ SaveConfig \/ WriteRecord \/ Recheck
           \/ MarkStaged \/ StageFails \/ UndoDone \/ UNCHANGED vars
           \/ \E f \in Folders : RestoreFolder(f) \/ MoveFolder(f) \/ UndoFolder(f)
  BY <1>8
  DEF Prepare, RestoreCheck, RestoreRefused, RestoreDone, Scan, ScanRefused, SaveConfig,
      WriteRecord, Recheck, MarkStaged, StageFails, UndoDone, Goto, Fail, vars,
      RestoreFolder, MoveFolder, UndoFolder
<1>9. CASE \/ FinishCheck \/ FinishRefused \/ MarkRemoving \/ RemovalStops \/ MarkFinished
           \/ Stop \/ (\E f \in Folders : RemoveFolder(f))
           \/ \E f \in Folders, x \in Files : RemoveFile(f, x)
  BY <1>9
  DEF FinishCheck, FinishRefused, MarkRemoving, RemovalStops, MarkFinished, Stop, Fail,
      RemoveFolder, RemoveFile
<1>10. CASE Interference
  BY <1>10 DEF Interference, Reinstall, EditFile, EditConfig, Relink
<1> QED
  BY <1>6, <1>7, <1>8, <1>9, <1>10 DEF Next, CommandStep

\* No configuration is overwritten unless a backup has its bytes, or the bytes
\* it was migrated from, wherever earlier commands stopped and whatever was
\* edited, linked or installed between them.
THEOREM ConfigEditsKeptCorrect == Spec => ConfigEditsKept
<1>1. MInductive /\ [Next]_vars =>
         [op' # op => \A c \in Configs : configs'[c] # configs[c] =>
             \E i \in Slots : /\ saved[i] # None
                              /\ configs[c] \in {saved[i], Retarget(saved[i])}]_vars
  BY ConfigEditKept
<1> QED
  BY <1>1, MInductiveCorrect, PTL DEF Spec, ConfigEditsKept

\* Nothing is removed while a configuration names it, even when the reference
\* or the folder came back after the migration was staged.
THEOREM RemovedUnreferencedCorrect == Spec => RemovedUnreferenced
<1>1. MInductive /\ [Next]_vars =>
         [\A f \in Folders : (op' # op /\ op.step = "remove" /\ retired'[f] # retired[f])
             => \A c \in Configs : configs[c].refs # "old"]_vars
  BY DEF MInductive, RemoveSound
<1> QED
  BY <1>1, MInductiveCorrect, PTL DEF Spec, RemovedUnreferenced

-----------------------------------------------------------------------------
(* A staging journal, when nobody installs the old folders again. *)

\* Unless a folder is installed again beside its moved copy, no step makes a
\* second one.
LEMMA InOnePlaceNext ==
    ASSUME "reinstall" \notin Environment, MInductive, InOnePlace, [Next]_vars
    PROVE  InOnePlace'
<1>1. /\ old \in Places /\ retired \in Places /\ MInductive'
  BY MInductiveNext DEF MInductive, Typed
<1>2. ASSUME Present(old)' \cap Present(retired)' \subseteq Present(old) \cap Present(retired)
      PROVE  InOnePlace'
  BY <1>2 DEF InOnePlace
<1>3. ASSUME NEW f \in Folders, RestoreFolder(f) \/ MoveFolder(f) \/ UndoFolder(f)
      PROVE  InOnePlace'
  <2>1. \/ old' = [old EXCEPT ![f] = None] /\ retired' = [retired EXCEPT ![f] = old[f]]
        \/ old' = [old EXCEPT ![f] = retired[f]] /\ retired' = [retired EXCEPT ![f] = None]
    BY <1>3 DEF RestoreFolder, MoveFolder, UndoFolder
  <2> QED
    BY <1>1, <1>2, <2>1 DEF Places, Present
<1>4. ASSUME NEW f \in Folders, RemoveFolder(f) PROVE InOnePlace'
  BY <1>1, <1>2, <1>4 DEF RemoveFolder, Places, Present
<1>5. ASSUME NEW f \in Folders, NEW x \in Files, RemoveFile(f, x) PROVE InOnePlace'
  <2>1. /\ <<f, x>> \in op.listed /\ op.step = "remove" /\ old' = old
        /\ retired' = [retired EXCEPT ![f][x] = "gone"]
    BY <1>5 DEF RemoveFile
  <2>2. retired[f] # None
    BY <2>1 DEF MInductive, RemoveSound
  <2>3. Present(retired)' \subseteq Present(retired)
    BY <1>1, <2>1, <2>2 DEF Present, Places
  <2> QED
    BY <1>2, <2>1, <2>3 DEF Present
<1>6. ASSUME NEW f \in Folders, NEW x \in Files, EditFile(f, x) PROVE InOnePlace'
  <2>1. Present(old)' \subseteq Present(old) /\ Present(retired)' \subseteq Present(retired)
    BY <1>1, <1>6 DEF EditFile, Present, Places
  <2> QED
    BY <1>2, <2>1
<1>7. CASE UNCHANGED <<old, retired>>
  BY <1>2, <1>7 DEF Present
<1>8. \/ UNCHANGED <<old, retired>>
      \/ \E f \in Folders : RestoreFolder(f) \/ MoveFolder(f) \/ UndoFolder(f) \/ RemoveFolder(f)
      \/ \E f \in Folders, x \in Files : RemoveFile(f, x) \/ EditFile(f, x)
  BY DEF Next, CommandStep, Interference, vars, Prepare, RestoreCheck, RestoreRefused,
         RestoreConfig, RestoreDone, Scan, ScanRefused, SaveConfig, WriteRecord, Recheck,
         WriteConfig, MarkStaged, StageFails, UndoConfig, UndoDone, FinishCheck,
         FinishRefused, MarkRemoving, RemovalStops, MarkFinished, Stop, Goto, Fail,
         EditConfig, Relink, Reinstall
<1> QED
  BY <1>3, <1>4, <1>5, <1>6, <1>7, <1>8

\* Wherever a stage stopped, its journal can be restored unless a configuration
\* was edited since: the backups are those of its configurations and each of
\* its folders is in exactly one place.
THEOREM StagingRestorableCorrect ==
    ASSUME "reinstall" \notin Environment PROVE Spec => []StagingRestorable
<1>1. Init => MInductive /\ InOnePlace
  BY MInductiveInit DEF Init, InOnePlace, Present
<1>2. (MInductive /\ InOnePlace) /\ [Next]_vars => (MInductive /\ InOnePlace)'
  BY MInductiveNext, InOnePlaceNext
<1>3. MInductive /\ InOnePlace => StagingRestorable
  <2> SUFFICES ASSUME MInductive, InOnePlace, record.phase = "staging"
               PROVE  /\ \A f \in record.folders : (old[f] = None) # (retired[f] = None)
                      /\ \A i \in DOMAIN record.configs :
                            LET r == record.configs[i]
                            IN /\ saved[i] = r.before
                               /\ \/ configs[r.path] \in {r.before, Retarget(r.before)}
                                  \/ configs[r.path].mine # r.before.mine
    BY DEF StagingRestorable
  <2>1. /\ record.folders \subseteq Folders /\ record.configs \in Rewrites
        /\ configs \in [Configs -> Config]
    BY DEF MInductive, Typed, Record
  <2>2. \A i \in DOMAIN record.configs : record.configs[i] \in Rewrite
    BY <2>1, RewritesType
  <2>3. \A f \in record.folders : (old[f] = None) # (retired[f] = None)
    BY <2>1 DEF MInductive, JournalSound, InOnePlace, Present
  <2>4. ASSUME NEW i \in DOMAIN record.configs, NEW r \in Rewrite, r = record.configs[i]
        PROVE  /\ saved[i] = r.before
               /\ \/ configs[r.path] \in {r.before, Retarget(r.before)}
                  \/ configs[r.path].mine # r.before.mine
    <3>1. saved[i] = r.before /\ r.before.refs = "old"
      BY <2>4 DEF MInductive, JournalSound, Formed
    <3>2. r.before \in Config /\ configs[r.path] \in Config
      BY <2>1 DEF Rewrite
    <3>3. Retarget(r.before) = [refs |-> "new", mine |-> r.before.mine]
      BY <3>2 DEF Retarget, Config
    <3>4. r.before = [refs |-> "old", mine |-> r.before.mine]
      BY <3>1, <3>2 DEF Config
    <3>5. configs[r.path] = [refs |-> configs[r.path].refs, mine |-> configs[r.path].mine]
          /\ configs[r.path].refs \in {"old", "new"}
      BY <3>2 DEF Config
    <3> QED
      BY <3>1, <3>3, <3>4, <3>5
  <2> QED
    BY <2>2, <2>3, <2>4
<1> QED
  BY <1>1, <1>2, <1>3, PTL DEF Spec

-----------------------------------------------------------------------------
(* The references, when nobody links the old folders again. *)

\* No folder has moved yet.
LEMMA ReferencedInit == Init => Referenced
<1> SUFFICES ASSUME Init PROVE Referenced
  OBVIOUS
<1>1. Present(old) = Folders
  <2>1. Original # None
    BY NoneAssumption DEF Original, Folder
  <2> QED
    BY <2>1 DEF Init, Present
<1> QED
  BY <1>1, IdleType DEF Init, Referenced

\* The steps that change a configuration, in a stage that is not complete.
LEMMA WrittenCovered ==
    ASSUME MInductive, Referenced, RestoreConfig \/ WriteConfig \/ UndoConfig
    PROVE  Referenced'
<1>1. /\ op \in Command /\ record \in Record /\ configs \in [Configs -> Config]
      /\ op.at \in Nat /\ op.configs \in Rewrites /\ record.configs \in Rewrites
  BY RewritesType DEF MInductive, Typed, Record
<1>2. /\ Len(op.configs) \in Nat /\ DOMAIN op.configs = 1..Len(op.configs)
      /\ Len(record.configs) \in Nat /\ DOMAIN record.configs = 1..Len(record.configs)
  BY <1>1, RewritesType
<1>3. /\ record.phase = "staging" /\ op.step \in {"restoring", "write", "undo"}
      /\ UNCHANGED <<old, record>> /\ op'.step = op.step /\ op.at >= 1
  BY <1>1, AdvanceType
  DEF MInductive, InPhase, RestoringSound, StageSound, RestoreConfig, WriteConfig, UndoConfig
<1>4. PICK i \in DOMAIN record.configs : i = op.at /\ \E b \in Config :
         configs' = [configs EXCEPT ![record.configs[i].path] = b]
  <2>1. CASE RestoreConfig
    <3>1. PICK i \in DOMAIN record.configs : i = op.at
      BY <1>1, <1>2, <1>3, <2>1 DEF RestoreConfig
    <3>2. saved[i] \in Config
      BY <1>1, <1>3, RewritesType DEF MInductive, JournalSound, Rewrite
    <3> QED
      BY <2>1, <3>1, <3>2 DEF RestoreConfig
  <2>2. CASE WriteConfig \/ UndoConfig
    <3>1. /\ op.at \in 1..(Len(op.configs) + 1) /\ op.at <= Len(op.configs)
          /\ \A i \in DOMAIN op.configs : op.configs[i] = record.configs[i]
          /\ Len(op.configs) <= Len(record.configs)
      BY <1>3, <2>2 DEF MInductive, StageSound, WriteConfig, UndoConfig
    <3>2. PICK i \in DOMAIN op.configs : i = op.at /\ i \in DOMAIN record.configs
      BY <1>1, <1>2, <3>1
    <3>3. PICK r \in Rewrite : r = op.configs[i] /\ r = record.configs[i]
      BY <1>1, <3>1, <3>2, RewritesType
    <3>4. r.before \in Config /\ Retarget(r.before) \in Config
      BY DEF Rewrite, Config, Retarget
    <3> QED
      BY <2>2, <3>2, <3>3, <3>4 DEF WriteConfig, UndoConfig
  <2> QED
    BY <2>1, <2>2
<1>5. ASSUME NEW c \in Configs, configs'[c].refs = "old"
      PROVE  \E j \in DOMAIN record.configs : record.configs[j].path = c
  <2>1. CASE c = record.configs[i].path
    BY <2>1
  <2>2. CASE c # record.configs[i].path
    <3>1. configs'[c] = configs[c]
      BY <1>1, <1>4, <2>2
    <3> QED
      BY <1>3, <1>5, <3>1 DEF Referenced, Covered
  <2> QED
    BY <2>1, <2>2
<1> QED
  BY <1>3, <1>5 DEF Referenced, Covered

\* A folder moves only after the references to it have been rewritten, and
\* unless something else writes a reference again no step brings one back.
LEMMA ReferencedNext ==
    ASSUME "relink" \notin Environment, MInductive, Referenced, [Next]_vars
    PROVE  Referenced'
<1>1. /\ op \in Command /\ record \in Record /\ configs \in [Configs -> Config]
      /\ old \in Places /\ retired \in Places
      /\ op.at \in Nat /\ op.configs \in Rewrites /\ record.configs \in Rewrites
  BY RewritesType DEF MInductive, Typed, Record
<1>2. /\ Len(op.configs) \in Nat /\ DOMAIN op.configs = 1..Len(op.configs)
      /\ Len(record.configs) \in Nat /\ DOMAIN record.configs = 1..Len(record.configs)
  BY <1>1, RewritesType
<1>same. ASSUME UNCHANGED <<configs, record>>,
                Present(old)' = Present(old) \/ record.phase = "staging"
                                             \/ Present(old) \subseteq Present(old)',
                op'.step # "save"
         PROVE  Referenced'
  <2>1. Present(old)' \subseteq Folders
    BY DEF Present
  <2> QED
    BY <1>same, <2>1 DEF Referenced, Covered
<1>back. ASSUME record.phase = "staging", record'.phase = "restored", Present(retired) = {},
                UNCHANGED <<old, configs>>, op'.step # "save"
         PROVE  Referenced'
  <2>1. record.folders \subseteq Present(old) /\ Covered(record.configs)
        /\ (record.configs # <<>> => record.folders = Folders)
    BY <1>back DEF MInductive, JournalSound, Referenced
  <2>2. ASSUME NEW c \in Configs, configs[c].refs = "old" PROVE Present(old) = Folders
    <3>1. record.configs # <<>>
      BY <1>2, <2>1, <2>2 DEF Covered
    <3> QED
      BY <2>1, <3>1 DEF Present
  <2>3. Present(old)' = Present(old)
    BY <1>back DEF Present
  <2> QED
    BY <1>back, <2>2, <2>3 DEF Referenced
<1>3. CASE RestoreConfig \/ WriteConfig \/ UndoConfig
  BY <1>3, WrittenCovered
<1>4. CASE RestoreDone
  <2>1. Present(retired) \subseteq record.folders /\ record.phase = "staging"
    BY <1>4 DEF MInductive, InPhase, RetiredByRecord, RestoreDone
  <2>2. Present(retired) = {}
    BY <1>4, <2>1 DEF RestoreDone, Present
  <2>3. record'.phase = "restored" /\ op'.step = "preview" /\ UNCHANGED <<old, configs>>
    BY <1>1, <1>4, RewritesType DEF RestoreDone, Record
  <2> QED
    BY <1>back, <2>1, <2>2, <2>3
<1>5. CASE UndoDone
  <2>1. record.phase = "staging" /\ Present(retired) = {}
    BY <1>5 DEF MInductive, InPhase, StageSound, UndoDone
  <2>2. record'.phase = "restored" /\ op'.step = "idle" /\ UNCHANGED <<old, configs>>
    BY <1>1, <1>5, IdleType DEF UndoDone, Record
  <2> QED
    BY <1>back, <2>1, <2>2
<1>6. CASE Scan
  <2>1. PICK s \in Scans :
          op' = [Idle EXCEPT !.step = "save",
                             !.configs = [i \in DOMAIN s |->
                                [path |-> s[i], before |-> configs[s[i]]]],
                             !.folders = Present(old)]
    BY <1>6 DEF Scan
  <2>2. /\ op'.configs = [i \in DOMAIN s |-> [path |-> s[i], before |-> configs[s[i]]]]
        /\ op'.folders = Present(old)
    BY <2>1 DEF Idle
  <2>3. op'.configs # <<>> => \E c \in Configs : configs[c].refs = "old"
    BY <1>1, <2>2, ScanType
  <2>4. record.phase \in {"none", "finished", "restored"} /\ UNCHANGED <<old, configs, record>>
    BY <1>6 DEF MInductive, InPhase, Scan
  <2>5. op'.configs # <<>> => op'.folders = Folders
    BY <2>2, <2>3, <2>4 DEF Referenced
  <2> QED
    BY <2>4, <2>5 DEF Referenced, Present
<1>7. CASE SaveConfig
  <2>1. /\ op'.configs = op.configs /\ op'.folders = op.folders /\ op.step = "save"
        /\ UNCHANGED <<old, configs, record>>
    BY <1>1, <1>7, AdvanceType DEF SaveConfig
  <2> QED
    BY <2>1 DEF Referenced, Covered, Present
<1>8. CASE WriteRecord
  <2>1. /\ record' = [phase |-> "staging", folders |-> op.folders, configs |-> op.configs]
        /\ op'.step = "recheck" /\ configs' = configs /\ op.step = "save"
    BY <1>1, <1>8, RewritesType DEF WriteRecord
  <2>2. Covered(op.configs) /\ (op.configs # <<>> => op.folders = Folders)
    BY <2>1 DEF MInductive, SaveSound, Referenced
  <2> QED
    BY <2>1, <2>2 DEF Referenced, Covered
<1>9. CASE MarkStaged
  <2>1. record'.phase = "staged" /\ op'.step = "finish" /\ configs' = configs
    BY <1>1, <1>9 DEF MarkStaged, Record, Idle
  <2>2. /\ op.step = "write" /\ op.at > Len(op.configs) /\ Covered(op.configs)
        /\ \A i \in DOMAIN op.configs :
              LET r == op.configs[i]
              IN configs[r.path] = IF i < op.at THEN Retarget(r.before) ELSE r.before
    BY <1>9 DEF MInductive, WriteSound, MarkStaged
  <2>3. ASSUME NEW c \in Configs PROVE configs[c].refs = "new"
    <3>1. configs[c].refs \in {"old", "new"}
      BY <1>1 DEF Config
    <3>2. ASSUME configs[c].refs = "old" PROVE FALSE
      <4>1. PICK i \in DOMAIN op.configs : op.configs[i].path = c
        BY <2>2, <3>2 DEF Covered
      <4>2. PICK r \in Rewrite : r = op.configs[i]
        BY <1>1, RewritesType
      <4>3. configs[c] = Retarget(r.before)
        BY <1>1, <1>2, <2>2, <4>1, <4>2
      <4>4. Retarget(r.before).refs = "new"
        BY DEF Rewrite, Config, Retarget
      <4> QED
        BY <3>2, <4>3, <4>4
    <3> QED
      BY <3>1, <3>2
  <2> QED
    BY <2>1, <2>3 DEF Referenced
<1>10. CASE MarkRemoving \/ MarkFinished
  <2>1. record.phase \in {"staged", "removing"}
    BY <1>10 DEF MInductive, InPhase, MarkRemoving, MarkFinished
  <2>2. /\ record'.phase \in {"removing", "finished"} /\ configs' = configs
        /\ op'.step \in {"remove", "idle"}
    BY <1>1, <1>10, IdleType, RewritesType DEF MarkRemoving, MarkFinished, Record
  <2> QED
    BY <2>1, <2>2 DEF Referenced
<1>11. ASSUME NEW c \in Configs, EditConfig(c) PROVE Referenced'
  <2>1. /\ op = Idle /\ UNCHANGED <<old, record, op>>
        /\ configs' = [configs EXCEPT ![c] = [configs[c] EXCEPT !.mine = TRUE]]
    BY <1>11 DEF EditConfig, Undisturbed
  <2>2. [configs[c] EXCEPT !.mine = TRUE].refs = configs[c].refs
    BY <1>1 DEF Config
  <2>3. \A d \in Configs : configs'[d].refs = configs[d].refs
    BY <1>1, <2>1, <2>2
  <2> QED
    BY <2>1, <2>3, IdleType DEF Referenced, Covered, Present
<1>12. ASSUME NEW f \in Folders, RestoreFolder(f) \/ MoveFolder(f) \/ UndoFolder(f)
       PROVE  Referenced'
  <2>1. /\ record.phase = "staging" /\ UNCHANGED <<configs, record>>
        /\ op.step \in {"restoring", "write", "undo"}
    BY <1>12 DEF MInductive, InPhase, RestoreFolder, MoveFolder, UndoFolder
  <2>2. op'.step = op.step
    BY <1>1, <1>12, RewritesType DEF RestoreFolder, MoveFolder, UndoFolder
  <2> QED
    BY <1>same, <2>1, <2>2
<1>13. CASE \/ \E f \in Folders : RemoveFolder(f)
            \/ \E f \in Folders, x \in Files : RemoveFile(f, x)
  <2>1. /\ UNCHANGED <<configs, record, old>> /\ op.step = "remove"
    BY <1>13 DEF RemoveFolder, RemoveFile
  <2>2. op'.step = op.step
    BY <1>1, <1>13, RewritesType DEF RemoveFolder, RemoveFile
  <2> QED
    BY <1>same, <2>1, <2>2 DEF Present
<1>14. ASSUME \/ \E f \in Folders, x \in Files : EditFile(f, x)
              \/ \E f \in Folders : Reinstall(f)
       PROVE  Referenced'
  <2>1. UNCHANGED <<configs, record, op>>
    BY <1>14 DEF EditFile, Reinstall
  <2>2. Present(old) \subseteq Present(old)'
    <3>1. Original # None
      BY NoneAssumption DEF Original, Folder
    <3>2. ASSUME NEW f \in Folders, Reinstall(f) PROVE Present(old) \subseteq Present(old)'
      BY <1>1, <3>1, <3>2 DEF Reinstall, Places, Present
    <3>3. ASSUME NEW f \in Folders, NEW x \in Files, EditFile(f, x)
          PROVE  Present(old) \subseteq Present(old)'
      <4>1. CASE UNCHANGED old
        BY <4>1 DEF Present
      <4>2. CASE old[f] # None /\ old' = [old EXCEPT ![f][x] = Customised(x)]
        <5>1. PICK c \in {"changed", "foreign", "gone"} : c = Customised(x)
          BY DEF Customised
        <5>2. PICK p \in Places : p = old
          BY <1>1
        <5>3. OneFile(p, old', f, x)
          <6>1. old' = WithFile(p, f, x, c) /\ p[f] # None
            BY <4>2, <5>1, <5>2 DEF WithFile
          <6> QED
            BY <6>1, FileType
        <5> QED
          BY <5>2, <5>3 DEF OneFile, Present
      <4> QED
        BY <3>3, <4>1, <4>2 DEF EditFile
    <3> QED
      BY <1>14, <3>2, <3>3
  <2>3. CASE op.step = "save"
    <3>1. Present(old)' \subseteq Folders
      BY DEF Present
    <3> QED
      BY <2>1, <2>2, <2>3, <3>1 DEF Referenced, Covered
  <2>4. CASE op.step # "save"
    BY <1>same, <2>1, <2>2, <2>4
  <2> QED
    BY <2>3, <2>4
<1>15. CASE \/ Prepare \/ RestoreCheck \/ RestoreRefused \/ ScanRefused \/ Recheck
            \/ StageFails \/ FinishCheck \/ FinishRefused \/ RemovalStops \/ Stop
  <2>1. UNCHANGED <<old, configs, record>>
    BY <1>15 DEF Prepare, RestoreCheck, RestoreRefused, ScanRefused, Recheck, StageFails,
                 FinishCheck, FinishRefused, RemovalStops, Stop, Goto, Fail
  <2>2. op'.step # "save"
    <3>1. ASSUME NEW step \in Steps \ {"save"}, Goto(step) PROVE op'.step # "save"
      BY <1>1, <3>1, GotoType
    <3>2. CASE Prepare \/ RestoreCheck \/ Recheck
      BY <3>1, <3>2 DEF Prepare, RestoreCheck, Recheck, Steps
    <3>3. CASE Fail
      BY <3>3, IdleType DEF Fail
    <3>4. CASE StageFails
      BY <1>1, <3>4, RewritesType DEF StageFails
    <3>5. CASE FinishCheck
      BY <3>5 DEF FinishCheck, Idle
    <3> QED
      BY <1>15, <3>2, <3>3, <3>4, <3>5
      DEF RestoreRefused, ScanRefused, FinishRefused, RemovalStops, Stop
  <2> QED
    BY <1>same, <2>1, <2>2 DEF Present
<1>16. CASE UNCHANGED vars
  BY <1>16 DEF vars, Referenced, Covered, Present
<1>17. ~\E c \in Configs : Relink(c)
  BY DEF Relink
<1> QED
  BY <1>3, <1>4, <1>5, <1>6, <1>7, <1>8, <1>9, <1>10, <1>11, <1>12, <1>13, <1>14, <1>15,
     <1>16, <1>17
  DEF Next, CommandStep, Interference

\* Outside a stage that is to be restored, a configuration that names the
\* legacy folders finds all of them in place, wherever commands stopped.
THEOREM ConfigsResolveCorrect ==
    ASSUME "relink" \notin Environment PROVE Spec => []ConfigsResolve
<1>1. Init => MInductive /\ Referenced
  BY MInductiveInit, ReferencedInit
<1>2. (MInductive /\ Referenced) /\ [Next]_vars => (MInductive /\ Referenced)'
  BY MInductiveNext, ReferencedNext
<1>3. MInductive /\ Referenced => ConfigsResolve
  <2> SUFFICES ASSUME MInductive, Referenced, record.phase # "staging",
                      NEW c \in Configs, configs[c].refs = "old"
               PROVE  \A f \in Folders : old[f] # None
    BY DEF ConfigsResolve
  <2>1. record.phase \in {"none", "staged", "removing", "finished", "restored"}
    BY DEF MInductive, Typed, Record, Phases
  <2>2. Present(old) = Folders
    BY <2>1 DEF Referenced
  <2> QED
    BY <2>2 DEF Present
<1> QED
  BY <1>1, <1>2, <1>3, PTL DEF Spec
=============================================================================
