------------------------ MODULE ManagedCache_proofs -------------------------
(***************************************************************************)
(* Proofs about the cache of the managed profiles, for every value of its  *)
(* constants.                                                              *)
(***************************************************************************)
EXTENDS ManagedCache, TLAPS

-----------------------------------------------------------------------------
(* The inductive invariant.                                                *)

\* What a command knows of itself: the window it runs for, whether it is still in
\* the first loop of a repair, and that it replaces an entry of the definition it
\* is at.
CommandSound ==
    /\ op.step # "idle" => op.proc \in Procs
    /\ op.checking => op.step \in {"check", "fetch", "replace"}
    /\ op.step = "check" => op.checking
    /\ op.step = "replace" =>
          \/ op.target = Current.hash
          \/ op.target = Current.key /\ op.target \in Layouts /\ ~op.checking

\* What the command has prepared of definition i; a repair has hashed its layout.
Done(i) ==
    LET k == Todo[i].key
    IN Usable(k) /\ (op.cmd = "repair" /\ k \in Layouts => Verified(k, TRUE))

Earlier(k) == \E i \in 1..(op.at - 1) : Todo[i].key = k

Preparing ==
    op.step \in {"package", "fetch", "replace", "layout", "derive"} /\ ~op.checking

\* The definitions before the one at hand stay prepared, since what is replaced
\* for this one is none of theirs.
PreparedSoFar ==
    /\ Preparing => \A i \in 1..(op.at - 1) : Done(i)
    /\ op.step \in {"layout", "derive"} => Usable(Current.hash)
    /\ op.step = "fetch" /\ ~op.checking => ~Earlier(Current.hash)
    /\ op.step = "derive" => ~Earlier(Current.key) /\ Current.key \in Layouts
    /\ op.step = "replace" /\ ~op.checking => ~Earlier(op.target)
    /\ op.step = "launch" => \A k \in config : Usable(k)

\* What cleanup has left to remove: nothing that a saved file needs, and nothing
\* but unmodified files that a receipt lists.
CleaningSound ==
    Cleaning =>
        /\ \A k \in Keys : Needed(k) => k \notin op.archives \cup op.entries
        /\ \A k \in op.entries :
              /\ entry[k] # None /\ ~entry[k].extra
              /\ \A f \in Files : entry[k].file[f] \in {"same", "gone"}

Inductive == TypeOK /\ CommandSound /\ PreparedSoFar /\ CleaningSound

-----------------------------------------------------------------------------
(* Type correctness.                                                       *)

\* A definition that the command is at names a hash, and a key that is this hash
\* or a layout made from it.
LEMMA CurrentType ==
    ASSUME TypeOK, CommandSound, op.step # "idle", NEW i \in 1..Len(Todo)
    PROVE  /\ Todo[i] \in Definition
           /\ Todo[i].hash \in Hashes
           /\ Todo[i].key \in Keys
           /\ Todo[i].key = Todo[i].hash \/ Todo[i].key \in Layouts
<1>1. memory[op.proc] \in Versions
  BY DEF TypeOK, CommandSound
<1>2. Definitions[memory[op.proc]] \in Seq(Definition)
  BY <1>1, CacheAssumption
<1>3. i \in DOMAIN Definitions[memory[op.proc]]
  BY <1>2 DEF Todo
<1>4. Todo[i] \in Definition
  BY <1>2, <1>3 DEF Todo
<1>5. Todo[i].key = Todo[i].hash \/ Todo[i].key \in Layouts
  BY <1>1, <1>3, CacheAssumption DEF Todo
<1> QED
  BY <1>4, <1>5 DEF Definition

\* The length of the list of definitions is a number.
LEMMA TodoLength ==
    ASSUME TypeOK, CommandSound, op.step # "idle"
    PROVE  Len(Todo) \in Nat
BY CacheAssumption DEF TypeOK, CommandSound, Todo

\* Keeping all of a command but its step keeps it a command.
LEMMA StepType ==
    ASSUME NEW c \in Command, NEW s \in Steps
    PROVE  /\ [c EXCEPT !.step = s] \in Command
           /\ [c EXCEPT !.step = s].step = s
           /\ [c EXCEPT !.step = s].cmd = c.cmd
           /\ [c EXCEPT !.step = s].proc = c.proc
           /\ [c EXCEPT !.step = s].at = c.at
           /\ [c EXCEPT !.step = s].checking = c.checking
           /\ [c EXCEPT !.step = s].target = c.target
           /\ [c EXCEPT !.step = s].pinned = c.pinned
BY DEF Command

\* No command is in progress.
LEMMA IdleType == Idle \in Command /\ Idle.step = "idle" /\ ~Idle.checking
BY DEF Idle, Command, Steps

\* A command begins at its first definition, in the window that asked for it.
LEMMA BeginType ==
    ASSUME NEW p \in Procs, NEW c \in {"prepare", "launch", "repair", "profile"},
           NEW s \in Steps, Begin(p, c, s)
    PROVE  /\ op' \in Command
           /\ op'.step = s /\ op'.cmd = c /\ op'.proc = p /\ op'.at = 1
           /\ op'.checking = (s = "check")
BY DEF Begin, Idle, Command, Steps

\* Whatever changes one field of a cache entry, or removes it, leaves entries.
LEMMA FileChangeType ==
    ASSUME entry \in [Keys -> Entry \cup {None}], NEW k \in Keys, entry[k] # None,
           NEW f \in Files, NEW state \in FileStates
    PROVE  LET new == [entry EXCEPT ![k].file[f] = state]
           IN /\ new \in [Keys -> Entry \cup {None}]
              /\ new[k] \in Entry
              /\ new[k].receipt = entry[k].receipt
              /\ new[k].extra = entry[k].extra
              /\ new[k].pinned = entry[k].pinned
              /\ new[k].file[f] = state
              /\ \A g \in Files \ {f} : new[k].file[g] = entry[k].file[g]
              /\ \A j \in Keys \ {k} : new[j] = entry[j]
<1> DEFINE e == [entry[k] EXCEPT !.file[f] = state]
           new == [entry EXCEPT ![k].file[f] = state]
<1>1. entry[k] \in Entry
  OBVIOUS
<1>2. e \in Entry
  BY <1>1 DEF Entry
<1>3. /\ e.receipt = entry[k].receipt /\ e.extra = entry[k].extra /\ e.pinned = entry[k].pinned
      /\ e.file[f] = state /\ \A g \in Files \ {f} : e.file[g] = entry[k].file[g]
  BY <1>1 DEF Entry
<1>4. new[k] = e /\ \A j \in Keys \ {k} : new[j] = entry[j]
  OBVIOUS
<1>5. new \in [Keys -> Entry \cup {None}]
  BY <1>2, <1>4
<1> QED
  BY <1>2, <1>3, <1>4, <1>5

\* A receipt that is gone changes nothing else of the entry, nor of another one.
LEMMA ReceiptChangeType ==
    ASSUME entry \in [Keys -> Entry \cup {None}], NEW k \in Keys, entry[k] # None
    PROVE  LET new == [entry EXCEPT ![k].receipt = FALSE]
           IN /\ new \in [Keys -> Entry \cup {None}]
              /\ new[k] \in Entry
              /\ new[k].extra = entry[k].extra
              /\ new[k].pinned = entry[k].pinned
              /\ new[k].file = entry[k].file
              /\ \A j \in Keys \ {k} : new[j] = entry[j]
<1> DEFINE e == [entry[k] EXCEPT !.receipt = FALSE]
           new == [entry EXCEPT ![k].receipt = FALSE]
<1>1. entry[k] \in Entry
  OBVIOUS
<1>2. e \in Entry /\ e.extra = entry[k].extra /\ e.pinned = entry[k].pinned /\ e.file = entry[k].file
  BY <1>1 DEF Entry
<1>3. new[k] = e /\ \A j \in Keys \ {k} : new[j] = entry[j]
  OBVIOUS
<1> QED
  BY <1>2, <1>3

\* An unknown file that comes or goes changes nothing else of the cache.
LEMMA ExtraChangeType ==
    ASSUME entry \in [Keys -> Entry \cup {None}], NEW k \in Keys, entry[k] # None,
           NEW x \in BOOLEAN
    PROVE  LET new == [entry EXCEPT ![k].extra = x]
           IN /\ new \in [Keys -> Entry \cup {None}]
              /\ new[k] \in Entry
              /\ new[k].receipt = entry[k].receipt
              /\ new[k].pinned = entry[k].pinned
              /\ new[k].file = entry[k].file
              /\ \A j \in Keys \ {k} : new[j] = entry[j]
<1> DEFINE e == [entry[k] EXCEPT !.extra = x]
           new == [entry EXCEPT ![k].extra = x]
<1>1. entry[k] \in Entry
  OBVIOUS
<1>2. e \in Entry /\ e.receipt = entry[k].receipt /\ e.pinned = entry[k].pinned /\ e.file = entry[k].file
  BY <1>1 DEF Entry
<1>3. new[k] = e /\ \A j \in Keys \ {k} : new[j] = entry[j]
  OBVIOUS
<1> QED
  BY <1>2, <1>3

\* A fresh entry is complete, with all its files as recorded.
LEMMA PlacedType ==
    ASSUME entry \in [Keys -> Entry \cup {None}], NEW k \in Keys, NEW pinned \in BOOLEAN
    PROVE  LET e == [receipt |-> TRUE, extra |-> FALSE, pinned |-> pinned,
                     file |-> [f \in Files |-> "same"]]
               new == [entry EXCEPT ![k] = e]
           IN /\ new \in [Keys -> Entry \cup {None}]
              /\ new[k] \in Entry /\ new[k] # None
              /\ new[k].receipt /\ ~new[k].extra /\ new[k].pinned = pinned
              /\ \A f \in Files : new[k].file[f] = "same"
              /\ \A j \in Keys \ {k} : new[j] = entry[j]
<1> DEFINE e == [receipt |-> TRUE, extra |-> FALSE, pinned |-> pinned,
                 file |-> [f \in Files |-> "same"]]
           new == [entry EXCEPT ![k] = e]
<1>1. e \in Entry
  BY DEF Entry, FileStates
<1>2. e # None
  BY <1>1, CacheAssumption
<1>3. new[k] = e /\ \A j \in Keys \ {k} : new[j] = entry[j]
  OBVIOUS
<1>4. new \in [Keys -> Entry \cup {None}]
  BY <1>1
<1> QED
  BY <1>1, <1>2, <1>3, <1>4

\* The part of TypeOK that is about one command and the list it works on.
OpType(o, todo) ==
    /\ o \in Command
    /\ o.step \in {"check", "package"} => o.at \in 1..(Len(todo) + 1)
    /\ o.step \in {"fetch", "replace", "layout", "derive"} => o.at \in 1..Len(todo)
    /\ o.step = "replace" => o.target \in Keys

\* The part of CommandSound that is about one command.
OpSound(o, todo) ==
    /\ o.step # "idle" => o.proc \in Procs
    /\ o.checking => o.step \in {"check", "fetch", "replace"}
    /\ o.step = "check" => o.checking
    /\ o.step = "replace" =>
          \/ o.target = todo[o.at].hash
          \/ o.target = todo[o.at].key /\ o.target \in Layouts /\ ~o.checking

\* A step that changes nothing but the command, for the same window, is as well
\* typed as the command.
LEMMA SplitType ==
    /\ TypeOK => OpType(op, Todo)
    /\ CommandSound <=> OpSound(op, Todo)
BY DEF TypeOK, CommandSound, OpType, OpSound, Current

\* The two invariants of a step follow from the type of each variable after it.
LEMMA SplitTypeNext ==
    ASSUME archive' \in [Hashes -> {"none", "good", "bad"}],
           entry' \in [Keys -> Entry \cup {None}],
           catalog' \in Versions, previous' \in Versions \cup {None}, config' \subseteq Keys,
           memory' \in [Procs -> Versions], game' \in BOOLEAN, edits' \in 0..MaxEdits,
           OpType(op', Todo'), OpSound(op', Todo')
    PROVE  TypeOK' /\ CommandSound'
BY DEF TypeOK, CommandSound, OpType, OpSound, Current

-----------------------------------------------------------------------------

\* The data= lines name roots, which are keys.
LEMMA RootsType ==
    ASSUME NEW v \in Versions
    PROVE  RootsOf(v) \subseteq Keys /\ KeysOf(v) \subseteq Keys
<1>1. \A i \in DOMAIN Definitions[v] : Definitions[v][i] \in Definition
  BY CacheAssumption
<1>2. \A i \in DOMAIN Definitions[v] : Definitions[v][i].key \in Keys /\ Definitions[v][i].hash \in Keys
  BY <1>1 DEF Definition, Keys
<1> QED
  BY <1>2 DEF RootsOf, KeysOf

\* Beginning a command.
LEMMA BeginKeepsType ==
    ASSUME TypeOK, NEW p \in Procs,
           NEW cmd \in {"prepare", "launch", "repair", "profile"},
           NEW s \in {"check", "package", "catalog"},
           Begin(p, cmd, s), memory' \in [Procs -> Versions], previous' \in Versions \cup {None},
           UNCHANGED <<disk, catalog, config, game, edits>>
    PROVE  TypeOK' /\ CommandSound'
<1>1. s \in Steps
  BY DEF Steps
<1>2. /\ op' \in Command
      /\ op'.step = s /\ op'.cmd = cmd /\ op'.proc = p /\ op'.at = 1
      /\ op'.checking = (s = "check")
  BY <1>1, BeginType
<1>3. Definitions[memory'[p]] \in Seq(Definition)
  BY CacheAssumption
<1>4. Len(Todo') \in Nat
  BY <1>2, <1>3 DEF Todo
<1>5. OpType(op', Todo')
  BY <1>2, <1>4 DEF OpType
<1>6. OpSound(op', Todo')
  BY <1>2 DEF OpSound
<1> QED
  BY <1>5, <1>6, SplitTypeNext DEF TypeOK, disk

\* Going to another step at the same definition.
LEMMA GotoKeepsType ==
    ASSUME TypeOK, CommandSound, op.step # "idle",
           NEW s \in {"fetch", "layout", "derive", "launch"}, Goto(s),
           s \in {"layout", "derive", "launch"} => ~op.checking,
           s # "launch" => op.at \in 1..Len(Todo),
           UNCHANGED <<disk, catalog, previous, memory, game, edits>>, config' \subseteq Keys
    PROVE  TypeOK' /\ CommandSound'
<1>1. s \in Steps
  BY DEF Steps
<1>2. op \in Command /\ op.proc \in Procs
  BY DEF TypeOK, CommandSound
<1>3. /\ op' \in Command
      /\ op'.step = s /\ op'.cmd = op.cmd /\ op'.proc = op.proc /\ op'.at = op.at
      /\ op'.checking = op.checking
  BY <1>1, <1>2, StepType DEF Goto
<1>4. Todo' = Todo
  BY <1>3 DEF Todo
<1>5. OpType(op', Todo')
  BY <1>3, <1>4 DEF OpType
<1>6. OpSound(op', Todo')
  BY <1>2, <1>3 DEF OpSound
<1> QED
  BY <1>5, <1>6, SplitTypeNext DEF TypeOK, disk

\* Going to the next definition.
LEMMA NextPackageFields ==
    ASSUME TypeOK, CommandSound, op.step # "idle", op.at \in 1..Len(Todo), NextPackage
    PROVE  /\ op' \in Command
           /\ op'.step = (IF op.checking THEN "check" ELSE "package")
           /\ op'.at = op.at + 1 /\ op'.at \in 1..(Len(Todo) + 1)
           /\ op'.checking = op.checking /\ op'.proc = op.proc /\ op'.cmd = op.cmd
<1>1. op \in Command /\ Len(Todo) \in Nat
  BY TodoLength DEF TypeOK
<1> DEFINE s == IF op.checking THEN "check" ELSE "package"
<1>2. s \in Steps /\ op.at + 1 \in Nat
  BY <1>1 DEF Steps
<1>3. op' = [op EXCEPT !.at = op.at + 1, !.step = s]
  BY DEF NextPackage
<1> HIDE DEF s
<1>4. /\ op' \in Command
      /\ op'.step = s /\ op'.at = op.at + 1
      /\ op'.checking = op.checking /\ op'.proc = op.proc /\ op'.cmd = op.cmd
  BY <1>1, <1>2, <1>3 DEF Command
<1> QED
  BY <1>1, <1>4 DEF s

\* Going on to the next definition stays within the definitions, or ends the loop.
LEMMA NextPackageKeepsType ==
    ASSUME TypeOK, CommandSound, op.step # "idle", op.at \in 1..Len(Todo), NextPackage,
           UNCHANGED <<disk, saved, memory, game, edits>>
    PROVE  TypeOK' /\ CommandSound'
<1>1. op.proc \in Procs
  BY DEF CommandSound
<1>2. Todo' = Todo
  BY NextPackageFields DEF Todo
<1>3. OpType(op', Todo') /\ OpSound(op', Todo')
  BY <1>1, <1>2, NextPackageFields DEF OpType, OpSound
<1> QED
  BY <1>3, SplitTypeNext DEF TypeOK, disk, saved

\* The end of a command, or of the window that runs it.
LEMMA EndKeepsType ==
    ASSUME TypeOK, End, UNCHANGED <<disk, previous, edits>>,
           catalog' \in Versions, config' \subseteq Keys, memory' \in [Procs -> Versions],
           game' \in BOOLEAN
    PROVE  TypeOK' /\ CommandSound'
<1>1. OpType(op', Todo') /\ OpSound(op', Todo')
  BY IdleType DEF End, OpType, OpSound
<1> QED
  BY <1>1, SplitTypeNext DEF TypeOK, disk

\* A step that changes files and leaves the command as it is.
LEMMA DiskKeepsType ==
    ASSUME TypeOK, CommandSound, UNCHANGED <<saved, memory, op>>,
           archive' \in [Hashes -> {"none", "good", "bad"}],
           entry' \in [Keys -> Entry \cup {None}], game' \in BOOLEAN, edits' \in 0..MaxEdits
    PROVE  TypeOK' /\ CommandSound'
<1>1. Todo' = Todo
  BY DEF Todo
<1>2. OpType(op', Todo') /\ OpSound(op', Todo')
  BY <1>1, SplitType
<1> QED
  BY <1>2, SplitTypeNext DEF TypeOK, saved

\* The definition at hand is one of the list.
LEMMA AtCurrent ==
    ASSUME TypeOK, CommandSound
    PROVE  /\ op.step \in {"check", "package"} /\ More => op.at \in 1..Len(Todo)
           /\ op.step \in {"fetch", "replace", "layout", "derive"} => op.at \in 1..Len(Todo)
<1>1. op.step \in {"check", "package"} => op.at \in 1..(Len(Todo) + 1)
  BY DEF TypeOK
<1>2. op.step # "idle" => Len(Todo) \in Nat
  BY TodoLength
<1> QED
  BY <1>1, <1>2 DEF TypeOK, More

\* The definition at hand is one of the profile's, and what it names is in the cache's
\* keys.
LEMMA CurrentKeys ==
    ASSUME TypeOK, CommandSound,
           \/ op.step \in {"check", "package"} /\ More
           \/ op.step \in {"fetch", "replace", "layout", "derive"}
    PROVE  /\ op.at \in 1..Len(Todo)
           /\ Current.hash \in Hashes /\ Current.key \in Keys
           /\ Current.key = Current.hash \/ Current.key \in Layouts
BY AtCurrent, CurrentType DEF Current

\* The steps of the repair's first loop and of the preparation keep the types.
LEMMA PrepareStepType ==
    ASSUME Inductive,
           \/ CheckFound \/ CheckMissing \/ CheckDone
           \/ PackageHit \/ PackageMiss \/ Download \/ Extract
           \/ LayoutHit \/ LayoutMiss \/ Derive \/ RemoveOld \/ Place
           \/ WriteConfig \/ StartGame
    PROVE  TypeOK' /\ CommandSound'
<1> USE DEF Inductive
<1>1. CASE CheckFound
  BY <1>1, AtCurrent, NextPackageKeepsType DEF CheckFound, windows
<1>2. CASE CheckMissing
  BY <1>2, AtCurrent, GotoKeepsType DEF CheckMissing, saved, windows, TypeOK
<1>3. CASE CheckDone
  <2>1. op \in Command /\ op.proc \in Procs /\ Len(Todo) \in Nat
    BY <1>3, TodoLength DEF CheckDone, TypeOK, CommandSound
  <2>2. op' = [op EXCEPT !.step = "package", !.at = 1, !.checking = FALSE]
    BY <1>3 DEF CheckDone
  <2>3. op' \in Command /\ op'.step = "package" /\ op'.at = 1 /\ ~op'.checking /\ op'.proc = op.proc
    BY <2>1, <2>2 DEF Command, Steps
  <2>4. Todo' = Todo
    BY <1>3, <2>3 DEF CheckDone, windows, Todo
  <2>5. OpType(op', Todo') /\ OpSound(op', Todo')
    BY <2>1, <2>3, <2>4 DEF OpType, OpSound
  <2> QED
    BY <1>3, <2>5, SplitTypeNext DEF CheckDone, TypeOK, disk, saved, windows
<1>4. CASE PackageHit
  BY <1>4, AtCurrent, GotoKeepsType DEF PackageHit, saved, windows, TypeOK, CommandSound
<1>5. CASE PackageMiss
  BY <1>5, AtCurrent, GotoKeepsType DEF PackageMiss, saved, windows, TypeOK, CommandSound
<1>6. CASE Download
  <2>1. Current.hash \in Hashes
    BY <1>6, CurrentKeys DEF Download
  <2>2. archive' \in [Hashes -> {"none", "good", "bad"}]
    BY <1>6, <2>1 DEF Download, TypeOK
  <2> QED
    BY <1>6, <2>2, DiskKeepsType DEF Download, TypeOK, windows
<1>7. ASSUME NEW k \in Keys, NEW b \in BOOLEAN, Stage(k, b), op.step \in {"fetch", "derive"},
             \/ k = Current.hash
             \/ k = Current.key /\ k \in Layouts /\ ~op.checking,
             UNCHANGED <<disk, saved, windows, game, edits>>
      PROVE  TypeOK' /\ CommandSound'
  <2>1. op \in Command /\ op.proc \in Procs
    BY <1>7 DEF TypeOK, CommandSound
  <2>2. op' = [op EXCEPT !.step = "replace", !.target = k, !.pinned = b]
    BY <1>7 DEF Stage
  <2>3. /\ op' \in Command
        /\ op'.step = "replace" /\ op'.at = op.at /\ op'.proc = op.proc
        /\ op'.target = k /\ op'.checking = op.checking
    BY <2>1, <2>2 DEF Command, Steps
  <2>4. Todo' = Todo
    BY <1>7, <2>3 DEF windows, Todo
  <2>5. op.at \in 1..Len(Todo)
    BY <1>7, AtCurrent
  <2>6. OpType(op', Todo') /\ OpSound(op', Todo')
    BY <1>7, <2>1, <2>3, <2>4, <2>5 DEF OpType, OpSound, Current
  <2> QED
    BY <1>7, <2>6, SplitTypeNext DEF TypeOK, disk, saved, windows
<1>8. CASE Extract
  BY <1>7, <1>8, CurrentKeys DEF Extract, Keys
<1>9. CASE LayoutHit
  BY <1>9, AtCurrent, NextPackageKeepsType DEF LayoutHit, windows
<1>10. CASE LayoutMiss
  BY <1>10, AtCurrent, GotoKeepsType DEF LayoutMiss, saved, windows, TypeOK, CommandSound
<1>11. CASE Derive
  <2> DEFINE raw == entry[Current.hash]
             b == raw.pinned /\ \A f \in Files : raw.file[f] = "same"
  <2>1. Current.key \in Keys /\ Current.key \in Layouts /\ Current.hash \in Keys
    BY <1>11, CurrentKeys DEF Derive, PreparedSoFar, Keys
  <2>2. raw \in Entry
    BY <1>11, <2>1 DEF Derive, PreparedSoFar, Usable, TypeOK
  <2>3. b \in BOOLEAN
    BY <2>2 DEF Entry
  <2>4. Stage(Current.key, b) /\ UNCHANGED <<disk, saved, windows, game, edits>>
    BY <1>11 DEF Derive
  <2>5. ~op.checking /\ op.step = "derive"
    BY <1>11 DEF Derive, CommandSound
  <2> HIDE DEF b
  <2> QED
    BY <1>7, <2>1, <2>3, <2>4, <2>5
<1>12. CASE RemoveOld
  <2>1. op.target \in Keys /\ entry[op.target] # None
    BY <1>12 DEF RemoveOld, TypeOK
  <2>2. entry' \in [Keys -> Entry \cup {None}]
    <3>1. CASE entry' = [entry EXCEPT ![op.target] = None]
      BY <3>1 DEF TypeOK
    <3>2. CASE entry' = [entry EXCEPT ![op.target].receipt = FALSE]
      BY <2>1, <3>2, ReceiptChangeType DEF TypeOK
    <3>3. CASE entry' = [entry EXCEPT ![op.target].extra = FALSE]
      BY <2>1, <3>3, ExtraChangeType DEF TypeOK
    <3>4. ASSUME NEW f \in Files, entry' = Without(op.target, f)
          PROVE  entry' \in [Keys -> Entry \cup {None}]
      BY <2>1, <3>4, FileChangeType DEF Without, TypeOK, FileStates
    <3> QED
      BY <1>12, <3>1, <3>2, <3>3, <3>4 DEF RemoveOld
  <2> QED
    BY <1>12, <2>2, DiskKeepsType DEF RemoveOld, TypeOK, windows
<1>13. CASE Place
  <2>1. /\ op \in Command /\ op.proc \in Procs /\ op.at \in 1..Len(Todo)
        /\ op.target \in Keys /\ op.pinned \in BOOLEAN /\ Len(Todo) \in Nat
    BY <1>13, AtCurrent, TodoLength DEF Place, TypeOK, CommandSound, Command
  <2>2. entry' \in [Keys -> Entry \cup {None}]
    BY <1>13, <2>1, PlacedType DEF Place, TypeOK
  <2>3. OpType(op', Todo) /\ OpSound(op', Todo) /\ op'.proc = op.proc
    <3>1. CASE op.target \in Hashes /\ ~op.checking
      <4>1. op' = [op EXCEPT !.step = "layout", !.target = None]
        BY <1>13, <3>1 DEF Place
      <4>2. /\ op' \in Command /\ op'.step = "layout" /\ op'.at = op.at
            /\ op'.proc = op.proc /\ op'.checking = op.checking
        BY <2>1, <4>1 DEF Command, Steps
      <4> QED
        BY <2>1, <3>1, <4>2 DEF OpType, OpSound
    <3>2. CASE ~(op.target \in Hashes /\ ~op.checking)
      <4> DEFINE s == IF op.checking THEN "check" ELSE "package"
      <4>1. op' = [op EXCEPT !.at = op.at + 1, !.target = None, !.step = s]
        BY <1>13, <3>2 DEF Place
      <4>2. s \in Steps /\ op.at + 1 \in Nat
        BY <2>1 DEF Steps
      <4> HIDE DEF s
      <4>3. /\ op' \in Command /\ op'.step = s /\ op'.at = op.at + 1
            /\ op'.proc = op.proc /\ op'.checking = op.checking
        BY <2>1, <4>1, <4>2 DEF Command
      <4> QED
        BY <2>1, <4>3 DEF OpType, OpSound, s
    <3> QED
      BY <3>1, <3>2
  <2>4. Todo' = Todo
    BY <1>13, <2>3 DEF Place, Todo
  <2> QED
    BY <1>13, <2>2, <2>3, <2>4, SplitTypeNext DEF Place, TypeOK, saved
<1>14. CASE WriteConfig
  <2>1. op.proc \in Procs /\ ~op.checking
    BY <1>14 DEF WriteConfig, CommandSound
  <2>2. config' \subseteq Keys
    BY <1>14, <2>1, RootsType DEF WriteConfig, TypeOK
  <2>3. CASE op.cmd = "launch"
    BY <1>14, <2>1, <2>2, <2>3, GotoKeepsType DEF WriteConfig, windows
  <2>4. CASE op.cmd # "launch"
    BY <1>14, <2>2, <2>4, EndKeepsType DEF WriteConfig, windows, TypeOK
  <2> QED
    BY <2>3, <2>4
<1>15. CASE StartGame
  BY <1>15, EndKeepsType DEF StartGame, saved, windows, TypeOK
<1> QED
  BY <1>1, <1>2, <1>3, <1>4, <1>5, <1>6, <1>8, <1>9, <1>10, <1>11, <1>12, <1>13, <1>14, <1>15

\* So do cleanup, the profile commands, crashes, and everybody else.
LEMMA OtherStepType ==
    ASSUME Inductive, [Next]_vars,
           ~(\/ CheckFound \/ CheckMissing \/ CheckDone
             \/ PackageHit \/ PackageMiss \/ Download \/ Extract
             \/ LayoutHit \/ LayoutMiss \/ Derive \/ RemoveOld \/ Place
             \/ WriteConfig \/ StartGame)
    PROVE  TypeOK' /\ CommandSound'
<1> USE DEF Inductive
<1>1. ASSUME NEW p \in Procs, NEW cmd \in {"prepare", "launch", "repair"}, Prepare(p, cmd)
      PROVE  TypeOK' /\ CommandSound'
  BY <1>1, BeginKeepsType DEF Prepare, saved, windows, TypeOK
<1>2. ASSUME NEW p \in Procs, Return(p)
      PROVE  TypeOK' /\ CommandSound'
  BY <1>2, BeginKeepsType DEF Return, saved, TypeOK
<1>3. ASSUME NEW p \in Procs, Scan(p)
      PROVE  TypeOK' /\ CommandSound'
  BY <1>3, DiskKeepsType DEF Scan, TypeOK, disk
<1>4. ASSUME NEW p \in Procs, Clean(p)
      PROVE  TypeOK' /\ CommandSound'
  <2>1. Scanned.archives \subseteq Hashes /\ Scanned.entries \subseteq Keys
    BY DEF Scanned
  <2>2. /\ op' \in Command
        /\ op'.step = "remove" /\ op'.proc = p /\ ~op'.checking
    BY <1>4, <2>1 DEF Clean, Idle, Command, Steps
  <2>3. OpType(op', Todo') /\ OpSound(op', Todo')
    BY <2>2 DEF OpType, OpSound
  <2> QED
    BY <1>4, <2>3, SplitTypeNext DEF Clean, TypeOK, disk, saved
<1>5. ASSUME NEW p \in Procs, Reopen(p)
      PROVE  TypeOK' /\ CommandSound'
  BY <1>5, EndKeepsType DEF Reopen, TypeOK, saved
<1>6. ASSUME NEW p \in Procs, NEW v \in Versions, Accept(p, v)
      PROVE  TypeOK' /\ CommandSound'
  BY <1>6, BeginKeepsType DEF Accept, TypeOK
<1>7. CASE WriteCatalog
  BY <1>7, EndKeepsType DEF WriteCatalog, TypeOK, CommandSound, windows
<1>8. CASE RemoveArchive
  <2>1. PICK h \in op.archives : /\ archive' = [archive EXCEPT ![h] = "none"]
                                 /\ op' = [op EXCEPT !.archives = @ \ {h}]
    BY <1>8 DEF RemoveArchive
  <2>2. op \in Command /\ op.proc \in Procs /\ ~op.checking /\ op.step = "remove"
    BY <1>8 DEF RemoveArchive, TypeOK, CommandSound
  <2>3. /\ op' \in Command
        /\ op'.step = "remove" /\ op'.proc = op.proc /\ ~op'.checking
    BY <2>1, <2>2 DEF Command
  <2>4. OpType(op', Todo') /\ OpSound(op', Todo')
    BY <2>2, <2>3 DEF OpType, OpSound
  <2> QED
    BY <1>8, <2>1, <2>4, SplitTypeNext DEF RemoveArchive, TypeOK, saved, windows
<1>9. CASE RemoveEntry
  <2>1. PICK k \in op.entries :
           IF Empty(k)
           THEN /\ entry' = [entry EXCEPT ![k] = None]
                /\ op' = [op EXCEPT !.entries = @ \ {k}]
           ELSE /\ UNCHANGED op
                /\ IF \A f \in Files : entry[k].file[f] = "gone"
                   THEN entry' = [entry EXCEPT ![k].receipt = FALSE]
                   ELSE \E f \in Files : /\ entry[k].file[f] # "gone"
                                         /\ entry' = Without(k, f)
    BY <1>9 DEF RemoveEntry
  <2>2. /\ op \in Command /\ op.proc \in Procs /\ ~op.checking /\ op.step = "remove"
        /\ op.entries \subseteq Keys
    BY <1>9 DEF RemoveEntry, TypeOK, CommandSound, Command
  <2>3. k \in Keys /\ entry[k] # None
    BY <2>2 DEF CleaningSound, Cleaning
  <2>4. /\ op' \in Command
        /\ op'.step = "remove" /\ op'.proc = op.proc /\ ~op'.checking
    BY <2>1, <2>2 DEF Command
  <2>5. entry' \in [Keys -> Entry \cup {None}]
    <3>1. CASE entry' = [entry EXCEPT ![k] = None]
      BY <3>1 DEF TypeOK
    <3>2. CASE entry' = [entry EXCEPT ![k].receipt = FALSE]
      BY <2>3, <3>2, ReceiptChangeType DEF TypeOK
    <3>3. ASSUME NEW f \in Files, entry' = Without(k, f)
          PROVE  entry' \in [Keys -> Entry \cup {None}]
      BY <2>3, <3>3, FileChangeType DEF Without, TypeOK, FileStates
    <3> QED
      BY <2>1, <3>1, <3>2, <3>3
  <2>6. OpType(op', Todo') /\ OpSound(op', Todo')
    BY <2>2, <2>4 DEF OpType, OpSound
  <2> QED
    BY <1>9, <2>5, <2>6, SplitTypeNext DEF RemoveEntry, TypeOK, saved, windows
<1>10. CASE CleanDone
  BY <1>10, EndKeepsType DEF CleanDone, saved, windows, TypeOK
<1>11. CASE Fails
  BY <1>11, EndKeepsType DEF Fails, saved, windows, TypeOK
<1>12. CASE GameExit
  BY <1>12, DiskKeepsType DEF GameExit, TypeOK, disk, windows
<1>13. ASSUME NEW k \in Keys, Touch(k)
       PROVE  TypeOK' /\ CommandSound'
  <2>1. entry[k] # None /\ edits' \in 0..MaxEdits
    BY <1>13, CacheAssumption DEF Touch, TypeOK
  <2>2. entry' \in [Keys -> Entry \cup {None}]
    <3>1. CASE entry' = [entry EXCEPT ![k].extra = TRUE]
      BY <2>1, <3>1, ExtraChangeType DEF TypeOK
    <3>2. ASSUME NEW f \in Files, NEW state \in FileStates, entry' = [entry EXCEPT ![k].file[f] = state]
          PROVE  entry' \in [Keys -> Entry \cup {None}]
      BY <2>1, <3>2, FileChangeType DEF TypeOK
    <3> QED
      BY <1>13, <3>1, <3>2 DEF Touch
  <2> QED
    BY <1>13, <2>1, <2>2, DiskKeepsType DEF Touch, TypeOK, windows
<1>14. ASSUME NEW h \in Hashes, TouchArchive(h)
       PROVE  TypeOK' /\ CommandSound'
  <2>1. edits' \in 0..MaxEdits
    BY <1>14, CacheAssumption DEF TouchArchive, TypeOK
  <2>2. archive' \in [Hashes -> {"none", "good", "bad"}]
    BY <1>14 DEF TouchArchive, TypeOK
  <2> QED
    BY <1>14, <2>1, <2>2, DiskKeepsType DEF TouchArchive, TypeOK, windows
<1>15. CASE UNCHANGED vars
  BY <1>15, DiskKeepsType DEF vars, TypeOK, disk, windows
<1> QED
  BY <1>1, <1>2, <1>3, <1>4, <1>5, <1>6, <1>7, <1>8, <1>9, <1>10, <1>11, <1>12, <1>13, <1>14, <1>15
  DEF Next, CommandStep

\* No step leaves the types, nor what a command knows of itself.
LEMMA TypeNext ==
    ASSUME Inductive, [Next]_vars
    PROVE  TypeOK' /\ CommandSound'
BY PrepareStepType, OtherStepType

-----------------------------------------------------------------------------
(* Cleanup.                                                                *)

\* While cleanup removes, nobody else touches the disk or what is saved.
LEMMA DuringClean ==
    ASSUME Cleaning, [Next]_vars
    PROVE  /\ UNCHANGED saved
           /\ \/ RemoveArchive
              \/ RemoveEntry
              \/ UNCHANGED disk /\ (op' = Idle \/ op' = op)
<1>1. op # Idle
  BY IdleType DEF Cleaning
<1> QED
  BY <1>1 DEF Cleaning, Next, CommandStep, vars, Prepare, Return, Scan, Clean, Reopen, Accept,
     CheckFound, CheckMissing, CheckDone, PackageHit, PackageMiss, Download, Extract, LayoutHit,
     LayoutMiss, Derive, RemoveOld, Place, WriteConfig, StartGame, WriteCatalog, CleanDone, Fails,
     GameExit, Touch, TouchArchive, RemoveArchive, RemoveEntry, End

\* Removing begins with Clean.
LEMMA CleanBegins ==
    ASSUME Inductive, [Next]_vars, ~Cleaning, Cleaning'
    PROVE  \E p \in Procs : Clean(p)
<1> USE DEF Inductive
<1>1. op \in Command /\ op.step # "remove" /\ op'.step = "remove"
  BY DEF TypeOK, Cleaning
<1>2. ~UNCHANGED op /\ op' # Idle
  BY <1>1, IdleType
<1>3. ASSUME NEW s \in Steps \ {"remove"}, Goto(s) PROVE FALSE
  BY <1>1, <1>3, StepType DEF Goto
<1>4. ASSUME NEW p \in Procs, NEW cmd \in {"prepare", "launch", "repair", "profile"},
             NEW s \in {"check", "package", "catalog"}, Begin(p, cmd, s)
      PROVE  FALSE
  BY <1>1, <1>4, BeginType DEF Steps
<1>5. ~NextPackage
  BY <1>1 DEF NextPackage, Command
<1>6. ASSUME NEW k, NEW b, Stage(k, b) PROVE FALSE
  BY <1>1, <1>6 DEF Stage, Command
<1>7. ~CheckDone /\ ~Place
  BY <1>1 DEF CheckDone, Place, Command
<1>8. ~RemoveArchive /\ ~RemoveEntry
  BY <1>1 DEF RemoveArchive, RemoveEntry
<1>9. {"fetch", "layout", "derive", "launch"} \subseteq Steps \ {"remove"}
  BY DEF Steps
<1>10. ~CommandStep
  BY <1>2, <1>3, <1>5, <1>6, <1>7, <1>8, <1>9
  DEF CommandStep, CheckFound, CheckMissing, PackageHit, PackageMiss, Download, Extract, LayoutHit,
      LayoutMiss, Derive, RemoveOld, WriteConfig, StartGame, WriteCatalog, CleanDone, End
<1> QED
  BY <1>2, <1>4, <1>10 DEF Next, vars, Prepare, Return, Scan, Reopen, Accept, Fails, GameExit, Touch,
     TouchArchive, End

\* What a saved file needs is referenced.
LEMMA NeededReferenced ==
    ASSUME NEW k \in Keys, Needed(k)
    PROVE  k \in Referenced
BY DEF Needed, Referenced, Named, NamedLayouts

\* Only a candidate's entry changes, and from files that are all as recorded to files
\* that are partly gone.
LEMMA RemoveEntryEffect ==
    ASSUME Inductive, RemoveEntry
    PROVE  /\ UNCHANGED archive /\ Cleaning
           /\ op'.archives = op.archives /\ op'.entries \subseteq op.entries
           /\ \A k \in Keys \ op.entries : entry'[k] = entry[k]
           /\ \A k \in op'.entries :
                 /\ entry'[k] # None /\ ~entry'[k].extra
                 /\ \A f \in Files : entry'[k].file[f] \in {"same", "gone"}
<1> USE DEF Inductive
<1>1. Cleaning /\ op \in Command /\ entry \in [Keys -> Entry \cup {None}]
  BY DEF RemoveEntry, Cleaning, TypeOK
<1>2. PICK k \in op.entries :
         IF Empty(k)
         THEN /\ entry' = [entry EXCEPT ![k] = None]
              /\ op' = [op EXCEPT !.entries = @ \ {k}]
         ELSE /\ UNCHANGED op
              /\ IF \A f \in Files : entry[k].file[f] = "gone"
                 THEN entry' = [entry EXCEPT ![k].receipt = FALSE]
                 ELSE \E f \in Files : /\ entry[k].file[f] # "gone"
                                       /\ entry' = Without(k, f)
  BY DEF RemoveEntry
<1>3. op.entries \subseteq Keys
  BY <1>1 DEF Command
<1>4. \A j \in op.entries : /\ entry[j] # None /\ ~entry[j].extra
                            /\ \A f \in Files : entry[j].file[f] \in {"same", "gone"}
  BY <1>1 DEF CleaningSound
<1>5. CASE Empty(k)
  <2>1. op'.archives = op.archives /\ op'.entries = op.entries \ {k}
    BY <1>1, <1>2, <1>5 DEF Command
  <2>2. \A j \in Keys \ {k} : entry'[j] = entry[j]
    BY <1>1, <1>2, <1>5
  <2> QED
    BY <1>1, <1>3, <1>4, <2>1, <2>2 DEF RemoveEntry
<1>6. CASE ~Empty(k) /\ entry' = [entry EXCEPT ![k].receipt = FALSE]
  <2>1. /\ entry'[k] \in Entry /\ entry'[k].extra = entry[k].extra /\ entry'[k].file = entry[k].file
        /\ \A j \in Keys \ {k} : entry'[j] = entry[j]
    BY <1>1, <1>3, <1>4, <1>6, ReceiptChangeType
  <2>2. op' = op
    BY <1>2, <1>6
  <2>3. entry'[k] # None
    BY <2>1, CacheAssumption
  <2> QED
    BY <1>1, <1>3, <1>4, <2>1, <2>2, <2>3 DEF RemoveEntry
<1>7. ASSUME ~Empty(k), NEW f \in Files, entry' = Without(k, f)
      PROVE  /\ UNCHANGED archive /\ Cleaning
             /\ op'.archives = op.archives /\ op'.entries \subseteq op.entries
             /\ \A j \in Keys \ op.entries : entry'[j] = entry[j]
             /\ \A j \in op'.entries :
                   /\ entry'[j] # None /\ ~entry'[j].extra
                   /\ \A g \in Files : entry'[j].file[g] \in {"same", "gone"}
  <2>1. /\ entry'[k] \in Entry /\ entry'[k].extra = entry[k].extra
        /\ entry'[k].file[f] = "gone"
        /\ \A g \in Files \ {f} : entry'[k].file[g] = entry[k].file[g]
        /\ \A j \in Keys \ {k} : entry'[j] = entry[j]
    <3>1. k \in Keys /\ entry[k] # None /\ "gone" \in FileStates
      BY <1>3, <1>4 DEF FileStates
    <3>2. entry' = [entry EXCEPT ![k].file[f] = "gone"]
      BY <1>7 DEF Without
    <3> QED
      BY <1>1, <3>1, <3>2, FileChangeType
  <2>2. op' = op
    BY <1>2, <1>7
  <2>3. entry'[k] # None
    BY <2>1, CacheAssumption
  <2>4. \A g \in Files : entry'[k].file[g] \in {"same", "gone"}
    BY <1>4, <2>1
  <2> QED
    BY <1>1, <1>3, <1>4, <2>1, <2>2, <2>3, <2>4 DEF RemoveEntry
<1> QED
  BY <1>2, <1>5, <1>6, <1>7

\* What cleanup has left to remove stays unneeded and unmodified: nothing is prepared
\* or saved while it holds the lock.
LEMMA CleaningNext ==
    ASSUME Inductive, [Next]_vars
    PROVE  CleaningSound'
<1> USE DEF Inductive
<1> SUFFICES ASSUME Cleaning' PROVE CleaningSound'
  BY DEF CleaningSound
<1>1. CASE ~Cleaning
  <2>1. PICK p \in Procs : Clean(p)
    BY <1>1, CleanBegins
  <2>2. /\ Scanned.archives \subseteq Hashes \ Referenced
        /\ \A k \in Scanned.entries : k \in Keys \ Referenced /\ entry[k] # None /\ ~entry[k].extra
    BY DEF Scanned, Owns
  <2>3. \A k \in Scanned.entries, f \in Files : entry[k].file[f] = "same"
    BY <2>1 DEF Clean, Unmodified
  <2>4. op'.archives = Scanned.archives /\ op'.entries = Scanned.entries /\ UNCHANGED <<disk, saved>>
    BY <2>1 DEF Clean, Idle
  <2>5. \A k \in Keys : Needed(k)' => Needed(k)
    BY <2>4 DEF Needed, disk, saved
  <2>6. \A k \in Keys : Needed(k)' => k \notin op'.archives \cup op'.entries
    BY <2>2, <2>4, <2>5, NeededReferenced
  <2>7. \A k \in op'.entries : /\ entry'[k] # None /\ ~entry'[k].extra
                               /\ \A f \in Files : entry'[k].file[f] \in {"same", "gone"}
    BY <2>2, <2>3, <2>4 DEF disk
  <2> QED
    BY <2>6, <2>7 DEF CleaningSound
<1>2. CASE Cleaning
  <2>1. \A k \in Keys : Needed(k) => k \notin op.archives \cup op.entries
    BY <1>2 DEF CleaningSound
  <2>2. op \in Command /\ op.entries \subseteq Keys
    BY DEF TypeOK, Command
  <2>3. UNCHANGED saved
    BY <1>2, DuringClean
  <2>4. CASE RemoveArchive
    <3>1. PICK h \in op.archives : op' = [op EXCEPT !.archives = @ \ {h}]
      BY <2>4 DEF RemoveArchive
    <3>2. op'.archives \subseteq op.archives /\ op'.entries = op.entries
      BY <2>2, <3>1 DEF Command
    <3>3. entry' = entry
      BY <2>4 DEF RemoveArchive
    <3>4. \A k \in Keys : Needed(k)' => Needed(k)
      BY <2>3, <3>3 DEF Needed, saved
    <3> QED
      BY <1>2, <2>1, <3>2, <3>3, <3>4 DEF CleaningSound
  <2>5. CASE RemoveEntry
    <3>1. \A j \in config \cap Layouts : entry'[j] = entry[j]
      <4>1. \A j \in config \cap Layouts : j \in Keys /\ Needed(j)
        BY DEF Needed, Keys
      <4> QED
        BY <2>1, <2>5, <4>1, RemoveEntryEffect
    <3>2. \A k \in Keys : Needed(k)' => Needed(k)
      BY <2>3, <3>1 DEF Needed, saved
    <3> QED
      BY <2>1, <2>5, <3>2, RemoveEntryEffect DEF CleaningSound
  <2>6. CASE UNCHANGED disk /\ (op' = Idle \/ op' = op)
    <3>1. op' = op
      BY <2>6, IdleType DEF Cleaning
    <3>2. \A k \in Keys : Needed(k)' => Needed(k)
      BY <2>3, <2>6 DEF Needed, saved, disk
    <3> QED
      BY <1>2, <2>6, <3>1, <3>2 DEF CleaningSound, disk
  <2> QED
    BY <1>2, <2>4, <2>5, <2>6, DuringClean
<1> QED
  BY <1>1, <1>2

-----------------------------------------------------------------------------
(* Preparation.                                                            *)

\* What verifyPackageCache accepts without hashing is what the game can use.
LEMMA VerifiedUsable ==
    ASSUME TypeOK, NEW k \in Keys
    PROVE  /\ Verified(k, FALSE) <=> Usable(k)
           /\ Verified(k, TRUE) => Usable(k)
BY DEF Verified, Usable

\* Nothing is to be shown outside a preparation, nor in the first loop of a repair.
LEMMA PreparedElsewhere ==
    ASSUME \/ op'.step \in {"idle", "check", "catalog", "remove"}
           \/ op'.checking /\ op'.step \in {"check", "fetch", "replace"}
    PROVE  PreparedSoFar'
BY DEF PreparedSoFar, Preparing

\* A preparation that begins has nothing to show.
LEMMA PreparedFirst ==
    ASSUME op'.step = "package", op'.at = 1
    PROVE  PreparedSoFar'
BY DEF PreparedSoFar, Preparing

\* Definition i stays prepared while its entry and the command are the same.
LEMMA DoneKept ==
    ASSUME NEW i, Done(i), Todo' = Todo, op'.cmd = op.cmd,
           entry'[Todo[i].key] = entry[Todo[i].key]
    PROVE  Done(i)'
BY DEF Done, Usable, Verified

\* So do all earlier ones while their entries are.
LEMMA EarlierDoneKept ==
    ASSUME Preparing, PreparedSoFar, Todo' = Todo, op'.cmd = op.cmd,
           \A i \in 1..(op.at - 1) : entry'[Todo[i].key] = entry[Todo[i].key]
    PROVE  \A i \in 1..(op.at - 1) : Done(i)'
BY DoneKept DEF PreparedSoFar

\* A command that goes to another step for the same definition.
LEMMA PreparedGoto ==
    ASSUME Inductive, Preparing, UNCHANGED <<entry, memory>>,
           op'.cmd = op.cmd, op'.proc = op.proc, op'.at = op.at,
           \/ op'.step = "fetch" /\ ~Earlier(Current.hash)
           \/ op'.step = "layout" /\ Usable(Current.hash)
           \/ /\ op'.step = "derive" /\ Usable(Current.hash)
              /\ ~Earlier(Current.key) /\ Current.key \in Layouts
           \/ op'.step = "replace" /\ ~Earlier(op'.target)
    PROVE  PreparedSoFar'
<1>1. Todo' = Todo /\ Current' = Current
  BY DEF Todo, Current
<1>2. \A i \in 1..(op.at - 1) : Done(i)'
  BY <1>1, EarlierDoneKept DEF Inductive
<1>3. \A k : Earlier(k)' <=> Earlier(k)
  BY <1>1 DEF Earlier
<1>4. Usable(Current.hash) => Usable(Current.hash)'
  BY <1>1 DEF Usable
<1> QED
  BY <1>1, <1>2, <1>3, <1>4 DEF PreparedSoFar, Preparing

\* A definition that is not verified is not an earlier one's either.
LEMMA UnverifiedIsNew ==
    ASSUME Inductive, Preparing, NEW k \in Keys,
           \/ ~Verified(k, FALSE)
           \/ k \in Layouts /\ ~Verified(k, op.cmd = "repair")
    PROVE  ~Earlier(k)
<1> SUFFICES ASSUME NEW i \in 1..(op.at - 1), Todo[i].key = k PROVE FALSE
  BY DEF Earlier
<1>1. Done(i)
  BY DEF Inductive, PreparedSoFar
<1>2. Usable(k) /\ (op.cmd = "repair" /\ k \in Layouts => Verified(k, TRUE))
  BY <1>1 DEF Done
<1>3. Verified(k, FALSE)
  BY <1>2, VerifiedUsable DEF Inductive
<1>4. CASE op.cmd = "repair"
  BY <1>2, <1>3, <1>4
<1>5. CASE op.cmd # "repair"
  BY <1>3, <1>5
<1> QED
  BY <1>4, <1>5

\* A command that goes on to the next definition, with this one prepared.
LEMMA PreparedAdvance ==
    ASSUME Inductive, Preparing, UNCHANGED memory, NEW at \in 1..Len(Todo), op.at = at,
           op'.step = "package", op'.cmd = op.cmd, op'.proc = op.proc, op'.at = at + 1,
           \A i \in 1..(at - 1) : entry'[Todo[i].key] = entry[Todo[i].key],
           Done(at)'
    PROVE  PreparedSoFar'
<1>1. Todo' = Todo
  BY DEF Todo
<1>2. \A i \in 1..(at - 1) : Done(i)'
  BY <1>1, EarlierDoneKept DEF Inductive
<1>3. Len(Todo) \in Nat
  BY TodoLength DEF Inductive, Preparing
<1>4. \A i \in 1..(op'.at - 1) : i \in 1..(at - 1) \/ i = at
  BY <1>3
<1> QED
  BY <1>2, <1>4 DEF PreparedSoFar, Preparing

\* What a command has prepared stays prepared: the replacements of a later definition
\* are of other keys, and no other command runs.
LEMMA PreparedNext ==
    ASSUME Inductive, [Next]_vars
    PROVE  PreparedSoFar'
<1> USE DEF Inductive
<1>1. op \in Command /\ entry \in [Keys -> Entry \cup {None}]
  BY DEF TypeOK
<1>2. CASE UNCHANGED <<entry, memory, config, op>>
  <2>1. Todo' = Todo /\ Current' = Current
    BY <1>2 DEF Todo, Current
  <2> QED
    BY <1>2, <2>1 DEF PreparedSoFar, Preparing, Done, Usable, Verified, Earlier
<1>3. CASE op' = Idle
  BY <1>3, IdleType, PreparedElsewhere
<1>4. ASSUME NEW s \in Steps, Goto(s)
      PROVE  /\ op'.step = s /\ op'.cmd = op.cmd /\ op'.proc = op.proc /\ op'.at = op.at
             /\ op'.checking = op.checking
  BY <1>1, <1>4, StepType DEF Goto
<1>5. {"fetch", "layout", "derive", "launch"} \subseteq Steps
  BY DEF Steps
<1>6. ASSUME NEW p \in Procs, NEW cmd \in {"prepare", "launch", "repair"}, Prepare(p, cmd)
      PROVE  PreparedSoFar'
  BY <1>6, BeginType, PreparedElsewhere, PreparedFirst DEF Prepare, Steps
<1>7. ASSUME NEW p \in Procs, Return(p) \/ \E v \in Versions : Accept(p, v)
      PROVE  PreparedSoFar'
  BY <1>7, BeginType, PreparedElsewhere DEF Return, Accept, Steps
<1>8. ASSUME NEW p \in Procs, Clean(p)
      PROVE  PreparedSoFar'
  BY <1>8, PreparedElsewhere DEF Clean, Idle
<1>9. CASE CheckFound
  BY <1>9, AtCurrent, NextPackageFields, PreparedElsewhere DEF CheckFound, CommandSound
<1>10. CASE CheckMissing
  BY <1>4, <1>5, <1>10, PreparedElsewhere DEF CheckMissing, CommandSound
<1>11. CASE CheckDone
  <2>1. op'.step = "package" /\ op'.at = 1
    BY <1>1, <1>11 DEF CheckDone, Command
  <2> QED
    BY <2>1, PreparedFirst
<1>12. CASE PackageHit
  <2>1. Preparing /\ Usable(Current.hash)
    BY <1>12, CurrentKeys, VerifiedUsable DEF PackageHit, Preparing, CommandSound, Keys
  <2> QED
    BY <1>4, <1>5, <1>12, <2>1, PreparedGoto DEF PackageHit, disk, windows
<1>13. CASE PackageMiss
  <2>1. Preparing /\ ~Earlier(Current.hash)
    BY <1>13, CurrentKeys, UnverifiedIsNew DEF PackageMiss, Preparing, CommandSound, Keys
  <2> QED
    BY <1>4, <1>5, <1>13, <2>1, PreparedGoto DEF PackageMiss, disk, windows
<1>14. CASE Download
  BY <1>2, <1>14 DEF Download, saved, windows
<1>15. ASSUME NEW k, NEW b, Stage(k, b)
       PROVE  /\ op'.step = "replace" /\ op'.target = k /\ op'.cmd = op.cmd
              /\ op'.proc = op.proc /\ op'.at = op.at /\ op'.checking = op.checking
  BY <1>1, <1>15 DEF Stage, Command
<1>16. CASE Extract
  <2>1. CASE op.checking
    BY <1>15, <1>16, <2>1, PreparedElsewhere DEF Extract
  <2>2. CASE ~op.checking
    <3>1. Preparing /\ ~Earlier(Current.hash)
      BY <1>16, <2>2 DEF Extract, Preparing, PreparedSoFar
    <3> QED
      BY <1>15, <1>16, <3>1, PreparedGoto DEF Extract, disk, windows
  <2> QED
    BY <2>1, <2>2
<1>17. CASE LayoutHit
  <2>1. Preparing /\ ~op.checking /\ Usable(Current.hash)
    BY <1>17 DEF LayoutHit, Preparing, CommandSound, PreparedSoFar
  <2>2. /\ op.at \in 1..Len(Todo) /\ Current.hash \in Hashes /\ Current.key \in Keys
        /\ Current.key = Current.hash \/ Current.key \in Layouts
    BY <1>17, CurrentKeys DEF LayoutHit
  <2>3. Done(op.at)
    <3>1. CASE Current.key = Current.hash
      <4>1. Current.key \notin Layouts
        BY <2>2, <3>1, CacheAssumption
      <4> QED
        BY <2>1, <3>1, <4>1 DEF Done, Current
    <3>2. CASE Verified(Current.key, op.cmd = "repair")
      <4>1. CASE op.cmd = "repair"
        BY <2>2, <3>2, <4>1, VerifiedUsable DEF Done, Current
      <4>2. CASE op.cmd # "repair"
        BY <2>2, <3>2, <4>2, VerifiedUsable DEF Done, Current
      <4> QED
        BY <4>1, <4>2
    <3> QED
      BY <1>17, <3>1, <3>2 DEF LayoutHit
  <2>4. /\ op'.step = "package" /\ op'.at = op.at + 1 /\ op'.proc = op.proc /\ op'.cmd = op.cmd
        /\ entry' = entry /\ memory' = memory
    BY <1>17, <2>1, <2>2, NextPackageFields DEF LayoutHit, disk, windows
  <2>5. PICK at \in 1..Len(Todo) : at = op.at
    BY <2>2
  <2>6. Todo' = Todo
    BY <2>4 DEF Todo
  <2>7. Done(at)'
    BY <2>3, <2>4, <2>5, <2>6, DoneKept
  <2> QED
    BY <2>1, <2>4, <2>5, <2>7, PreparedAdvance
<1>18. CASE LayoutMiss
  <2>1. Preparing /\ Usable(Current.hash)
    BY <1>18 DEF LayoutMiss, Preparing, CommandSound, PreparedSoFar
  <2>2. Current.key \in Layouts /\ Current.key \in Keys
    BY <1>18, CurrentKeys DEF LayoutMiss
  <2>3. ~Earlier(Current.key)
    BY <1>18, <2>1, <2>2, UnverifiedIsNew DEF LayoutMiss
  <2> QED
    BY <1>4, <1>5, <1>18, <2>1, <2>2, <2>3, PreparedGoto DEF LayoutMiss, disk, windows
<1>19. CASE Derive
  <2>1. Preparing /\ ~Earlier(Current.key)
    BY <1>19 DEF Derive, Preparing, CommandSound, PreparedSoFar
  <2>2. Stage(Current.key, entry[Current.hash].pinned
                           /\ \A f \in Files : entry[Current.hash].file[f] = "same")
    BY <1>19 DEF Derive
  <2>3. /\ op'.step = "replace" /\ op'.target = Current.key /\ op'.cmd = op.cmd
        /\ op'.proc = op.proc /\ op'.at = op.at
    BY <1>15, <2>2
  <2> QED
    BY <1>19, <2>1, <2>3, PreparedGoto DEF Derive, disk, windows
<1>20. ASSUME op.step = "replace", ~op.checking,
              \A j \in Keys \ {op.target} : entry'[j] = entry[j]
       PROVE  \A i \in 1..(op.at - 1) : entry'[Todo[i].key] = entry[Todo[i].key]
  <2> SUFFICES ASSUME NEW i \in 1..(op.at - 1)
               PROVE  entry'[Todo[i].key] = entry[Todo[i].key]
    OBVIOUS
  <2>1. ~Earlier(op.target)
    BY <1>20 DEF PreparedSoFar
  <2>2. Todo[i].key # op.target
    BY <2>1 DEF Earlier
  <2>3. i \in 1..Len(Todo)
    BY <1>20, AtCurrent, TodoLength
  <2>4. Todo[i].key \in Keys
    BY <1>20, <2>3, CurrentType
  <2> QED
    BY <1>20, <2>2, <2>4
<1>21. CASE RemoveOld
  <2>1. op.step = "replace" /\ UNCHANGED <<saved, windows, op>>
    BY <1>21 DEF RemoveOld
  <2>2. CASE op.checking
    BY <2>1, <2>2, PreparedElsewhere
  <2>3. CASE ~op.checking
    <3>1. \A j \in Keys \ {op.target} : entry'[j] = entry[j]
      BY <1>1, <1>21 DEF RemoveOld, Without
    <3>2. Preparing /\ ~Earlier(op.target)
      BY <2>1, <2>3 DEF Preparing, PreparedSoFar
    <3>3. Todo' = Todo
      BY <2>1 DEF windows, Todo
    <3>4. \A i \in 1..(op.at - 1) : Done(i)'
      BY <1>20, <2>1, <2>3, <3>1, <3>2, <3>3, EarlierDoneKept
    <3>5. ~Earlier(op.target)'
      BY <2>1, <3>2, <3>3 DEF Earlier
    <3> QED
      BY <2>1, <3>4, <3>5 DEF PreparedSoFar, Preparing
  <2> QED
    BY <2>2, <2>3
<1>22. CASE Place
  <2>1. /\ op.step = "replace" /\ op.target \in Keys /\ op.pinned \in BOOLEAN
        /\ UNCHANGED <<memory, config>>
    BY <1>22 DEF Place, TypeOK, Command, saved
  <2>2. PICK k \in Keys : k = op.target
    BY <2>1
  <2>3. PICK at \in 1..Len(Todo) : at = op.at
    BY <2>1, CurrentKeys
  <2>4. /\ Todo[at].hash \in Hashes
        /\ k = Todo[at].hash \/ (k = Todo[at].key /\ k \in Layouts)
    BY <2>1, <2>2, <2>3, CurrentKeys DEF CommandSound, Current
  <2>5. /\ entry'[k] # None /\ entry'[k].receipt
        /\ \A f \in Files : entry'[k].file[f] = "same"
        /\ \A j \in Keys \ {k} : entry'[j] = entry[j]
    BY <1>1, <1>22, <2>1, <2>2, PlacedType DEF Place
  <2>6. Usable(k)' /\ Verified(k, TRUE)'
    BY <2>5 DEF Usable, Verified
  <2>7. CASE op.checking
    <3>1. op'.checking /\ op'.step = "check"
      BY <1>1, <1>22, <2>7 DEF Place, Command
    <3> QED
      BY <3>1, PreparedElsewhere
  <2>8. CASE k \in Hashes /\ ~op.checking
    <3>1. op'.step = "layout" /\ op'.at = at /\ op'.cmd = op.cmd /\ op'.proc = op.proc
      BY <1>1, <1>22, <2>2, <2>3, <2>8 DEF Place, Command
    <3>2. Todo' = Todo /\ Current'.hash = k
      BY <2>1, <2>4, <2>8, <3>1, CacheAssumption DEF Todo, Current
    <3>3. Preparing
      BY <2>1, <2>8 DEF Preparing
    <3>4. \A i \in 1..(at - 1) : Done(i)'
      BY <1>20, <2>1, <2>2, <2>3, <2>5, <2>8, <3>1, <3>2, <3>3, EarlierDoneKept
    <3>5. Usable(Current.hash)'
      BY <2>6, <3>2 DEF Usable
    <3> QED
      BY <3>1, <3>4, <3>5 DEF PreparedSoFar, Preparing
  <2>9. CASE k \notin Hashes /\ ~op.checking
    <3>1. op'.step = "package" /\ op'.at = at + 1 /\ op'.cmd = op.cmd /\ op'.proc = op.proc
      BY <1>1, <1>22, <2>2, <2>3, <2>9 DEF Place, Command
    <3>2. Todo' = Todo /\ Todo[at].key = k
      BY <2>1, <2>4, <2>9, <3>1 DEF Todo
    <3>3. Preparing
      BY <2>1, <2>9 DEF Preparing
    <3>4. Done(at)'
      BY <2>6, <3>1, <3>2 DEF Done
    <3> QED
      BY <1>20, <2>1, <2>2, <2>3, <2>5, <2>9, <3>1, <3>3, <3>4, PreparedAdvance
  <2> QED
    BY <2>7, <2>8, <2>9
<1>23. CASE WriteConfig
  <2>1. CASE op.cmd # "launch"
    BY <1>3, <1>23, <2>1 DEF WriteConfig, End
  <2>2. CASE op.cmd = "launch"
    <3>1. op'.step = "launch" /\ entry' = entry
      BY <1>4, <1>5, <1>23, <2>2 DEF WriteConfig, disk
    <3>2. Preparing /\ op.at \in 1..(Len(Todo) + 1) /\ Len(Todo) \in Nat /\ ~More
      BY <1>23, TodoLength DEF WriteConfig, Preparing, CommandSound, TypeOK
    <3>3. \A i \in 1..Len(Todo) : i \in 1..(op.at - 1)
      BY <3>2 DEF More
    <3>4. \A i \in 1..Len(Todo) : Usable(Todo[i].key)
      BY <3>2, <3>3 DEF PreparedSoFar, Done
    <3>5. \A k \in config' : \E i \in 1..Len(Todo) : k = Todo[i].key
      <4>1. op.proc \in Procs
        BY <1>23 DEF WriteConfig, CommandSound
      <4>2. DOMAIN Todo = 1..Len(Todo)
        BY <4>1, CacheAssumption DEF TypeOK, Todo
      <4> QED
        BY <1>23, <4>2 DEF WriteConfig, RootsOf, Todo
    <3>6. \A k \in config' : Usable(k)'
      BY <3>1, <3>4, <3>5 DEF Usable
    <3> QED
      BY <3>1, <3>6 DEF PreparedSoFar, Preparing
  <2> QED
    BY <2>1, <2>2
<1>24. CASE Cleaning
  <2>1. CASE RemoveArchive
    BY <1>1, <2>1, PreparedElsewhere DEF RemoveArchive, Command
  <2>2. CASE RemoveEntry
    BY <1>1, <2>2, PreparedElsewhere DEF RemoveEntry, Command
  <2>3. CASE op' = Idle \/ op' = op
    BY <1>3, <1>24, <2>3, PreparedElsewhere DEF Cleaning
  <2> QED
    BY <1>24, <2>1, <2>2, <2>3, DuringClean
<1>25. ASSUME op = Idle, op' = op PROVE PreparedSoFar'
  BY <1>3, <1>25
<1> QED
  BY <1>2, <1>3, <1>6, <1>7, <1>8, <1>9, <1>10, <1>11, <1>12, <1>13, <1>14, <1>16, <1>17, <1>18,
     <1>19, <1>21, <1>22, <1>23, <1>24, <1>25
  DEF Next, CommandStep, vars, disk, saved, windows, Scan, Reopen, StartGame, WriteCatalog, CleanDone, Fails,
      GameExit, Touch, TouchArchive, RemoveArchive, RemoveEntry, Cleaning, End

-----------------------------------------------------------------------------
(* The theorems about the cache.                                           *)

\* Before the first command there is nothing prepared and nothing to remove.
LEMMA InductiveInit == Init => Inductive
<1> SUFFICES ASSUME Init PROVE Inductive
  OBVIOUS
<1>1. op \in Command /\ op.step = "idle" /\ ~op.checking
  BY IdleType DEF Init
<1>2. MaxEdits \in Nat /\ FirstVersion \in Versions
  BY CacheAssumption
<1>3. archive \in [Hashes -> {"none", "good", "bad"}] /\ entry \in [Keys -> Entry \cup {None}]
  BY DEF Init
<1>4. /\ catalog \in Versions /\ previous \in Versions \cup {None} /\ config \subseteq Keys
      /\ memory \in [Procs -> Versions] /\ game \in BOOLEAN /\ edits \in 0..MaxEdits
  <2>1. catalog \in Versions
    BY <1>2 DEF Init
  <2>2. previous \in Versions \cup {None} /\ config \subseteq Keys
    BY <1>2 DEF Init
  <2>3. memory \in [Procs -> Versions]
    BY <1>2 DEF Init
  <2>4. edits \in 0..MaxEdits
    BY <1>2 DEF Init
  <2>5. game \in BOOLEAN
    BY DEF Init
  <2> QED
    BY <2>1, <2>2, <2>3, <2>4, <2>5
<1>5. TypeOK
  BY <1>1, <1>3, <1>4 DEF TypeOK
<1> QED
  BY <1>1, <1>5
  DEF Inductive, CommandSound, PreparedSoFar, Preparing, CleaningSound, Cleaning

\* Every step keeps the inductive invariant.
LEMMA InductiveNext == Inductive /\ [Next]_vars => Inductive'
BY TypeNext, PreparedNext, CleaningNext DEF Inductive

\* The inductive invariant of the cache: what a command has prepared so far is
\* still there, and what cleanup has left to remove is neither needed nor modified.
THEOREM CacheInductive == Spec => []Inductive
BY InductiveInit, InductiveNext, PTL DEF Spec

\* Every state of the cache and of its commands has its type.
THEOREM CacheTyped == Spec => []TypeOK
<1>1. Inductive => TypeOK
  BY DEF Inductive
<1> QED
  BY <1>1, CacheInductive, PTL

\* No step of a cleanup takes the package, the archive or the layout of a version
\* that a saved file names, for any number of windows, profiles and crashes.
THEOREM ReferencedKeptCorrect == Spec => ReferencedKept
<1>1. Inductive /\ [Next]_vars =>
        (Cleaning => \A k \in Keys : Needed(k) =>
            entry'[k] = entry[k] /\ (k \in Hashes => archive'[k] = archive[k]))
  <2> SUFFICES ASSUME Inductive, [Next]_vars, Cleaning, NEW k \in Keys, Needed(k)
               PROVE  entry'[k] = entry[k] /\ (k \in Hashes => archive'[k] = archive[k])
    OBVIOUS
  <2>1. k \notin op.archives \cup op.entries
    BY DEF Inductive, CleaningSound
  <2>2. archive \in [Hashes -> {"none", "good", "bad"}]
    BY DEF Inductive, TypeOK
  <2>3. CASE RemoveArchive
    BY <2>1, <2>2, <2>3 DEF RemoveArchive
  <2>4. CASE RemoveEntry
    BY <2>1, <2>4, RemoveEntryEffect
  <2>5. CASE UNCHANGED disk
    BY <2>5 DEF disk
  <2> QED
    BY <2>3, <2>4, <2>5, DuringClean
<1> QED
  BY <1>1, CacheInductive, PTL DEF Spec, ReferencedKept

\* No step of a cleanup takes a file of an entry that has an unknown or a modified
\* file, changed write time or not, whenever it was modified.
THEOREM ModifiedKeptCorrect == Spec => ModifiedKept
<1>1. Inductive /\ [Next]_vars =>
        (Cleaning => \A k \in Keys :
            (entry[k] # None /\ (\/ entry[k].extra
                                \/ \E f \in Files : entry[k].file[f] \in {"edited", "decayed"}))
               => entry'[k] = entry[k])
  <2> SUFFICES ASSUME Inductive, [Next]_vars, Cleaning, NEW k \in Keys,
                      \/ entry[k].extra
                      \/ \E f \in Files : entry[k].file[f] \in {"edited", "decayed"}
               PROVE  entry'[k] = entry[k]
    OBVIOUS
  <2>1. k \notin op.entries
    BY DEF Inductive, CleaningSound
  <2>2. CASE RemoveArchive
    BY <2>2 DEF RemoveArchive
  <2>3. CASE RemoveEntry
    BY <2>1, <2>3, RemoveEntryEffect
  <2>4. CASE UNCHANGED disk
    BY <2>4 DEF disk
  <2> QED
    BY <2>2, <2>3, <2>4, DuringClean
<1> QED
  BY <1>1, CacheInductive, PTL DEF Spec, ModifiedKept

\* The game only starts on complete packages and layouts, whatever was cut short,
\* removed, edited or prepared by other windows before.
THEOREM LaunchedOnCompleteCorrect == Spec => LaunchedOnComplete
<1>1. Inductive /\ [Next]_vars => (game' /\ ~game => \A k \in config : Usable(k))
  <2> SUFFICES ASSUME Inductive, [Next]_vars, game', ~game
               PROVE  \A k \in config : Usable(k)
    OBVIOUS
  <2>1. StartGame
    BY DEF Next, CommandStep, vars, Prepare, Return, Scan, Clean, Reopen, Accept, CheckFound,
       CheckMissing, CheckDone, PackageHit, PackageMiss, Download, Extract, LayoutHit, LayoutMiss,
       Derive, RemoveOld, Place, WriteConfig, WriteCatalog, RemoveArchive, RemoveEntry, CleanDone,
       Fails, GameExit, Touch, TouchArchive
  <2> QED
    BY <2>1 DEF StartGame, Inductive, PreparedSoFar
<1> QED
  BY <1>1, CacheInductive, PTL DEF Spec, LaunchedOnComplete

-----------------------------------------------------------------------------
(* What a repair ends with, where no file decays unseen.                   *)

\* Every entry has pinned bytes recorded, and what differs from them shows.
Undecayed ==
    /\ \A k \in Keys : entry[k] # None =>
          entry[k].pinned /\ \A f \in Files : entry[k].file[f] # "decayed"
    /\ op.step = "replace" => op.pinned

\* Without silent decay no step leaves an entry whose bytes are not recorded or whose
\* wrong file does not show.
LEMMA UndecayedNext ==
    ASSUME "rot" \notin Environment, Inductive, Undecayed, [Next]_vars
    PROVE  Undecayed'
<1> USE DEF Inductive
<1>1. op \in Command /\ entry \in [Keys -> Entry \cup {None}]
  BY DEF TypeOK
<1> DEFINE Pinned(e) == e.pinned /\ \A f \in Files : e.file[f] # "decayed"
<1>2. ASSUME NEW k \in Keys, entry[k] # None, NEW f \in Files, NEW state \in FileStates \ {"decayed"},
             entry' = [entry EXCEPT ![k].file[f] = state]
      PROVE  \A j \in Keys : entry'[j] # None => Pinned(entry'[j])
  <2>1. /\ entry'[k].pinned = entry[k].pinned /\ entry'[k].file[f] = state
        /\ \A g \in Files \ {f} : entry'[k].file[g] = entry[k].file[g]
        /\ \A j \in Keys \ {k} : entry'[j] = entry[j]
    BY <1>1, <1>2, FileChangeType
  <2> QED
    BY <1>2, <2>1 DEF Undecayed
<1>3. ASSUME NEW k \in Keys, entry[k] # None, entry' = [entry EXCEPT ![k].receipt = FALSE]
      PROVE  \A j \in Keys : entry'[j] # None => Pinned(entry'[j])
  <2>1. /\ entry'[k].pinned = entry[k].pinned /\ entry'[k].file = entry[k].file
        /\ \A j \in Keys \ {k} : entry'[j] = entry[j]
    BY <1>1, <1>3, ReceiptChangeType
  <2> QED
    BY <1>3, <2>1 DEF Undecayed
<1>4. ASSUME NEW k \in Keys, entry[k] # None, NEW x \in BOOLEAN, entry' = [entry EXCEPT ![k].extra = x]
      PROVE  \A j \in Keys : entry'[j] # None => Pinned(entry'[j])
  <2>1. /\ entry'[k].pinned = entry[k].pinned /\ entry'[k].file = entry[k].file
        /\ \A j \in Keys \ {k} : entry'[j] = entry[j]
    BY <1>1, <1>4, ExtraChangeType
  <2> QED
    BY <1>4, <2>1 DEF Undecayed
<1>5. ASSUME NEW k \in Keys, entry' = [entry EXCEPT ![k] = None]
      PROVE  \A j \in Keys : entry'[j] # None => Pinned(entry'[j])
  BY <1>1, <1>5 DEF Undecayed
<1>6. \A j \in Keys : entry'[j] # None => Pinned(entry'[j])
  <2>1. CASE RemoveOld
    <3>1. op.target \in Keys /\ entry[op.target] # None /\ "gone" \in FileStates \ {"decayed"}
      BY <2>1 DEF RemoveOld, TypeOK, FileStates
    <3> QED
      BY <1>2, <1>3, <1>4, <1>5, <2>1, <3>1 DEF RemoveOld, Without
  <2>2. CASE RemoveEntry
    <3>1. op.entries \subseteq Keys /\ "gone" \in FileStates \ {"decayed"}
      BY <1>1 DEF Command, FileStates
    <3>2. \A k \in op.entries : entry[k] # None
      BY <2>2 DEF RemoveEntry, CleaningSound, Cleaning
    <3> QED
      BY <1>2, <1>3, <1>5, <2>2, <3>1, <3>2 DEF RemoveEntry, Without
  <2>3. CASE Place
    <3>1. op.target \in Keys /\ op.pinned
      BY <2>3 DEF Place, TypeOK, Undecayed
    <3>2. /\ entry'[op.target].pinned
          /\ \A f \in Files : entry'[op.target].file[f] = "same"
          /\ \A j \in Keys \ {op.target} : entry'[j] = entry[j]
      BY <1>1, <2>3, <3>1, PlacedType DEF Place
    <3> QED
      BY <3>2 DEF Undecayed
  <2>4. ASSUME NEW k \in Keys, Touch(k)
        PROVE  \A j \in Keys : entry'[j] # None => Pinned(entry'[j])
    BY <1>2, <1>4, <2>4 DEF Touch
  <2>5. CASE UNCHANGED entry
    BY <2>5 DEF Undecayed
  <2> HIDE DEF Pinned
  <2> QED
    BY <2>1, <2>2, <2>3, <2>4, <2>5
    DEF Next, CommandStep, vars, disk, Prepare, Return, Scan, Clean, Reopen, Accept, CheckFound,
       CheckMissing, CheckDone, PackageHit, PackageMiss, Download, Extract, LayoutHit, LayoutMiss,
       Derive, WriteConfig, StartGame, WriteCatalog, RemoveArchive, CleanDone,
       Fails, GameExit, TouchArchive
<1>7. op'.step = "replace" => op'.pinned
  <2> SUFFICES ASSUME op'.step = "replace" PROVE op'.pinned
    OBVIOUS
  <2>1. CASE Extract
    BY <1>1, <2>1 DEF Extract, Stage, Command
  <2>2. CASE Derive
    <3>1. Current.hash \in Keys /\ Usable(Current.hash)
      BY <2>2, CurrentKeys DEF Derive, PreparedSoFar, Keys
    <3>2. \A f \in Files : entry[Current.hash].file[f] = "same"
      BY <3>1 DEF Usable, Undecayed
    <3>3. entry[Current.hash].pinned
      BY <3>1 DEF Usable, Undecayed
    <3> QED
      BY <1>1, <2>2, <3>2, <3>3 DEF Derive, Stage, Command
  <2>3. CASE op' = op
    BY <2>3 DEF Undecayed
  <2>4. CASE op' = Idle
    BY <2>4, IdleType
  <2>5. \A s \in Steps \ {"replace"} : ~Goto(s)
    <3> SUFFICES ASSUME NEW s \in Steps \ {"replace"}, Goto(s) PROVE FALSE
      OBVIOUS
    <3> QED
      BY <1>1, StepType DEF Goto
  <2>6. \A p \in Procs, cmd \in {"prepare", "launch", "repair", "profile"},
           s \in {"check", "package", "catalog"} : ~Begin(p, cmd, s)
    BY BeginType DEF Steps
  <2>7. ~NextPackage /\ ~CheckDone /\ ~Place
    BY <1>1 DEF NextPackage, CheckDone, Place, Command
  <2>8. \A p \in Procs : ~Clean(p)
    BY DEF Clean, Idle
  <2>9. ~RemoveArchive /\ ~RemoveEntry
    BY <1>1 DEF RemoveArchive, RemoveEntry, Command
  <2>10. {"fetch", "layout", "derive", "launch"} \subseteq Steps \ {"replace"}
    BY DEF Steps
  <2> QED
    BY <2>1, <2>2, <2>3, <2>4, <2>5, <2>6, <2>7, <2>8, <2>9, <2>10
    DEF Next, CommandStep, vars, Prepare, Return, Scan, Reopen, Accept, CheckFound, CheckMissing,
        PackageHit, PackageMiss, Download, LayoutHit, LayoutMiss, RemoveOld, WriteConfig, StartGame,
        WriteCatalog, CleanDone, Fails, GameExit, Touch, TouchArchive, End
<1> QED
  BY <1>6, <1>7 DEF Undecayed

\* Where no file decays unseen, a repair ends with the pinned bytes in every package
\* and layout: silent decay between the raw package's check and the copy of its files
\* into a layout is the only way to the layout that run repaired_layout shows.
THEOREM RepairIsExactWithoutRot == "rot" \notin Environment => (Spec => []RepairIsExact)
<1> SUFFICES ASSUME "rot" \notin Environment PROVE Spec => []RepairIsExact
  OBVIOUS
<1>1. Init => Undecayed
  BY IdleType DEF Init, Undecayed
<1>2. Inductive /\ Undecayed /\ [Next]_vars => Undecayed'
  BY UndecayedNext
<1>3. Inductive /\ Undecayed => RepairIsExact
  <2> SUFFICES ASSUME Inductive, Undecayed, op.cmd = "repair", op.step = "package", ~More,
                      NEW k \in RootsOf(memory[op.proc])
               PROVE  entry[k].pinned /\ \A f \in Files : entry[k].file[f] = "same"
    BY DEF RepairIsExact
  <2>1. op.proc \in Procs /\ op.at \in 1..(Len(Todo) + 1) /\ Len(Todo) \in Nat /\ Preparing
    BY TodoLength DEF Inductive, TypeOK, CommandSound, Preparing
  <2>2. PICK i \in 1..Len(Todo) : k = Todo[i].key
    <3>1. DOMAIN Todo = 1..Len(Todo)
      BY <2>1, CacheAssumption DEF Inductive, TypeOK, Todo
    <3> QED
      BY <3>1 DEF RootsOf, Todo
  <2>3. i \in 1..(op.at - 1)
    BY <2>1, <2>2 DEF More
  <2>4. k \in Keys /\ Usable(k)
    BY <2>1, <2>2, <2>3, CurrentType DEF Inductive, PreparedSoFar, Done
  <2> QED
    BY <2>4 DEF Usable, Undecayed
<1> QED
  BY <1>1, <1>2, <1>3, CacheInductive, PTL DEF Spec
=============================================================================
