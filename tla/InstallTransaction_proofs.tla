---------------------- MODULE InstallTransaction_proofs ----------------------
(***************************************************************************)
(* Proofs about InstallTransaction, for every value of its constants; the  *)
(* second half: it keeps the user's files and what AtomicInstall promises. *)
(***************************************************************************)
EXTENDS InstallTransaction, FiniteSetTheorems, TLAPS

-----------------------------------------------------------------------------
(* Type correctness. *)

\* An order of the records is a sequence of different paths, however many
\* files the old and the new inventory share.
LEMMA OrderType ==
    ASSUME TypeOK, NEW b \in Builds, NEW o \in Orders(b)
    PROVE  /\ o \in Seq(Paths)
           /\ DOMAIN o = 1..Len(o)
           /\ Len(o) \in Nat
           /\ \A i, j \in DOMAIN o : o[i] = o[j] => i = j
<1> DEFINE touched == Shipped(b) \cup Dropped(b) \cup {Manifest[KindOf[b]]}
           n == Cardinality(touched)
<1>1. KindOf[b] \in Kinds /\ Manifest[KindOf[b]] \in Paths /\ Inventory[b] \in Seq(Paths)
  BY BuildAssumption
<1>2. Shipped(b) \subseteq Paths
  BY <1>1 DEF Shipped
<1>3. Dropped(b) \subseteq Paths
  BY <1>1, BuildAssumption DEF Dropped
<1>4. touched \subseteq Paths
  BY <1>1, <1>2, <1>3
<1>5. n \in Nat
  BY <1>4, BuildAssumption, FS_Subset, FS_CardinalityType
<1>6. o \in [1..n -> touched] /\ \A i, j \in 1..n : o[i] = o[j] => i = j
  BY DEF Orders
<1>7. o \in [1..n -> Paths]
  BY <1>4, <1>6
<1> QED
  <2>1. ASSUME NEW m \in Nat, NEW f \in [1..m -> Paths]
        PROVE  f \in Seq(Paths) /\ DOMAIN f = 1..m /\ Len(f) = m
    OBVIOUS
  <2> QED
    BY <1>5, <1>6, <1>7, <2>1

\* The command in progress keeps its type, and its caller, when it moves on
\* to another record or transaction.
LEMMA MoveType ==
    ASSUME op \in Command, NEW s \in Steps, NEW t \in Ids \cup {0}, NEW i \in Int,
           Move(s, t, i)
    PROVE  /\ op' \in Command
           /\ op'.step = s /\ op'.tx = t /\ op'.at = i
           /\ op'.caller = op.caller /\ op'.proc = op.proc /\ op'.build = op.build
BY DEF Move, Command

\* The same when it moves on with the same record.
LEMMA GotoType ==
    ASSUME op \in Command, NEW s \in Steps, Goto(s)
    PROVE  /\ op' \in Command
           /\ op'.step = s /\ op'.tx = op.tx /\ op'.at = op.at
           /\ op'.caller = op.caller /\ op'.proc = op.proc /\ op'.build = op.build
BY DEF Goto, Move, Command

\* A command that takes the lock is well typed.
LEMMA BeginType ==
    ASSUME NEW s \in Steps, NEW c \in {"open", "install", "undo", "rollback"},
           NEW p \in Procs, NEW t \in Ids \cup {0}, NEW b \in Builds \cup {NoBuild},
           Begin(s, c, p, t, b)
    PROVE  /\ op' \in Command
           /\ op'.step = s /\ op'.tx = t /\ op'.caller = c /\ op'.proc = p
           /\ op'.build = b
BY DEF Begin, Command

\* No command: the lock is free.
LEMMA IdleType ==
    /\ Idle \in Command
    /\ Idle.step = "idle" /\ Idle.caller = "none" /\ Idle.tx = 0
BY DEF Idle, Command, Steps

\* The marker files change neither the journal nor the copies.
LEMMA MarkType ==
    ASSUME TypeOK, NEW t,
           \/ backup' = [backup EXCEPT ![t].written = TRUE]
           \/ backup' = [backup EXCEPT ![t].complete = TRUE]
           \/ backup' = [backup EXCEPT ![t].restoring = TRUE]
           \/ backup' = [backup EXCEPT ![t].rolledBack = TRUE]
    PROVE  /\ backup' \in [Ids -> Backup]
           /\ \A u \in Ids : /\ backup'[u].journal = backup[u].journal
                             /\ backup'[u].saved = backup[u].saved
                             /\ backup'[u].kind = backup[u].kind
                             /\ u # t => backup'[u] = backup[u]
<1>1. ASSUME NEW b \in Backup
      PROVE  /\ [b EXCEPT !.written = TRUE] \in Backup
             /\ [b EXCEPT !.complete = TRUE] \in Backup
             /\ [b EXCEPT !.restoring = TRUE] \in Backup
             /\ [b EXCEPT !.rolledBack = TRUE] \in Backup
  BY DEF Backup
<1>2. backup' \in [Ids -> Backup]
  <2>1. backup \in [Ids -> Backup]
    BY DEF TypeOK
  <2>2. CASE backup' = [backup EXCEPT ![t].written = TRUE]
    BY <1>1, <2>1, <2>2
  <2>3. CASE backup' = [backup EXCEPT ![t].complete = TRUE]
    BY <1>1, <2>1, <2>3
  <2>4. CASE backup' = [backup EXCEPT ![t].restoring = TRUE]
    BY <1>1, <2>1, <2>4
  <2>5. CASE backup' = [backup EXCEPT ![t].rolledBack = TRUE]
    BY <1>1, <2>1, <2>5
  <2> QED
    BY <2>2, <2>3, <2>4, <2>5
<1>3. ASSUME NEW u \in Ids PROVE u # t => backup'[u] = backup[u]
  BY DEF TypeOK
<1>4. ASSUME NEW u \in Ids, u = t
      PROVE  /\ backup'[u].journal = backup[u].journal
             /\ backup'[u].saved = backup[u].saved
             /\ backup'[u].kind = backup[u].kind
  <2>1. \/ backup'[u] = [backup[u] EXCEPT !.written = TRUE]
        \/ backup'[u] = [backup[u] EXCEPT !.complete = TRUE]
        \/ backup'[u] = [backup[u] EXCEPT !.restoring = TRUE]
        \/ backup'[u] = [backup[u] EXCEPT !.rolledBack = TRUE]
    BY <1>4 DEF TypeOK
  <2>2. backup[u] \in Backup
    BY DEF TypeOK
  <2> QED
    BY <2>1, <2>2 DEF Backup
<1> QED
  BY <1>2, <1>3, <1>4

\* A root without backups, no launcher and no game running, is well typed.
LEMMA TypeInit == Init => TypeOK
<1> USE IdentityAssumption, BuildAssumption
<1>1. Blank \in Backup
  <2>1. <<>> \in Seq(Entry)
    OBVIOUS
  <2> QED
    BY <2>1 DEF Blank, Backup, Kinds, Stored, Published
<1>2. InitialFiles \in [Paths -> Stored]
  BY DEF Stored
<1>3. ASSUME Init PROVE CommandOK
  BY <1>3, IdleType DEF Init, CommandOK
<1>4. ASSUME Init PROVE backup \in [Ids -> Backup] /\ made \in 0..MaxTx
  BY <1>1, <1>4 DEF Init
<1> QED
  BY <1>2, <1>3, <1>4, IdleType DEF Init, TypeOK

\* What Plan makes of an order of the records is a backup, with one record a
\* path and a copy of every file that was there.
LEMMA PlannedType ==
    ASSUME TypeOK, NEW b \in Builds, NEW o \in Orders(b)
    PROVE  /\ Planned(b, o) \in Backup
           /\ DOMAIN Planned(b, o).journal = DOMAIN o
           /\ \A i \in DOMAIN o :
                 /\ Planned(b, o).journal[i].path = o[i]
                 /\ Planned(b, o).journal[i].before = files[o[i]]
                 /\ Planned(b, o).saved[o[i]] = files[o[i]]
           /\ ~Planned(b, o).written /\ ~Planned(b, o).complete
           /\ ~Planned(b, o).rolledBack
<1> USE IdentityAssumption, BuildAssumption
<1> DEFINE entry(i) == [path |-> o[i], before |-> files[o[i]], after |-> Image[b][o[i]]]
           j == [i \in DOMAIN o |-> entry(i)]
           c == [p \in Paths |-> IF \E i \in DOMAIN o : o[i] = p THEN files[p] ELSE Absent]
<1>1. o \in Seq(Paths) /\ DOMAIN o = 1..Len(o) /\ Len(o) \in Nat
  BY OrderType
<1>2. ASSUME NEW i \in DOMAIN o PROVE o[i] \in Paths /\ entry(i) \in Entry
  <2>1. o[i] \in Paths
    BY <1>1
  <2>2. files[o[i]] \in Stored /\ Image[b][o[i]] \in Stored
    BY <2>1 DEF TypeOK, Stored
  <2> QED
    BY <2>1, <2>2 DEF Entry
<1>3. j \in Seq(Entry)
  <2>1. j \in [1..Len(o) -> Entry]
    BY <1>1, <1>2
  <2> QED
    BY <1>1, <2>1
<1>4. c \in [Paths -> Stored]
  BY DEF TypeOK, Stored, Published
<1>5. KindOf[b] \in Kinds
  OBVIOUS
<1>6. Planned(b, o) \in Backup
  BY <1>3, <1>4, <1>5 DEF Planned, Backup
<1>7. ASSUME NEW i \in DOMAIN o PROVE c[o[i]] = files[o[i]]
  BY <1>2, <1>7
<1>8. Planned(b, o).journal = j /\ Planned(b, o).saved = c
  BY DEF Planned
<1>9. ~Planned(b, o).written /\ ~Planned(b, o).complete /\ ~Planned(b, o).rolledBack
  BY DEF Planned
<1>10. DOMAIN j = DOMAIN o /\ \A i \in DOMAIN o : j[i] = entry(i)
  OBVIOUS
<1>11. ASSUME NEW i \in DOMAIN o
       PROVE  j[i].path = o[i] /\ j[i].before = files[o[i]]
  BY <1>10, <1>11
<1> HIDE DEF j, c
<1> QED
  BY <1>6, <1>7, <1>8, <1>9, <1>10, <1>11

\* Each step of a command, and each disturbance, keeps the types.
LEMMA TypeNext == TypeOK /\ [Next]_vars => TypeOK'
<1> SUFFICES ASSUME TypeOK, [Next]_vars PROVE TypeOK'
  OBVIOUS
<1> USE IdentityAssumption, BuildAssumption, IdleType
<1>op. op \in Command
  BY DEF TypeOK
<1>steps. Steps = {"idle", "recover", "plan", "journal", "apply", "receipt",
                   "validate", "restoring", "restore", "forget"}
  BY DEF Steps
<1>1. CASE UNCHANGED vars
  BY <1>1 DEF vars, TypeOK, CommandOK
<1>2. ASSUME NEW p \in Procs, Open(p) PROVE TypeOK'
  <2>1. op' \in Command /\ op'.step = "recover" /\ op'.caller = "open" /\ op'.proc = p
    BY <1>2, <1>steps, BeginType, SMTT(30) DEF Open
  <2> QED
    BY <1>2, <2>1 DEF Open, TypeOK, CommandOK
<1>3. ASSUME NEW p \in Procs, Close(p) \/ Play(p) PROVE TypeOK'
  BY <1>3 DEF Close, Play, TypeOK, CommandOK
<1>4. ASSUME NEW p \in Procs, NEW b \in Builds, Install(p, b) PROVE TypeOK'
  <2>1. op' \in Command /\ op'.step = "recover" /\ op'.caller = "install"
        /\ op'.proc = p /\ op'.build = b
    BY <1>4, <1>steps, BeginType, ZenonT(40) DEF Install
  <2> QED
    BY <1>4, <2>1 DEF Install, TypeOK, CommandOK
<1>5. ASSUME NEW p \in Procs, NEW t \in 1..made, Rollback(p, t) PROVE TypeOK'
  <2>1. t \in Ids
    BY DEF TypeOK, Ids
  <2>2. op' \in Command /\ op'.step = "validate" /\ op'.caller = "rollback"
        /\ op'.proc = p /\ op'.tx = t
    BY <1>5, <1>steps, <2>1, BeginType DEF Rollback
  <2> QED
    BY <1>5, <2>1, <2>2 DEF Rollback, TypeOK, CommandOK
<1>6. CASE RecoverNext
  <2>1. PICK t \in Pending : Move("validate", t, 0)
    BY <1>6 DEF RecoverNext
  <2>2. t \in Ids
    BY DEF Pending, TypeOK, Ids
  <2>3. op' \in Command /\ op'.step = "validate" /\ op'.tx = t /\ op'.proc = op.proc
        /\ op'.caller = op.caller /\ op'.build = op.build
    BY <1>op, <1>steps, <2>1, <2>2, MoveType
  <2> QED
    BY <1>6, <2>2, <2>3 DEF RecoverNext, TypeOK, CommandOK
<1>7. CASE RecoverRefused \/ Abandon \/ Refuse \/ WriteFails
  BY <1>7 DEF RecoverRefused, Abandon, Refuse, WriteFails, Fail, TypeOK, CommandOK
<1>8. CASE RecoverDone
  <2>1. CASE op.caller = "open"
    BY <1>8, <2>1 DEF RecoverDone, TypeOK, CommandOK
  <2>2. CASE op.caller # "open"
    <3>1. op' \in Command /\ op'.step = "plan" /\ op'.proc = op.proc
          /\ op'.caller = op.caller /\ op'.build = op.build
      BY <1>8, <1>op, <1>steps, <2>2, GotoType DEF RecoverDone
    <3> QED
      BY <1>8, <2>2, <3>1 DEF RecoverDone, TypeOK, CommandOK
  <2> QED
    BY <2>1, <2>2
<1>9. CASE Plan
  <2>1. op.build \in Builds /\ made + 1 \in Ids /\ made' = made + 1
    BY <1>9 DEF Plan, TypeOK, CommandOK, Ids
  <2>2. PICK o \in Orders(op.build) :
           backup' = [backup EXCEPT ![made + 1] = Planned(op.build, o)]
    BY <1>9 DEF Plan
  <2>3. Planned(op.build, o) \in Backup
    BY <2>1, PlannedType
  <2>4. backup' \in [Ids -> Backup] /\ made' \in 0..MaxTx
    BY <2>1, <2>2, <2>3 DEF TypeOK, Ids
  <2>5. op' \in Command /\ op'.step = "journal" /\ op'.tx = made + 1
        /\ op'.proc = op.proc /\ op'.caller = op.caller /\ op'.build = op.build
    BY <1>9, <1>op, <1>steps, <2>1, MoveType DEF Plan
  <2> QED
    BY <1>9, <2>1, <2>4, <2>5 DEF Plan, TypeOK, CommandOK
<1>10. CASE WriteJournal
  <2>1. op.tx \in Ids /\ Len(backup[op.tx].journal) \in Nat
    BY <1>10 DEF WriteJournal, TypeOK, CommandOK, Backup
  <2>2. backup' \in [Ids -> Backup] /\ backup'[op.tx].journal = backup[op.tx].journal
    <3>1. backup \in [Ids -> Backup]
      BY DEF TypeOK
    <3>2. backup' = [backup EXCEPT ![op.tx].written = TRUE]
      BY <1>10 DEF WriteJournal
    <3> QED
      BY <2>1, <3>1, <3>2, MarkType
  <2>3. op' \in Command /\ op'.step = "apply" /\ op'.at = 1 /\ op'.tx = op.tx
        /\ op'.proc = op.proc /\ op'.caller = op.caller /\ op'.build = op.build
    BY <1>10, <1>op, <1>steps, <2>1, MoveType DEF WriteJournal
  <2> QED
    BY <1>10, <2>1, <2>2, <2>3 DEF WriteJournal, TypeOK, CommandOK
<1>11. CASE ApplyFile
  <2> DEFINE r == backup[op.tx].journal[op.at]
  <2>1. op.tx \in Ids /\ backup[op.tx].journal \in Seq(Entry)
    BY <1>11 DEF ApplyFile, TypeOK, CommandOK, Backup
  <2>2. op.at \in 1..Len(backup[op.tx].journal)
    BY <1>11, <1>op, <2>1 DEF ApplyFile, TypeOK, CommandOK, Command
  <2>3. r \in Entry
    BY <2>1, <2>2
  <2>4. files' \in [Paths -> Stored]
    BY <1>11, <2>3 DEF ApplyFile, TypeOK, Entry
  <2>5. op.at + 1 \in Int /\ op.tx \in Ids \cup {0}
    BY <2>1, <2>2
  <2>6. op' \in Command /\ op'.step = "apply" /\ op'.at = op.at + 1 /\ op'.tx = op.tx
        /\ op'.proc = op.proc /\ op'.caller = op.caller /\ op'.build = op.build
    BY <1>11, <1>op, <1>steps, <2>5, MoveType DEF ApplyFile
  <2>7. op'.at \in 1..(Len(backup[op.tx].journal) + 1)
    BY <2>1, <2>2, <2>6
  <2> QED
    BY <1>11, <2>1, <2>4, <2>6, <2>7 DEF ApplyFile, TypeOK, CommandOK
<1>12. CASE ApplyFails
  <2>1. op.tx \in Ids /\ op.proc \in Procs /\ op.build \in Builds \cup {NoBuild}
    BY <1>12 DEF ApplyFails, TypeOK, CommandOK, Command
  <2>2. op' \in Command /\ op'.step = "validate" /\ op'.caller = "undo"
        /\ op'.proc = op.proc /\ op'.tx = op.tx
    BY <1>12, <1>steps, <2>1, BeginType DEF ApplyFails
  <2> QED
    BY <1>12, <2>1, <2>2 DEF ApplyFails, TypeOK, CommandOK
<1>13. CASE Commit
  <2>1. backup' \in [Ids -> Backup]
    BY <1>13, MarkType DEF Commit, TypeOK
  <2>2. op' \in Command /\ op'.step = "receipt" /\ op'.proc = op.proc
        /\ op'.caller = op.caller /\ op'.build = op.build
    BY <1>13, <1>op, <1>steps, GotoType DEF Commit
  <2> QED
    BY <1>13, <2>1, <2>2 DEF Commit, TypeOK, CommandOK
<1>14. CASE WriteReceipt
  <2>1. receipt' \in [Kinds -> Builds \cup {NoBuild}]
    BY <1>14, <1>op DEF WriteReceipt, TypeOK, Command
  <2> QED
    BY <1>14, <2>1 DEF WriteReceipt, TypeOK, CommandOK
<1>15. CASE Validate
  <2>1. op' \in Command /\ op'.step = "restoring" /\ op'.proc = op.proc
        /\ op'.caller = op.caller /\ op'.build = op.build /\ op'.tx = op.tx
    BY <1>15, <1>op, <1>steps, GotoType DEF Validate
  <2> QED
    BY <1>15, <2>1 DEF Validate, TypeOK, CommandOK
<1>16. CASE MarkRestoring
  <2>1. op.tx \in Ids /\ Len(backup[op.tx].journal) \in Nat
    BY <1>16 DEF MarkRestoring, TypeOK, CommandOK, Backup
  <2>2. backup' \in [Ids -> Backup] /\ backup'[op.tx].journal = backup[op.tx].journal
    <3>1. backup \in [Ids -> Backup]
      BY DEF TypeOK
    <3>2. backup' = [backup EXCEPT ![op.tx].restoring = TRUE]
      BY <1>16 DEF MarkRestoring
    <3> QED
      BY <2>1, <3>1, <3>2, MarkType
  <2>3. op' \in Command /\ op'.step = "restore" /\ op'.tx = op.tx
        /\ op'.at = Len(backup[op.tx].journal)
        /\ op'.proc = op.proc /\ op'.caller = op.caller /\ op'.build = op.build
    BY <1>16, <1>op, <1>steps, <2>1, MoveType DEF MarkRestoring
  <2> QED
    BY <1>16, <2>1, <2>2, <2>3 DEF MarkRestoring, TypeOK, CommandOK
<1>17. CASE RestoreFile
  <2> DEFINE r == backup[op.tx].journal[op.at]
  <2>1. op.tx \in Ids /\ backup[op.tx].journal \in Seq(Entry)
        /\ backup[op.tx].saved \in [Paths -> Stored]
    BY <1>17 DEF RestoreFile, TypeOK, CommandOK, Backup
  <2>2. op.at \in 1..Len(backup[op.tx].journal)
    BY <1>17, <1>op, <2>1 DEF RestoreFile, TypeOK, CommandOK, Command
  <2>3. r.path \in Paths
    <3>1. r \in Entry
      BY <2>1, <2>2
    <3> QED
      BY <3>1 DEF Entry
  <2>4. backup[op.tx].saved[r.path] \in Stored /\ Absent \in Stored
    BY <2>1, <2>3 DEF Stored, Published
  <2>5. files' \in [Paths -> Stored]
    BY <1>17, <2>4 DEF RestoreFile, TypeOK
  <2>6. op.at - 1 \in Int /\ op.tx \in Ids \cup {0}
    BY <2>1, <2>2
  <2>7. op' \in Command /\ op'.step = "restore" /\ op'.at = op.at - 1 /\ op'.tx = op.tx
        /\ op'.proc = op.proc /\ op'.caller = op.caller /\ op'.build = op.build
    BY <1>17, <1>op, <1>steps, <2>6, MoveType DEF RestoreFile
  <2>8. op'.at \in 0..Len(backup[op.tx].journal)
    BY <2>1, <2>2, <2>7
  <2> QED
    BY <1>17, <2>1, <2>5, <2>7, <2>8 DEF RestoreFile, TypeOK, CommandOK
<1>18. CASE RemoveReceipt
  <2>1. op' \in Command /\ op'.step = "forget" /\ op'.proc = op.proc
        /\ op'.caller = op.caller /\ op'.build = op.build /\ op'.tx = op.tx
    BY <1>18, <1>op, <1>steps, GotoType DEF RemoveReceipt
  <2> QED
    BY <1>18, <2>1 DEF RemoveReceipt, TypeOK, CommandOK
<1>19. CASE MarkRolledBack
  <2>1. backup' \in [Ids -> Backup]
    BY <1>19, MarkType DEF MarkRolledBack, TypeOK
  <2>2. CASE op.caller \in {"open", "install"}
    <3>1. op' \in Command /\ op'.step = "recover" /\ op'.proc = op.proc
          /\ op'.caller = op.caller /\ op'.build = op.build
      <4>1. Move("recover", 0, 0)
        BY <1>19, <2>2 DEF MarkRolledBack
      <4>2. "recover" \in Steps /\ 0 \in Ids \cup {0} /\ 0 \in Int
        BY <1>steps
      <4> QED
        BY <1>op, <4>1, <4>2, MoveType
    <3> QED
      BY <1>19, <2>1, <2>2, <3>1 DEF MarkRolledBack, TypeOK, CommandOK
  <2>3. CASE op.caller \notin {"open", "install"}
    BY <1>19, <2>1, <2>3 DEF MarkRolledBack, TypeOK, CommandOK
  <2> QED
    BY <2>2, <2>3
<1>20. CASE Crash
  BY <1>20 DEF Crash, TypeOK, CommandOK
<1>21. CASE GameExit
  BY <1>21 DEF GameExit, TypeOK, CommandOK
<1>22. ASSUME NEW p \in Editable, NEW c \in UserContents, Edit(p, c) PROVE TypeOK'
  BY <1>22 DEF Edit, TypeOK, CommandOK, Stored, Published
<1>23. ASSUME NEW t \in 1..made, NEW p \in Paths, Damage(t, p) PROVE TypeOK'
  <2>1. t \in Ids /\ backup[t] \in Backup
    BY DEF TypeOK, Ids
  <2>2. [backup[t] EXCEPT !.saved[p] = Damaged] \in Backup
    BY <2>1 DEF Backup, Stored
  <2>3. backup' \in [Ids -> Backup]
    BY <1>23, <2>1, <2>2 DEF Damage, TypeOK
  <2> QED
    BY <1>23, <2>3 DEF Damage, TypeOK, CommandOK
<1> QED
  BY <1>1, <1>2, <1>3, <1>4, <1>5, <1>6, <1>7, <1>8, <1>9, <1>10, <1>11, <1>12,
     <1>13, <1>14, <1>15, <1>16, <1>17, <1>18, <1>19, <1>20, <1>21, <1>22, <1>23
  DEF Next, CommandStep

\* Every reachable state is well typed, whatever fails: in particular no step
\* works on a transaction that has no directory.
THEOREM TypeCorrect == Spec => []TypeOK
BY TypeInit, TypeNext, PTL DEF Spec

-----------------------------------------------------------------------------
(***************************************************************************)
(* Recovery is always possible.  PendingRecoverable is not inductive: that *)
(* a file holds the old or the new bytes says nothing of the next step     *)
(* unless each path has one record, the copies are those recorded, no      *)
(* second transaction is pending, and the command at work knows that the   *)
(* transaction it writes is the pending one.                               *)
(***************************************************************************)

\* The launcher is reopened before an older update is rolled back over an
\* interrupted one.
SafeEnvironment == "rollbackOverPending" \notin Environment

\* The old bytes, the new ones, or an edit of the user's.
EntryKnown(r) == files[r.path] \in {r.before, r.after} \cup UserContents

AllKnown(t) == \A i \in DOMAIN backup[t].journal : EntryKnown(backup[t].journal[i])

\* The copies are those recorded.
CopiesSound(t) ==
    \A i \in DOMAIN backup[t].journal :
        backup[t].journal[i].before # Absent =>
           backup[t].saved[backup[t].journal[i].path] = backup[t].journal[i].before

\* Each path has one record; only damage from outside spoils a copy.
JournalSound(t) ==
    /\ \A i, k \in DOMAIN backup[t].journal :
          backup[t].journal[i].path = backup[t].journal[k].path => i = k
    /\ "damage" \notin Environment => CopiesSound(t)

JournalsSound == \A t \in 1..made : JournalSound(t)

CompleteIsWritten == \A t \in 1..made : backup[t].complete => backup[t].written

PendingKnown == \A t \in Pending : AllKnown(t)

\* What each step of a command knows of the transaction it works on.
StepSound ==
    /\ op.step \in {"plan", "journal"} => Pending = {}
    /\ op.step = "journal" => /\ op.tx \in 1..made
                              /\ ~backup[op.tx].complete
                              /\ ~backup[op.tx].rolledBack
                              /\ AllKnown(op.tx)
    /\ op.step = "apply" => op.tx \in Pending
    /\ op.step \in {"validate", "restoring", "restore", "forget"} =>
          /\ op.tx \in 1..made
          /\ backup[op.tx].written
          /\ ~backup[op.tx].rolledBack
          /\ Pending \subseteq {op.tx}
    /\ op.step = "restoring" => AllKnown(op.tx)
    /\ op.step \in {"restoring", "restore"} => CopiesSound(op.tx)
    /\ op.step \in {"restore", "forget"} => op.tx \in Pending

Inductive ==
    /\ JournalsSound
    /\ CompleteIsWritten
    /\ SinglePending
    /\ PendingKnown
    /\ StepSound

\* Without backups nothing is pending and no journal is unsound.
LEMMA InductiveInit == Init => Inductive
BY IdleType
DEF Init, Inductive, JournalsSound, CompleteIsWritten, SinglePending, PendingKnown,
    StepSound, Pending

\* A step that leaves the root and the backups alone keeps all but StepSound.
LEMMA Frozen ==
    ASSUME UNCHANGED <<files, backup, made>>
    PROVE  /\ Pending' = Pending
           /\ \A t : AllKnown(t) => AllKnown(t)'
           /\ \A t : CopiesSound(t) => CopiesSound(t)'
           /\ JournalsSound => JournalsSound'
           /\ CompleteIsWritten => CompleteIsWritten'
           /\ SinglePending => SinglePending'
           /\ PendingKnown => PendingKnown'
<1>1. Pending' = Pending
  BY DEF Pending, IsPending
<1>2. ASSUME NEW t, AllKnown(t) PROVE AllKnown(t)'
  BY <1>2 DEF AllKnown, EntryKnown
<1>3. JournalsSound => JournalsSound'
  BY DEF JournalsSound, JournalSound, CopiesSound
<1>4. CompleteIsWritten => CompleteIsWritten'
  BY DEF CompleteIsWritten
<1>5. ASSUME NEW t, CopiesSound(t) PROVE CopiesSound(t)'
  BY <1>5 DEF CopiesSound
<1> QED
  BY <1>1, <1>2, <1>3, <1>4, <1>5 DEF SinglePending, PendingKnown

\* A step that replaces one file keeps what is known of a transaction if the
\* file's new bytes are known.
LEMMA FileReplaced ==
    ASSUME TypeOK, NEW p \in Paths, NEW c, NEW t \in 1..made,
           files' = [files EXCEPT ![p] = c],
           backup' = backup,
           AllKnown(t),
           \A i \in DOMAIN backup[t].journal :
              backup[t].journal[i].path = p =>
                 c \in {backup[t].journal[i].before, backup[t].journal[i].after}
                          \cup UserContents
    PROVE  AllKnown(t)'
<1>1. SUFFICES ASSUME NEW i \in DOMAIN backup[t].journal
               PROVE  EntryKnown(backup[t].journal[i])'
  BY DEF AllKnown
<1>2. EntryKnown(backup[t].journal[i])
  BY DEF AllKnown
<1>3. files'[backup[t].journal[i].path] =
         IF backup[t].journal[i].path = p THEN c ELSE files[backup[t].journal[i].path]
  <2>1. t \in Ids
    BY IdentityAssumption DEF TypeOK, Ids
  <2>2. backup[t].journal \in Seq(Entry)
    BY <2>1 DEF TypeOK, Backup
  <2>3. backup[t].journal[i] \in Entry
    BY <2>2
  <2>4. backup[t].journal[i].path \in Paths
    BY <2>3 DEF Entry
  <2> QED
    BY <2>4 DEF TypeOK
<1> QED
  BY <1>2, <1>3 DEF EntryKnown

\* A step that only adds a marker file to t keeps the journals and what is
\* known of them, and leaves every other transaction as pending as it was.
LEMMA Marked ==
    ASSUME TypeOK, NEW t \in 1..made, UNCHANGED <<files, made>>,
           \/ backup' = [backup EXCEPT ![t].written = TRUE]
           \/ backup' = [backup EXCEPT ![t].complete = TRUE]
           \/ backup' = [backup EXCEPT ![t].restoring = TRUE]
           \/ backup' = [backup EXCEPT ![t].rolledBack = TRUE]
    PROVE  /\ JournalsSound => JournalsSound'
           /\ \A u \in 1..made : AllKnown(u) => AllKnown(u)'
           /\ \A u \in 1..made : CopiesSound(u) => CopiesSound(u)'
           /\ Pending' \subseteq Pending \cup {t}
           /\ \A u \in Pending : u # t => u \in Pending'
<1>1. 1..made \subseteq Ids
  BY IdentityAssumption DEF TypeOK, Ids
<1>2. \A u \in 1..made : /\ backup'[u].journal = backup[u].journal
                         /\ backup'[u].saved = backup[u].saved
                         /\ u # t => backup'[u] = backup[u]
  BY <1>1, MarkType
<1>3. JournalsSound => JournalsSound'
  BY <1>2 DEF JournalsSound, JournalSound, CopiesSound
<1>4. \A u \in 1..made : AllKnown(u) => AllKnown(u)'
  BY <1>2 DEF AllKnown, EntryKnown
<1>5. \A u \in 1..made : u # t => (IsPending(u) <=> IsPending(u)')
  BY <1>2 DEF IsPending
<1>6. \A u \in 1..made : CopiesSound(u) => CopiesSound(u)'
  BY <1>2 DEF CopiesSound
<1> QED
  BY <1>3, <1>4, <1>5, <1>6 DEF Pending

\* Each step keeps the invariant: Plan establishes the journals, RecoverDone
\* that nothing is pending, Restorable that a restore may write.
LEMMA InductiveNext ==
    ASSUME SafeEnvironment, TypeOK, TypeOK', Inductive, [Next]_vars
    PROVE  Inductive'
<1> USE IdentityAssumption, BuildAssumption, EditAssumption
<1>idle. Idle.step = "idle"
  BY IdleType
<1>ids. 1..made \subseteq Ids /\ made \in Nat
  BY DEF TypeOK, Ids
<1>ind. JournalsSound /\ CompleteIsWritten /\ SinglePending /\ PendingKnown /\ StepSound
  BY DEF Inductive
<1>op. op \in Command
  BY DEF TypeOK
<1>pending. \A t \in Pending : /\ t \in 1..made /\ backup[t].written
                               /\ ~backup[t].rolledBack
  BY DEF Pending, IsPending
<1>frozen. ASSUME UNCHANGED <<files, backup, made>>, StepSound' PROVE Inductive'
  BY <1>frozen, <1>ind, Frozen DEF Inductive
<1>1. CASE UNCHANGED vars
  <2>1. UNCHANGED <<files, backup, made, op>>
    BY <1>1 DEF vars
  <2>2. StepSound'
    BY <1>ind, <2>1, Frozen DEF StepSound
  <2> QED
    BY <1>frozen, <2>1, <2>2
<1>2. ASSUME NEW p \in Procs, Open(p) \/ \E b \in Builds : Install(p, b) PROVE Inductive'
  <2>1. op'.step = "recover" /\ UNCHANGED <<files, backup, made>>
    BY <1>2 DEF Open, Install, Begin
  <2>2. StepSound'
    BY <2>1 DEF StepSound
  <2> QED
    BY <1>frozen, <2>1, <2>2
<1>3. CASE \/ GameExit
           \/ \E p \in Procs : Close(p) \/ Play(p)
  <2>1. UNCHANGED <<files, backup, made, op>>
    BY <1>3 DEF Close, Play, GameExit
  <2>2. StepSound'
    BY <1>ind, <2>1, Frozen DEF StepSound
  <2> QED
    BY <1>frozen, <2>1, <2>2
<1>4. ASSUME NEW p \in Procs, NEW t \in 1..made, Rollback(p, t) PROVE Inductive'
  <2>1. op'.step = "validate" /\ op'.tx = t /\ UNCHANGED <<files, backup, made>>
    BY <1>4 DEF Rollback, Begin
  <2>2. backup[t].written /\ ~backup[t].rolledBack /\ Pending \subseteq {t}
    BY <1>4, <1>ind DEF Rollback, CompleteIsWritten, SafeEnvironment
  <2>3. StepSound'
    BY <2>1, <2>2, Frozen DEF StepSound
  <2> QED
    BY <1>frozen, <2>1, <2>3
<1>5. CASE RecoverNext
  <2>1. PICK t \in Pending : Move("validate", t, 0)
    BY <1>5 DEF RecoverNext
  <2>2. op'.step = "validate" /\ op'.tx = t /\ UNCHANGED <<files, backup, made>>
    BY <1>5, <2>1 DEF RecoverNext, Move
  <2>3. Pending \subseteq {t}
    BY <1>ind DEF SinglePending
  <2>4. StepSound'
    BY <1>pending, <2>2, <2>3, Frozen DEF StepSound
  <2> QED
    BY <1>frozen, <2>2, <2>4
<1>6. CASE RecoverRefused \/ Abandon \/ Refuse \/ WriteFails \/ Crash \/ WriteReceipt
  <2>1. op'.step = "idle" /\ UNCHANGED <<files, backup, made>>
    BY <1>6, <1>idle
    DEF RecoverRefused, Abandon, Refuse, WriteFails, Fail, Crash, WriteReceipt
  <2>2. StepSound'
    BY <2>1 DEF StepSound
  <2> QED
    BY <1>frozen, <2>1, <2>2
<1>7. CASE RecoverDone
  <2>1. op'.step \in {"idle", "plan"} /\ Pending = {} /\ UNCHANGED <<files, backup, made>>
    BY <1>7, <1>idle DEF RecoverDone, Goto, Move
  <2>2. StepSound'
    BY <2>1, Frozen DEF StepSound
  <2> QED
    BY <1>frozen, <2>1, <2>2
<1>8. CASE Plan
  <2>0. PICK t \in Nat : t = made + 1
    BY <1>ids
  <2>1. op.build \in Builds /\ t \in Ids /\ made' = t /\ files' = files
    BY <2>0, <1>8 DEF Plan, TypeOK, CommandOK, Ids
  <2>2. PICK o \in Orders(op.build) :
           backup' = [backup EXCEPT ![t] = Planned(op.build, o)]
    BY <2>0, <1>8 DEF Plan
  <2>3. backup'[t] = Planned(op.build, o) /\ \A u \in 1..made : backup'[u] = backup[u]
    BY <1>ids, <2>0, <2>1, <2>2 DEF TypeOK
  <2>4. 1..made' = (1..made) \cup {t}
    BY <1>ids, <2>0, <2>1
  <2>5. Pending = {}
    BY <2>0, <1>8, <1>ind DEF Plan, StepSound
  <2>6. Pending' = {}
    <3>1. ASSUME NEW u \in 1..made, IsPending(u)' PROVE FALSE
      BY <2>3, <2>5, <3>1 DEF Pending, IsPending
    <3>2. ~IsPending(t)'
      BY <2>1, <2>2, <2>3, PlannedType DEF IsPending
    <3> QED
      BY <2>1, <2>4, <3>1, <3>2 DEF Pending
  <2>7. JournalSound(t)' /\ AllKnown(t)'
    <3>1. /\ DOMAIN backup'[t].journal = DOMAIN o
          /\ \A i \in DOMAIN o :
                /\ backup'[t].journal[i].path = o[i]
                /\ backup'[t].journal[i].before = files[o[i]]
                /\ backup'[t].saved[o[i]] = files[o[i]]
      BY <2>1, <2>2, <2>3, PlannedType
    <3>2. \A i, k \in DOMAIN o : o[i] = o[k] => i = k
      BY <2>1, <2>2, OrderType
    <3>3. JournalSound(t)'
      BY <3>1, <3>2 DEF JournalSound, CopiesSound
    <3>4. AllKnown(t)'
      BY <2>1, <3>1 DEF AllKnown, EntryKnown
    <3> QED
      BY <3>3, <3>4
  <2>8. JournalsSound'
    <3>1. ASSUME NEW u \in 1..made PROVE JournalSound(u)'
      BY <1>ind, <2>3 DEF JournalsSound, JournalSound, CopiesSound
    <3> QED
      BY <2>1, <2>4, <2>7, <3>1 DEF JournalsSound
  <2>9. CompleteIsWritten'
    <3>1. ~backup'[t].complete /\ ~backup'[t].rolledBack
      BY <2>1, <2>2, <2>3, PlannedType
    <3> QED
      BY <1>ind, <2>1, <2>3, <2>4, <3>1 DEF CompleteIsWritten
  <2>10. op'.step = "journal" /\ op'.tx = t
    BY <2>0, <1>8 DEF Plan, Move
  <2>11. StepSound'
    <3>1. ~backup'[t].complete /\ ~backup'[t].rolledBack
      BY <2>1, <2>2, <2>3, PlannedType
    <3>2. t \in 1..made'
      BY <2>1, <2>4
    <3> QED
      BY <2>6, <2>7, <2>10, <3>1, <3>2 DEF StepSound
  <2> QED
    BY <2>6, <2>8, <2>9, <2>11 DEF Inductive, SinglePending, PendingKnown
<1>9. CASE WriteJournal
  <2>0. PICK t \in Ids \cup {0} : t = op.tx
    BY <1>op DEF Command
  <2>1. /\ t \in 1..made /\ Pending = {} /\ AllKnown(t)
        /\ ~backup[t].complete /\ ~backup[t].rolledBack
    BY <2>0, <1>9, <1>ind DEF WriteJournal, StepSound
  <2>2. /\ backup' = [backup EXCEPT ![t].written = TRUE]
        /\ UNCHANGED <<files, made>> /\ op'.step = "apply" /\ op'.tx = t
    BY <2>0, <1>9 DEF WriteJournal, Move
  <2>3. /\ JournalsSound' /\ AllKnown(t)' /\ Pending' \subseteq {t}
    BY <1>ind, <2>1, <2>2, Marked
  <2>4. /\ backup'[t].written
        /\ backup'[t].complete = backup[t].complete
        /\ backup'[t].rolledBack = backup[t].rolledBack
        /\ \A u \in 1..made : u # t => backup'[u] = backup[u]
    BY <1>ids, <2>1, <2>2 DEF TypeOK, Backup
  <2>5. Pending' = {t}
    BY <2>1, <2>2, <2>3, <2>4 DEF Pending, IsPending
  <2>6. CompleteIsWritten'
    BY <1>ind, <2>2, <2>4 DEF CompleteIsWritten
  <2>7. StepSound'
    BY <2>2, <2>5 DEF StepSound
  <2> QED
    BY <2>3, <2>5, <2>6, <2>7 DEF Inductive, SinglePending, PendingKnown
<1>10. CASE ApplyFile
  <2>0. PICK t \in Ids \cup {0} : t = op.tx
    BY <1>op DEF Command
  <2> DEFINE r == backup[t].journal[op.at]
  <2>1. /\ t \in Pending /\ UNCHANGED <<backup, made>>
        /\ files' = [files EXCEPT ![r.path] = r.after]
        /\ op'.step = "apply" /\ op'.tx = t
    BY <2>0, <1>10, <1>ind DEF ApplyFile, StepSound, Move
  <2>2. Pending' = Pending /\ \A u \in Pending : u = t
    BY <1>ind, <2>1 DEF Pending, IsPending, SinglePending
  <2>3. t \in 1..made /\ backup[t].journal \in Seq(Entry)
    BY <1>ids, <1>pending, <2>1 DEF TypeOK, Backup
  <2>4. op.at \in DOMAIN backup[t].journal /\ r \in Entry
    BY <2>0, <1>10, <1>op, <2>3 DEF ApplyFile, TypeOK, CommandOK, Command
  <2>5. AllKnown(t)'
    <3>1. r.path \in Paths
      BY <2>4 DEF Entry
    <3>2. \A i \in DOMAIN backup[t].journal :
             backup[t].journal[i].path = r.path => i = op.at
      BY <1>ind, <2>3, <2>4 DEF JournalsSound, JournalSound
    <3>3. AllKnown(t)
      BY <1>ind, <2>1 DEF PendingKnown
    <3>0. PICK bytes : bytes = r.after
      OBVIOUS
    <3>4. PICK p \in Paths : p = r.path /\ bytes = r.after
      BY <3>0, <3>1
    <3>5. \A i \in DOMAIN backup[t].journal :
             backup[t].journal[i].path = p =>
                bytes \in {backup[t].journal[i].before, backup[t].journal[i].after}
      BY <3>2, <3>4
    <3>6. files' = [files EXCEPT ![p] = bytes] /\ backup' = backup
      BY <2>1, <3>4
    <3> QED
      BY <2>3, <3>3, <3>5, <3>6, FileReplaced
  <2>6. JournalsSound' /\ CompleteIsWritten'
    BY <1>ind, <2>1 DEF JournalsSound, JournalSound, CopiesSound, CompleteIsWritten
  <2>7. StepSound'
    BY <2>1, <2>2 DEF StepSound
  <2> QED
    BY <2>2, <2>5, <2>6, <2>7 DEF Inductive, SinglePending, PendingKnown
<1>11. CASE ApplyFails
  <2>1. op'.step = "validate" /\ op'.tx = op.tx /\ UNCHANGED <<files, backup, made>>
    BY <1>11 DEF ApplyFails, Begin
  <2>2. op.tx \in Pending /\ Pending \subseteq {op.tx}
    BY <1>11, <1>ind DEF ApplyFails, StepSound, SinglePending
  <2>3. StepSound'
    BY <1>pending, <2>1, <2>2, Frozen DEF StepSound
  <2> QED
    BY <1>frozen, <2>1, <2>3
<1>12. CASE Commit
  <2>0. PICK t \in Ids \cup {0} : t = op.tx
    BY <1>op DEF Command
  <2>1. /\ t \in Pending /\ UNCHANGED <<files, made>>
        /\ backup' = [backup EXCEPT ![t].complete = TRUE]
        /\ op'.step = "receipt"
    BY <2>0, <1>12, <1>ind DEF Commit, StepSound, Goto, Move
  <2>2. t \in 1..made /\ backup[t].written /\ AllKnown(t)
    BY <1>ind, <1>pending, <2>1 DEF PendingKnown
  <2>3. JournalsSound' /\ AllKnown(t)' /\ Pending' \subseteq Pending \cup {t}
    BY <1>ind, <2>1, <2>2, Marked
  <2>4. /\ backup'[t].written = backup[t].written
        /\ \A u \in 1..made : u # t => backup'[u] = backup[u]
    BY <1>ids, <2>1, <2>2 DEF TypeOK, Backup
  <2>5. Pending' \subseteq {t}
    BY <1>ind, <2>1, <2>3 DEF SinglePending
  <2>6. CompleteIsWritten'
    BY <1>ind, <2>1, <2>2, <2>4 DEF CompleteIsWritten
  <2>7. StepSound'
    BY <2>1 DEF StepSound
  <2> QED
    BY <2>3, <2>5, <2>6, <2>7 DEF Inductive, SinglePending, PendingKnown
<1>13. CASE Validate
  <2>1. op'.step = "restoring" /\ op'.tx = op.tx /\ UNCHANGED <<files, backup, made>>
    BY <1>13 DEF Validate, Goto, Move
  <2>2. AllKnown(op.tx) /\ CopiesSound(op.tx)
    BY <1>13 DEF Validate, Restorable, AllKnown, EntryKnown, CopiesSound
  <2>3. StepSound'
    BY <1>13, <1>ind, <2>1, <2>2, Frozen DEF Validate, StepSound
  <2> QED
    BY <1>frozen, <2>1, <2>3
<1>14. CASE MarkRestoring
  <2>0. PICK t \in Ids \cup {0} : t = op.tx
    BY <1>op DEF Command
  <2>1. /\ t \in 1..made /\ backup[t].written /\ ~backup[t].rolledBack
        /\ Pending \subseteq {t} /\ AllKnown(t) /\ CopiesSound(t)
    BY <2>0, <1>14, <1>ind DEF MarkRestoring, StepSound
  <2>2. /\ backup' = [backup EXCEPT ![t].restoring = TRUE]
        /\ UNCHANGED <<files, made>> /\ op'.step = "restore" /\ op'.tx = t
    BY <2>0, <1>14 DEF MarkRestoring, Move
  <2>3. JournalsSound' /\ AllKnown(t)' /\ CopiesSound(t)' /\ Pending' \subseteq {t}
    BY <1>ind, <2>1, <2>2, Marked
  <2>4. /\ backup'[t].restoring
        /\ backup'[t].written = backup[t].written
        /\ backup'[t].complete = backup[t].complete
        /\ backup'[t].rolledBack = backup[t].rolledBack
        /\ \A u \in 1..made : u # t => backup'[u] = backup[u]
    BY <1>ids, <2>1, <2>2 DEF TypeOK, Backup
  <2>5. Pending' = {t}
    BY <2>1, <2>2, <2>3, <2>4 DEF Pending, IsPending
  <2>6. CompleteIsWritten'
    BY <1>ind, <2>1, <2>2, <2>4 DEF CompleteIsWritten
  <2>7. StepSound'
    BY <2>1, <2>2, <2>3, <2>4, <2>5 DEF StepSound
  <2> QED
    BY <2>3, <2>5, <2>6, <2>7 DEF Inductive, SinglePending, PendingKnown
<1>15. CASE RestoreFile
  <2>0. PICK t \in Ids \cup {0} : t = op.tx
    BY <1>op DEF Command
  <2> DEFINE r == backup[t].journal[op.at]
          c == IF r.before = Absent THEN Absent ELSE backup[t].saved[r.path]
  <2>1. /\ t \in Pending /\ UNCHANGED <<backup, made>>
        /\ files' = [files EXCEPT ![r.path] = c]
        /\ op'.step = "restore" /\ op'.tx = t
    BY <2>0, <1>15, <1>ind DEF RestoreFile, StepSound, Move
  <2>2. Pending' = Pending /\ \A u \in Pending : u = t
    BY <1>ind, <2>1 DEF Pending, IsPending, SinglePending
  <2>3. t \in 1..made /\ backup[t].journal \in Seq(Entry)
    BY <1>ids, <1>pending, <2>1 DEF TypeOK, Backup
  <2>4. op.at \in DOMAIN backup[t].journal /\ r \in Entry
    BY <2>0, <1>15, <1>op, <2>3 DEF RestoreFile, TypeOK, CommandOK, Command
  <2>9. CopiesSound(t)
    BY <2>0, <1>15, <1>ind DEF RestoreFile, StepSound
  <2>5. c = r.before
    BY <2>4, <2>9 DEF CopiesSound
  <2>6. AllKnown(t)'
    <3>1. r.path \in Paths
      BY <2>4 DEF Entry
    <3>2. \A i \in DOMAIN backup[t].journal :
             backup[t].journal[i].path = r.path => i = op.at
      BY <1>ind, <2>3, <2>4 DEF JournalsSound, JournalSound
    <3>3. AllKnown(t)
      BY <1>ind, <2>1 DEF PendingKnown
    <3> HIDE DEF c
    <3>0. PICK bytes : bytes = c
      OBVIOUS
    <3>4. PICK p \in Paths : p = r.path /\ bytes = c
      BY <3>0, <3>1
    <3>5. \A i \in DOMAIN backup[t].journal :
             backup[t].journal[i].path = p =>
                bytes \in {backup[t].journal[i].before, backup[t].journal[i].after}
      BY <2>5, <3>2, <3>4
    <3>6. files' = [files EXCEPT ![p] = bytes] /\ backup' = backup
      BY <2>1, <3>4
    <3> QED
      BY <2>3, <3>3, <3>5, <3>6, FileReplaced
  <2>7. JournalsSound' /\ CompleteIsWritten'
    BY <1>ind, <2>1 DEF JournalsSound, JournalSound, CopiesSound, CompleteIsWritten
  <2>10. CopiesSound(t)'
    BY <2>1, <2>9 DEF CopiesSound
  <2>8. StepSound'
    BY <1>pending, <2>1, <2>2, <2>10 DEF StepSound
  <2> QED
    BY <2>2, <2>6, <2>7, <2>8 DEF Inductive, SinglePending, PendingKnown
<1>16. CASE RemoveReceipt
  <2>1. op'.step = "forget" /\ op'.tx = op.tx /\ UNCHANGED <<files, backup, made>>
    BY <1>16 DEF RemoveReceipt, Goto, Move
  <2>2. StepSound'
    BY <1>16, <1>ind, <2>1, Frozen DEF RemoveReceipt, StepSound
  <2> QED
    BY <1>frozen, <2>1, <2>2
<1>17. CASE MarkRolledBack
  <2>0. PICK t \in Ids \cup {0} : t = op.tx
    BY <1>op DEF Command
  <2>1. /\ t \in Pending /\ t \in 1..made /\ Pending \subseteq {t}
    BY <2>0, <1>17, <1>ind DEF MarkRolledBack, StepSound
  <2>2. /\ backup' = [backup EXCEPT ![t].rolledBack = TRUE]
        /\ UNCHANGED <<files, made>> /\ op'.step \in {"recover", "idle"}
    BY <2>0, <1>17, <1>idle DEF MarkRolledBack, Move
  <2>3. JournalsSound' /\ Pending' \subseteq {t}
    BY <1>ind, <2>1, <2>2, Marked
  <2>4. /\ backup'[t].rolledBack
        /\ backup'[t].written = backup[t].written
        /\ \A u \in 1..made : u # t => backup'[u] = backup[u]
    BY <1>ids, <2>1, <2>2 DEF TypeOK, Backup
  <2>5. Pending' = {}
    BY <2>3, <2>4 DEF Pending, IsPending
  <2>6. CompleteIsWritten'
    BY <1>ind, <1>pending, <2>1, <2>2, <2>4 DEF CompleteIsWritten
  <2>7. StepSound'
    BY <2>2 DEF StepSound
  <2> QED
    BY <2>3, <2>5, <2>6, <2>7 DEF Inductive, SinglePending, PendingKnown
<1>18. ASSUME NEW p \in Editable, NEW c \in UserContents, Edit(p, c) PROVE Inductive'
  <2>1. p \in Paths /\ UNCHANGED <<backup, made, op>> /\ files' = [files EXCEPT ![p] = c]
    BY <1>18 DEF Edit
  <2>2. Pending' = Pending
    BY <2>1 DEF Pending, IsPending
  <2>3. ASSUME NEW t \in 1..made, AllKnown(t) PROVE AllKnown(t)'
    BY <2>1, <2>3, FileReplaced
  <2>4. JournalsSound' /\ CompleteIsWritten'
    BY <1>ind, <2>1 DEF JournalsSound, JournalSound, CopiesSound, CompleteIsWritten
  <2>5. PendingKnown'
    BY <1>ind, <1>pending, <2>2, <2>3 DEF PendingKnown
  <2>6. StepSound'
    BY <1>ind, <2>1, <2>2, <2>3 DEF StepSound, CopiesSound
  <2> QED
    BY <1>ind, <2>2, <2>4, <2>5, <2>6 DEF Inductive, SinglePending
<1>19. ASSUME NEW t \in 1..made, NEW p \in Paths, Damage(t, p) PROVE Inductive'
  <2>1. /\ "damage" \in Environment /\ UNCHANGED <<files, made>> /\ op'.step = "idle"
        /\ backup' = [backup EXCEPT ![t].saved[p] = Damaged]
    BY <1>19, <1>idle DEF Damage
  <2>2. \A u \in 1..made : /\ backup'[u].journal = backup[u].journal
                           /\ backup'[u].written = backup[u].written
                           /\ backup'[u].complete = backup[u].complete
                           /\ backup'[u].restoring = backup[u].restoring
                           /\ backup'[u].rolledBack = backup[u].rolledBack
    BY <1>ids, <2>1 DEF TypeOK, Backup
  <2>3. Pending' = Pending
    BY <2>1, <2>2 DEF Pending, IsPending
  <2>4. \A u \in 1..made : AllKnown(u) => AllKnown(u)'
    BY <2>1, <2>2 DEF AllKnown, EntryKnown
  <2>5. JournalsSound' /\ CompleteIsWritten'
    BY <1>ind, <2>1, <2>2 DEF JournalsSound, JournalSound, CompleteIsWritten
  <2>6. StepSound'
    BY <2>1 DEF StepSound
  <2> QED
    BY <1>ind, <1>pending, <2>3, <2>4, <2>5, <2>6 DEF Inductive, SinglePending, PendingKnown
<1> QED
  BY <1>1, <1>2, <1>3, <1>4, <1>5, <1>6, <1>7, <1>8, <1>9, <1>10, <1>11, <1>12,
     <1>13, <1>14, <1>15, <1>16, <1>17, <1>18, <1>19
  DEF Next, CommandStep

\* The invariant holds in every reachable state, with locked files, crashes,
\* damaged copies and edits between commands or during them.
THEOREM InductiveCorrect ==
    ASSUME SafeEnvironment
    PROVE  Spec => []Inductive
<1>1. Init => Inductive
  BY InductiveInit
<1>2. TypeOK /\ TypeOK' /\ Inductive /\ [Next]_vars => Inductive'
  BY InductiveNext
<1> QED
  BY <1>1, <1>2, TypeCorrect, PTL DEF Spec

\* However installs fail, crash and restart, at most one transaction is pending.
THEOREM SinglePendingCorrect ==
    ASSUME SafeEnvironment
    PROVE  Spec => []SinglePending
<1>1. Inductive => SinglePending
  BY DEF Inductive
<1> QED
  BY <1>1, InductiveCorrect, PTL

\* A pending transaction can always be undone, unless the user has edited one
\* of its files or spoiled a copy: recovery never refuses because of what the
\* launcher did.
THEOREM RecoveryCorrect ==
    ASSUME SafeEnvironment, "damage" \notin Environment
    PROVE  Spec => []PendingRecoverable
<1>1. Inductive => PendingRecoverable
  <2>1. SUFFICES ASSUME Inductive, NEW t \in Pending, ~Restorable(t)
                 PROVE  \E i \in DOMAIN backup[t].journal :
                           files[backup[t].journal[i].path] \in UserContents
    BY DEF PendingRecoverable
  <2>2. JournalSound(t) /\ AllKnown(t)
    BY <2>1 DEF Inductive, JournalsSound, PendingKnown, Pending
  <2>3. PICK i \in DOMAIN backup[t].journal :
           LET r == backup[t].journal[i]
           IN files[r.path] \notin {r.before, r.after}
    BY <2>1, <2>2 DEF Restorable, JournalSound, CopiesSound
  <2> QED
    BY <2>2, <2>3 DEF AllKnown, EntryKnown
<1> QED
  BY <1>1, InductiveCorrect, PTL

-----------------------------------------------------------------------------
(* What the files promise, and the refinement.                             *)

Promise == INSTANCE AtomicInstall_proofs
               WITH tree <- SettledTree, snapshots <- Snapshots,
                    Ships <- [b \in Builds |-> Shipped(b)]

\* While a command runs nobody changes what a package may replace; between
\* commands, anything.
EditsBetween ==
    "editDuring" \in Environment => \A p \in Editable, k \in Kinds : p \notin Allowed[k]

-----------------------------------------------------------------------------
(* The journals, whatever the environment does.                            *)

\* A journal has one record a path, of paths that its kind may own, and brings
\* in no bytes of the user's.
JournalFormed(t) ==
    LET j == backup[t].journal
    IN /\ \A i, k \in DOMAIN j : j[i].path = j[k].path => i = k
       /\ \A i \in DOMAIN j : j[i].path \in Allowed[backup[t].kind] /\ j[i].after \notin UserContents

JournalsFormed == \A t \in Ids : JournalFormed(t)

HasBefore(t, i) == files[backup[t].journal[i].path] = backup[t].journal[i].before
HasAfter(t, i) == files[backup[t].journal[i].path] = backup[t].journal[i].after

-----------------------------------------------------------------------------

\* Only Plan writes a journal, and the copies are damaged only between commands.
LEMMA BackupsKept ==
    ASSUME TypeOK, [Next]_vars, ~Plan
    PROVE  \A u \in Ids : /\ backup'[u].journal = backup[u].journal
                          /\ backup'[u].kind = backup[u].kind
                          /\ op.step # "idle" => backup'[u].saved = backup[u].saved
<1>1. PICK t : t = op.tx
  OBVIOUS
<1>2. \/ backup' = backup
      \/ backup' = [backup EXCEPT ![t].written = TRUE]
      \/ backup' = [backup EXCEPT ![t].complete = TRUE]
      \/ backup' = [backup EXCEPT ![t].restoring = TRUE]
      \/ backup' = [backup EXCEPT ![t].rolledBack = TRUE]
      \/ \E d \in 1..made, p \in Paths : Damage(d, p)
  BY <1>1
  DEF vars, Next, CommandStep, Open, Close, Play, Install, Rollback, RecoverNext,
      RecoverRefused, RecoverDone, Abandon, WriteJournal, ApplyFile, ApplyFails, Commit,
      WriteReceipt, Validate, Refuse, MarkRestoring, RestoreFile, RemoveReceipt,
      MarkRolledBack, WriteFails, Fail, Crash, GameExit, Edit
<1>3. CASE backup' = backup
  BY <1>3
<1>4. CASE \E d \in 1..made, p \in Paths : Damage(d, p)
  <2>1. PICK d \in 1..made : \E p \in Paths : Damage(d, p)
    BY <1>4
  <2>2. PICK p \in Paths : Damage(d, p)
    BY <2>1
  <2>3. op.step = "idle" /\ backup' = [backup EXCEPT ![d].saved[p] = Damaged]
    BY <2>2, IdleType DEF Damage
  <2> QED
    BY <2>3 DEF TypeOK, Backup
<1> QED
  BY <1>2, <1>3, <1>4, MarkType

\* The order of the records is one of all the files the install replaces, and
\* they are the kind's own.
LEMMA OrderCovers ==
    ASSUME TypeOK, NEW b \in Builds, NEW o \in Orders(b), Shipped(b) \subseteq Allowed[KindOf[b]]
    PROVE  /\ \A i \in DOMAIN o : o[i] \in Allowed[KindOf[b]]
           /\ {o[i] : i \in DOMAIN o} = Shipped(b) \cup Dropped(b) \cup {Manifest[KindOf[b]]}
<1> DEFINE touched == Shipped(b) \cup Dropped(b) \cup {Manifest[KindOf[b]]}
           n == Cardinality(touched)
<1>1. KindOf[b] \in Kinds /\ Allowed[KindOf[b]] \subseteq Paths
  BY BuildAssumption
<1>2. touched \subseteq Allowed[KindOf[b]]
  BY <1>1, KindAssumption DEF Dropped
<1>3. IsFiniteSet(touched) /\ n \in Nat
  BY <1>1, <1>2, BuildAssumption, FS_Subset, FS_CardinalityType
<1>4. o \in [1..n -> touched] /\ \A i, j \in 1..n : o[i] = o[j] => i = j
  BY DEF Orders
<1>5. IsFiniteSet(1..n) /\ Cardinality(1..n) = n
  BY <1>3, FS_Interval
<1>6. o \in Injection(1..n, touched)
  BY <1>4 DEF Injection, IsInjective
<1>7. o \in Surjection(1..n, touched)
  BY <1>3, <1>5, <1>6, FS_Injection
<1>8. \A p \in touched : \E i \in 1..n : o[i] = p
  BY <1>7 DEF Surjection
<1>9. DOMAIN o = 1..n /\ \A i \in 1..n : o[i] \in touched
  BY <1>4
<1>10. {o[i] : i \in DOMAIN o} = touched
  <2> HIDE DEF touched, n
  <2> QED
    BY <1>8, <1>9
<1> QED
  BY <1>2, <1>9, <1>10

\* What else Plan makes of an order of the records.
LEMMA PlannedFormed ==
    ASSUME TypeOK, NEW b \in Builds, NEW o \in Orders(b)
    PROVE  /\ Planned(b, o).kind = KindOf[b]
           /\ \A i \in DOMAIN o : Planned(b, o).journal[i].after = Image[b][o[i]]
           /\ ~Planned(b, o).restoring
BY DEF Planned

\* Plan makes one new backup, of the build's own paths.
LEMMA PlanMakes ==
    ASSUME TypeOK, Plan
    PROVE  \E t \in Ids : \E o \in Orders(op.build) :
             /\ t = made + 1 /\ made' = t /\ op.build \in Builds
             /\ backup'[t] = Planned(op.build, o)
             /\ \A u \in Ids : u # t => backup'[u] = backup[u]
             /\ op'.step = "journal" /\ op'.tx = t /\ op'.build = op.build
             /\ Shipped(op.build) \subseteq Allowed[KindOf[op.build]]
             /\ files' = files
<1>1. op.build \in Builds /\ made + 1 \in Ids
  BY IdentityAssumption DEF Plan, TypeOK, CommandOK, Ids
<1>2. PICK t \in Ids : t = made + 1
  BY <1>1
<1>3. PICK o \in Orders(op.build) : backup' = [backup EXCEPT ![t] = Planned(op.build, o)]
  BY <1>2 DEF Plan
<1>4. backup'[t] = Planned(op.build, o) /\ \A u \in Ids : u # t => backup'[u] = backup[u]
  BY <1>3 DEF TypeOK
<1>5. made' = t /\ op'.step = "journal" /\ op'.tx = t /\ op'.build = op.build /\ files' = files
      /\ Shipped(op.build) \subseteq Allowed[KindOf[op.build]]
  BY <1>2 DEF Plan, Move
<1> QED
  BY <1>1, <1>2, <1>4, <1>5

\* The journal that Plan lays out is well formed.
LEMMA PlanFormed ==
    ASSUME TypeOK, NEW b \in Builds, NEW o \in Orders(b), NEW t \in Ids,
           Shipped(b) \subseteq Allowed[KindOf[b]],
           backup'[t] = Planned(b, o)
    PROVE  JournalFormed(t)'
<1>1. /\ DOMAIN backup'[t].journal = DOMAIN o
      /\ backup'[t].kind = KindOf[b]
      /\ \A i \in DOMAIN o : /\ backup'[t].journal[i].path = o[i]
                             /\ backup'[t].journal[i].after = Image[b][o[i]]
  BY PlannedType, PlannedFormed
<1>2. \A i, k \in DOMAIN o : o[i] = o[k] => i = k
  BY OrderType
<1>3. \A i \in DOMAIN o : o[i] \in Allowed[KindOf[b]]
  BY OrderCovers
<1>4. \A i \in DOMAIN o : o[i] \in Paths
  BY OrderType
<1>5. \A i \in DOMAIN o : Image[b][o[i]] \notin UserContents
  BY <1>4, EditAssumption
<1> QED
  BY <1>1, <1>2, <1>3, <1>5 DEF JournalFormed

\* At first there is one empty journal slot per identifier.
LEMMA JournalsFormedInit == Init => JournalsFormed
BY DEF Init, Blank, JournalsFormed, JournalFormed

\* Only Plan writes the records of a journal; every other step writes phases.
LEMMA JournalsFormedNext ==
    ASSUME TypeOK, JournalsFormed, [Next]_vars
    PROVE  JournalsFormed'
<1>1. CASE ~Plan
  <2>1. \A u \in Ids : backup'[u].journal = backup[u].journal /\ backup'[u].kind = backup[u].kind
    BY <1>1, BackupsKept
  <2> QED
    BY <2>1 DEF JournalsFormed, JournalFormed
<1>2. CASE Plan
  <2>0. PICK b : b = op.build
    OBVIOUS
  <2>1. PICK t \in Ids : \E o \in Orders(b) :
             /\ b \in Builds /\ backup'[t] = Planned(b, o)
             /\ \A u \in Ids : u # t => backup'[u] = backup[u]
             /\ Shipped(b) \subseteq Allowed[KindOf[b]]
    BY <1>2, <2>0, PlanMakes
  <2>2. PICK o \in Orders(b) :
             /\ b \in Builds /\ backup'[t] = Planned(b, o)
             /\ \A u \in Ids : u # t => backup'[u] = backup[u]
             /\ Shipped(b) \subseteq Allowed[KindOf[b]]
    BY <2>1
  <2>3. JournalFormed(t)'
    BY <2>2, PlanFormed
  <2>4. \A u \in Ids : u # t => JournalFormed(u)'
    BY <2>2 DEF JournalsFormed, JournalFormed
  <2> QED
    BY <2>3, <2>4 DEF JournalsFormed
<1> QED
  BY <1>1, <1>2

\* Every journal is well formed, whatever the environment does.
THEOREM JournalsFormedCorrect == Spec => []JournalsFormed
<1>1. TypeOK /\ JournalsFormed /\ [Next]_vars => JournalsFormed'
  BY JournalsFormedNext
<1> QED
  BY <1>1, JournalsFormedInit, TypeCorrect, PTL DEF Spec

-----------------------------------------------------------------------------
(* What a command never touches. *)

\* A command writes files of the root in ApplyFile and in RestoreFile only.
LEMMA FilesKept ==
    ASSUME [Next]_vars, ~ApplyFile, ~RestoreFile
    PROVE  \/ files' = files
           \/ /\ UNCHANGED <<op, backup, made>>
              /\ op = Idle \/ "editDuring" \in Environment
              /\ \E p \in Editable, c \in UserContents : files' = [files EXCEPT ![p] = c]
BY DEF vars, Next, CommandStep, Open, Close, Play, Install, Rollback, RecoverNext,
       RecoverRefused, RecoverDone, Plan, Abandon, WriteJournal, ApplyFails, Commit,
       WriteReceipt, Validate, Refuse, MarkRestoring, RemoveReceipt, MarkRolledBack,
       WriteFails, Fail, Crash, GameExit, Edit, Damage

\* The record that a command is at.
LEMMA RecordAt ==
    ASSUME TypeOK, ApplyFile \/ RestoreFile
    PROVE  \E t \in Ids : \E i \in DOMAIN backup[t].journal :
             /\ t = op.tx /\ i = op.at
             /\ backup[t].journal[i] \in Entry
             /\ backup[t].journal[i].path \in Paths
             /\ backup[t].journal \in Seq(Entry)
             /\ backup[t].saved \in [Paths -> Stored]
<1>1. PICK t \in Ids : t = op.tx
  BY DEF ApplyFile, RestoreFile, TypeOK, CommandOK
<1>2. backup[t].journal \in Seq(Entry) /\ backup[t].saved \in [Paths -> Stored]
  BY DEF TypeOK, Backup
<1>3. op.at \in 1..Len(backup[t].journal)
  <2>1. Len(backup[op.tx].journal) \in Nat
    BY <1>1, <1>2
  <2>2. CASE ApplyFile
    <3>1. op.step = "apply" /\ op.at <= Len(backup[op.tx].journal)
      BY <2>2 DEF ApplyFile
    <3>2. op.at \in 1..(Len(backup[op.tx].journal) + 1)
      BY <3>1 DEF TypeOK, CommandOK
    <3> QED
      BY <1>1, <2>1, <3>1, <3>2
  <2>3. CASE RestoreFile
    <3>1. op.step = "restore" /\ op.at > 0
      BY <2>3 DEF RestoreFile
    <3>2. op.at \in 0..Len(backup[op.tx].journal)
      BY <3>1 DEF TypeOK, CommandOK
    <3> QED
      BY <1>1, <2>1, <3>1, <3>2
  <2> QED
    BY <2>2, <2>3
<1>4. PICK i \in DOMAIN backup[t].journal : i = op.at
  BY <1>2, <1>3
<1>5. backup[t].journal[i] \in Entry
  BY <1>2
<1>6. backup[t].journal[i].path \in Paths
  BY <1>5 DEF Entry
<1> QED
  BY <1>1, <1>2, <1>4, <1>5, <1>6

\* A file that no package may contain is written by no step: the files that
\* are applied or restored are those of a journal.
LEMMA ProtectedNext ==
    ASSUME TypeOK, JournalsFormed, [Next]_vars, op' # op,
           NEW p \in Paths \ UNION {Allowed[k] : k \in Kinds}
    PROVE  files'[p] = files[p]
<1>1. CASE ~ApplyFile /\ ~RestoreFile
  BY <1>1, FilesKept
<1>2. CASE ApplyFile \/ RestoreFile
  <2>1. PICK t \in Ids : \E i \in DOMAIN backup[t].journal : t = op.tx /\ i = op.at
    BY <1>2, RecordAt
  <2>2. PICK i \in DOMAIN backup[t].journal : t = op.tx /\ i = op.at
    BY <2>1
  <2>3. backup[t].journal[i].path \in Allowed[backup[t].kind] /\ backup[t].kind \in Kinds
    BY DEF JournalsFormed, JournalFormed, TypeOK, Backup
  <2>4. backup[t].journal[i].path # p
    BY <2>3
  <2>5. \E c : files' = [files EXCEPT ![backup[t].journal[i].path] = c]
    BY <1>2, <2>2 DEF ApplyFile, RestoreFile
  <2> QED
    BY <2>4, <2>5 DEF TypeOK
<1> QED
  BY <1>1, <1>2

\* No install, recovery or rollback writes a path that no kind of package may
\* own: the filter of the inventories, old and new, is enough, whatever fails,
\* crashes or is damaged.
THEOREM ProtectedUntouchedCorrect == Spec => ProtectedUntouched
<1>1. TypeOK /\ JournalsFormed /\ [Next]_vars
        => [op' # op => \A p \in Paths \ UNION {Allowed[k] : k \in Kinds} :
                           files'[p] = files[p]]_vars
  BY ProtectedNext
<1> QED
  BY <1>1, JournalsFormedCorrect, TypeCorrect, PTL DEF Spec, ProtectedUntouched

-----------------------------------------------------------------------------
(* The files of the transaction in progress.                               *)

\* How far a command has come with the files of its transaction.
Progress ==
    LET t == op.tx
        records == DOMAIN backup[t].journal
    IN /\ op.step \in {"journal", "apply", "validate", "restoring", "restore", "forget"} =>
             t \in 1..made
       /\ op.step \in {"journal", "apply"} => CopiesSound(t)
       /\ op.step = "journal" => \A i \in records : HasBefore(t, i)
       /\ op.step = "apply" =>
             \A i \in records : IF i < op.at THEN HasAfter(t, i) ELSE HasBefore(t, i)
       /\ op.step \in {"restoring", "restore"} => Restorable(t)
       /\ op.step = "restore" => \A i \in records : i > op.at => HasBefore(t, i)
       /\ op.step = "forget" => \A i \in records : HasBefore(t, i)

\* What is known of the files of t, by their records.
LEMMA FilesSame ==
    ASSUME NEW t, backup'[t].journal = backup[t].journal, backup'[t].saved = backup[t].saved,
           \A i \in DOMAIN backup[t].journal :
              files'[backup[t].journal[i].path] = files[backup[t].journal[i].path]
    PROVE  /\ CopiesSound(t) => CopiesSound(t)'
           /\ Restorable(t) => Restorable(t)'
           /\ \A i \in DOMAIN backup[t].journal : /\ HasBefore(t, i) => HasBefore(t, i)'
                                                  /\ HasAfter(t, i) => HasAfter(t, i)'
BY DEF CopiesSound, Restorable, HasBefore, HasAfter

\* A command that does not touch the files has come as far.
LEMMA ProgressSame ==
    ASSUME TypeOK, Progress, op' = op, made' = made,
           \A u \in Ids : backup'[u].journal = backup[u].journal,
           op.step # "idle" => \A u \in Ids : backup'[u].saved = backup[u].saved,
           op.step # "idle" => \A u \in Ids : \A i \in DOMAIN backup[u].journal :
              files'[backup[u].journal[i].path] = files[backup[u].journal[i].path]
    PROVE  Progress'
<1>1. PICK t \in Ids \cup {0} : t = op.tx
  BY DEF TypeOK, Command
<1>2. CASE op.step \notin {"journal", "apply", "validate", "restoring", "restore", "forget"}
  BY <1>2 DEF Progress
<1>3. CASE op.step \in {"journal", "apply", "validate", "restoring", "restore", "forget"}
  <2>1. t \in Ids
    BY <1>1, <1>3 DEF TypeOK, CommandOK
  <2>2. /\ backup'[t].journal = backup[t].journal /\ backup'[t].saved = backup[t].saved
        /\ \A i \in DOMAIN backup[t].journal :
              files'[backup[t].journal[i].path] = files[backup[t].journal[i].path]
    BY <1>3, <2>1
  <2>3. /\ CopiesSound(t) => CopiesSound(t)'
        /\ Restorable(t) => Restorable(t)'
        /\ \A i \in DOMAIN backup[t].journal : /\ HasBefore(t, i) => HasBefore(t, i)'
                                               /\ HasAfter(t, i) => HasAfter(t, i)'
    BY <2>2, FilesSame
  <2> QED
    BY <1>1, <2>2, <2>3 DEF Progress
<1> QED
  BY <1>2, <1>3

\* No command has begun.
LEMMA ProgressInit == Init => Progress
BY IdleType DEF Init, Progress

\* One write takes the command one record further: the record of each path is
\* its own, so no other record is disturbed.
LEMMA ProgressNext ==
    ASSUME EditsBetween, TypeOK, JournalsFormed, Progress, [Next]_vars
    PROVE  Progress'
<1> USE IdleType
<1>tx. PICK t \in Ids \cup {0} : t = op.tx
  BY DEF TypeOK, Command
<1>1. CASE ~ApplyFile /\ ~RestoreFile /\ op' = op
  <2>1. ~Plan
    BY <1>1 DEF Plan, Move
  <2>2. /\ \A u \in Ids : backup'[u].journal = backup[u].journal
        /\ op.step # "idle" => \A u \in Ids : backup'[u].saved = backup[u].saved
    BY <2>1, BackupsKept
  <2>3. made' = made
    BY <1>1, <2>1 DEF vars, Next, CommandStep, Open, Close, Play, Install, Rollback,
       RecoverNext, RecoverRefused, RecoverDone, Abandon, WriteJournal, ApplyFails,
       Commit, WriteReceipt, Validate, Refuse, MarkRestoring, RemoveReceipt,
       MarkRolledBack, WriteFails, Fail, Crash, GameExit, Edit, Damage
  <2>4. ASSUME op.step # "idle", NEW u \in Ids, NEW i \in DOMAIN backup[u].journal
        PROVE  files'[backup[u].journal[i].path] = files[backup[u].journal[i].path]
    <3>1. CASE files' = files
      BY <3>1
    <3>2. CASE files' # files
      <4>1. /\ op = Idle \/ "editDuring" \in Environment
            /\ \E p \in Editable, c \in UserContents : files' = [files EXCEPT ![p] = c]
        BY <1>1, <3>2, FilesKept
      <4>2. "editDuring" \in Environment
        BY <2>4, <4>1
      <4>3. PICK p \in Editable : \E c \in UserContents : files' = [files EXCEPT ![p] = c]
        BY <4>1
      <4>4. backup[u].journal[i].path \in Allowed[backup[u].kind] /\ backup[u].kind \in Kinds
        BY DEF JournalsFormed, JournalFormed, TypeOK, Backup
      <4>5. backup[u].journal[i].path # p
        BY <4>2, <4>4 DEF EditsBetween
      <4> QED
        BY <4>3, <4>5 DEF TypeOK
    <3> QED
      BY <3>1, <3>2
  <2> QED
    BY <1>1, <2>2, <2>3, <2>4, ProgressSame
<1>2. CASE op'.step \in {"idle", "recover", "plan", "receipt"}
  BY <1>2 DEF Progress
<1>3. CASE op'.step = "validate" /\ op'.tx \in 1..made /\ made' = made
  BY <1>3 DEF Progress
<1>4. CASE Plan
  <2>0. PICK b : b = op.build
    OBVIOUS
  <2>1. PICK u \in Ids : \E o \in Orders(b) :
             /\ u = made + 1 /\ made' = u /\ b \in Builds
             /\ backup'[u] = Planned(b, o)
             /\ op'.step = "journal" /\ op'.tx = u /\ files' = files
    BY <1>4, <2>0, PlanMakes
  <2>2. PICK o \in Orders(b) :
             /\ u = made + 1 /\ made' = u /\ b \in Builds
             /\ backup'[u] = Planned(b, o)
             /\ op'.step = "journal" /\ op'.tx = u /\ files' = files
    BY <2>1
  <2>3. /\ DOMAIN backup'[u].journal = DOMAIN o
        /\ \A i \in DOMAIN o : /\ backup'[u].journal[i].path = o[i]
                               /\ backup'[u].journal[i].before = files[o[i]]
                               /\ backup'[u].saved[o[i]] = files[o[i]]
    BY <2>2, PlannedType
  <2>4. u \in 1..made'
    BY <2>2 DEF TypeOK
  <2>5. CopiesSound(u)' /\ \A i \in DOMAIN backup'[u].journal : HasBefore(u, i)'
    BY <2>2, <2>3 DEF CopiesSound, HasBefore
  <2> QED
    BY <2>2, <2>4, <2>5 DEF Progress
<1>5. CASE \/ WriteJournal /\ op'.step = "apply" /\ op'.at = 1
           \/ Validate /\ op'.step = "restoring"
           \/ MarkRestoring /\ op'.step = "restore" /\ op'.at = Len(backup[t].journal)
           \/ RemoveReceipt /\ op'.step = "forget"
  <2>1. /\ files' = files /\ made' = made /\ op'.tx = t
        /\ op.step \in {"journal", "validate", "restoring", "restore"} /\ ~Plan
    BY <1>tx, <1>5
    DEF WriteJournal, Validate, MarkRestoring, RemoveReceipt, Goto, Move, Plan
  <2>2. t \in 1..made /\ t \in Ids /\ backup[t].journal \in Seq(Entry)
    BY <1>tx, <2>1 DEF Progress, TypeOK, CommandOK, Backup
  <2>3. backup'[t].journal = backup[t].journal /\ backup'[t].saved = backup[t].saved
    BY <2>1, <2>2, BackupsKept
  <2>4. /\ CopiesSound(t) => CopiesSound(t)'
        /\ Restorable(t) => Restorable(t)'
        /\ \A i \in DOMAIN backup[t].journal : /\ HasBefore(t, i) => HasBefore(t, i)'
                                               /\ HasAfter(t, i) => HasAfter(t, i)'
    BY <2>1, <2>3, FilesSame
  <2>5. \A i \in DOMAIN backup[t].journal : i \in Nat /\ i >= 1 /\ i <= Len(backup[t].journal)
    BY <2>2
  <2>6. CASE WriteJournal /\ op'.step = "apply" /\ op'.at = 1
    <3>1. CopiesSound(t) /\ \A i \in DOMAIN backup[t].journal : HasBefore(t, i)
      BY <1>tx, <2>6 DEF WriteJournal, Progress
    <3>2. \A i \in DOMAIN backup[t].journal : HasBefore(t, i)' /\ ~(i < op'.at)
      BY <2>4, <2>5, <2>6, <3>1
    <3> QED
      BY <2>1, <2>2, <2>3, <2>4, <2>6, <3>1, <3>2 DEF Progress
  <2>7. CASE Validate /\ op'.step = "restoring"
    <3>1. Restorable(t)
      BY <1>tx, <2>7 DEF Validate
    <3> QED
      BY <2>1, <2>2, <2>4, <2>7, <3>1 DEF Progress
  <2>8. CASE MarkRestoring /\ op'.step = "restore" /\ op'.at = Len(backup[t].journal)
    <3>1. Restorable(t)
      BY <1>tx, <2>8 DEF MarkRestoring, Progress
    <3>2. \A i \in DOMAIN backup[t].journal : ~(i > op'.at)
      BY <2>2, <2>5, <2>8
    <3> QED
      BY <2>1, <2>2, <2>3, <2>4, <2>8, <3>1, <3>2 DEF Progress
  <2>9. CASE RemoveReceipt /\ op'.step = "forget"
    <3>1. op.step = "restore" /\ op.at = 0
      BY <2>9 DEF RemoveReceipt
    <3>2. \A i \in DOMAIN backup[t].journal : HasBefore(t, i)
      BY <1>tx, <2>5, <3>1 DEF Progress
    <3> QED
      BY <2>1, <2>2, <2>3, <2>4, <2>9, <3>2 DEF Progress
  <2> QED
    BY <1>5, <2>6, <2>7, <2>8, <2>9
<1>6. CASE ApplyFile \/ RestoreFile
  <2>1. PICK u \in Ids : \E i \in DOMAIN backup[u].journal :
             /\ u = op.tx /\ i = op.at /\ backup[u].journal[i].path \in Paths
             /\ backup[u].journal \in Seq(Entry)
    BY <1>6, RecordAt
  <2>2. PICK i \in DOMAIN backup[u].journal :
             /\ u = op.tx /\ i = op.at /\ backup[u].journal[i].path \in Paths
             /\ backup[u].journal \in Seq(Entry)
    BY <2>1
  <2> DEFINE j == backup[u].journal
  <2>3. /\ backup' = backup /\ made' = made /\ op'.tx = u /\ op'.step = op.step
        /\ op.step \in {"apply", "restore"} /\ u \in 1..made
    <3>1. /\ backup' = backup /\ made' = made /\ op'.tx = op.tx /\ op'.step = op.step
          /\ op.step \in {"apply", "restore"}
      <4>1. CASE ApplyFile
        BY <4>1 DEF ApplyFile, Move
      <4>2. CASE RestoreFile
        BY <4>2 DEF RestoreFile, Move
      <4> QED
        BY <1>6, <4>1, <4>2
    <3>2. op.tx \in 1..made
      BY <3>1 DEF Progress
    <3> QED
      BY <2>2, <3>1, <3>2
  <2>4. \A k \in DOMAIN j : k \in Int /\ j[k].path \in Paths /\ (j[k].path = j[i].path => k = i)
    <3>1. \A k \in DOMAIN j : j[k] \in Entry /\ k \in Int
      BY <2>2
    <3> QED
      BY <3>1 DEF JournalsFormed, JournalFormed, Entry
  <2>5. CASE ApplyFile
    <3>1. files' = [files EXCEPT ![j[i].path] = j[i].after] /\ op'.at = i + 1 /\ op.step = "apply"
      BY <2>2, <2>5 DEF ApplyFile, Move
    <3>2. HasAfter(u, i)'
      BY <2>2, <2>3, <3>1 DEF HasAfter, TypeOK
    <3>3. \A k \in DOMAIN j : k # i => files'[j[k].path] = files[j[k].path]
      BY <2>4, <3>1 DEF TypeOK
    <3>4. \A k \in DOMAIN j : IF k < i THEN HasAfter(u, k) ELSE HasBefore(u, k)
      BY <2>2, <3>1 DEF Progress
    <3>5. \A k \in DOMAIN j : IF k < i + 1 THEN HasAfter(u, k)' ELSE HasBefore(u, k)'
      <4>1. ASSUME NEW k \in DOMAIN j, k # i
            PROVE  IF k < i THEN HasAfter(u, k)' ELSE HasBefore(u, k)'
        BY <2>3, <3>3, <3>4, <4>1 DEF HasAfter, HasBefore
      <4>2. \A k \in DOMAIN j : k # i => (k < i + 1 <=> k < i)
        BY <2>4
      <4>3. i < i + 1
        BY <2>4
      <4> QED
        BY <3>2, <4>1, <4>2, <4>3
    <3>6. CopiesSound(u)'
      BY <2>2, <2>3, <3>1 DEF CopiesSound, Progress
    <3> QED
      BY <2>3, <3>1, <3>5, <3>6 DEF Progress
  <2>6. CASE RestoreFile
    <3>1. Restorable(u) /\ op.step = "restore" /\ op'.at = i - 1
      BY <2>2, <2>6 DEF RestoreFile, Move, Progress
    <3>2. files' = [files EXCEPT ![j[i].path] = j[i].before]
      BY <2>2, <2>6, <3>1 DEF RestoreFile, Restorable
    <3>3. HasBefore(u, i)'
      BY <2>2, <2>3, <3>2 DEF HasBefore, TypeOK
    <3>4. \A k \in DOMAIN j : k # i => files'[j[k].path] = files[j[k].path]
      BY <2>4, <3>2 DEF TypeOK
    <3>5. \A k \in DOMAIN j : k > i => HasBefore(u, k)
      BY <2>2, <3>1 DEF Progress
    <3>6. \A k \in DOMAIN j : k > i - 1 => HasBefore(u, k)'
      <4>1. ASSUME NEW k \in DOMAIN j, k # i, k > i PROVE HasBefore(u, k)'
        BY <2>3, <3>4, <3>5, <4>1 DEF HasBefore
      <4>2. \A k \in DOMAIN j : k # i /\ k > i - 1 => k > i
        BY <2>4
      <4> QED
        BY <3>3, <4>1, <4>2
    <3>7. Restorable(u)'
      <4>1. \A k \in DOMAIN j : files'[j[k].path] \in {j[k].before, j[k].after}
        BY <2>3, <3>1, <3>3, <3>4 DEF Restorable, HasBefore
      <4> QED
        BY <2>3, <3>1, <4>1 DEF Restorable
    <3> QED
      BY <2>3, <3>1, <3>6, <3>7 DEF Progress
  <2> QED
    BY <1>6, <2>5, <2>6
<1>7. \/ op' = op \/ op'.step \in {"idle", "recover", "plan", "receipt"}
      \/ op'.step = "validate" /\ op'.tx \in 1..made /\ made' = made
      \/ Plan \/ ApplyFile \/ RestoreFile
      \/ WriteJournal /\ op'.step = "apply" /\ op'.at = 1
      \/ Validate /\ op'.step = "restoring"
      \/ MarkRestoring /\ op'.step = "restore" /\ op'.at = Len(backup[t].journal)
      \/ RemoveReceipt /\ op'.step = "forget"
  <2>1. CASE UNCHANGED vars
    BY <2>1 DEF vars
  <2>2. ASSUME NEW p \in Procs, \/ Open(p) \/ Close(p) \/ Play(p)
                                \/ \E b \in Builds : Install(p, b)
        PROVE  op' = op \/ op'.step = "recover"
    BY <2>2 DEF Open, Close, Play, Install, Begin
  <2>3. ASSUME NEW p \in Procs, NEW d \in 1..made, Rollback(p, d)
        PROVE  op'.step = "validate" /\ op'.tx \in 1..made /\ made' = made
    BY <2>3 DEF Rollback, Begin
  <2>4. CASE RecoverNext
    BY <2>4 DEF RecoverNext, Move, Pending
  <2>5. CASE ApplyFails
    BY <2>5 DEF ApplyFails, Begin, Progress
  <2>6. CASE \/ RecoverRefused \/ RecoverDone \/ Abandon \/ Commit \/ WriteReceipt
             \/ Refuse \/ MarkRolledBack \/ WriteFails \/ Crash
    BY <2>6 DEF RecoverRefused, RecoverDone, Abandon, Commit, WriteReceipt, Refuse,
       MarkRolledBack, WriteFails, Crash, Fail, Goto, Move
  <2>7. CASE WriteJournal \/ Validate \/ MarkRestoring \/ RemoveReceipt
    BY <1>tx, <2>7 DEF WriteJournal, Validate, MarkRestoring, RemoveReceipt, Goto, Move
  <2>8. CASE \/ GameExit
             \/ \E p \in Editable, c \in UserContents : Edit(p, c)
             \/ \E d \in 1..made, p \in Paths : Damage(d, p)
    BY <2>8 DEF GameExit, Edit, Damage
  <2> QED
    BY <2>1, <2>2, <2>3, <2>4, <2>5, <2>6, <2>7, <2>8 DEF Next, CommandStep
<1> QED
  BY <1>1, <1>2, <1>3, <1>4, <1>5, <1>6, <1>7

\* When files are edited between commands only, the command that runs finds
\* each file of its journal as its own progress says (install_transaction.cpp:
\* 95-137, 173-225): new before the point it has reached, old after it.
THEOREM ProgressCorrect ==
    ASSUME EditsBetween
    PROVE  Spec => []Progress
<1>1. TypeOK /\ JournalsFormed /\ Progress /\ [Next]_vars => Progress'
  BY ProgressNext
<1> QED
  BY <1>1, ProgressInit, JournalsFormedCorrect, TypeCorrect, PTL DEF Spec

\* A file of the user's that a command replaces is in the backup of its
\* transaction; one that it puts back is the user's again.
LEMMA EditsKeptNext ==
    ASSUME TypeOK, JournalsFormed, Progress, [Next]_vars, op' # op,
           NEW p \in Paths, files'[p] # files[p], files[p] \in UserContents
    PROVE  \E t \in 1..made' : backup'[t].saved[p] = files[p]
<1>1. ApplyFile \/ RestoreFile
  BY FilesKept
<1>2. PICK t \in Ids : \E i \in DOMAIN backup[t].journal :
         t = op.tx /\ i = op.at /\ backup[t].journal[i].path \in Paths
  BY <1>1, RecordAt
<1>3. PICK i \in DOMAIN backup[t].journal :
         t = op.tx /\ i = op.at /\ backup[t].journal[i].path \in Paths
  BY <1>2
<1> DEFINE r == backup[t].journal[i]
<1>4. backup' = backup /\ made' = made /\ \E c : files' = [files EXCEPT ![r.path] = c]
  BY <1>1, <1>3 DEF ApplyFile, RestoreFile
<1>5. r.path = p
  BY <1>4 DEF TypeOK
<1>6. t \in 1..made
  BY <1>1, <1>3 DEF ApplyFile, RestoreFile, Progress
<1>7. CASE ApplyFile
  <2>1. CopiesSound(t) /\ op.step = "apply"
    BY <1>3, <1>7 DEF ApplyFile, Progress
  <2>2. HasBefore(t, i)
    <3>1. ~(i < i)
      <4>1. i \in Int
        BY <1>3 DEF TypeOK, Command
      <4> QED
        BY <4>1
    <3> QED
      BY <1>3, <2>1, <3>1 DEF Progress
  <2>3. r.before = files[p] /\ r.before # Absent
    BY <1>5, <2>2, IdentityAssumption, BuildAssumption DEF HasBefore
  <2>4. backup[t].saved[p] = files[p]
    BY <1>5, <2>1, <2>3 DEF CopiesSound
  <2> QED
    BY <1>4, <1>6, <2>4
<1>8. CASE RestoreFile
  <2>1. Restorable(t)
    BY <1>3, <1>8 DEF RestoreFile, Progress
  <2>2. files' = [files EXCEPT ![r.path] = r.before]
    BY <1>3, <1>8, <2>1 DEF RestoreFile, Restorable
  <2>3. files[p] = r.after
    BY <1>5, <2>1, <2>2 DEF Restorable, TypeOK
  <2>4. r.after \notin UserContents
    BY DEF JournalsFormed, JournalFormed
  <2> QED
    BY <2>3, <2>4
<1> QED
  BY <1>1, <1>7, <1>8

\* No install, recovery or rollback destroys what the user wrote: what it
\* replaces stays in a backup.
THEOREM EditsKeptCorrect ==
    ASSUME EditsBetween
    PROVE  Spec => EditsKept
<1>1. TypeOK /\ JournalsFormed /\ Progress /\ [Next]_vars
        => [\A p \in Paths :
               (op' # op /\ files'[p] # files[p] /\ files[p] \in UserContents)
                  => \E t \in 1..made' : backup'[t].saved[p] = files[p]]_vars
  BY EditsKeptNext
<1> QED
  BY <1>1, ProgressCorrect, JournalsFormedCorrect, TypeCorrect, PTL DEF Spec, EditsKept

-----------------------------------------------------------------------------
(* The root as recovery would leave it. *)

\* A path has one record.
LEMMA EntryIs ==
    ASSUME NEW t, JournalFormed(t), NEW i \in DOMAIN backup[t].journal
    PROVE  EntryOf(t, backup[t].journal[i].path) = backup[t].journal[i]
<1> DEFINE j == backup[t].journal
           S == {j[k] : k \in DOMAIN j}
<1>1. \A r \in S : r.path = j[i].path => r = j[i]
  BY DEF JournalFormed
<1>2. j[i] \in S
  OBVIOUS
<1>3. ASSUME NEW X, NEW e \in X, \A r \in X : r.path = e.path => r = e
      PROVE  (CHOOSE r \in X : r.path = e.path) = e
  BY <1>3
<1>4. (CHOOSE r \in S : r.path = j[i].path) = j[i]
  BY <1>1, <1>2, <1>3
<1> QED
  BY <1>4 DEF EntryOf

\* A pending transaction hides what an install or a restore has done so far;
\* everywhere else the root is as it is.
LEMMA SettledPoint ==
    (TypeOK /\ SinglePending /\ JournalsFormed) =>
       /\ SettledTree = [p \in Paths |-> SettledTree[p]]
       /\ \A p \in Paths : (\A t \in Pending : p \notin PathsOf(t)) => SettledTree[p] = files[p]
       /\ \A t \in Pending : \A i \in DOMAIN backup[t].journal :
             SettledTree[backup[t].journal[i].path] =
                IF HasBefore(t, i) \/ HasAfter(t, i)
                THEN backup[t].journal[i].before
                ELSE files[backup[t].journal[i].path]
<1> SUFFICES ASSUME TypeOK, SinglePending, JournalsFormed
             PROVE  /\ SettledTree = [p \in Paths |-> SettledTree[p]]
                    /\ \A p \in Paths : (\A t \in Pending : p \notin PathsOf(t))
                                           => SettledTree[p] = files[p]
                    /\ \A t \in Pending : \A i \in DOMAIN backup[t].journal :
                         SettledTree[backup[t].journal[i].path] =
                            IF HasBefore(t, i) \/ HasAfter(t, i)
                            THEN backup[t].journal[i].before
                            ELSE files[backup[t].journal[i].path]
  OBVIOUS
<1>1. SettledTree = [p \in Paths |-> SettledTree[p]]
  BY DEF SettledTree
<1>2. ASSUME NEW p \in Paths, \A t \in Pending : p \notin PathsOf(t)
      PROVE  SettledTree[p] = files[p]
  BY <1>2 DEF SettledTree
<1>3. ASSUME NEW t \in Pending, NEW i \in DOMAIN backup[t].journal
      PROVE  SettledTree[backup[t].journal[i].path] =
                IF HasBefore(t, i) \/ HasAfter(t, i)
                THEN backup[t].journal[i].before
                ELSE files[backup[t].journal[i].path]
  <2> DEFINE r == backup[t].journal[i]
  <2>1. t \in Ids /\ backup[t].journal \in Seq(Entry)
    BY IdentityAssumption DEF Pending, TypeOK, Backup, Ids
  <2>2. r \in Entry
    BY <2>1
  <2>3. PICK p \in Paths : p = r.path
    BY <2>2 DEF Entry
  <2>4. p \in PathsOf(t) /\ JournalFormed(t)
    BY <2>1, <2>3 DEF PathsOf, JournalsFormed
  <2>5. (CHOOSE u \in Pending : p \in PathsOf(u)) = t
    <3>1. \A u \in Pending : u = t
      BY DEF SinglePending
    <3> QED
      BY <2>4, <3>1
  <2>6. EntryOf(t, p) = r
    BY <2>3, <2>4, EntryIs
  <2>7. SettledTree[p] = IF files[p] \in {r.before, r.after} THEN r.before ELSE files[p]
    BY <2>4, <2>5, <2>6 DEF SettledTree
  <2> QED
    BY <2>3, <2>7 DEF HasBefore, HasAfter
<1> QED
  BY <1>1, <1>2, <1>3

\* SettledPoint, for the state a step leads to.
LEMMA SettledPointNext ==
    ((TypeOK /\ SinglePending /\ JournalsFormed) =>
       /\ SettledTree = [p \in Paths |-> SettledTree[p]]
       /\ \A p \in Paths : (\A t \in Pending : p \notin PathsOf(t)) => SettledTree[p] = files[p]
       /\ \A t \in Pending : \A i \in DOMAIN backup[t].journal :
             SettledTree[backup[t].journal[i].path] =
                IF HasBefore(t, i) \/ HasAfter(t, i)
                THEN backup[t].journal[i].before
                ELSE files[backup[t].journal[i].path])'
BY SettledPoint, PTL

\* When every file of the pending transaction has its old bytes, recovery
\* would change nothing.
LEMMA SettledIsFiles ==
    (/\ TypeOK /\ SinglePending /\ JournalsFormed
     /\ \A t \in Pending : \A i \in DOMAIN backup[t].journal : HasBefore(t, i))
    => SettledTree = files
<1> SUFFICES ASSUME TypeOK, SinglePending, JournalsFormed,
                    \A t \in Pending : \A i \in DOMAIN backup[t].journal : HasBefore(t, i)
             PROVE  SettledTree = files
  OBVIOUS
<1>1. ASSUME NEW p \in Paths PROVE SettledTree[p] = files[p]
  <2>1. CASE \A t \in Pending : p \notin PathsOf(t)
    BY <2>1, SettledPoint
  <2>2. CASE \E t \in Pending : p \in PathsOf(t)
    <3>1. PICK t \in Pending : \E i \in DOMAIN backup[t].journal : backup[t].journal[i].path = p
      BY <2>2 DEF PathsOf
    <3>2. PICK i \in DOMAIN backup[t].journal : backup[t].journal[i].path = p
      BY <3>1
    <3>3. SettledTree[p] = backup[t].journal[i].before
      BY <3>2, SettledPoint
    <3> QED
      BY <3>2, <3>3 DEF HasBefore
  <2> QED
    BY <2>1, <2>2
<1>2. SettledTree = [p \in Paths |-> SettledTree[p]]
  BY SettledPoint
<1>3. files = [p \in Paths |-> files[p]]
  BY DEF TypeOK
<1> QED
  BY <1>1, <1>2, <1>3

\* SettledIsFiles, for the state a step leads to.
LEMMA SettledIsFilesNext ==
    ((/\ TypeOK /\ SinglePending /\ JournalsFormed
      /\ \A t \in Pending : \A i \in DOMAIN backup[t].journal : HasBefore(t, i))
     => SettledTree = files)'
BY SettledIsFiles, PTL

\* Writing a file of the pending transaction with its old or its new bytes is
\* not seen through recovery; writing another is seen as it is.
LEMMA SettledChanges ==
    ASSUME TypeOK, SinglePending, JournalsFormed,
           TypeOK', SinglePending', JournalsFormed',
           Pending' = Pending,
           \A t \in Pending : backup'[t].journal = backup[t].journal,
           NEW p \in Paths,
           \/ files'[p] = files[p]
           \/ \E t \in Pending : \E i \in DOMAIN backup[t].journal :
                 /\ backup[t].journal[i].path = p
                 /\ HasBefore(t, i) \/ HasAfter(t, i)
                 /\ HasBefore(t, i)' \/ HasAfter(t, i)'
    PROVE  SettledTree'[p] = SettledTree[p]
<1>1. \A t \in Pending : PathsOf(t)' = PathsOf(t)
  BY DEF PathsOf
<1>2. CASE \A t \in Pending : p \notin PathsOf(t)
  <2>1. files'[p] = files[p]
    BY <1>2 DEF PathsOf
  <2>2. SettledTree[p] = files[p]
    BY <1>2, SettledPoint
  <2>3. \A t \in Pending' : p \notin PathsOf(t)'
    BY <1>1, <1>2
  <2>4. SettledTree'[p] = files'[p]
    BY <2>3, SettledPointNext
  <2> QED
    BY <2>1, <2>2, <2>4
<1>3. CASE \E t \in Pending : p \in PathsOf(t)
  <2>1. PICK t \in Pending : \E i \in DOMAIN backup[t].journal : backup[t].journal[i].path = p
    BY <1>3 DEF PathsOf
  <2>2. PICK i \in DOMAIN backup[t].journal : backup[t].journal[i].path = p
    BY <2>1
  <2>3. SettledTree[p] = IF HasBefore(t, i) \/ HasAfter(t, i)
                         THEN backup[t].journal[i].before ELSE files[p]
    BY <2>2, SettledPoint
  <2>4. SettledTree'[p] = IF HasBefore(t, i)' \/ HasAfter(t, i)'
                          THEN backup[t].journal[i].before ELSE files'[p]
    <3>1. t \in Pending' /\ i \in DOMAIN backup'[t].journal
      OBVIOUS
    <3>2. SettledTree'[backup'[t].journal[i].path] =
                IF HasBefore(t, i)' \/ HasAfter(t, i)'
                THEN backup'[t].journal[i].before
                ELSE files'[backup'[t].journal[i].path]
      BY <3>1, SettledPointNext
    <3> QED
      BY <2>2, <3>2
  <2>5. CASE files'[p] = files[p]
    BY <2>2, <2>3, <2>4, <2>5 DEF HasBefore, HasAfter
  <2>6. CASE files'[p] # files[p]
    <3>1. PICK u \in Pending : \E k \in DOMAIN backup[u].journal :
                 /\ backup[u].journal[k].path = p
                 /\ HasBefore(u, k) \/ HasAfter(u, k)
                 /\ HasBefore(u, k)' \/ HasAfter(u, k)'
      BY <2>6
    <3>2. u = t
      BY DEF SinglePending
    <3>3. t \in Ids
      BY IdentityAssumption DEF Pending, TypeOK, Ids
    <3>4. \A k \in DOMAIN backup[t].journal : backup[t].journal[k].path = p => k = i
      BY <2>2, <3>3 DEF JournalsFormed, JournalFormed
    <3>5. (HasBefore(t, i) \/ HasAfter(t, i)) /\ (HasBefore(t, i)' \/ HasAfter(t, i)')
      BY <3>1, <3>2, <3>4
    <3> QED
      BY <2>3, <2>4, <3>5
  <2> QED
    BY <2>5, <2>6
<1> QED
  BY <1>2, <1>3

\* The updates that can be rolled back, one record each.
Snap(t) == [id |-> t,
            before |-> [p \in PathsOf(t) |-> EntryOf(t, p).before],
            after |-> [p \in PathsOf(t) |-> EntryOf(t, p).after]]

Offered == {u \in 1..made : backup[u].complete /\ ~backup[u].restoring}

\* The snapshots of the abstract root are those of the offered transactions.
LEMMA SnapshotsAre == Snapshots = {Snap(t) : t \in Offered}
BY DEF Snapshots, Snap, Offered

\* SnapshotsAre, for the state a step leads to.
LEMMA SnapshotsAreNext == (Snapshots = {Snap(t) : t \in Offered})'
BY SnapshotsAre, PTL

\* A snapshot is what its journal says.
LEMMA SnapIs ==
    ASSUME NEW t, JournalFormed(t)
    PROVE  /\ Snap(t).id = t
           /\ DOMAIN Snap(t).before = PathsOf(t) /\ DOMAIN Snap(t).after = PathsOf(t)
           /\ \A i \in DOMAIN backup[t].journal :
                LET r == backup[t].journal[i]
                IN Snap(t).before[r.path] = r.before /\ Snap(t).after[r.path] = r.after
<1>1. \A i \in DOMAIN backup[t].journal : backup[t].journal[i].path \in PathsOf(t)
  BY DEF PathsOf
<1>2. \A i \in DOMAIN backup[t].journal :
         EntryOf(t, backup[t].journal[i].path) = backup[t].journal[i]
  BY EntryIs
<1>3. \A p \in PathsOf(t) : /\ Snap(t).before[p] = EntryOf(t, p).before
                            /\ Snap(t).after[p] = EntryOf(t, p).after
  BY DEF Snap
<1> QED
  BY <1>1, <1>2, <1>3 DEF Snap

\* A snapshot changes only with its journal.
LEMMA SnapKept ==
    ASSUME NEW t, backup'[t].journal = backup[t].journal
    PROVE  Snap(t)' = Snap(t)
<1>1. PathsOf(t)' = PathsOf(t)
  BY DEF PathsOf
<1>2. ASSUME NEW p PROVE EntryOf(t, p)' = EntryOf(t, p)
  BY DEF EntryOf
<1> QED
  BY <1>1, <1>2 DEF Snap

-----------------------------------------------------------------------------
(* Every step is a step of the promise, or is not seen. *)

\* What holds at both ends of a step, in every behaviour.
Refined == TypeOK /\ JournalsFormed /\ Inductive /\ Progress

\* A transaction that is not committed is an update of the settled root.
Update ==
    LET t == op.tx
        b == op.build
    IN op.step \in {"journal", "apply"} =>
          /\ b \in Builds
          /\ Shipped(b) \subseteq Allowed[KindOf[b]]
          /\ ~backup[t].complete /\ ~backup[t].restoring
          /\ PathsOf(t) = Atomic!Touched(b)
          /\ \A i \in DOMAIN backup[t].journal :
                backup[t].journal[i].after = Image[b][backup[t].journal[i].path]

\* The steps that change neither the files nor what recovery would do.
LEMMA Quiet ==
    ASSUME TypeOK, [Next]_vars, ~Plan, ~WriteJournal, ~ApplyFile, ~Commit, ~MarkRestoring,
           ~RestoreFile, ~MarkRolledBack,
           ~ \E p \in Editable, c \in UserContents : Edit(p, c)
    PROVE  /\ files' = files /\ made' = made
           /\ op.step # "idle" => backup' = backup
           /\ \A u \in Ids : /\ backup'[u].journal = backup[u].journal
                             /\ backup'[u].written = backup[u].written
                             /\ backup'[u].complete = backup[u].complete
                             /\ backup'[u].restoring = backup[u].restoring
                             /\ backup'[u].rolledBack = backup[u].rolledBack
<1>1. CASE \E d \in 1..made, p \in Paths : Damage(d, p)
  <2>1. PICK d \in 1..made : \E p \in Paths : Damage(d, p)
    BY <1>1
  <2>2. PICK p \in Paths : Damage(d, p)
    BY <2>1
  <2>3. /\ op.step = "idle" /\ backup' = [backup EXCEPT ![d].saved[p] = Damaged]
        /\ files' = files /\ made' = made
    BY <2>2, IdleType DEF Damage
  <2> QED
    BY <2>3 DEF TypeOK, Backup
<1>2. CASE ~ \E d \in 1..made, p \in Paths : Damage(d, p)
  <2>1. files' = files /\ made' = made /\ backup' = backup
    BY <1>2
    DEF vars, Next, CommandStep, Open, Close, Play, Install, Rollback, RecoverNext,
        RecoverRefused, RecoverDone, Abandon, ApplyFails, WriteReceipt, Validate, Refuse,
        RemoveReceipt, WriteFails, Fail, Crash, GameExit
  <2> QED
    BY <2>1
<1> QED
  BY <1>1, <1>2

\* The transactions a step leaves pending, and those it leaves to be rolled back.
LEMMA MarkersKept ==
    ASSUME TypeOK, made' = made,
           \A u \in Ids : /\ backup'[u].written = backup[u].written
                          /\ backup'[u].complete = backup[u].complete
                          /\ backup'[u].restoring = backup[u].restoring
                          /\ backup'[u].rolledBack = backup[u].rolledBack
    PROVE  Pending' = Pending /\ Offered' = Offered
<1>1. \A u \in 1..made : u \in Ids
  BY IdentityAssumption DEF TypeOK, Ids
<1>2. Pending' = Pending
  BY <1>1 DEF Pending, IsPending
<1>3. Offered' = Offered
  BY <1>1 DEF Offered
<1> QED
  BY <1>2, <1>3

\* A step that offers the same transactions and leaves their journals alone
\* keeps the snapshots.
LEMMA SnapshotsKept ==
    ASSUME Offered' = Offered, \A u \in Offered : backup'[u].journal = backup[u].journal
    PROVE  Snapshots' = Snapshots
<1>1. \A u \in Offered : Snap(u)' = Snap(u)
  BY SnapKept
<1>2. {Snap(u)' : u \in Offered} = {Snap(u) : u \in Offered}
  BY <1>1
<1>3. Snapshots' = {Snap(u)' : u \in Offered'}
  BY SnapshotsAreNext
<1> QED
  BY <1>2, <1>3, SnapshotsAre

\* A settled root that has the same file at every path is the same root.
LEMMA TreesEqual ==
    ASSUME Refined, Refined', \A p \in Paths : SettledTree'[p] = SettledTree[p]
    PROVE  SettledTree' = SettledTree
<1>1. SettledTree = [p \in Paths |-> SettledTree[p]]
  BY SettledPoint DEF Refined, Inductive
<1>2. SettledTree' = [p \in Paths |-> SettledTree'[p]]
  BY SettledPointNext DEF Refined, Inductive
<1> QED
  BY <1>1, <1>2

\* The quiet steps are not seen.
LEMMA QuietView ==
    ASSUME Refined, Refined', [Next]_vars, ~Plan, ~WriteJournal, ~ApplyFile, ~Commit,
           ~MarkRestoring, ~RestoreFile, ~MarkRolledBack,
           ~ \E p \in Editable, c \in UserContents : Edit(p, c)
    PROVE  SettledTree' = SettledTree /\ Snapshots' = Snapshots
<1>1. /\ files' = files /\ made' = made
      /\ \A u \in Ids : /\ backup'[u].journal = backup[u].journal
                        /\ backup'[u].written = backup[u].written
                        /\ backup'[u].complete = backup[u].complete
                        /\ backup'[u].restoring = backup[u].restoring
                        /\ backup'[u].rolledBack = backup[u].rolledBack
  BY Quiet DEF Refined
<1>2. Pending' = Pending /\ Offered' = Offered
  BY <1>1, MarkersKept DEF Refined
<1>3. Pending \subseteq Ids /\ Offered \subseteq Ids
  BY IdentityAssumption DEF Refined, Pending, Offered, TypeOK, Ids
<1>4. \A p \in Paths : SettledTree'[p] = SettledTree[p]
  BY <1>1, <1>2, <1>3, SettledChanges DEF Refined, Inductive
<1> QED
  BY <1>1, <1>2, <1>3, <1>4, TreesEqual, SnapshotsKept

\* Nor is the writing of a file by an install or a restore.
LEMMA WriteView ==
    ASSUME Refined, Refined', ApplyFile \/ RestoreFile
    PROVE  SettledTree' = SettledTree /\ Snapshots' = Snapshots
<1>1. PICK t \in Ids : \E i \in DOMAIN backup[t].journal :
         t = op.tx /\ i = op.at /\ backup[t].journal[i].path \in Paths
  BY RecordAt DEF Refined
<1>2. PICK i \in DOMAIN backup[t].journal :
         t = op.tx /\ i = op.at /\ backup[t].journal[i].path \in Paths
  BY <1>1
<1> DEFINE r == backup[t].journal[i]
<1>3. /\ backup' = backup /\ made' = made /\ t \in Pending
      /\ \E c : files' = [files EXCEPT ![r.path] = c]
  BY <1>2 DEF ApplyFile, RestoreFile, Refined, Inductive, StepSound
<1>4. Pending' = Pending /\ Offered' = Offered
  BY <1>3 DEF Pending, IsPending, Offered
<1>5. (HasBefore(t, i) \/ HasAfter(t, i)) /\ (HasBefore(t, i)' \/ HasAfter(t, i)')
  <2>1. CASE ApplyFile
    <3>1. op.step = "apply" /\ files' = [files EXCEPT ![r.path] = r.after]
      BY <1>2, <2>1 DEF ApplyFile
    <3>2. HasBefore(t, i) \/ HasAfter(t, i)
      BY <1>2, <3>1 DEF Refined, Progress
    <3>3. HasAfter(t, i)'
      BY <1>2, <1>3, <3>1 DEF HasAfter, Refined, TypeOK
    <3> QED
      BY <3>2, <3>3
  <2>2. CASE RestoreFile
    <3>1. op.step = "restore" /\ Restorable(t)
      BY <1>2, <2>2 DEF RestoreFile, Refined, Progress
    <3>2. files' = [files EXCEPT ![r.path] = r.before]
      BY <1>2, <2>2, <3>1 DEF RestoreFile, Restorable
    <3>3. HasBefore(t, i)'
      BY <1>2, <1>3, <3>2 DEF HasBefore, Refined, TypeOK
    <3>4. HasBefore(t, i) \/ HasAfter(t, i)
      BY <3>1 DEF Restorable, HasBefore, HasAfter
    <3> QED
      BY <3>3, <3>4
  <2> QED
    BY <2>1, <2>2
<1>6. ASSUME NEW p \in Paths PROVE SettledTree'[p] = SettledTree[p]
  <2>1. files'[p] = files[p] \/ p = r.path
    BY <1>2, <1>3 DEF Refined, TypeOK
  <2>2. \/ files'[p] = files[p]
        \/ \E u \in Pending : \E k \in DOMAIN backup[u].journal :
                 /\ backup[u].journal[k].path = p
                 /\ HasBefore(u, k) \/ HasAfter(u, k)
                 /\ HasBefore(u, k)' \/ HasAfter(u, k)'
    BY <1>3, <1>5, <2>1
  <2> QED
    BY <1>3, <1>4, <2>2, SettledChanges DEF Refined, Inductive
<1> QED
  BY <1>3, <1>4, <1>6, TreesEqual, SnapshotsKept

\* The steps at which a transaction has replaced nothing, or nothing any more:
\* recovery has nothing to do before them, and nothing after.
LEMMA BoundaryView ==
    ASSUME Refined, Refined', Plan \/ WriteJournal \/ MarkRolledBack
    PROVE  SettledTree' = SettledTree /\ Snapshots' = Snapshots
<1> USE IdentityAssumption
<1>types. TypeOK /\ TypeOK' /\ Inductive /\ Inductive' /\ Progress /\ JournalsFormed
          /\ JournalsFormed' /\ 1..made \subseteq Ids /\ made \in Nat
          /\ SinglePending /\ SinglePending' /\ StepSound /\ StepSound'
  BY DEF Refined, Inductive, TypeOK, Ids
<1>files. files' = files
  BY DEF Plan, WriteJournal, MarkRolledBack
<1>1. CASE Plan
  <2>0. PICK b : b = op.build
    OBVIOUS
  <2>1. PICK t \in Ids : \E o \in Orders(b) :
             /\ t = made + 1 /\ made' = t /\ b \in Builds
             /\ backup'[t] = Planned(b, o)
             /\ \A u \in Ids : u # t => backup'[u] = backup[u]
             /\ op'.step = "journal"
    BY <1>1, <1>types, <2>0, PlanMakes
  <2>2. PICK o \in Orders(b) :
             /\ t = made + 1 /\ made' = t /\ b \in Builds
             /\ backup'[t] = Planned(b, o)
             /\ \A u \in Ids : u # t => backup'[u] = backup[u]
             /\ op'.step = "journal"
    BY <2>1
  <2>3. Pending = {} /\ Pending' = {}
    BY <1>1, <1>types, <2>2 DEF Plan, StepSound
  <2>4. SettledTree = files /\ SettledTree' = files'
    BY <1>types, <2>3, SettledIsFiles, SettledIsFilesNext
  <2>5. ~backup'[t].complete
    BY <1>types, <2>2, PlannedType
  <2>6. \A u \in 1..made : u # t /\ u \in Ids
    BY <1>types, <2>2
  <2>7. 1..made' = (1..made) \cup {t}
    BY <1>types, <2>2
  <2>8. Offered' = Offered
    BY <2>2, <2>5, <2>6, <2>7 DEF Offered
  <2>9. \A u \in Offered : backup'[u].journal = backup[u].journal
    BY <2>2, <2>6 DEF Offered
  <2> QED
    BY <1>files, <2>4, <2>8, <2>9, SnapshotsKept
<1>2. CASE WriteJournal \/ MarkRolledBack
  <2>1. PICK t \in Ids : t = op.tx
    BY <1>2, <1>types DEF WriteJournal, MarkRolledBack, TypeOK, CommandOK
  <2>2. /\ made' = made
        /\ \/ backup' = [backup EXCEPT ![t].written = TRUE]
           \/ backup' = [backup EXCEPT ![t].rolledBack = TRUE]
    BY <1>2, <2>1 DEF WriteJournal, MarkRolledBack
  <2>3. \A u \in Ids : /\ backup'[u].journal = backup[u].journal
                       /\ backup'[u].complete = backup[u].complete
                       /\ backup'[u].restoring = backup[u].restoring
    <3>1. CASE backup' = [backup EXCEPT ![t].written = TRUE]
      BY <1>types, <3>1 DEF TypeOK, Backup
    <3>2. CASE backup' = [backup EXCEPT ![t].rolledBack = TRUE]
      BY <1>types, <3>2 DEF TypeOK, Backup
    <3> QED
      BY <2>2, <3>1, <3>2
  <2>4. \A i \in DOMAIN backup[t].journal : HasBefore(t, i) /\ HasBefore(t, i)'
    <3>1. \A i \in DOMAIN backup[t].journal : HasBefore(t, i)
      BY <1>2, <1>types, <2>1 DEF WriteJournal, MarkRolledBack, Progress
    <3> QED
      BY <1>files, <2>3, <3>1 DEF HasBefore
  <2>5. Pending \subseteq {t}
    BY <1>2, <1>types, <2>1 DEF WriteJournal, MarkRolledBack, StepSound
  <2>6. Pending' \subseteq {t}
    <3>1. t \in 1..made
      BY <1>2, <1>types, <2>1 DEF WriteJournal, MarkRolledBack, Progress
    <3> QED
      BY <1>types, <1>files, <2>2, <2>5, <3>1, Marked
  <2>7. SettledTree = files
    BY <1>types, <2>4, <2>5, SettledIsFiles
  <2>8. SettledTree' = files'
    <3>1. \A u \in Pending' : \A i \in DOMAIN backup'[u].journal : HasBefore(u, i)'
      BY <2>3, <2>4, <2>6
    <3> QED
      BY <1>types, <3>1, SettledIsFilesNext
  <2>9. Offered' = Offered /\ Offered \subseteq Ids
    BY <1>types, <2>2, <2>3 DEF Offered
  <2> QED
    BY <1>files, <2>3, <2>7, <2>8, <2>9, SnapshotsKept
<1> QED
  BY <1>1, <1>2

\* An edit of the user's is one of the promise: recovery would keep it.
LEMMA EditView ==
    ASSUME Refined, Refined', NEW p \in Editable, NEW c \in UserContents, Edit(p, c)
    PROVE  Atomic!AEdit(p, c)
<1>1. /\ UNCHANGED <<backup, made>> /\ p \in Paths
      /\ files' = [files EXCEPT ![p] = c] /\ files \in [Paths -> Stored]
  BY BuildAssumption DEF Edit, Refined, TypeOK
<1>2. Pending' = Pending /\ Offered' = Offered
  BY <1>1 DEF Pending, IsPending, Offered
<1>3. \A q \in Paths : q # p => SettledTree'[q] = SettledTree[q]
  <2>1. ASSUME NEW q \in Paths, q # p PROVE SettledTree'[q] = SettledTree[q]
    <3>1. files'[q] = files[q]
      BY <1>1, <2>1
    <3> QED
      BY <1>1, <1>2, <3>1, SettledChanges DEF Refined, Inductive
  <2> QED
    BY <2>1
<1>4. files'[p] = c
  BY <1>1
<1>5. SettledTree'[p] = c
  <2>1. CASE \A t \in Pending' : p \notin PathsOf(t)'
    BY <1>1, <1>4, <2>1, SettledPointNext DEF Refined, Inductive
  <2>2. CASE \E t \in Pending' : p \in PathsOf(t)'
    <3>1. PICK t \in Pending' : \E i \in DOMAIN backup'[t].journal : backup'[t].journal[i].path = p
      BY <2>2 DEF PathsOf
    <3>2. PICK i \in DOMAIN backup'[t].journal : backup'[t].journal[i].path = p
      BY <3>1
    <3>3. SettledTree'[p] = IF HasBefore(t, i)' \/ HasAfter(t, i)'
                            THEN backup'[t].journal[i].before ELSE files'[p]
      <4>1. SettledTree'[backup'[t].journal[i].path] =
               IF HasBefore(t, i)' \/ HasAfter(t, i)'
               THEN backup'[t].journal[i].before
               ELSE files'[backup'[t].journal[i].path]
        BY SettledPointNext DEF Refined, Inductive
      <4> QED
        BY <3>2, <4>1
    <3>4. t \in Ids
      BY <1>2, IdentityAssumption DEF Pending, Refined, TypeOK, Ids
    <3>5. backup'[t].journal[i].after \notin UserContents
      BY <3>4 DEF Refined, JournalsFormed, JournalFormed
    <3>6. HasBefore(t, i)' => backup'[t].journal[i].before = c
      BY <1>4, <3>2 DEF HasBefore
    <3>7. ~HasAfter(t, i)'
      BY <1>4, <3>2, <3>5 DEF HasAfter
    <3> QED
      BY <1>4, <3>3, <3>6, <3>7
  <2> QED
    BY <2>1, <2>2
<1>6. SettledTree = [q \in Paths |-> SettledTree[q]]
  BY SettledPoint DEF Refined, Inductive
<1>7. SettledTree' = [q \in Paths |-> SettledTree'[q]]
  BY SettledPointNext DEF Refined, Inductive
<1>8. SettledTree' = [SettledTree EXCEPT ![p] = c]
  BY <1>3, <1>5, <1>6, <1>7
<1>9. Snapshots' = Snapshots
  BY <1>1, <1>2, SnapshotsKept
<1> QED
  BY <1>8, <1>9 DEF Atomic!AEdit

\* The completion marker installs the whole build at once.
LEMMA CommitView ==
    ASSUME Refined, Refined', Update, Commit, NEW b \in Builds, b = op.build
    PROVE  Atomic!AInstall(b)
<1> USE IdentityAssumption
<1>types. TypeOK /\ TypeOK' /\ Inductive /\ Inductive' /\ Progress /\ JournalsFormed
          /\ JournalsFormed' /\ 1..made \subseteq Ids /\ made \in Nat
          /\ SinglePending /\ SinglePending' /\ StepSound /\ StepSound'
  BY DEF Refined, Inductive, TypeOK, Ids
<1>0. PICK t \in Ids : t = op.tx
  BY <1>types DEF Commit, TypeOK, CommandOK
<1>1. /\ t \in Pending /\ Pending = {t} /\ t \in 1..made /\ op.step = "apply"
      /\ files' = files /\ made' = made /\ backup' = [backup EXCEPT ![t].complete = TRUE]
  BY <1>0, <1>types DEF Commit, StepSound, SinglePending, Progress
<1>2. /\ Shipped(b) \subseteq Allowed[KindOf[b]] /\ ~backup[t].complete /\ ~backup[t].restoring
      /\ PathsOf(t) = Atomic!Touched(b)
      /\ \A i \in DOMAIN backup[t].journal :
            backup[t].journal[i].after = Image[b][backup[t].journal[i].path]
  BY <1>0, <1>1 DEF Update
<1>3. \A i \in DOMAIN backup[t].journal : HasAfter(t, i)
  <2>1. backup[t].journal \in Seq(Entry) /\ op.at \in Int
    BY <1>types DEF TypeOK, Backup, Command
  <2>2. \A i \in DOMAIN backup[t].journal : i < op.at
    BY <1>0, <2>1 DEF Commit
  <2> QED
    BY <1>0, <1>1, <1>types, <2>2 DEF Progress
<1>4. /\ backup'[t].complete /\ backup'[t].restoring = backup[t].restoring
      /\ \A u \in Ids : u # t => backup'[u] = backup[u]
      /\ \A u \in Ids : backup'[u].journal = backup[u].journal
  BY <1>1, <1>types DEF TypeOK, Backup
<1>5. Pending' = {}
  <2>1. Pending' \subseteq {t}
    BY <1>1, <1>types, Marked
  <2>2. t \notin Pending'
    BY <1>2, <1>4 DEF Pending, IsPending
  <2> QED
    BY <2>1, <2>2
<1>6. SettledTree' = files
  BY <1>1, <1>5, <1>types, SettledIsFilesNext
<1>7. \A i \in DOMAIN backup[t].journal :
         SettledTree[backup[t].journal[i].path] = backup[t].journal[i].before
  BY <1>1, <1>3, <1>types, SettledPoint
<1>8. \A p \in Paths : p \notin PathsOf(t) => SettledTree[p] = files[p]
  BY <1>1, <1>types, SettledPoint
<1>9. \A p \in PathsOf(t) : files[p] = Image[b][p]
  BY <1>2, <1>3 DEF PathsOf, HasAfter
<1>10. SettledTree' =
          [p \in Paths |-> IF p \in Atomic!Touched(b) THEN Image[b][p] ELSE SettledTree[p]]
  <2>1. \A p \in Paths :
           files[p] = IF p \in Atomic!Touched(b) THEN Image[b][p] ELSE SettledTree[p]
    BY <1>2, <1>8, <1>9
  <2>2. files = [p \in Paths |-> files[p]]
    BY <1>types DEF TypeOK
  <2> QED
    BY <1>6, <2>1, <2>2
<1>11. Snap(t)' = [id |-> t,
                   before |-> [p \in Atomic!Touched(b) |-> SettledTree[p]],
                   after |-> [p \in Atomic!Touched(b) |-> Image[b][p]]]
  <2>1. JournalFormed(t)
    BY <1>types DEF JournalsFormed
  <2>2. \A p \in PathsOf(t) : EntryOf(t, p).before = SettledTree[p] /\ EntryOf(t, p).after = Image[b][p]
    <3>1. ASSUME NEW i \in DOMAIN backup[t].journal
          PROVE  EntryOf(t, backup[t].journal[i].path) = backup[t].journal[i]
      BY <2>1, EntryIs
    <3> QED
      BY <1>2, <1>7, <3>1 DEF PathsOf
  <2>3. /\ [p \in PathsOf(t) |-> EntryOf(t, p).before] = [p \in PathsOf(t) |-> SettledTree[p]]
        /\ [p \in PathsOf(t) |-> EntryOf(t, p).after] = [p \in PathsOf(t) |-> Image[b][p]]
    BY <2>2
  <2>4. Snap(t)' = Snap(t)
    BY <1>4, SnapKept
  <2> QED
    BY <1>2, <2>3, <2>4 DEF Snap
<1>12. Offered' = Offered \cup {t} /\ t \notin Offered /\ Offered \subseteq Ids
  BY <1>1, <1>2, <1>4, <1>types DEF Offered
<1>13. Snapshots' = Snapshots \cup {Snap(t)'}
  <2>1. \A u \in Offered : Snap(u)' = Snap(u)
    BY <1>4, <1>12, SnapKept
  <2>2. Snapshots' = {Snap(u)' : u \in Offered'}
    BY SnapshotsAreNext
  <2>3. {Snap(u)' : u \in Offered'} = {Snap(u)' : u \in Offered} \cup {Snap(t)'}
    BY <1>12
  <2>4. {Snap(u)' : u \in Offered} = {Snap(u) : u \in Offered}
    BY <2>1
  <2> QED
    BY <2>2, <2>3, <2>4, SnapshotsAre
<1>14. t \in Ids \ {s.id : s \in Snapshots}
  <2>1. \A u \in Offered : Snap(u).id = u
    BY DEF Snap
  <2>2. \A s \in Snapshots : s.id # t
    BY <1>12, <2>1, SnapshotsAre
  <2> QED
    BY <2>2
<1>15. [c \in Builds |-> Shipped(c)][b] = Shipped(b)
  OBVIOUS
<1> QED
  BY <1>2, <1>10, <1>11, <1>13, <1>14, <1>15 DEF Atomic!AInstall

\* The first marker of a rollback takes the whole update back at once; that of
\* an interrupted install or rollback is not seen.
LEMMA RestoringView ==
    ASSUME Refined, Refined', MarkRestoring
    PROVE  \/ SettledTree' = SettledTree /\ Snapshots' = Snapshots
           \/ \E s \in Snapshots : Atomic!ARollback(s)
<1> USE IdentityAssumption
<1>types. TypeOK /\ TypeOK' /\ Inductive /\ Inductive' /\ Progress /\ JournalsFormed
          /\ JournalsFormed' /\ 1..made \subseteq Ids /\ made \in Nat
          /\ SinglePending /\ SinglePending' /\ StepSound /\ StepSound'
  BY DEF Refined, Inductive, TypeOK, Ids
<1>0. PICK t \in Ids : t = op.tx
  BY <1>types DEF MarkRestoring, TypeOK, CommandOK
<1>1. /\ t \in 1..made /\ backup[t].written /\ ~backup[t].rolledBack /\ Pending \subseteq {t}
      /\ Restorable(t)
      /\ files' = files /\ made' = made /\ backup' = [backup EXCEPT ![t].restoring = TRUE]
  BY <1>0, <1>types DEF MarkRestoring, StepSound, Progress
<1>2. /\ backup'[t].restoring /\ backup'[t].complete = backup[t].complete
      /\ backup'[t].written = backup[t].written /\ backup'[t].rolledBack = backup[t].rolledBack
      /\ \A u \in Ids : u # t => backup'[u] = backup[u]
      /\ \A u \in Ids : backup'[u].journal = backup[u].journal
  BY <1>1, <1>types, ZenonT(40) DEF TypeOK, Backup
<1>3. Pending' = {t}
  <2>1. t \in Pending'
    BY <1>1, <1>2 DEF Pending, IsPending
  <2> QED
    BY <1>types, <2>1 DEF SinglePending
<1>4. \A i \in DOMAIN backup[t].journal : /\ HasBefore(t, i) \/ HasAfter(t, i)
                                          /\ HasBefore(t, i)' \/ HasAfter(t, i)'
  BY <1>1, <1>2 DEF Restorable, HasBefore, HasAfter
<1>5. CASE t \in Pending
  <2>1. Pending' = Pending
    BY <1>1, <1>3, <1>5
  <2>2. \A p \in Paths : SettledTree'[p] = SettledTree[p]
    BY <1>1, <1>2, <1>types, <2>1, SettledChanges
  <2>3. Offered' = Offered /\ Offered \subseteq Ids
    <3>1. t \notin Offered /\ t \notin Offered'
      BY <1>2, <1>5 DEF Offered, Pending, IsPending
    <3>2. \A u \in Ids : u # t => (u \in Offered <=> u \in Offered')
      BY <1>1, <1>2 DEF Offered
    <3> QED
      BY <1>1, <1>types, <3>1, <3>2 DEF Offered
  <2>4. SettledTree' = SettledTree
    BY <2>2, TreesEqual
  <2>5. Snapshots' = Snapshots
    BY <1>2, <2>3, SnapshotsKept
  <2> QED
    BY <2>4, <2>5
<1>6. CASE t \notin Pending
  <2>1. Pending = {} /\ backup[t].complete /\ ~backup[t].restoring
    BY <1>1, <1>6 DEF Pending, IsPending
  <2>2. SettledTree = files
    BY <1>types, <2>1, SettledIsFiles
  <2>3. t \in Offered /\ Offered' = Offered \ {t} /\ Offered \subseteq Ids
    <3>1. t \in Offered /\ t \notin Offered' /\ Offered \subseteq Ids /\ Offered' \subseteq Ids
      BY <1>1, <1>2, <1>types, <2>1 DEF Offered
    <3>2. \A u \in Ids : u # t => (u \in Offered <=> u \in Offered')
      BY <1>1, <1>2 DEF Offered
    <3> QED
      BY <3>1, <3>2
  <2>4. JournalFormed(t)
    BY <1>types DEF JournalsFormed
  <2> DEFINE s == Snap(t)
  <2>5. /\ DOMAIN s.before = PathsOf(t)
        /\ \A i \in DOMAIN backup[t].journal :
              LET r == backup[t].journal[i]
              IN s.before[r.path] = r.before /\ s.after[r.path] = r.after
    BY <2>4, SnapIs
  <2>6. s \in Snapshots
    BY <2>3, SnapshotsAre
  <2>7. \A p \in PathsOf(t) : SettledTree[p] \in {s.before[p], s.after[p]}
    BY <1>4, <2>2, <2>5 DEF PathsOf, HasBefore, HasAfter
  <2>8. SettledTree' =
          [p \in Paths |-> IF p \in PathsOf(t) THEN s.before[p] ELSE SettledTree[p]]
    <3>1. \A p \in PathsOf(t) : SettledTree'[p] = s.before[p]
      <4>1. ASSUME NEW i \in DOMAIN backup[t].journal
            PROVE  SettledTree'[backup[t].journal[i].path] = backup[t].journal[i].before
        <5>1. t \in Pending' /\ i \in DOMAIN backup'[t].journal
          BY <1>2, <1>3
        <5>2. SettledTree'[backup'[t].journal[i].path] =
                 IF HasBefore(t, i)' \/ HasAfter(t, i)'
                 THEN backup'[t].journal[i].before
                 ELSE files'[backup'[t].journal[i].path]
          BY <1>types, <5>1, SettledPointNext
        <5> QED
          BY <1>2, <1>4, <5>2
      <4> QED
        BY <2>5, <4>1 DEF PathsOf
    <3>2. PathsOf(t)' = PathsOf(t)
      BY <1>2 DEF PathsOf
    <3>3. \A p \in Paths : p \notin PathsOf(t) => SettledTree'[p] = files[p]
      BY <1>1, <1>3, <1>types, <3>2, SettledPointNext
    <3>4. SettledTree' = [p \in Paths |-> SettledTree'[p]]
      BY <1>types, SettledPointNext
    <3>5. \A p \in Paths :
             SettledTree'[p] = IF p \in PathsOf(t) THEN s.before[p] ELSE SettledTree[p]
      BY <2>2, <3>1, <3>3
    <3> QED
      BY <3>4, <3>5
  <2>9. Snapshots' = Snapshots \ {s}
    <3>1. \A u \in Offered : Snap(u)' = Snap(u)
      BY <1>2, <2>3, SnapKept
    <3>2. Snapshots' = {Snap(u)' : u \in Offered'}
      BY SnapshotsAreNext
    <3>3. {Snap(u)' : u \in Offered'} = {Snap(u) : u \in Offered \ {t}}
      BY <2>3, <3>1
    <3>4. \A u \in Offered : Snap(u).id = u
      BY DEF Snap
    <3>5. {Snap(u) : u \in Offered \ {t}} = {Snap(u) : u \in Offered} \ {s}
      BY <2>3, <3>4
    <3> QED
      BY <3>2, <3>3, <3>5, SnapshotsAre
  <2>10. Atomic!ARollback(s)
    BY <2>5, <2>7, <2>8, <2>9 DEF Atomic!ARollback
  <2> QED
    BY <2>6, <2>10
<1> QED
  BY <1>5, <1>6

\* Which build the root belongs to is decided by the inventory alone.
LEMMA TouchedKept ==
    ASSUME NEW b \in Builds,
           SettledTree'[Manifest[KindOf[b]]] = SettledTree[Manifest[KindOf[b]]]
    PROVE  Atomic!Touched(b)' = Atomic!Touched(b)
BY DEF Atomic!Touched

\* Nothing is being installed.
LEMMA UpdateInit == Init => Update
BY IdleType DEF Init, Update

\* Until it is committed a transaction stays the update of the settled root
\* that Plan made: nothing that happens meanwhile changes the inventory there.
LEMMA UpdateNext ==
    ASSUME Refined, Refined', Update, [Next]_vars
    PROVE  Update'
<1> USE IdentityAssumption, IdleType
<1>types. TypeOK /\ TypeOK' /\ Inductive /\ Inductive' /\ Progress /\ JournalsFormed
          /\ 1..made \subseteq Ids /\ SinglePending /\ StepSound /\ StepSound'
  BY DEF Refined, Inductive, TypeOK, Ids
<1>0. SUFFICES ASSUME op'.step \in {"journal", "apply"}
               PROVE  Update'
  BY DEF Update
<1>1. CASE Plan
  <2>0. PICK b : b = op.build
    OBVIOUS
  <2>1. PICK t \in Ids : \E o \in Orders(b) :
             /\ b \in Builds /\ Shipped(b) \subseteq Allowed[KindOf[b]]
             /\ backup'[t] = Planned(b, o)
             /\ op'.tx = t /\ op'.build = b
    BY <1>1, <1>types, <2>0, PlanMakes
  <2>2. PICK o \in Orders(b) :
             /\ b \in Builds /\ Shipped(b) \subseteq Allowed[KindOf[b]]
             /\ backup'[t] = Planned(b, o)
             /\ op'.tx = t /\ op'.build = b
    BY <2>1
  <2>3. /\ DOMAIN backup'[t].journal = DOMAIN o
        /\ \A i \in DOMAIN o : /\ backup'[t].journal[i].path = o[i]
                               /\ backup'[t].journal[i].after = Image[b][o[i]]
        /\ ~backup'[t].complete /\ ~backup'[t].restoring
    BY <1>types, <2>2, PlannedType, PlannedFormed
  <2>4. PathsOf(t)' = {o[i] : i \in DOMAIN o}
    BY <2>3 DEF PathsOf
  <2>5. {o[i] : i \in DOMAIN o} = Shipped(b) \cup Dropped(b) \cup {Manifest[KindOf[b]]}
    BY <1>types, <2>2, OrderCovers
  <2>6. SettledTree = files
    <3>1. Pending = {}
      BY <1>1, <1>types DEF Plan, StepSound
    <3> QED
      BY <1>types, <3>1, SettledIsFiles
  <2>7. SettledTree' = SettledTree
    BY <1>1, BoundaryView
  <2>8. Atomic!Touched(b) = Shipped(b) \cup Dropped(b) \cup {Manifest[KindOf[b]]}
    <3> DEFINE k == KindOf[b]
               same == {c \in Builds : KindOf[c] = k /\ Image[c][Manifest[k]] = files[Manifest[k]]}
    <3>1. UNION {[c \in Builds |-> Shipped(c)][d] : d \in same} = UNION {Shipped(d) : d \in same}
      OBVIOUS
    <3>2. Listed(k) = UNION {Shipped(d) : d \in same}
      BY DEF Listed
    <3>3. [c \in Builds |-> Shipped(c)][b] = Shipped(b)
      BY <2>2
    <3>4. Atomic!Touched(b) = Shipped(b) \cup (Listed(k) \cap Allowed[k]) \cup {Manifest[k]}
      BY <2>6, <3>1, <3>2, <3>3 DEF Atomic!Touched
    <3> QED
      BY <3>4 DEF Dropped
  <2>9. Atomic!Touched(b)' = Atomic!Touched(b)
    BY <2>2, <2>7, TouchedKept
  <2> QED
    BY <2>2, <2>3, <2>4, <2>5, <2>8, <2>9 DEF Update
<1>2. CASE ~Plan
  <2>1. /\ op.step \in {"journal", "apply"} /\ op'.tx = op.tx /\ op'.build = op.build
        /\ WriteJournal \/ ApplyFile \/ op' = op
    <3>1. CASE WriteJournal \/ ApplyFile
      <4>1. CASE WriteJournal
        BY <4>1 DEF WriteJournal, Move
      <4>2. CASE ApplyFile
        BY <4>2 DEF ApplyFile, Move
      <4> QED
        BY <3>1, <4>1, <4>2
    <3>2. CASE op' = op
      BY <1>0, <3>2
    <3>3. CASE \E p \in Procs : Open(p) \/ \E b \in Builds : Install(p, b)
      BY <1>0, <3>3 DEF Open, Install, Begin
    <3>4. CASE \E p \in Procs, t \in 1..made : Rollback(p, t)
      BY <1>0, <3>4 DEF Rollback, Begin
    <3>5. CASE \/ RecoverNext \/ RecoverRefused \/ RecoverDone \/ Abandon \/ ApplyFails
               \/ Commit \/ WriteReceipt \/ Validate \/ Refuse \/ MarkRestoring
      BY <1>0, <3>5
      DEF RecoverNext, RecoverRefused, RecoverDone, Abandon, ApplyFails, Commit,
          WriteReceipt, Validate, Refuse, MarkRestoring, Fail, Begin, Goto, Move
    <3>6. CASE RestoreFile \/ RemoveReceipt \/ MarkRolledBack \/ WriteFails \/ Crash
      <4>1. CASE RestoreFile \/ RemoveReceipt
        <5>1. \/ Move("restore", op.tx, op.at - 1)
              \/ Move("forget", op.tx, op.at)
          BY <4>1 DEF RestoreFile, RemoveReceipt, Goto
        <5>2. op'.step \in {"restore", "forget"}
          BY <5>1 DEF Move
        <5> QED
          BY <1>0, <5>2
      <4>2. CASE MarkRolledBack \/ WriteFails \/ Crash
        <5>1. op'.step \notin {"journal", "apply"}
          BY <1>0, <4>2 DEF MarkRolledBack, WriteFails, Crash, Fail, Goto, Move
        <5> QED
          BY <1>0, <5>1
      <4> QED
        BY <3>6, <4>1, <4>2
    <3> QED
      BY <1>2, <3>1, <3>2, <3>3, <3>4, <3>5, <3>6
      DEF vars, Next, CommandStep, Close, Play, GameExit, Edit, Damage
  <2>2. PICK t \in Ids : t = op.tx
    BY <1>types, <2>1 DEF TypeOK, CommandOK
  <2>3. PICK b \in Builds : b = op.build
    BY <2>1 DEF Update
  <2>4. /\ Shipped(b) \subseteq Allowed[KindOf[b]]
        /\ ~backup[t].complete /\ ~backup[t].restoring
        /\ PathsOf(t) = Atomic!Touched(b)
        /\ \A i \in DOMAIN backup[t].journal :
              backup[t].journal[i].after = Image[b][backup[t].journal[i].path]
    BY <2>1, <2>2, <2>3 DEF Update
  <2>5. ~Commit /\ ~MarkRestoring /\ ~RestoreFile /\ ~MarkRolledBack
    BY <1>0, <2>1, <1>types, <2>2 DEF Commit, MarkRestoring, RestoreFile, MarkRolledBack, Goto, Move
  <2>6. /\ backup'[t].journal = backup[t].journal
        /\ backup'[t].complete = backup[t].complete
        /\ backup'[t].restoring = backup[t].restoring
    <3>1. CASE WriteJournal
      <4>1. backup' = [backup EXCEPT ![t].written = TRUE]
        BY <2>2, <3>1 DEF WriteJournal
      <4> QED
        BY <1>types, <4>1 DEF TypeOK, Backup
    <3>2. CASE ApplyFile \/ \E p \in Editable, c \in UserContents : Edit(p, c)
      BY <3>2 DEF ApplyFile, Edit
    <3>3. CASE ~WriteJournal /\ ~ApplyFile /\ ~ \E p \in Editable, c \in UserContents : Edit(p, c)
      BY <1>2, <1>types, <2>1, <2>5, <3>3, Quiet
    <3> QED
      BY <3>1, <3>2, <3>3
  <2>7. SettledTree'[Manifest[KindOf[b]]] = SettledTree[Manifest[KindOf[b]]]
    <3>1. CASE WriteJournal
      BY <3>1, BoundaryView
    <3>2. CASE ApplyFile
      BY <3>2, WriteView
    <3>3. ASSUME NEW p \in Editable, NEW c \in UserContents, Edit(p, c)
          PROVE  SettledTree'[Manifest[KindOf[b]]] = SettledTree[Manifest[KindOf[b]]]
      <4>1. SettledTree' = [SettledTree EXCEPT ![p] = c]
        BY <3>3, EditView DEF Atomic!AEdit
      <4>2. Manifest[KindOf[b]] # p /\ Manifest[KindOf[b]] \in Paths
        BY BuildAssumption, EditAssumption
      <4>3. SettledTree = [q \in Paths |-> SettledTree[q]]
        BY <1>types, SettledPoint
      <4> QED
        BY <4>1, <4>2, <4>3
    <3>4. CASE ~WriteJournal /\ ~ApplyFile /\ ~ \E p \in Editable, c \in UserContents : Edit(p, c)
      BY <1>2, <2>5, <3>4, QuietView
    <3> QED
      BY <3>1, <3>2, <3>3, <3>4
  <2>8. Atomic!Touched(b)' = Atomic!Touched(b)
    BY <2>7, TouchedKept
  <2>9. PathsOf(t)' = PathsOf(t)
    BY <2>6 DEF PathsOf
  <2>10. \A i \in DOMAIN backup'[t].journal :
            backup'[t].journal[i].after = Image[b][backup'[t].journal[i].path]
    BY <2>4, <2>6
  <2>11. /\ ~backup'[t].complete /\ ~backup'[t].restoring
         /\ PathsOf(t)' = Atomic!Touched(b)'
    BY <2>4, <2>6, <2>8, <2>9
  <2>12. op'.tx = t /\ op'.build = b
    BY <2>1, <2>2, <2>3
  <2> QED
    BY <2>4, <2>10, <2>11, <2>12 DEF Update
<1> QED
  BY <1>1, <1>2

\* Every step of the launchers is a step of the promise or is not seen.
LEMMA Simulation ==
    ASSUME Refined, Refined', Update, [Next]_vars
    PROVE  [Atomic!ANext]_(Atomic!avars)
<1>1. CASE SettledTree' = SettledTree /\ Snapshots' = Snapshots
  BY <1>1 DEF Atomic!avars
<1>2. CASE Plan \/ WriteJournal \/ MarkRolledBack
  BY <1>1, <1>2, BoundaryView
<1>3. CASE ApplyFile \/ RestoreFile
  BY <1>1, <1>3, WriteView
<1>4. CASE Commit
  <2>1. PICK b \in Builds : b = op.build
    BY <1>4 DEF Commit, Update
  <2>2. Atomic!AInstall(b)
    BY <1>4, <2>1, CommitView
  <2> QED
    BY <2>2 DEF Atomic!ANext
<1>5. CASE MarkRestoring
  BY <1>1, <1>5, RestoringView DEF Atomic!ANext
<1>6. ASSUME NEW p \in Editable, NEW c \in UserContents, Edit(p, c)
      PROVE  [Atomic!ANext]_(Atomic!avars)
  BY <1>6, EditView DEF Atomic!ANext
<1>7. CASE /\ ~Plan /\ ~WriteJournal /\ ~ApplyFile /\ ~Commit /\ ~MarkRestoring
           /\ ~RestoreFile /\ ~MarkRolledBack
           /\ ~ \E p \in Editable, c \in UserContents : Edit(p, c)
  BY <1>1, <1>7, QuietView
<1> QED
  BY <1>2, <1>3, <1>4, <1>5, <1>6, <1>7

\* The initial states of the transaction are initial states of the promise.
LEMMA SimulationInit == Init => Atomic!AInit
<1> SUFFICES ASSUME Init PROVE Atomic!AInit
  OBVIOUS
<1>1. Pending = {} /\ made = 0 /\ files = InitialFiles
  BY DEF Init, Pending
<1>2. TypeOK /\ SinglePending /\ JournalsFormed
  BY TypeInit, InductiveInit, JournalsFormedInit DEF Inductive
<1>3. SettledTree = InitialFiles
  BY <1>1, <1>2, SettledIsFiles
<1>4. Snapshots = {}
  BY <1>1 DEF Snapshots
<1> QED
  BY <1>3, <1>4 DEF Atomic!AInit

\* What holds in every state of the launchers.
THEOREM RefinedCorrect ==
    ASSUME SafeEnvironment, EditsBetween
    PROVE  Spec => [](Refined /\ Update)
<1>1. Refined /\ Refined' /\ Update /\ [Next]_vars => Update'
  BY UpdateNext
<1>2. TypeOK /\ JournalsFormed /\ Inductive /\ Progress => Refined
  BY DEF Refined
<1> QED
  BY <1>1, <1>2, UpdateInit, TypeCorrect, JournalsFormedCorrect, InductiveCorrect,
     ProgressCorrect, PTL DEF Spec

\* Whatever fails, crashes or restarts, the files seen through recovery are
\* those of builds installed, and rolled back, at once.
THEOREM InstallsAreAtomicCorrect ==
    ASSUME SafeEnvironment, EditsBetween
    PROVE  Spec => InstallsAreAtomic
<1>1. Refined /\ Refined' /\ Update /\ [Next]_vars => [Atomic!ANext]_(Atomic!avars)
  BY Simulation
<1> QED
  BY <1>1, SimulationInit, RefinedCorrect, PTL DEF Spec, InstallsAreAtomic, Atomic!ASpec

-----------------------------------------------------------------------------
(* The root is never a mixture of two builds. *)

\* The packages are what the promise takes them for.
LEMMA PackagesSoundHere == Promise!PackagesSound
<1> USE BuildAssumption
<1> DEFINE bytes == UNION {{Image[b][p] : p \in Paths} : b \in Builds}
<1>1. DOMAIN Allowed = Kinds
  OBVIOUS
<1>2. \A k \in Kinds : Manifest[k] \in Allowed[k] /\ Allowed[k] \subseteq Paths
  BY KindAssumption
<1>3. \A j, k \in Kinds : j # k => Allowed[j] \cap Allowed[k] = {}
  BY KindAssumption
<1>4. Image \in [Builds -> [Paths -> bytes]]
  <2>1. ASSUME NEW b \in Builds PROVE Image[b] \in [Paths -> bytes]
    <3>1. \A p \in Paths : Image[b][p] \in bytes
      OBVIOUS
    <3>2. Image[b] \in [Paths -> Published]
      OBVIOUS
    <3> HIDE DEF bytes
    <3> QED
      BY <3>1, <3>2
  <2> HIDE DEF bytes
  <2> QED
    BY <2>1
<1>5. \A b \in Builds : Image[b][Manifest[KindOf[b]]] # Absent
  BY PackageAssumption
<1>6. ASSUME NEW b \in Builds, NEW p \in Allowed[KindOf[b]], Image[b][p] # Absent
      PROVE  p = Manifest[KindOf[b]] \/ p \in [c \in Builds |-> Shipped(c)][b]
  <2>1. [c \in Builds |-> Shipped(c)][b] = Shipped(b)
    OBVIOUS
  <2>2. p = Manifest[KindOf[b]] \/ \E i \in DOMAIN Inventory[b] : Inventory[b][i] = p
    BY <1>6, PackageAssumption
  <2> QED
    BY <2>1, <2>2 DEF Shipped
<1>7. \A b, c \in Builds :
          (/\ KindOf[b] = KindOf[c]
           /\ Image[b][Manifest[KindOf[b]]] = Image[c][Manifest[KindOf[b]]])
             => \A p \in Allowed[KindOf[b]] : Image[b][p] = Image[c][p]
  BY PackageAssumption
<1>8. /\ \A b \in Builds, p \in Paths : Image[b][p] \notin UserContents
      /\ \A k \in Kinds : Manifest[k] \notin Editable
  BY EditAssumption
<1>9. Absent \notin UserContents
  BY IdentityAssumption
<1>10. KindOf \in [Builds -> Kinds]
  OBVIOUS
<1> QED
  BY <1>1, <1>2, <1>3, <1>4, <1>5, <1>6, <1>7, <1>8, <1>9, <1>10 DEF Promise!PackagesSound

\* So is the root that the first launcher finds.
LEMMA RootSoundHere == Promise!RootSound
<1>1. InitialFiles \in [Paths -> {InitialFiles[p] : p \in Paths}] /\ DOMAIN Allowed = Kinds
  BY BuildAssumption
<1>2. ASSUME NEW k \in Kinds
      PROVE  /\ InitialFiles[Manifest[k]] \notin UserContents
             /\ \E g \in Promise!Shapes(k) :
                   \A p \in Allowed[k] : InitialFiles[p] \in {g[p]} \cup UserContents
  <2>1. Allowed[k] \subseteq Paths
    BY BuildAssumption
  <2>2. [p \in Paths |-> Absent] \in Promise!Shapes(k)
        /\ \A b \in Builds : KindOf[b] = k => Image[b] \in Promise!Shapes(k)
    BY DEF Promise!Shapes
  <2>3. CASE \A p \in Allowed[k] : InitialFiles[p] \in {Absent} \cup UserContents
    <3>1. \A p \in Allowed[k] : InitialFiles[p] \in {[q \in Paths |-> Absent][p]} \cup UserContents
      BY <2>1, <2>3
    <3> QED
      BY <2>2, <3>1, RootAssumption
  <2>4. CASE \E b \in Builds :
                 /\ KindOf[b] = k
                 /\ \A p \in Allowed[k] : InitialFiles[p] \in {Image[b][p]} \cup UserContents
    BY <2>2, <2>4, RootAssumption
  <2> QED
    BY <2>3, <2>4, RootAssumption
<1> QED
  BY <1>1, <1>2 DEF Promise!RootSound

\* The promise is one and the same, with or without its proofs.
LEMMA SamePromise ==
    /\ Atomic!AInit => Promise!AInit
    /\ [Atomic!ANext]_(Atomic!avars) => [Promise!ANext]_(Promise!avars)
<1>1. Atomic!AInit => Promise!AInit
  BY DEF Atomic!AInit, Promise!AInit
<1>2. ASSUME NEW b \in Builds PROVE Atomic!Touched(b) = Promise!Touched(b)
  BY DEF Atomic!Touched, Promise!Touched
<1>3. ASSUME NEW b \in Builds, Atomic!AInstall(b) PROVE Promise!AInstall(b)
  BY <1>2, <1>3 DEF Atomic!AInstall, Promise!AInstall
<1>4. ASSUME NEW s \in Snapshots, Atomic!ARollback(s) PROVE Promise!ARollback(s)
  BY <1>4 DEF Atomic!ARollback, Promise!ARollback
<1>5. ASSUME NEW p \in Editable, NEW c \in UserContents, Atomic!AEdit(p, c)
      PROVE  Promise!AEdit(p, c)
  BY <1>5 DEF Atomic!AEdit, Promise!AEdit
<1>6. UNCHANGED Atomic!avars => UNCHANGED Promise!avars
  BY DEF Atomic!avars, Promise!avars
<1>7. Atomic!ANext => Promise!ANext
  BY <1>3, <1>4, <1>5 DEF Atomic!ANext, Promise!ANext
<1> QED
  BY <1>1, <1>6, <1>7

\* The promise keeps the settled root whole, and so the files, once nothing
\* waits for recovery.
LEMMA WholeOnce == Refined /\ Promise!AInductive => SettledIsWhole
<1> SUFFICES ASSUME Refined, Promise!AInductive, Pending = {}, NEW k \in Kinds
             PROVE  Whole(k)
  BY DEF SettledIsWhole
<1>1. SettledTree = files
  BY SettledIsFiles DEF Refined, Inductive
<1>2. k \in DOMAIN Allowed /\ Allowed[k] \subseteq Paths
  BY BuildAssumption
<1>3. PICK g \in Promise!Shapes(k) : Promise!Fits(k, g)
  BY <1>2 DEF Promise!AInductive, Promise!AWhole
<1>4. \A p \in Allowed[k] : files[p] \in {g[p]} \cup UserContents
  BY <1>1, <1>3 DEF Promise!Fits
<1>5. \/ g = [p \in Paths |-> Absent]
      \/ \E b \in Builds : KindOf[b] = k /\ g = Image[b]
  BY DEF Promise!Shapes
<1>6. CASE g = [p \in Paths |-> Absent]
  BY <1>2, <1>4, <1>6 DEF Whole
<1>7. CASE \E b \in Builds : KindOf[b] = k /\ g = Image[b]
  BY <1>4, <1>7 DEF Whole
<1> QED
  BY <1>5, <1>6, <1>7

\* Once nothing waits for recovery, the files of each kind are those of one
\* build or of none, but for the user's edits, however many installs,
\* rollbacks, failures and crashes led there.
THEOREM SettledIsWholeCorrect ==
    ASSUME SafeEnvironment, EditsBetween
    PROVE  Spec => []SettledIsWhole
<1>1. Init => Promise!AInductive
  BY SimulationInit, SamePromise, PackagesSoundHere, RootSoundHere, Promise!AInductiveInit
<1>2. Refined /\ Refined' /\ Update /\ Promise!AInductive /\ [Next]_vars => Promise!AInductive'
  BY Simulation, SamePromise, PackagesSoundHere, Promise!AInductiveNext
<1> QED
  BY <1>1, <1>2, WholeOnce, RefinedCorrect, PTL DEF Spec
=============================================================================
