------------------------- MODULE LauncherApp_proofs -------------------------
(***************************************************************************)
(* Proofs about LauncherApp, for any processes, builds and bounds: every    *)
(* state has its type, the stage of a running launcher stays whole, and a   *)
(* window ends itself only for a launcher that runs and shows one build.    *)
(***************************************************************************)
EXTENDS LauncherApp, WellFoundedInduction, TLAPS

-----------------------------------------------------------------------------
(* The inductive invariant. *)

\* The steps at which a process has the stage of a new launcher in hand, and
\* those of them before that launcher runs.
Copying == {"copyExe", "copyUi", "check", "spawn"}
Handing == Copying \cup {"await", "handed"}

\* The phases of a process that has a window, and of one that needs its stage.
Windows == {"window", "closing"}
Active == {"boot", "open"} \cup Windows

\* The steps of a command that holds the lock.
Holds(r) ==
    \/ r.step \in {"work", "replaced"}
    \/ r.phase \in Windows /\ r.step \in {"copyExe", "copyUi", "check"}

\* What a process may be doing in each of its phases.
StepFits(r) ==
    /\ r.phase \in {"gone", "open", "error"} => r.step = "none"
    /\ r.phase = "root" => r.step \in {"sweep", "copyExe", "copyUi", "spawn"}
    /\ r.phase = "boot" => r.step \in {"sweep", "recover", "open"}
    /\ r.phase \in Windows => r.step \notin {"sweep", "recover", "open"}
    /\ r.child # None <=> r.step \in Handing
    /\ r.ready => r.step \in {"await", "handed"}

\* A restart aims at one build, the one that was verified.
Aims(r) ==
    /\ r.step = "replaced" => r.target.exe \in Builds
    /\ (r.phase \in Windows /\ r.step \in Copying \cup {"await"})
          => \E b \in Builds : r.target = [exe |-> b, ui |-> b]

\* A copy that is about to be checked or started has its interface while it has
\* its executable, and is what was verified, unless a sweep has begun on it.
CopyFits(r, copy) ==
    /\ (r.step \in {"check", "spawn"} /\ copy.exe # None) => copy.ui # None
    /\ (r.phase \in Windows /\ r.step = "spawn" /\ copy.exe # None) => copy = r.target

\* The launcher that is awaited runs and shows what was verified.
Shows(r, child, copy) ==
    r.step = "await" =>
        /\ child.phase # "root"
        /\ child.phase = "boot" => copy = r.target /\ child.image.exe = r.target.exe
        /\ child.phase \in {"open"} \cup Windows => child.image = r.target
        /\ r.ready => child.image = r.target

\* The parts of the invariant, for the processes P, the stages S and the holder
\* of the lock L.  Nobody else stages or starts a launcher under the same name,
\* and it does not run before it is started.
EachFits(P) == \A p \in Procs : StepFits(P[p]) /\ Aims(P[p])
LockFits(P, L) == \A p \in Procs : Holds(P[p]) <=> L = p
ChildrenApart(P) ==
    \A p \in Procs :
        /\ P[p].child # p
        /\ P[p].step \in Copying => P[P[p].child].phase = "gone"
        /\ P[p].child # None => \A q \in Procs : P[q].child = P[p].child => q = p
StageFits(P, S) == \A p \in Procs : P[p].child # None => CopyFits(P[p], S[P[p].child].files)
AwaitFits(P, S) ==
    \A p \in Procs : P[p].child # None => Shows(P[p], P[P[p].child], S[P[p].child].files)
Whole(copy) == copy.exe # None /\ copy.ui # None
ActiveFits(P, S) == \A p \in Procs : P[p].phase \in Active => Whole(S[p].files)

Fits(P, S, L) ==
    /\ EachFits(P) /\ LockFits(P, L) /\ ChildrenApart(P)
    /\ StageFits(P, S) /\ AwaitFits(P, S) /\ ActiveFits(P, S)

\* What was replaced is there to be put back.
JournalFits(P, J) == \A p \in Procs : P[p].step = "replaced" => J \in Installed

Counts == [opens : 0..MaxOpens, commands : 0..MaxCommands, crashes : 0..MaxCrashes]

Typed ==
    /\ root \in Installed
    /\ journal = None \/ journal \in Installed
    /\ lock \in Procs \cup {None}
    /\ stage \in [Procs -> Stage]
    /\ proc \in [Procs -> Process]
    /\ spent \in Counts

Inv == Typed /\ Fits(proc, stage, lock) /\ JournalFits(proc, journal)

-----------------------------------------------------------------------------
(* Names of processes. *)

\* A set of process identifiers has a least one.
LEMMA LeastExists ==
    ASSUME NEW S, S \subseteq Procs, S # {}
    PROVE  Least(S) \in S
<1> DEFINE Less == {ss \in Nat \X Nat : ss[1] < ss[2]}
<1>1. IsWellFoundedOn(Less, Nat)
  BY NatLessThanWellFounded DEF OpToRel
<1>2. S \subseteq Nat
  BY LauncherAssumption
<1>3. PICK c \in S : \A d \in S : ~ (<<d, c>> \in Less)
  <2> HIDE DEF Less
  <2> QED
    BY <1>1, <1>2, WFMin
<1>4. ASSUME NEW d \in S PROVE c <= d
  <2>1. c \in Nat /\ d \in Nat /\ ~ (<<d, c>> \in Less)
    BY <1>2, <1>3
  <2>2. ~ (d < c)
    BY <2>1
  <2> QED
    BY <2>1, <2>2
<1> QED
  BY <1>4 DEF Least

\* A process that starts takes an identifier nobody uses.
LEMMA NewProcUnused == Unused # {} => NewProc \in Unused
BY LeastExists DEF NewProc, Unused

\* A new stage takes an identifier without a stage and without a process.
LEMMA NewStageFree == Free # {} => NewStage \in Free
BY LeastExists DEF NewStage, Free, Unused

-----------------------------------------------------------------------------
(* One process changes. *)

\* What a step of one process must show for the invariant to hold after it.
LEMMA Single ==
    ASSUME NEW P \in [Procs -> Process], NEW L,
           NEW S \in [Procs -> Stage], NEW T \in [Procs -> Stage], NEW M,
           NEW p \in Procs, NEW r \in Process,
           Fits(P, S, L),
           StepFits(r), Aims(r),
           L = M \/ {L, M} = {p, None},
           Holds(r) <=> M = p,
           r.child # p,
           r.child \notin {None, P[p].child} =>
              \A q \in Procs : P[q].child # r.child,
           r.step \in Copying => P[r.child].phase = "gone",
           (P[p].phase = "gone" /\ r.phase # "gone") =>
              \A q \in Procs : P[q].child = p => P[q].step \notin Copying,
           \A s \in Procs :
              \/ T[s].files = S[s].files
              \/ /\ P[s].phase \notin Active
                 /\ T[s].files.exe = None \/ s = P[p].child,
           r.child # None => /\ CopyFits(r, T[r.child].files)
                             /\ Shows(r, P[r.child], T[r.child].files),
           \A q \in Procs : (q # p /\ P[q].child = p) => Shows(P[q], r, T[p].files),
           r.phase \in Active => Whole(T[p].files)
    PROVE  Fits([P EXCEPT ![p] = r], T, M)
<1> DEFINE Q == [P EXCEPT ![p] = r]
<1>1. Q[p] = r /\ (\A q \in Procs \ {p} : Q[q] = P[q]) /\ Q \in [Procs -> Process]
  OBVIOUS
<1>2. /\ EachFits(P) /\ LockFits(P, L) /\ ChildrenApart(P)
      /\ StageFits(P, S) /\ AwaitFits(P, S) /\ ActiveFits(P, S)
  BY DEF Fits
<1>3. \A q \in Procs : P[q].child \in Procs \cup {None}
  BY DEF Process
<1>4. r.child \in Procs \cup {None}
  BY DEF Process
<1> HIDE DEF Q
<1>5. EachFits(Q)
  BY <1>1, <1>2 DEF EachFits
<1>6. LockFits(Q, M)
  <2>1. \A q \in Procs : q # None
    BY LauncherAssumption
  <2>2. ASSUME NEW q \in Procs, q # p PROVE Holds(Q[q]) <=> M = q
    <3>1. Holds(Q[q]) <=> L = q
      BY <1>1, <1>2, <2>2 DEF LockFits
    <3>2. L = q <=> M = q
      BY <2>1, <2>2
    <3> QED
      BY <3>1, <3>2
  <2> QED
    BY <1>1, <2>2 DEF LockFits
<1>7. ChildrenApart(Q)
  <2>1. ASSUME NEW q \in Procs PROVE Q[q].child # q
    BY <1>1, <1>2 DEF ChildrenApart
  <2>2. ASSUME NEW q \in Procs, Q[q].step \in Copying PROVE Q[Q[q].child].phase = "gone"
    <3>1. CASE q = p
      <4>1. r.child \in Procs
        BY <1>1, <1>4, <2>2, <3>1 DEF StepFits, Handing
      <4> QED
        BY <1>1, <2>2, <3>1, <4>1
    <3>2. CASE q # p
      <4>1. Q[q] = P[q] /\ P[P[q].child].phase = "gone"
        BY <1>1, <1>2, <2>2, <3>2 DEF ChildrenApart
      <4>2. P[q].child \in Procs
        BY <1>2, <1>3, <2>2, <4>1 DEF EachFits, StepFits, Handing
      <4>3. CASE P[q].child = p
        BY <1>1, <2>2, <4>1, <4>3
      <4>4. CASE P[q].child # p
        BY <1>1, <4>1, <4>2, <4>4
      <4> QED
        BY <4>3, <4>4
    <3> QED
      BY <3>1, <3>2
  <2>3. ASSUME NEW q \in Procs, Q[q].child # None, NEW o \in Procs, Q[o].child = Q[q].child
        PROVE  o = q
    <3>1. \A i, j \in Procs : P[i].child # None /\ P[j].child = P[i].child => j = i
      BY <1>2 DEF ChildrenApart
    <3>2. CASE q = p /\ o # p
      BY <1>1, <2>3, <3>1, <3>2
    <3>3. CASE q # p /\ o = p
      BY <1>1, <2>3, <3>1, <3>3
    <3>4. CASE q # p /\ o # p
      BY <1>1, <2>3, <3>1, <3>4
    <3> QED
      BY <3>2, <3>3, <3>4
  <2> QED
    BY <2>1, <2>2, <2>3 DEF ChildrenApart
<1>8. ASSUME NEW q \in Procs, q # p, P[q].child # None
      PROVE  \/ T[P[q].child].files = S[P[q].child].files
             \/ P[P[q].child].phase \notin Active /\ T[P[q].child].files.exe = None
  <2>1. P[q].child # P[p].child
    BY <1>2, <1>8 DEF ChildrenApart
  <2> QED
    BY <1>3, <1>8, <2>1
<1>9. StageFits(Q, T)
  <2>1. ASSUME NEW q \in Procs, q # p, P[q].child # None
        PROVE  CopyFits(P[q], T[P[q].child].files)
    <3>1. CopyFits(P[q], S[P[q].child].files)
      BY <1>2, <2>1 DEF StageFits
    <3>2. CASE T[P[q].child].files = S[P[q].child].files
      BY <3>1, <3>2
    <3>3. CASE T[P[q].child].files.exe = None
      BY <3>3 DEF CopyFits
    <3> QED
      BY <1>8, <2>1, <3>2, <3>3
  <2> QED
    BY <1>1, <2>1 DEF StageFits
<1>10. AwaitFits(Q, T)
  <2>1. ASSUME NEW q \in Procs, q # p, P[q].child # None
        PROVE  Shows(P[q], Q[P[q].child], T[P[q].child].files)
    <3>1. CASE P[q].child = p
      BY <1>1, <2>1, <3>1
    <3>2. CASE P[q].child # p
      <4>1. Q[P[q].child] = P[P[q].child]
        BY <1>1, <1>3, <2>1, <3>2
      <4>2. Shows(P[q], P[P[q].child], S[P[q].child].files)
        BY <1>2, <2>1 DEF AwaitFits
      <4>3. CASE T[P[q].child].files = S[P[q].child].files
        BY <4>1, <4>2, <4>3
      <4>4. CASE P[P[q].child].phase \notin Active
        BY <4>1, <4>2, <4>4 DEF Shows, Active
      <4> QED
        BY <1>8, <2>1, <4>3, <4>4
    <3> QED
      BY <3>1, <3>2
  <2>2. r.child # None => Q[r.child] = P[r.child]
    BY <1>1, <1>4
  <2> QED
    BY <1>1, <2>1, <2>2 DEF AwaitFits
<1>11. ActiveFits(Q, T)
  BY <1>1, <1>2 DEF ActiveFits
<1> QED
  BY <1>5, <1>6, <1>7, <1>9, <1>10, <1>11 DEF Fits, Q

-----------------------------------------------------------------------------
(* Records of processes. *)

\* A process that ends, with the image that is remembered of it.
LEMMA EndedFits ==
    ASSUME NEW image \in Runtimes
    PROVE  /\ Ended(image) \in Process
           /\ StepFits(Ended(image)) /\ Aims(Ended(image)) /\ ~Holds(Ended(image))
           /\ Ended(image).phase = "gone" /\ Ended(image).step = "none"
           /\ Ended(image).child = None /\ Ended(image).image = image
<1>1. Nothing \in Runtimes
  BY DEF Nothing, Runtimes
<1>2. Ended(image) \in Process
  BY <1>1 DEF Ended, Process
<1> QED
  BY <1>2 DEF Ended, StepFits, Aims, Holds, Handing, Copying, Windows

\* A process that starts.
LEMMA StartedFits ==
    ASSUME NEW phase \in {"root", "boot"}, NEW image \in Runtimes, NEW todo \in SUBSET Procs
    PROVE  LET r == Started(phase, image, todo)
           IN /\ r \in Process
              /\ StepFits(r) /\ Aims(r) /\ ~Holds(r)
              /\ r.phase = phase /\ r.step = "sweep" /\ r.child = None /\ r.image = image
<1> DEFINE e == Ended(image)
           r == Started(phase, image, todo)
<1>1. e \in Process /\ e.child = None /\ e.image = image /\ ~e.ready
  BY EndedFits DEF StepFits
<1>2. r = [e EXCEPT !.phase = phase, !.step = "sweep", !.todo = todo]
  BY DEF Started
<1> HIDE DEF e, r
<1>3. r \in Process
  BY <1>1, <1>2 DEF Process
<1>4. r.phase = phase /\ r.step = "sweep" /\ r.child = None /\ r.image = image /\ ~r.ready
  BY <1>1, <1>2 DEF Process
<1>5. StepFits(r) /\ Aims(r) /\ ~Holds(r)
  BY <1>4 DEF StepFits, Aims, Holds, Handing, Copying, Windows
<1> QED
  BY <1>3, <1>4, <1>5 DEF r

\* A process that shows an error.
LEMMA ErrorFits ==
    ASSUME NEW image \in Runtimes
    PROVE  LET r == [Ended(image) EXCEPT !.phase = "error"]
           IN /\ r \in Process
              /\ StepFits(r) /\ Aims(r) /\ ~Holds(r)
              /\ r.phase = "error" /\ r.step = "none" /\ r.child = None /\ r.image = image
<1> DEFINE e == Ended(image)
           r == [e EXCEPT !.phase = "error"]
<1>1. e \in Process /\ e.child = None /\ e.image = image /\ ~e.ready /\ e.step = "none"
  BY EndedFits DEF StepFits
<1> HIDE DEF e
<1>2. r \in Process
  BY <1>1 DEF Process
<1>3. r.phase = "error" /\ r.step = "none" /\ r.child = None /\ r.image = image /\ ~r.ready
  BY <1>1 DEF Process
<1> HIDE DEF r
<1>4. StepFits(r) /\ Aims(r) /\ ~Holds(r)
  BY <1>3 DEF StepFits, Aims, Holds, Handing, Copying, Windows
<1> QED
  BY <1>2, <1>3, <1>4 DEF r, e

\* A process that goes to another step.
LEMMA GotoFits ==
    ASSUME NEW s \in Process, NEW step \in {"none", "sweep", "recover", "open", "command",
              "work", "replaced", "compare", "stage", "copyExe", "copyUi", "check", "spawn",
              "await", "handed"}
    PROVE  LET r == [s EXCEPT !.step = step]
           IN /\ r \in Process /\ r.step = step
              /\ r.phase = s.phase /\ r.child = s.child /\ r.image = s.image
              /\ r.target = s.target /\ r.ready = s.ready
BY DEF Process

\* A command that is over.
LEMMA FinishedFits ==
    ASSUME NEW s \in Process, s.phase \in Windows, NEW changed \in BOOLEAN
    PROVE  LET r == [s EXCEPT !.step = "none", !.cmd = "none", !.child = None,
                        !.target = Nothing, !.ready = FALSE, !.busy = FALSE,
                        !.button = changed /\ s.phase = "window"]
           IN /\ r \in Process
              /\ StepFits(r) /\ Aims(r) /\ ~Holds(r)
              /\ r.phase = s.phase /\ r.step = "none" /\ r.child = None /\ r.image = s.image
<1> DEFINE r == [s EXCEPT !.step = "none", !.cmd = "none", !.child = None,
                    !.target = Nothing, !.ready = FALSE, !.busy = FALSE,
                    !.button = changed /\ s.phase = "window"]
<1>1. Nothing \in Runtimes
  BY DEF Nothing, Runtimes
<1>2. (changed /\ s.phase = "window") \in BOOLEAN
  OBVIOUS
<1>3. r \in Process
  BY <1>1, <1>2, ZenonT(40) DEF Process
<1>4. r.phase = s.phase /\ r.step = "none" /\ r.child = None /\ r.image = s.image /\ ~r.ready
  BY DEF Process
<1> HIDE DEF r
<1>5. StepFits(r) /\ Aims(r) /\ ~Holds(r)
  BY <1>4 DEF StepFits, Aims, Holds, Handing, Copying, Windows
<1> QED
  BY <1>3, <1>4, <1>5 DEF r


\* What Typed says of one process.
LEMMA ProcTyped ==
    ASSUME Typed, NEW p \in Procs
    PROVE  /\ proc[p] \in Process /\ stage[p] \in Stage /\ stage[p].files \in Runtimes
           /\ proc[p].image \in Runtimes /\ proc[p].target \in Runtimes
           /\ proc[p].child \in Procs \cup {None} /\ proc[p].todo \in SUBSET Procs
<1>1. proc[p] \in Process /\ stage[p] \in Stage
  BY DEF Typed
<1> QED
  BY <1>1 DEF Process, Stage

\* What the invariant says of one process.
LEMMA OneFits ==
    ASSUME Inv, NEW p \in Procs
    PROVE  /\ StepFits(proc[p]) /\ Aims(proc[p])
           /\ Holds(proc[p]) <=> lock = p
           /\ proc[p].child # p
           /\ proc[p].step \in Copying => proc[proc[p].child].phase = "gone"
           /\ proc[p].child # None => /\ \A q \in Procs : proc[q].child = proc[p].child => q = p
                                      /\ CopyFits(proc[p], stage[proc[p].child].files)
                                      /\ Shows(proc[p], proc[proc[p].child],
                                               stage[proc[p].child].files)
           /\ proc[p].phase \in Active => Whole(stage[p].files)
           /\ proc[p].step = "replaced" => journal \in Installed
<1>1. Fits(proc, stage, lock) /\ JournalFits(proc, journal)
  BY DEF Inv
<1>2. EachFits(proc) /\ LockFits(proc, lock) /\ ActiveFits(proc, stage)
  BY <1>1 DEF Fits
<1>3. ChildrenApart(proc) /\ StageFits(proc, stage) /\ AwaitFits(proc, stage)
  BY <1>1 DEF Fits
<1>4. StepFits(proc[p]) /\ Aims(proc[p]) /\ (Holds(proc[p]) <=> lock = p)
  BY <1>2 DEF EachFits, LockFits
<1>5. /\ proc[p].child # p
      /\ proc[p].step \in Copying => proc[proc[p].child].phase = "gone"
      /\ proc[p].child # None => \A q \in Procs : proc[q].child = proc[p].child => q = p
  BY <1>3 DEF ChildrenApart
<1>6. proc[p].child # None => /\ CopyFits(proc[p], stage[proc[p].child].files)
                              /\ Shows(proc[p], proc[proc[p].child], stage[proc[p].child].files)
  BY <1>3 DEF StageFits, AwaitFits
<1>7. /\ proc[p].phase \in Active => Whole(stage[p].files)
      /\ proc[p].step = "replaced" => journal \in Installed
  BY <1>1, <1>2 DEF ActiveFits, JournalFits
<1> QED
  BY <1>4, <1>5, <1>6, <1>7

\* The conditions on a process that others may wait for.
Unseen(p, r) ==
    \/ \A q \in Procs : proc[q].child # p
    \/ /\ r.image = proc[p].image
       /\ \/ r.phase \in {"gone", "error", proc[p].phase}
          \/ proc[p].phase \in {"open"} \cup Windows /\ r.phase \in Windows

\* A step of one process that leaves the stages alone.
LEMMA Quiet ==
    ASSUME Inv, NEW p \in Procs, NEW r \in Process, proc' = [proc EXCEPT ![p] = r],
           Typed', stage' = stage,
           lock' = lock \/ {lock, lock'} = {p, None},
           Holds(r) <=> lock' = p,
           StepFits(r), Aims(r),
           r.child \in {None, proc[p].child},
           r.step \in Copying => proc[p].step \in Copying,
           r.child # None => /\ CopyFits(r, stage[r.child].files)
                             /\ Shows(r, proc[r.child], stage[r.child].files),
           r.phase # "gone" => proc[p].phase # "gone",
           r.phase \in Active => proc[p].phase \in Active,
           Unseen(p, r),
           JournalFits(proc', journal')
    PROVE  Inv'
<1>1. proc \in [Procs -> Process] /\ stage \in [Procs -> Stage]
  BY DEF Inv, Typed
<1>2. Fits(proc, stage, lock)
  BY DEF Inv
<1>3. r.child # p /\ (r.phase \in Active => Whole(stage[p].files))
  BY OneFits, <1>1, LauncherAssumption
<1>4. r.step \in Copying => proc[r.child].phase = "gone"
  <2>1. r.step \in Copying => r.child # None
    BY DEF StepFits, Handing
  <2> QED
    BY <2>1, OneFits
<1>5. ASSUME NEW q \in Procs, q # p, proc[q].child = p
      PROVE  Shows(proc[q], r, stage[p].files)
  <2>1. Shows(proc[q], proc[p], stage[p].files)
    BY <1>5, OneFits, LauncherAssumption
  <2> QED
    BY <1>5, <2>1 DEF Unseen, Shows, Windows
<1>6. Fits(proc', stage', lock')
  BY <1>1, <1>2, <1>3, <1>4, <1>5, Single
<1> QED
  BY <1>6 DEF Inv

\* A process that ends with the image that others remember, or with an error.
LEMMA GoneFits ==
    ASSUME Inv, NEW p \in Procs
    PROVE  \E r \in Process :
              /\ Gone(p) = [proc EXCEPT ![p] = r]
              /\ StepFits(r) /\ Aims(r) /\ ~Holds(r)
              /\ r.phase = "gone" /\ r.step = "none" /\ r.child = None
              /\ Unseen(p, r)
<1> DEFINE image == IF \E q \in Procs : proc[q].child = p THEN proc[p].image ELSE Nothing
<1>1. image \in Runtimes
  BY ProcTyped DEF Inv, Nothing, Runtimes
<1>2. Gone(p) = [proc EXCEPT ![p] = Ended(image)]
  BY DEF Gone
<1> HIDE DEF image
<1>3. Unseen(p, Ended(image))
  BY <1>1, EndedFits DEF Unseen, image
<1> QED
  BY <1>1, <1>2, <1>3, EndedFits

\* A process that shows an error has given up its child, and nobody awaits
\* a launcher that never had a window.
LEMMA ErrorIs ==
    ASSUME Inv, NEW p \in Procs
    PROVE  \E r \in Process :
              /\ Error(p) = [proc EXCEPT ![p] = r]
              /\ StepFits(r) /\ Aims(r) /\ ~Holds(r)
              /\ r.phase = "error" /\ r.step = "none" /\ r.child = None
              /\ Unseen(p, r)
<1> DEFINE r == [Ended(proc[p].image) EXCEPT !.phase = "error"]
<1>1. proc[p].image \in Runtimes
  BY ProcTyped DEF Inv
<1>2. Error(p) = [proc EXCEPT ![p] = r]
  BY DEF Error
<1>3. /\ r \in Process
      /\ StepFits(r) /\ Aims(r) /\ ~Holds(r)
      /\ r.phase = "error" /\ r.step = "none" /\ r.child = None /\ r.image = proc[p].image
  BY <1>1, ErrorFits
<1> HIDE DEF r
<1> QED
  BY <1>2, <1>3 DEF Unseen

\* A worker that has finished has given up its child.
LEMMA FinishedIs ==
    ASSUME Inv, NEW p \in Procs, Works(p), NEW changed \in BOOLEAN
    PROVE  \E r \in Process :
              /\ Finished(p, changed) = [proc EXCEPT ![p] = r]
              /\ StepFits(r) /\ Aims(r) /\ ~Holds(r)
              /\ r.phase = proc[p].phase /\ r.step = "none" /\ r.child = None
              /\ Unseen(p, r)
<1> DEFINE s == proc[p]
           r == [s EXCEPT !.step = "none", !.cmd = "none", !.child = None,
                    !.target = Nothing, !.ready = FALSE, !.busy = FALSE,
                    !.button = changed /\ s.phase = "window"]
<1>1. proc[p] \in Process /\ proc[p].phase \in Windows
  BY ProcTyped DEF Inv, Works, Windows
<1>2. Finished(p, changed) = [proc EXCEPT ![p] = r]
  BY DEF Finished
<1>3. /\ r \in Process
      /\ StepFits(r) /\ Aims(r) /\ ~Holds(r)
      /\ r.phase = proc[p].phase /\ r.step = "none" /\ r.child = None
      /\ r.image = proc[p].image
  BY <1>1, FinishedFits, ZenonT(40)
<1> HIDE DEF r
<1> QED
  BY <1>2, <1>3 DEF Unseen

\* The types of the state after a step of one process.
LEMMA TypedStep ==
    ASSUME Typed, NEW p \in Procs, NEW r \in Process, proc' = [proc EXCEPT ![p] = r],
           root' \in Installed, journal' = None \/ journal' \in Installed,
           lock' \in Procs \cup {None}, stage' \in [Procs -> Stage],
           spent' \in Counts
    PROVE  Typed'
BY DEF Typed

\* A step of one process to a step at which nothing is held or handed over.
LEMMA Plain ==
    ASSUME Inv, NEW p \in Procs, NEW r \in Process, proc' = [proc EXCEPT ![p] = r],
           root' \in {root} \cup Installed, UNCHANGED <<journal, stage>>, spent' \in Counts,
           lock' = lock \/ (lock = p /\ lock' = None),
           ~Holds(r), lock' # p,
           StepFits(r), Aims(r), r.child = None, r.step # "replaced",
           r.phase # "gone" => proc[p].phase # "gone",
           r.phase \in Active => proc[p].phase \in Active,
           Unseen(p, r)
    PROVE  Inv'
<1>1. Typed'
  <2>1. lock' \in Procs \cup {None} /\ root' \in Installed
    BY DEF Inv, Typed
  <2> QED
    BY <2>1, TypedStep DEF Inv, Typed
<1>2. r.step \notin Copying
  BY DEF StepFits, Handing
<1>3. lock' = lock \/ {lock, lock'} = {p, None}
  OBVIOUS
<1>4. JournalFits(proc', journal')
  BY DEF Inv, Typed, JournalFits
<1> QED
  BY <1>1, <1>2, <1>3, <1>4, Quiet


\* A step of one process that changes stages from which nobody runs.
LEMMA Staged ==
    ASSUME Inv, NEW p \in Procs, NEW r \in Process, proc' = [proc EXCEPT ![p] = r],
           Typed',
           lock' = lock \/ {lock, lock'} = {p, None},
           Holds(r) <=> lock' = p,
           StepFits(r), Aims(r),
           r.child # p,
           r.child \notin {None, proc[p].child} => \A q \in Procs : proc[q].child # r.child,
           r.step \in Copying => proc[r.child].phase = "gone",
           \A s \in Procs :
              \/ stage'[s].files = stage[s].files
              \/ /\ proc[s].phase \notin Active
                 /\ stage'[s].files.exe = None \/ s = proc[p].child,
           r.child # None => /\ CopyFits(r, stage'[r.child].files)
                             /\ Shows(r, proc[r.child], stage'[r.child].files),
           r.phase # "gone" => proc[p].phase # "gone",
           r.phase \in Active => proc[p].phase \in Active,
           Unseen(p, r),
           JournalFits(proc', journal')
    PROVE  Inv'
<1>1. /\ proc \in [Procs -> Process] /\ stage \in [Procs -> Stage]
      /\ stage' \in [Procs -> Stage]
  BY DEF Inv, Typed
<1>2. Fits(proc, stage, lock)
  BY DEF Inv
<1>3. r.phase \in Active => Whole(stage'[p].files)
  <2>1. proc[p].phase \in Active => Whole(stage[p].files)
    BY OneFits
  <2> QED
    BY <2>1
<1>4. ASSUME NEW q \in Procs, q # p, proc[q].child = p
      PROVE  Shows(proc[q], r, stage'[p].files)
  <2>1. Shows(proc[q], proc[p], stage[p].files)
    BY <1>4, OneFits, LauncherAssumption
  <2>2. /\ r.image = proc[p].image
        /\ \/ r.phase \in {"gone", "error", proc[p].phase}
           \/ proc[p].phase \in {"open"} \cup Windows /\ r.phase \in Windows
    BY <1>4 DEF Unseen
  <2>3. CASE stage'[p].files = stage[p].files
    BY <2>1, <2>2, <2>3 DEF Shows, Windows
  <2>4. CASE proc[p].phase \notin Active
    BY <2>1, <2>2, <2>4 DEF Shows, Windows, Active
  <2> QED
    BY <2>3, <2>4
<1>5. Fits(proc', stage', lock')
  BY <1>1, <1>2, <1>3, <1>4, Single
<1> QED
  BY <1>5 DEF Inv

-----------------------------------------------------------------------------
(* The steps. *)

\* A sweep takes the executable first, and gives up at one that runs.
LEMMA SweepInv == ASSUME Inv, NEW p \in Procs, NEW s \in Procs, Sweep(p, s) PROVE Inv'
<1>1. /\ proc[p].step = "sweep"
      /\ UNCHANGED <<root, journal, lock, spent>>
  BY DEF Sweep
<1>2. /\ proc[p] \in Process /\ proc[p].todo \in SUBSET Procs
      /\ proc \in [Procs -> Process] /\ stage \in [Procs -> Stage]
  BY ProcTyped DEF Inv, Typed
<1>3. /\ StepFits(proc[p]) /\ proc[p].child = None /\ proc[p].phase \in {"root", "boot"}
      /\ ~proc[p].ready /\ lock # p
  <2>1. StepFits(proc[p]) /\ (Holds(proc[p]) <=> lock = p)
    BY OneFits
  <2>2. proc[p].phase \in {"gone", "root", "boot", "open", "window", "closing", "error"}
    BY <1>2 DEF Process
  <2>3. ~Holds(proc[p])
    BY <1>1 DEF Holds
  <2> QED
    BY <1>1, <2>1, <2>2, <2>3 DEF StepFits, Windows, Handing, Copying
<1>4. PICK r \in Process :
         /\ proc' = [proc EXCEPT ![p] = r]
         /\ r.phase = proc[p].phase /\ r.step = "sweep" /\ r.child = None
         /\ r.image = proc[p].image /\ r.ready = proc[p].ready
  <2>1. CASE proc' = proc
    <3>1. proc' = [proc EXCEPT ![p] = proc[p]]
      BY <1>2, <2>1
    <3> QED
      BY <1>1, <1>2, <1>3, <3>1
  <2>2. CASE proc' = [proc EXCEPT ![p].todo = @ \ {s}]
    <3> DEFINE r == [proc[p] EXCEPT !.todo = @ \ {s}]
    <3>1. proc' = [proc EXCEPT ![p] = r]
      BY <2>2
    <3>2. /\ r \in Process /\ r.phase = proc[p].phase /\ r.step = "sweep" /\ r.child = None
          /\ r.image = proc[p].image /\ r.ready = proc[p].ready
      BY <1>1, <1>2, <1>3 DEF Process
    <3> HIDE DEF r
    <3> QED
      BY <3>1, <3>2
  <2> QED
    BY <2>1, <2>2 DEF Sweep
<1>5. /\ stage' \in [Procs -> Stage]
      /\ \A x \in Procs :
            \/ stage'[x].files = stage[x].files
            \/ proc[x].phase \notin Active /\ stage'[x].files.exe = None
  <2>1. CASE stage' = stage
    BY <1>2, <2>1
  <2>2. CASE /\ ~Running(s)
             /\ stage' = [stage EXCEPT ![s].files.exe = None]
    <3>1. proc[s].phase \notin Active
      BY <2>2 DEF Running, Active, Windows
    <3> QED
      BY <1>2, <2>2, <3>1 DEF Stage, Runtimes
  <2>3. CASE /\ ~Running(s) /\ stage[s].files.exe = None
             /\ stage' = [stage EXCEPT ![s].files.ui = None]
    <3>1. proc[s].phase \notin Active
      BY <2>3 DEF Running, Active, Windows
    <3> QED
      BY <1>2, <2>3, <3>1 DEF Stage, Runtimes
  <2>4. CASE stage[s].files = Nothing /\ stage' = [stage EXCEPT ![s] = NoStage]
    <3>1. NoStage \in Stage /\ NoStage.files = Nothing
      BY DEF NoStage, Stage, Nothing, Runtimes
    <3> QED
      BY <1>2, <2>4, <3>1
  <2> QED
    BY <2>1, <2>2, <2>3, <2>4 DEF Sweep
<1>6. StepFits(r) /\ Aims(r) /\ ~Holds(r) /\ Unseen(p, r)
  BY <1>3, <1>4 DEF StepFits, Aims, Holds, Unseen, Handing, Copying, Windows
<1>7. Typed'
  BY <1>1, <1>4, <1>5, TypedStep DEF Inv, Typed
<1>8. JournalFits(proc', journal')
  BY <1>1, <1>2, <1>4 DEF Inv, JournalFits
<1> QED
  <2>1. r.child # p /\ r.child = None /\ r.step \notin Copying
    BY <1>4, LauncherAssumption DEF Copying
  <2> QED
    BY <1>1, <1>3, <1>4, <1>5, <1>6, <1>7, <1>8, <2>1, Staged


\* A process is in the phase that its step belongs to.
LEMMA StepSays ==
    ASSUME Inv, NEW p \in Procs
    PROVE  /\ proc[p].step \in {"command", "work", "replaced", "compare", "stage", "check",
                                "await", "handed"} => proc[p].phase \in Windows
           /\ proc[p].step \in {"copyExe", "copyUi", "spawn"} =>
                 proc[p].phase \in Windows \cup {"root"}
           /\ proc[p].step \in {"recover", "open"} => proc[p].phase = "boot"
           /\ proc[p].step = "sweep" => proc[p].phase \in {"root", "boot"}
           /\ proc[p].step \notin Handing => proc[p].child = None /\ ~proc[p].ready
           /\ proc[p].step \in Handing => proc[p].child \in Procs
           /\ proc[p].step \notin {"await", "handed"} => ~proc[p].ready
           /\ proc[p].step \in {"work", "replaced"} => lock = p
           /\ (proc[p].step \notin {"work", "replaced"} \cup Copying) => lock # p
<1>1. /\ proc[p].phase \in {"gone", "root", "boot", "open", "window", "closing", "error"}
      /\ proc[p].child \in Procs \cup {None}
  BY ProcTyped DEF Inv, Process
<1>2. StepFits(proc[p]) /\ (Holds(proc[p]) <=> lock = p)
  BY OneFits
<1> QED
  BY <1>1, <1>2 DEF StepFits, Holds, Handing, Copying, Windows

\* A window that does nothing with stages.
LEMMA WorkerFits ==
    ASSUME NEW r \in Process, r.phase \in Windows,
           r.step \in {"none", "command", "work", "compare", "stage"},
           r.child = None, ~r.ready
    PROVE  StepFits(r) /\ Aims(r) /\ (Holds(r) <=> r.step = "work")
BY DEF StepFits, Aims, Holds, Handing, Copying, Windows

\* A click begins a command: it holds nothing yet.
LEMMA CommandInv == ASSUME Inv, NEW p \in Procs, NEW cmd \in Commands, Command(p, cmd) PROVE Inv'
<1> DEFINE r == [proc[p] EXCEPT !.step = IF cmd = "restart" THEN "compare" ELSE "command",
                                !.cmd = cmd, !.ok = TRUE, !.calling = TRUE]
<1>1. /\ proc[p].phase = "window" /\ proc[p].step = "none"
      /\ proc' = [proc EXCEPT ![p] = r]
      /\ UNCHANGED <<root, journal, lock, stage>>
  BY DEF Command
<1>2. spent' \in Counts
  BY LauncherAssumption DEF Command, Inv, Typed, Counts
<1>3. /\ proc[p] \in Process /\ proc[p].child = None /\ ~proc[p].ready /\ lock # p
  BY <1>1, ProcTyped, StepSays DEF Inv, Handing, Copying
<1>4. cmd \in CommandKinds
  BY LauncherAssumption
<1>5. /\ r \in Process /\ r.phase = "window" /\ r.step \in {"command", "compare"}
      /\ r.child = None /\ ~r.ready /\ r.image = proc[p].image
  BY <1>1, <1>3, <1>4 DEF Process
<1> HIDE DEF r
<1>6. StepFits(r) /\ Aims(r) /\ ~Holds(r)
  BY <1>5, WorkerFits DEF Windows
<1>7. Unseen(p, r)
  BY <1>1, <1>5 DEF Unseen
<1> QED
  BY <1>1, <1>2, <1>3, <1>5, <1>6, <1>7, Plain

\* What the lock, the stages and the other processes see of a process has not
\* changed.
LEMMA SameInv ==
    ASSUME Inv, NEW p \in Procs, NEW r \in Process, proc' = [proc EXCEPT ![p] = r],
           UNCHANGED <<root, journal, lock, stage, spent>>,
           \/ r.phase = proc[p].phase
           \/ proc[p].phase \in {"open"} \cup Windows /\ r.phase = "closing",
           r.step = proc[p].step,
           r.child = proc[p].child, r.ready = proc[p].ready, r.image = proc[p].image,
           r.target = proc[p].target
    PROVE  Inv'
<1>1. /\ StepFits(proc[p]) /\ Aims(proc[p]) /\ (Holds(proc[p]) <=> lock = p)
      /\ proc[p].child # None =>
            /\ CopyFits(proc[p], stage[proc[p].child].files)
            /\ Shows(proc[p], proc[proc[p].child], stage[proc[p].child].files)
      /\ proc[p].step = "replaced" => journal \in Installed
  BY OneFits
<1>2. StepFits(r) /\ (Holds(r) <=> Holds(proc[p]))
  BY <1>1 DEF StepFits, Holds, Windows, Handing, Copying
<1>3. Aims(r)
  BY <1>1 DEF Aims, StepFits, Windows, Copying
<1>4. ASSUME r.child # None
      PROVE  /\ CopyFits(r, stage[r.child].files)
             /\ Shows(r, proc[r.child], stage[r.child].files)
  <2>1. proc[p].phase # "open"
    BY <1>1, <1>4 DEF StepFits, Handing, Copying
  <2> QED
    BY <1>1, <1>4, <2>1 DEF CopyFits, Shows, Windows
<1>5. Typed'
  BY TypedStep DEF Inv, Typed
<1>6. JournalFits(proc', journal')
  BY <1>1 DEF Inv, Typed, JournalFits
<1>7. Unseen(p, r)
  BY DEF Unseen, Windows
<1>8. r.phase # "gone" => proc[p].phase # "gone"
  BY DEF Windows
<1>9. r.phase \in Active => proc[p].phase \in Active
  BY DEF Windows, Active
<1> QED
  BY <1>1, <1>2, <1>3, <1>4, <1>5, <1>6, <1>7, <1>8, <1>9, Quiet

\* The page becomes busy, whatever the worker does.
LEMMA ReplyInv == ASSUME Inv, NEW p \in Procs, Reply(p) PROVE Inv'
<1> DEFINE r == [proc[p] EXCEPT !.calling = FALSE, !.busy = TRUE]
<1>1. /\ proc' = [proc EXCEPT ![p] = r]
      /\ UNCHANGED <<root, journal, lock, stage, spent>>
  BY DEF Reply
<1>2. proc[p] \in Process
  BY ProcTyped DEF Inv
<1>3. /\ r \in Process /\ r.phase = proc[p].phase /\ r.step = proc[p].step
      /\ r.child = proc[p].child /\ r.ready = proc[p].ready /\ r.image = proc[p].image
      /\ r.target = proc[p].target
  BY <1>2 DEF Process
<1> HIDE DEF r
<1> QED
  BY <1>1, <1>3, SameInv


\* The worker takes the lock when nobody has it.
LEMMA LockInv == ASSUME Inv, NEW p \in Procs, Lock(p) PROVE Inv'
<1>1. /\ proc[p].step = "command" /\ UNCHANGED <<root, journal, stage, spent>>
      /\ proc[p].phase \in Windows /\ proc[p].child = None /\ ~proc[p].ready /\ lock # p
      /\ proc[p] \in Process /\ spent \in Counts
  BY StepSays, ProcTyped DEF Lock, Handing, Copying, Inv, Typed
<1>2. CASE lock = None /\ lock' = p /\ Goto(p, "work")
  <2> DEFINE r == [proc[p] EXCEPT !.step = "work"]
  <2>1. proc' = [proc EXCEPT ![p] = r]
    BY <1>2 DEF Goto
  <2>2. /\ r \in Process /\ r.step = "work" /\ r.phase = proc[p].phase /\ r.child = None
        /\ ~r.ready /\ r.image = proc[p].image
    BY <1>1, GotoFits, ZenonT(40)
  <2> HIDE DEF r
  <2>3. StepFits(r) /\ Aims(r) /\ Holds(r)
    BY <1>1, <2>2, WorkerFits
  <2>4. Typed'
    BY <1>1, <1>2, <2>1, <2>2, TypedStep DEF Inv, Typed
  <2>5. JournalFits(proc', journal')
    BY <1>1, <2>1, <2>2 DEF Inv, Typed, JournalFits
  <2>6. Unseen(p, r)
    BY <2>2 DEF Unseen
  <2> QED
    BY <1>1, <1>2, <2>1, <2>2, <2>3, <2>4, <2>5, <2>6, Quiet DEF Copying, Windows
<1>3. CASE lock' = lock /\ proc' = [proc EXCEPT ![p].step = "compare", ![p].ok = FALSE]
  <2> DEFINE r == [proc[p] EXCEPT !.step = "compare", !.ok = FALSE]
  <2>1. proc' = [proc EXCEPT ![p] = r]
    BY <1>3
  <2>2. /\ r \in Process /\ r.step = "compare" /\ r.phase = proc[p].phase /\ r.child = None
        /\ ~r.ready /\ r.image = proc[p].image
    BY <1>1 DEF Process
  <2> HIDE DEF r
  <2>3. StepFits(r) /\ Aims(r) /\ ~Holds(r) /\ Unseen(p, r)
    BY <1>1, <2>2, WorkerFits DEF Unseen
  <2> QED
    BY <1>1, <1>3, <2>1, <2>2, <2>3, Plain
<1> QED
  BY <1>2, <1>3 DEF Lock

\* A command that leaves the launcher's files alone gives the lock back.
LEMMA WorkInv == ASSUME Inv, NEW p \in Procs, Work(p) PROVE Inv'
<1>1. /\ proc[p].step = "work" /\ UNCHANGED <<root, journal, stage, spent>> /\ lock' = None
      /\ proc[p].phase \in Windows /\ proc[p].child = None /\ ~proc[p].ready /\ lock = p
      /\ proc[p] \in Process /\ spent \in Counts
  BY StepSays, ProcTyped DEF Work, Handing, Copying, Inv, Typed
<1>2. PICK ok \in BOOLEAN : proc' = [proc EXCEPT ![p].step = "compare", ![p].ok = ok]
  BY DEF Work
<1> DEFINE r == [proc[p] EXCEPT !.step = "compare", !.ok = ok]
<1>3. proc' = [proc EXCEPT ![p] = r]
  BY <1>2
<1>4. /\ r \in Process /\ r.step = "compare" /\ r.phase = proc[p].phase /\ r.child = None
      /\ ~r.ready /\ r.image = proc[p].image
  BY <1>1 DEF Process
<1> HIDE DEF r
<1>5. StepFits(r) /\ Aims(r) /\ ~Holds(r) /\ Unseen(p, r)
  BY <1>1, <1>4, WorkerFits DEF Unseen
<1>6. lock' # p
  BY <1>1, LauncherAssumption
<1> QED
  BY <1>1, <1>3, <1>4, <1>5, <1>6, Plain

\* What is replaced is noted before, and only by the holder of the lock.
LEMMA ReplaceExeInv ==
    ASSUME Inv, NEW p \in Procs, NEW b \in Builds, ReplaceExe(p, b) PROVE Inv'
<1>1. /\ proc[p].step = "work" /\ UNCHANGED <<lock, stage, spent>>
      /\ proc[p].phase \in Windows /\ proc[p].child = None /\ ~proc[p].ready /\ lock = p
      /\ proc[p] \in Process
  BY StepSays, ProcTyped DEF ReplaceExe, Handing, Copying, Inv
<1>2. root' \in Installed /\ journal' \in Installed
  <2>1. root \in Installed /\ (journal = None \/ journal \in Installed)
    BY DEF Inv, Typed
  <2>2. PICK was \in Installed : journal' = was /\ root' = [was EXCEPT !.exe = b]
    BY <2>1 DEF ReplaceExe, Restored
  <2> QED
    BY <2>2 DEF Installed
<1> DEFINE t == [exe |-> b, ui |-> b]
           r == [proc[p] EXCEPT !.step = "replaced", !.target = t]
<1>3. proc' = [proc EXCEPT ![p] = r]
  BY DEF ReplaceExe
<1>4. t \in Runtimes /\ t.exe = b
  BY DEF Runtimes
<1> HIDE DEF t
<1>5. /\ r \in Process /\ r.step = "replaced" /\ r.phase = proc[p].phase /\ r.child = None
      /\ ~r.ready /\ r.image = proc[p].image /\ r.target = t
  BY <1>1, <1>4 DEF Process
<1> HIDE DEF r
<1>6. StepFits(r) /\ Aims(r) /\ Holds(r) /\ Unseen(p, r)
  BY <1>1, <1>4, <1>5 DEF StepFits, Aims, Holds, Unseen, Handing, Copying, Windows
<1>7. Typed'
  BY <1>1, <1>2, <1>3, <1>5, TypedStep DEF Inv, Typed
<1>8. JournalFits(proc', journal')
  BY <1>2 DEF JournalFits
<1> QED
  BY <1>1, <1>3, <1>5, <1>6, <1>7, <1>8, Quiet DEF Copying, Windows

\* The end of a replacement, whether the rest is replaced or undone.
LEMMA ReplacedInv ==
    ASSUME Inv, NEW p \in Procs, proc[p].step = "replaced", NEW ok \in BOOLEAN,
           proc' = [proc EXCEPT ![p].step = "compare", ![p].ok = ok, ![p].target = Nothing],
           root' \in Installed, journal' = None \/ journal' \in Installed,
           lock' = None, UNCHANGED <<stage, spent>>
    PROVE  Inv'
<1>1. /\ proc[p].phase \in Windows /\ proc[p].child = None /\ ~proc[p].ready /\ lock = p
      /\ proc[p] \in Process
  BY StepSays, ProcTyped DEF Handing, Copying, Inv
<1> DEFINE r == [proc[p] EXCEPT !.step = "compare", !.ok = ok, !.target = Nothing]
<1>2. proc' = [proc EXCEPT ![p] = r]
  OBVIOUS
<1>3. Nothing \in Runtimes
  BY DEF Nothing, Runtimes
<1>4. /\ r \in Process /\ r.step = "compare" /\ r.phase = proc[p].phase /\ r.child = None
      /\ ~r.ready /\ r.image = proc[p].image
  BY <1>1, <1>3 DEF Process
<1> HIDE DEF r
<1>5. StepFits(r) /\ Aims(r) /\ ~Holds(r) /\ Unseen(p, r)
  BY <1>1, <1>4, WorkerFits DEF Unseen
<1>6. Typed'
  BY <1>1, <1>2, <1>4, TypedStep DEF Inv, Typed
<1>7. JournalFits(proc', journal')
  <2>1. ASSUME NEW q \in Procs, q # p PROVE proc[q].step # "replaced"
    BY <1>1, <2>1, StepSays
  <2> QED
    BY <1>2, <1>4, <2>1 DEF Inv, Typed, JournalFits
<1>8. lock' # p /\ {lock, lock'} = {p, None}
  BY <1>1, LauncherAssumption
<1> QED
  BY <1>1, <1>2, <1>4, <1>5, <1>6, <1>7, <1>8, Quiet DEF Copying

\* The replacement is complete: its journal goes, and with it the lock.
LEMMA ReplaceUiInv == ASSUME Inv, NEW p \in Procs, ReplaceUi(p) PROVE Inv'
<1>1. /\ proc[p].step = "replaced" /\ lock' = None /\ journal' = None
      /\ UNCHANGED <<stage, spent>>
  BY DEF ReplaceUi
<1>2. proc[p].target.exe \in Builds
  BY <1>1, OneFits DEF Aims
<1>3. root' \in Installed
  BY <1>2 DEF ReplaceUi, Installed
<1>4. PICK ok \in BOOLEAN :
         proc' = [proc EXCEPT ![p].step = "compare", ![p].ok = ok, ![p].target = Nothing]
  BY DEF ReplaceUi
<1> QED
  BY <1>1, <1>3, <1>4, ReplacedInv

\* A replacement that fails is undone, or leaves its journal.
LEMMA ReplaceFailsInv == ASSUME Inv, NEW p \in Procs, ReplaceFails(p) PROVE Inv'
<1>1. /\ proc[p].step = "replaced" /\ lock' = None /\ UNCHANGED <<stage, spent>>
      /\ proc' = [proc EXCEPT ![p].step = "compare", ![p].ok = FALSE, ![p].target = Nothing]
  BY DEF ReplaceFails
<1>2. journal \in Installed /\ root \in Installed
  BY <1>1, OneFits DEF Inv, Typed
<1>3. root' \in Installed /\ (journal' = None \/ journal' \in Installed)
  BY <1>2 DEF ReplaceFails, Restored
<1> QED
  BY <1>1, <1>3, ReplacedInv

\* A worker that is over.
LEMMA FinishedInv ==
    ASSUME Inv, NEW p \in Procs, Works(p), NEW changed \in BOOLEAN,
           proc' = Finished(p, changed), UNCHANGED <<root, journal, stage, spent>>,
           lock' = lock \/ (lock = p /\ lock' = None), lock' # p
    PROVE  Inv'
<1>1. PICK r \in Process :
              /\ Finished(p, changed) = [proc EXCEPT ![p] = r]
              /\ StepFits(r) /\ Aims(r) /\ ~Holds(r)
              /\ r.phase = proc[p].phase /\ r.step = "none" /\ r.child = None
              /\ Unseen(p, r)
  BY FinishedIs
<1>2. spent \in Counts
  BY DEF Inv, Typed
<1> QED
  BY <1>1, <1>2, Plain

\* Comparing the launcher with the root either ends the command or goes on
\* to the restart; neither holds the lock.
LEMMA CompareInv == ASSUME Inv, NEW p \in Procs, Compare(p) PROVE Inv'
<1>1. /\ proc[p].step = "compare" /\ UNCHANGED <<root, journal, lock, stage, spent>>
      /\ proc[p].phase \in Windows /\ proc[p].child = None /\ ~proc[p].ready /\ lock # p
      /\ proc[p] \in Process /\ spent \in Counts
  BY StepSays, ProcTyped DEF Compare, Handing, Copying, Inv, Typed
<1>2. CASE proc' = Finished(p, Changed(p))
  <2>1. Changed(p) \in BOOLEAN
    BY DEF Changed
  <2> QED
    BY <1>1, <1>2, <2>1, FinishedInv DEF Works, Windows
<1>3. CASE proc' = [proc EXCEPT ![p].step = "stage", ![p].busy = proc[p].phase = "window"]
  <2> DEFINE busy == proc[p].phase = "window"
             r == [proc[p] EXCEPT !.step = "stage", !.busy = busy]
  <2>1. proc' = [proc EXCEPT ![p] = r]
    BY <1>3
  <2>2. busy \in BOOLEAN
    OBVIOUS
  <2> HIDE DEF busy
  <2>3. /\ r \in Process /\ r.step = "stage" /\ r.phase = proc[p].phase /\ r.child = None
        /\ ~r.ready /\ r.image = proc[p].image
    BY <1>1, <2>2 DEF Process
  <2> HIDE DEF r
  <2>4. StepFits(r) /\ Aims(r) /\ ~Holds(r) /\ Unseen(p, r)
    BY <1>1, <2>3, WorkerFits DEF Unseen
  <2> QED
    BY <1>1, <2>1, <2>3, <2>4, Plain
<1> QED
  BY <1>2, <1>3 DEF Compare

\* A restart that is refused ends the command.
LEMMA StageRefusedInv == ASSUME Inv, NEW p \in Procs, StageRefused(p) PROVE Inv'
<1>1. /\ proc[p].step = "stage" /\ UNCHANGED <<root, journal, lock, stage, spent>>
      /\ proc[p].phase \in Windows /\ lock # p /\ proc' = Finished(p, TRUE)
  BY StepSays DEF StageRefused, Copying
<1> QED
  BY <1>1, FinishedInv DEF Works, Windows

\* A launcher that does not answer is given up.
LEMMA AwaitFailsInv == ASSUME Inv, NEW p \in Procs, AwaitFails(p) PROVE Inv'
<1>1. /\ proc[p].step = "await" /\ UNCHANGED <<root, journal, lock, stage, spent>>
      /\ proc[p].phase \in Windows /\ lock # p /\ proc' = Finished(p, TRUE)
  BY StepSays DEF AwaitFails, Copying
<1> QED
  BY <1>1, FinishedInv DEF Works, Windows


\* A process that ends, or shows an error, lets its lock go.
LEMMA GoneInv ==
    ASSUME Inv, NEW p \in Procs, proc' = Gone(p), UNCHANGED <<root, journal, stage>>,
           spent' \in Counts, lock' = lock \/ (lock = p /\ lock' = None), lock' # p
    PROVE  Inv'
<1>1. PICK r \in Process :
              /\ Gone(p) = [proc EXCEPT ![p] = r]
              /\ StepFits(r) /\ Aims(r) /\ ~Holds(r)
              /\ r.phase = "gone" /\ r.step = "none" /\ r.child = None
              /\ Unseen(p, r)
  BY GoneFits
<1> QED
  BY <1>1, Plain DEF Active, Windows

\* A process shows an error instead of its window.
LEMMA ErrorInv ==
    ASSUME Inv, NEW p \in Procs, Alive(p), proc' = Error(p), lock # p,
           root' \in {root} \cup Installed, UNCHANGED <<journal, lock, stage, spent>>
    PROVE  Inv'
<1>1. PICK r \in Process :
              /\ Error(p) = [proc EXCEPT ![p] = r]
              /\ StepFits(r) /\ Aims(r) /\ ~Holds(r)
              /\ r.phase = "error" /\ r.step = "none" /\ r.child = None
              /\ Unseen(p, r)
  BY ErrorIs
<1>2. spent' \in Counts /\ proc[p].phase # "gone"
  BY DEF Inv, Typed, Alive
<1> QED
  BY <1>1, <1>2, Plain DEF Active, Windows

\* An answer lets the awaiting window end.
LEMMA AwaitAnswerInv == ASSUME Inv, NEW p \in Procs, AwaitAnswer(p) PROVE Inv'
<1>1. /\ proc[p].step = "await" /\ UNCHANGED <<root, journal, lock, stage, spent>>
      /\ proc[p].phase \in Windows /\ proc[p].child \in Procs /\ lock # p
      /\ proc[p] \in Process
  BY StepSays, ProcTyped DEF AwaitAnswer, Handing, Copying, Inv
<1> DEFINE r == [proc[p] EXCEPT !.step = "handed"]
<1>2. proc' = [proc EXCEPT ![p] = r]
  BY DEF AwaitAnswer, Goto
<1>3. /\ r \in Process /\ r.step = "handed" /\ r.phase = proc[p].phase
      /\ r.child = proc[p].child /\ r.image = proc[p].image
  BY <1>1, GotoFits
<1> HIDE DEF r
<1>4. /\ StepFits(r) /\ Aims(r) /\ ~Holds(r)
      /\ CopyFits(r, stage[r.child].files)
      /\ Shows(r, proc[r.child], stage[r.child].files)
  BY <1>1, <1>3, LauncherAssumption
     DEF StepFits, Aims, Holds, CopyFits, Shows, Handing, Copying, Windows
<1>5. Typed'
  BY <1>1, <1>2, <1>3, TypedStep DEF Inv, Typed
<1>6. JournalFits(proc', journal')
  BY <1>1, <1>2, <1>3 DEF Inv, Typed, JournalFits
<1>7. Unseen(p, r)
  BY <1>3 DEF Unseen
<1> QED
  BY <1>1, <1>2, <1>3, <1>4, <1>5, <1>6, <1>7, Quiet DEF Copying

\* A process that ends of itself holds no lock.
LEMMA ExitInv == ASSUME Inv, NEW p \in Procs, Exit(p) PROVE Inv'
<1>1. /\ proc[p].step \in {"handed", "none"} /\ proc' = Gone(p)
      /\ UNCHANGED <<root, journal, lock, stage, spent>>
  BY DEF Exit
<1>2. lock # p /\ spent' \in Counts
  BY <1>1, StepSays DEF Copying, Inv, Typed
<1> QED
  BY <1>1, <1>2, GoneInv

\* A window that is closed goes on with its worker; a message box is the end.
LEMMA CloseInv == ASSUME Inv, NEW p \in Procs, Close(p) PROVE Inv'
<1>1. UNCHANGED <<root, journal, lock, stage, spent>> /\ proc[p] \in Process
  BY ProcTyped DEF Close, Inv
<1>2. CASE /\ proc[p].phase \in {"open", "window"}
           /\ proc' = [proc EXCEPT ![p].phase = "closing", ![p].busy = FALSE,
                                   ![p].button = FALSE]
  <2> DEFINE r == [proc[p] EXCEPT !.phase = "closing", !.busy = FALSE, !.button = FALSE]
  <2>1. proc' = [proc EXCEPT ![p] = r]
    BY <1>2
  <2>2. /\ r \in Process /\ r.phase = "closing" /\ r.step = proc[p].step
        /\ r.child = proc[p].child /\ r.ready = proc[p].ready /\ r.image = proc[p].image
        /\ r.target = proc[p].target
    BY <1>1 DEF Process
  <2> HIDE DEF r
  <2> QED
    BY <1>1, <1>2, <2>1, <2>2, SameInv DEF Windows
<1>3. CASE proc[p].phase = "error" /\ proc' = Gone(p)
  <2>1. lock # p
    BY <1>3, OneFits DEF StepFits, Holds, Windows
  <2>2. spent' \in Counts
    BY <1>1 DEF Inv, Typed
  <2> QED
    BY <1>1, <1>3, <2>1, <2>2, GoneInv
<1> QED
  BY <1>2, <1>3 DEF Close

\* Windows releases the lock of a process that dies.
LEMMA CrashInv == ASSUME Inv, NEW p \in Procs, Crash(p) PROVE Inv'
<1>1. /\ proc' = Gone(p) /\ UNCHANGED <<root, journal, stage>>
      /\ lock' = IF lock = p THEN None ELSE lock
  BY DEF Crash, Unlocked
<1>2. spent' \in Counts
  BY LauncherAssumption DEF Crash, Inv, Typed, Counts
<1>3. lock' # p
  BY <1>1, LauncherAssumption
<1> QED
  BY <1>1, <1>2, <1>3, GoneInv

\* A changed interface file in the root is not one in a stage.
LEMMA EditInv == Inv /\ Edit => Inv'
<1> SUFFICES ASSUME Inv, Edit PROVE Inv'
  OBVIOUS
<1>1. UNCHANGED <<journal, lock, stage, proc, spent>> /\ root \in Installed
  BY DEF Edit, Inv, Typed
<1>2. root' \in Installed
  BY <1>1 DEF Edit, Installed
<1> QED
  BY <1>1, <1>2 DEF Inv, Typed

\* A window whose worker stages a new launcher: it takes the lock, and notes what
\* was verified, which is one build.
LEMMA StageRuntimeInv == ASSUME Inv, NEW p \in Procs, StageRuntime(p) PROVE Inv'
<1>1. /\ proc[p].step = "stage" /\ UNCHANGED <<root, journal, spent>>
      /\ proc[p].phase \in Windows /\ ~proc[p].ready /\ proc[p].child = None
      /\ proc[p] \in Process /\ lock = None /\ lock' = p /\ Verified
  BY StepSays, ProcTyped DEF StageRuntime, Handing, Copying, Inv
<1>2. PICK c \in Free : c = NewStage
  BY NewStageFree DEF StageRuntime
<1>3. /\ c \in Procs /\ proc[c].phase = "gone" /\ \A q \in Procs : proc[q].child # c
  BY <1>2 DEF Free, Unused, Alive
<1> DEFINE t == [exe |-> root.exe, ui |-> root.ui]
           r == [proc[p] EXCEPT !.step = "copyExe", !.child = c, !.target = t]
<1>4. proc' = [proc EXCEPT ![p] = r] /\ stage' = [stage EXCEPT ![c].dir = TRUE]
  BY <1>2 DEF StageRuntime
<1>5. root \in Installed /\ proc \in [Procs -> Process] /\ stage \in [Procs -> Stage]
  BY DEF Inv, Typed
<1>6. PICK b \in Builds : t = [exe |-> b, ui |-> b]
  BY <1>1, <1>5 DEF Verified, Installed
<1>7. t \in Runtimes
  BY <1>6 DEF Runtimes
<1> HIDE DEF t
<1>8. /\ r \in Process /\ r.step = "copyExe" /\ r.phase = proc[p].phase /\ r.child = c
      /\ ~r.ready /\ r.image = proc[p].image /\ r.target = t
  BY <1>1, <1>3, <1>7 DEF Process
<1> HIDE DEF r
<1>9. /\ stage' \in [Procs -> Stage]
      /\ \A s \in Procs : stage'[s].files = stage[s].files
  BY <1>4, <1>5 DEF Stage
<1>10. StepFits(r) /\ Holds(r) /\ Unseen(p, r)
  BY <1>1, <1>3, <1>8, LauncherAssumption
     DEF StepFits, Holds, Unseen, Handing, Copying, Windows
<1>11. Aims(r)
  BY <1>6, <1>8 DEF Aims
<1>12. CopyFits(r, stage'[r.child].files) /\ Shows(r, proc[r.child], stage'[r.child].files)
  BY <1>8 DEF CopyFits, Shows
<1>13. Typed'
  BY <1>1, <1>4, <1>5, <1>8, <1>9, TypedStep DEF Inv, Typed
<1>14. JournalFits(proc', journal')
  BY <1>1, <1>4, <1>5, <1>8 DEF Inv, JournalFits
<1>15. r.child # p
  BY <1>1, <1>3, <1>8 DEF Windows
<1> QED
  BY <1>1, <1>3, <1>4, <1>8, <1>9, <1>10, <1>11, <1>12, <1>13, <1>14, <1>15, Staged
     DEF Windows


\* After its sweep a staged launcher recovers, and the one in the root takes
\* a free stage and begins to copy.
LEMMA SweepDoneInv == ASSUME Inv, NEW p \in Procs, SweepDone(p) PROVE Inv'
<1>1. /\ proc[p].step = "sweep" /\ UNCHANGED <<root, journal, lock, spent>>
      /\ proc[p].phase \in {"root", "boot"} /\ ~proc[p].ready /\ proc[p].child = None
      /\ proc[p] \in Process /\ lock # p /\ spent \in Counts
  BY StepSays, ProcTyped DEF SweepDone, Handing, Copying, Inv, Typed
<1>2. CASE proc[p].phase = "boot" /\ Goto(p, "recover") /\ stage' = stage
  <2> DEFINE r == [proc[p] EXCEPT !.step = "recover"]
  <2>1. proc' = [proc EXCEPT ![p] = r]
    BY <1>2 DEF Goto
  <2>2. /\ r \in Process /\ r.step = "recover" /\ r.phase = "boot" /\ r.child = None
        /\ ~r.ready /\ r.image = proc[p].image
    BY <1>1, <1>2, GotoFits, ZenonT(40)
  <2> HIDE DEF r
  <2>3. StepFits(r) /\ Aims(r) /\ ~Holds(r) /\ Unseen(p, r)
    BY <1>2, <2>2 DEF StepFits, Aims, Holds, Unseen, Handing, Copying, Windows
  <2> QED
    BY <1>1, <1>2, <2>1, <2>2, <2>3, Plain DEF Active
<1>3. CASE proc' = Error(p) /\ stage' = stage
  BY <1>1, <1>3, ErrorInv DEF Alive
<1>4. CASE /\ proc[p].phase = "root" /\ Free # {}
           /\ stage' = [stage EXCEPT ![NewStage].dir = TRUE]
           /\ proc' = [proc EXCEPT ![p].child = NewStage, ![p].step = "copyExe"]
  <2>1. PICK c \in Free : c = NewStage
    BY <1>4, NewStageFree
  <2>2. /\ c \in Procs /\ proc[c].phase = "gone" /\ \A q \in Procs : proc[q].child # c
    BY <2>1 DEF Free, Unused, Alive
  <2> DEFINE r == [proc[p] EXCEPT !.child = c, !.step = "copyExe"]
  <2>3. proc' = [proc EXCEPT ![p] = r] /\ stage' = [stage EXCEPT ![c].dir = TRUE]
    BY <1>4, <2>1
  <2>4. proc \in [Procs -> Process] /\ stage \in [Procs -> Stage]
    BY DEF Inv, Typed
  <2>5. /\ r \in Process /\ r.step = "copyExe" /\ r.phase = "root" /\ r.child = c
        /\ ~r.ready /\ r.image = proc[p].image
    BY <1>1, <1>4, <2>2 DEF Process
  <2> HIDE DEF r
  <2>6. /\ stage' \in [Procs -> Stage]
        /\ \A s \in Procs : stage'[s].files = stage[s].files
    BY <2>3, <2>4 DEF Stage
  <2>7. StepFits(r) /\ Aims(r) /\ ~Holds(r) /\ Unseen(p, r)
    BY <1>4, <2>2, <2>5, LauncherAssumption
       DEF StepFits, Aims, Holds, Unseen, Handing, Copying, Windows
  <2>8. CopyFits(r, stage'[r.child].files) /\ Shows(r, proc[r.child], stage'[r.child].files)
    BY <2>5 DEF CopyFits, Shows
  <2>9. Typed'
    BY <1>1, <2>3, <2>4, <2>5, <2>6, TypedStep DEF Inv, Typed
  <2>10. JournalFits(proc', journal')
    BY <1>1, <2>3, <2>4, <2>5 DEF Inv, JournalFits
  <2>11. r.child # p
    BY <1>1, <2>2, <2>5
  <2> QED
    BY <1>1, <1>4, <2>2, <2>3, <2>5, <2>6, <2>7, <2>8, <2>9, <2>10, <2>11, Staged
<1> QED
  BY <1>1, <1>2, <1>3, <1>4 DEF SweepDone

\* A file is put into the stage that nobody else has in hand.
LEMMA CopyInv ==
    ASSUME Inv, NEW p \in Procs, NEW step \in Copying, NEW copy \in Runtimes,
           proc[p].step \in {"copyExe", "copyUi"},
           Goto(p, step), UNCHANGED <<root, journal, lock, spent>>,
           stage' = [stage EXCEPT ![proc[p].child] = [dir |-> TRUE, files |-> copy]],
           step = "copyUi" \/ (IF Works(p) THEN step = "check" ELSE step = "spawn"),
           step # "copyUi" => copy.ui # None
    PROVE  Inv'
<1> DEFINE c == proc[p].child
           r == [proc[p] EXCEPT !.step = step]
<1>1. /\ proc[p].phase \in Windows \cup {"root"} /\ ~proc[p].ready /\ c \in Procs
      /\ proc[p] \in Process /\ proc[p].step \in Copying
  BY StepSays, ProcTyped DEF Handing, Copying, Inv
<1>2. /\ StepFits(proc[p]) /\ Aims(proc[p]) /\ (Holds(proc[p]) <=> lock = p)
      /\ c # p /\ proc[c].phase = "gone"
  BY <1>1, OneFits
<1>3. proc' = [proc EXCEPT ![p] = r]
  BY DEF Goto
<1>4. /\ r \in Process /\ r.step = step /\ r.phase = proc[p].phase
      /\ r.child = c /\ r.image = proc[p].image /\ r.target = proc[p].target
      /\ r.ready = proc[p].ready
  <2>1. step \in {"copyExe", "copyUi", "check", "spawn"} /\ proc[p] \in Process
    BY <1>1 DEF Copying
  <2> QED
    BY <2>1, SMT DEF Process
<1> HIDE DEF r, c
<1>5. proc \in [Procs -> Process] /\ stage \in [Procs -> Stage]
  BY DEF Inv, Typed
<1>6. stage' = [stage EXCEPT ![c] = [dir |-> TRUE, files |-> copy]]
  BY DEF c
<1>7. [dir |-> TRUE, files |-> copy] \in Stage /\ [dir |-> TRUE, files |-> copy].files = copy
  BY DEF Stage
<1>8. /\ stage' \in [Procs -> Stage] /\ stage'[c].files = copy
      /\ \A s \in Procs : s # c => stage'[s].files = stage[s].files
  BY <1>1, <1>5, <1>6, <1>7
<1>9. Works(p) <=> proc[p].phase \in Windows
  BY DEF Works, Windows
<1>10. StepFits(r) /\ Aims(r)
  <2>1. StepFits(r)
    BY <1>1, <1>4, <1>9, LauncherAssumption DEF StepFits, Handing, Copying, Windows
  <2>2. Aims(r)
    <3>1. r.step # "replaced"
      BY <1>4 DEF Copying
    <3> QED
      BY <1>1, <1>2, <1>4, <3>1 DEF Aims
  <2> QED
    BY <2>1, <2>2
<1>11. Holds(r) <=> lock' = p
  BY <1>1, <1>2, <1>4, <1>9 DEF Holds, Windows, Copying
<1>12. CopyFits(r, copy) /\ Shows(r, proc[c], copy)
  BY <1>4, <1>9 DEF CopyFits, Shows, Copying
<1>13. Typed'
  BY <1>3, <1>4, <1>5, <1>8, TypedStep DEF Inv, Typed
<1>14. JournalFits(proc', journal')
  BY <1>3, <1>4, <1>5 DEF Inv, JournalFits, Copying
<1>15. Unseen(p, r)
  BY <1>4 DEF Unseen
<1>16. \A s \in Procs :
              \/ stage'[s].files = stage[s].files
              \/ /\ proc[s].phase \notin Active
                 /\ stage'[s].files.exe = None \/ s = proc[p].child
  BY <1>2, <1>8 DEF Active, Windows, c
<1>17. c = proc[p].child
  BY DEF c
<1> QED
  BY <1>1, <1>2, <1>3, <1>4, <1>8, <1>10, <1>11, <1>12, <1>13, <1>14, <1>15, <1>16, <1>17,
     Staged DEF Windows

\* The executable is copied into the stage of a launcher that does not run.
LEMMA CopyExeInv == ASSUME Inv, NEW p \in Procs, CopyExe(p) PROVE Inv'
<1> DEFINE c == proc[p].child
<1>1. /\ proc[p].step = "copyExe" /\ UNCHANGED <<root, journal, lock, spent>>
      /\ proc[p].phase \in Windows \cup {"root"} /\ c \in Procs
      /\ root \in Installed /\ stage[c].files \in Runtimes /\ stage \in [Procs -> Stage]
  BY StepSays, ProcTyped DEF CopyExe, Handing, Copying, Inv, Typed
<1>2. CASE stage[c].dir \/ Works(p)
  <2> DEFINE copy == [stage[c].files EXCEPT !.exe = root.exe]
  <2>1. copy \in Runtimes
    BY <1>1 DEF Runtimes, Installed
  <2>2. /\ Goto(p, "copyUi")
        /\ stage' = [stage EXCEPT ![c] = [dir |-> TRUE, files |-> copy]]
    BY <1>1, <1>2 DEF CopyExe
  <2> HIDE DEF copy
  <2> QED
    BY <1>1, <2>1, <2>2, CopyInv DEF Copying
<1>3. CASE ~(stage[c].dir \/ Works(p))
  <2>1. lock # p /\ Alive(p)
    BY <1>1, <1>3, OneFits DEF Holds, Works, Windows, Alive
  <2>2. proc' = Error(p) /\ stage' = stage
    BY <1>3 DEF CopyExe
  <2> QED
    BY <1>1, <2>1, <2>2, ErrorInv
<1> QED
  BY <1>2, <1>3

\* With the interface the copy is as whole as its executable is.
LEMMA CopyUiInv == ASSUME Inv, NEW p \in Procs, CopyUi(p) PROVE Inv'
<1> DEFINE c == proc[p].child
<1>1. /\ proc[p].step = "copyUi" /\ UNCHANGED <<root, journal, lock, spent>>
      /\ proc[p].phase \in Windows \cup {"root"} /\ c \in Procs
      /\ root \in Installed /\ stage[c].files \in Runtimes /\ stage \in [Procs -> Stage]
  BY StepSays, ProcTyped DEF CopyUi, Handing, Copying, Inv, Typed
<1>2. CASE stage[c].dir \/ Works(p)
  <2> DEFINE copy == [stage[c].files EXCEPT !.ui = root.ui]
             step == IF Works(p) THEN "check" ELSE "spawn"
  <2>1. copy \in Runtimes /\ copy.ui # None
    BY <1>1, LauncherAssumption DEF Runtimes, Installed
  <2>2. /\ Goto(p, step)
        /\ stage' = [stage EXCEPT ![c] = [dir |-> TRUE, files |-> copy]]
    BY <1>1, <1>2 DEF CopyUi
  <2>3. step \in Copying /\ (IF Works(p) THEN step = "check" ELSE step = "spawn")
    BY DEF Copying
  <2> HIDE DEF copy, step
  <2> QED
    BY <1>1, <2>1, <2>2, <2>3, CopyInv
<1>3. CASE ~(stage[c].dir \/ Works(p))
  <2>1. lock # p /\ Alive(p)
    BY <1>1, <1>3, OneFits DEF Holds, Works, Windows, Alive
  <2>2. proc' = Error(p) /\ stage' = stage
    BY <1>3 DEF CopyUi
  <2> QED
    BY <1>1, <2>1, <2>2, ErrorInv
<1> QED
  BY <1>2, <1>3

\* The copies are started only if they are what was verified.
LEMMA CheckStageInv == ASSUME Inv, NEW p \in Procs, CheckStage(p) PROVE Inv'
<1> DEFINE c == proc[p].child
<1>1. /\ proc[p].step = "check" /\ UNCHANGED <<root, journal, spent>> /\ lock' = None
      /\ proc[p].phase \in Windows /\ c \in Procs /\ ~proc[p].ready
      /\ stage \in [Procs -> Stage] /\ proc[p] \in Process /\ proc \in [Procs -> Process]
  BY StepSays, ProcTyped DEF CheckStage, Handing, Copying, Inv, Typed
<1>2. /\ Aims(proc[p]) /\ StepFits(proc[p]) /\ lock = p /\ lock' # p /\ c # p
      /\ proc[c].phase = "gone" /\ CopyFits(proc[p], stage[c].files)
  <2>1. c # None
    BY <1>1, LauncherAssumption
  <2>2. Holds(proc[p])
    BY <1>1 DEF Holds
  <2> QED
    BY <1>1, <2>1, <2>2, OneFits, LauncherAssumption DEF Copying
<1>3. CASE stage[c].files = proc[p].target
  <2> DEFINE r == [proc[p] EXCEPT !.step = "spawn"]
  <2>1. proc' = [proc EXCEPT ![p] = r] /\ stage' = stage
    BY <1>3 DEF CheckStage, Goto
  <2>2. /\ r \in Process /\ r.step = "spawn" /\ r.phase = proc[p].phase
        /\ r.child = c /\ r.image = proc[p].image /\ r.target = proc[p].target
        /\ r.ready = proc[p].ready
    BY <1>1, GotoFits
  <2> HIDE DEF r, c
  <2>3. StepFits(r) /\ Aims(r) /\ ~Holds(r) /\ Unseen(p, r)
    BY <1>1, <1>2, <2>2, LauncherAssumption
       DEF StepFits, Aims, Holds, Unseen, Handing, Copying, Windows
  <2>4. CopyFits(r, stage[c].files) /\ Shows(r, proc[c], stage[c].files)
    BY <1>1, <1>2, <1>3, <2>2 DEF CopyFits, Shows
  <2>5. Typed'
    BY <1>1, <2>1, <2>2, TypedStep DEF Inv, Typed
  <2>6. JournalFits(proc', journal')
    BY <1>1, <2>1, <2>2 DEF Inv, JournalFits
  <2>7. c = proc[p].child
    BY DEF c
  <2> QED
    BY <1>1, <1>2, <2>1, <2>2, <2>3, <2>4, <2>5, <2>6, <2>7, Quiet DEF Copying, Windows
<1>4. CASE stage[c].files # proc[p].target
  <2>1. proc' = Finished(p, TRUE) /\ stage' = [stage EXCEPT ![c] = NoStage]
    BY <1>4 DEF CheckStage
  <2>2. PICK r \in Process :
              /\ Finished(p, TRUE) = [proc EXCEPT ![p] = r]
              /\ StepFits(r) /\ Aims(r) /\ ~Holds(r)
              /\ r.phase = proc[p].phase /\ r.step = "none" /\ r.child = None
              /\ Unseen(p, r)
    BY <1>1, FinishedIs DEF Works, Windows
  <2>3. NoStage \in Stage /\ NoStage.files.exe = None
    BY DEF NoStage, Stage, Nothing, Runtimes
  <2> HIDE DEF c
  <2>4. /\ stage' \in [Procs -> Stage]
        /\ \A s \in Procs :
              \/ stage'[s].files = stage[s].files
              \/ proc[s].phase \notin Active /\ stage'[s].files.exe = None
    BY <1>1, <1>2, <2>1, <2>3 DEF Active, Windows
  <2>5. Typed'
    BY <1>1, <2>1, <2>2, <2>4, TypedStep DEF Inv, Typed
  <2>6. JournalFits(proc', journal')
    BY <1>1, <2>1, <2>2 DEF Inv, JournalFits
  <2>7. r.child # p /\ r.step \notin Copying
    BY <2>2, LauncherAssumption DEF Copying
  <2> QED
    BY <1>1, <1>2, <2>1, <2>2, <2>4, <2>5, <2>6, <2>7, Staged DEF Windows
<1> QED
  BY <1>3, <1>4

\* What a recovery puts back are files of the launcher.
LEMMA RestoredInstalled == Inv => Restored \in Installed
BY DEF Inv, Typed, Restored

\* A recovery that fails opens no window.
LEMMA RecoverFailsInv == ASSUME Inv, NEW p \in Procs, RecoverFails(p) PROVE Inv'
<1>1. /\ proc[p].phase = "boot" /\ lock # p /\ proc' = Error(p)
      /\ UNCHANGED <<journal, lock, stage, spent>>
      /\ root' \in {root} \cup Installed
  BY StepSays, RestoredInstalled, LauncherAssumption DEF RecoverFails, Copying
<1> QED
  BY <1>1, ErrorInv DEF Alive

\* The interface of the stage is what the window shows.
LEMMA OpenedInv ==
    ASSUME Inv, NEW p \in Procs, proc[p].step = "open", lock = None,
           root' = Restored, journal' = None, UNCHANGED <<lock, stage, spent>>,
           proc' = [proc EXCEPT ![p].phase = "open", ![p].step = "none",
                                ![p].image.ui = stage[p].files.ui]
    PROVE  Inv'
<1> DEFINE ui == stage[p].files.ui
           r == [proc[p] EXCEPT !.phase = "open", !.step = "none", !.image.ui = ui]
<1>1. /\ proc[p].phase = "boot" /\ proc[p].child = None /\ ~proc[p].ready /\ lock # p
      /\ lock' = lock /\ stage' = stage
      /\ proc[p] \in Process /\ stage[p].files \in Runtimes /\ proc[p].image \in Runtimes
      /\ stage \in [Procs -> Stage] /\ proc \in [Procs -> Process]
  BY StepSays, ProcTyped DEF Handing, Copying, Inv, Typed
<1>2. proc' = [proc EXCEPT ![p] = r]
  OBVIOUS
<1>3. ui \in Builds \cup {Edited, None}
  BY <1>1 DEF Runtimes
<1> HIDE DEF ui
<1>4. /\ r \in Process /\ r.phase = "open" /\ r.step = "none" /\ r.child = None /\ ~r.ready
      /\ r.image.exe = proc[p].image.exe /\ r.image.ui = ui
  BY <1>1, <1>3, ZenonT(40) DEF Process, Runtimes
<1> HIDE DEF r
<1>5. StepFits(r) /\ Aims(r) /\ ~Holds(r)
  BY <1>4 DEF StepFits, Aims, Holds, Handing, Copying, Windows
<1>6. Whole(stage[p].files)
  BY <1>1, OneFits DEF Active
<1>7. ASSUME NEW q \in Procs, q # p, proc[q].child = p
      PROVE  Shows(proc[q], r, stage[p].files)
  <2>1. Shows(proc[q], proc[p], stage[p].files)
    BY <1>7, OneFits, LauncherAssumption
  <2>2. ASSUME proc[q].step = "await" PROVE r.image = proc[q].target
    <3>1. stage[p].files = proc[q].target /\ proc[p].image.exe = proc[q].target.exe
      BY <1>1, <2>1, <2>2 DEF Shows
    <3>2. r.image.exe = stage[p].files.exe /\ r.image.ui = stage[p].files.ui
      BY <1>4, <3>1 DEF ui
    <3>3. r.image \in Runtimes
      BY <1>4 DEF Process
    <3>4. r.image = stage[p].files
      BY <1>1, <3>2, <3>3 DEF Runtimes
    <3> QED
      BY <3>1, <3>4
  <2> QED
    BY <1>4, <2>2 DEF Shows
<1>8. Fits(proc', stage', lock')
  <2>1. r.child # p /\ r.step \notin Copying /\ proc[p].phase # "gone"
    BY <1>1, <1>4, LauncherAssumption DEF Copying
  <2>2. Fits(proc, stage, lock)
    BY DEF Inv
  <2>3. r.child = None /\ r \in Process
    BY <1>4
  <2>4. Fits([proc EXCEPT ![p] = r], stage, lock)
    BY <1>1, <1>4, <1>5, <1>6, <1>7, <2>1, <2>2, <2>3, Single
  <2> QED
    BY <1>1, <1>2, <2>4
<1>9. Typed'
  BY <1>1, <1>2, <1>4, TypedStep, RestoredInstalled DEF Inv, Typed
<1>10. JournalFits(proc', journal')
  <2>1. ASSUME NEW q \in Procs, proc'[q].step = "replaced" PROVE FALSE
    <3>1. q # p /\ proc[q].step = "replaced"
      BY <1>1, <1>2, <1>4, <2>1
    <3>2. lock = q
      BY <3>1, StepSays
    <3> QED
      BY <3>2, LauncherAssumption
  <2> QED
    BY <2>1 DEF JournalFits
<1> QED
  BY <1>8, <1>9, <1>10 DEF Inv

\* A window opens, unless its Backend cannot lock or recover.
LEMMA OpenInv == ASSUME Inv, NEW p \in Procs, Open(p) PROVE Inv'
<1>1. /\ proc[p].step = "open" /\ UNCHANGED <<lock, stage, spent>>
      /\ proc[p].phase = "boot" /\ lock # p
  BY StepSays, LauncherAssumption DEF Open, Copying
<1>2. CASE proc' = Error(p) /\ UNCHANGED <<root, journal>>
  BY <1>1, <1>2, ErrorInv DEF Alive
<1>3. CASE ~(lock # None \/ Spoiled)
  BY <1>1, <1>3, OpenedInv DEF Open
<1> QED
  BY <1>2, <1>3 DEF Open

\* A process that starts, from the root or from a whole stage.
LEMMA StartsFits ==
    ASSUME NEW P \in [Procs -> Process], NEW S \in [Procs -> Stage], NEW L, Fits(P, S, L),
           NEW n \in Procs, P[n].phase = "gone",
           NEW phase \in {"root", "boot"}, NEW image \in Runtimes, NEW todo \in SUBSET Procs,
           phase = "boot" => Whole(S[n].files),
           \A q \in Procs : P[q].child = n =>
              /\ P[q].step \notin Copying
              /\ Shows(P[q], Started(phase, image, todo), S[n].files)
    PROVE  Fits([P EXCEPT ![n] = Started(phase, image, todo)], S, L)
<1> DEFINE r == Started(phase, image, todo)
<1>1. /\ r \in Process /\ StepFits(r) /\ Aims(r) /\ ~Holds(r)
      /\ r.phase = phase /\ r.step = "sweep" /\ r.child = None
  BY StartedFits
<1>2. L # n
  <2>1. StepFits(P[n]) /\ (Holds(P[n]) <=> L = n)
    BY DEF Fits, EachFits, LockFits
  <2> QED
    BY <2>1 DEF StepFits, Holds, Windows
<1> HIDE DEF r
<1>3. r.child # n /\ r.step \notin Copying
  BY <1>1, LauncherAssumption DEF Copying
<1>4. r.phase \in Active => Whole(S[n].files)
  BY <1>1 DEF Active, Windows
<1>5. \A q \in Procs : P[q].child = n => P[q].step \notin Copying /\ Shows(P[q], r, S[n].files)
  BY DEF r
<1>6. Fits([P EXCEPT ![n] = r], S, L)
  BY <1>1, <1>2, <1>3, <1>4, <1>5, Single
<1> QED
  BY <1>6 DEF r

\* A process that ends leaves what Fits says of the others.
LEMMA GoneKeeps ==
    ASSUME Inv, NEW p \in Procs, lock # p
    PROVE  /\ Gone(p) \in [Procs -> Process]
           /\ Fits(Gone(p), stage, lock)
           /\ \A q \in Procs : q # p => Gone(p)[q] = proc[q]
           /\ Gone(p)[p].child = None /\ Gone(p)[p].step = "none"
<1>1. PICK r \in Process :
              /\ Gone(p) = [proc EXCEPT ![p] = r]
              /\ StepFits(r) /\ Aims(r) /\ ~Holds(r)
              /\ r.phase = "gone" /\ r.step = "none" /\ r.child = None
              /\ Unseen(p, r)
  BY GoneFits
<1>2. proc \in [Procs -> Process] /\ stage \in [Procs -> Stage] /\ Fits(proc, stage, lock)
  BY DEF Inv, Typed
<1>3. ASSUME NEW q \in Procs, q # p, proc[q].child = p
      PROVE  Shows(proc[q], r, stage[p].files)
  <2>1. Shows(proc[q], proc[p], stage[p].files)
    BY <1>3, OneFits, LauncherAssumption
  <2> QED
    BY <1>1, <1>3, <2>1 DEF Unseen, Shows, Windows
<1>4. r.child # p /\ r.step \notin Copying /\ r.phase \notin Active
  BY <1>1, LauncherAssumption DEF Copying, Active, Windows
<1>5. Fits([proc EXCEPT ![p] = r], stage, lock)
  BY <1>1, <1>2, <1>3, <1>4, Single
<1> QED
  BY <1>1, <1>2, <1>5

\* A launcher that is opened has the files of the root and no stage yet.
LEMMA OpenRootInv == Inv /\ OpenRoot => Inv'
<1> SUFFICES ASSUME Inv, OpenRoot PROVE Inv'
  OBVIOUS
<1>1. PICK n \in Unused : n = NewProc
  BY NewProcUnused DEF OpenRoot
<1> DEFINE image == [exe |-> root.exe, ui |-> None]
           r == Started("root", image, Dirs)
<1>2. /\ proc' = [proc EXCEPT ![n] = r] /\ UNCHANGED <<root, journal, lock, stage>>
      /\ n \in Procs /\ proc[n].phase = "gone" /\ \A q \in Procs : proc[q].child # n
  BY <1>1 DEF OpenRoot, Unused, Alive
<1>3. spent' \in Counts
  BY LauncherAssumption DEF OpenRoot, Inv, Typed, Counts
<1>4. /\ proc \in [Procs -> Process] /\ stage \in [Procs -> Stage] /\ Fits(proc, stage, lock)
      /\ image \in Runtimes /\ Dirs \in SUBSET Procs
  BY DEF Inv, Typed, Installed, Runtimes, Dirs
<1>5. r \in Process /\ r.step = "sweep"
  BY <1>4, StartedFits
<1>6. Fits(proc', stage', lock')
  BY <1>2, <1>4, StartsFits
<1> HIDE DEF r
<1>7. Typed'
  BY <1>2, <1>3, <1>5, TypedStep DEF Inv, Typed
<1>8. JournalFits(proc', journal')
  BY <1>2, <1>4, <1>5 DEF Inv, JournalFits
<1> QED
  BY <1>6, <1>7, <1>8 DEF Inv

\* A launcher that recovered starts the one in the root in its place.
LEMMA RecoverInv == ASSUME Inv, NEW p \in Procs, Recover(p) PROVE Inv'
<1>1. /\ proc[p].step = "recover" /\ UNCHANGED <<lock, stage, spent>>
      /\ proc[p].phase = "boot" /\ ~proc[p].ready /\ proc[p].child = None
      /\ proc[p] \in Process /\ lock # p /\ spent \in Counts
      /\ proc \in [Procs -> Process] /\ stage \in [Procs -> Stage]
  BY StepSays, ProcTyped DEF Recover, Handing, Copying, Inv, Typed
<1>2. CASE proc' = Error(p) /\ UNCHANGED <<root, journal>>
  BY <1>1, <1>2, ErrorInv DEF Alive
<1>3. CASE Goto(p, "open") /\ UNCHANGED <<root, journal>>
  <2> DEFINE r == [proc[p] EXCEPT !.step = "open"]
  <2>1. proc' = [proc EXCEPT ![p] = r]
    BY <1>3 DEF Goto
  <2>2. /\ r \in Process /\ r.step = "open" /\ r.phase = "boot" /\ r.child = None
        /\ ~r.ready /\ r.image = proc[p].image
    BY <1>1, GotoFits, ZenonT(40)
  <2> HIDE DEF r
  <2>3. StepFits(r) /\ Aims(r) /\ ~Holds(r) /\ Unseen(p, r)
    BY <1>1, <2>2 DEF StepFits, Aims, Holds, Unseen, Handing, Copying, Windows
  <2> QED
    BY <1>1, <1>3, <2>1, <2>2, <2>3, Plain DEF Active
<1>4. ASSUME journal # None, Unused # {}, root' = journal, journal' = None,
             proc' = [Gone(p) EXCEPT ![NewProc] =
                         Started("root", [exe |-> journal.exe, ui |-> None], Dirs)]
      PROVE  Inv'
  <2>1. PICK n \in Unused : n = NewProc
    BY <1>4, NewProcUnused
  <2>2. /\ n \in Procs /\ n # p /\ proc[n].phase = "gone"
        /\ \A q \in Procs : proc[q].child # n
    BY <1>1, <2>1 DEF Unused, Alive
  <2>3. journal \in Installed
    BY <1>4 DEF Inv, Typed
  <2> DEFINE image == [exe |-> journal.exe, ui |-> None]
             r == Started("root", image, Dirs)
  <2>4. image \in Runtimes /\ Dirs \in SUBSET Procs
    BY <2>3 DEF Installed, Runtimes, Dirs
  <2>5. r \in Process /\ r.step = "sweep"
    BY <2>4, StartedFits
  <2>6. PICK P \in [Procs -> Process] :
           /\ P = Gone(p) /\ Fits(P, stage, lock)
           /\ \A q \in Procs : q # p => P[q] = proc[q]
           /\ P[p].child = None /\ P[p].step = "none"
    BY <1>1, GoneKeeps
  <2>7. P[n].phase = "gone" /\ \A q \in Procs : P[q].child # n
    BY <2>2, <2>6, LauncherAssumption
  <2>8. proc' = [P EXCEPT ![n] = r]
    BY <1>4, <2>1, <2>6
  <2>9. Fits(proc', stage', lock')
    BY <1>1, <2>2, <2>4, <2>6, <2>7, <2>8, StartsFits
  <2> HIDE DEF r
  <2>10. proc' \in [Procs -> Process]
    BY <2>5, <2>8
  <2>11. Typed'
    BY <1>1, <1>4, <2>3, <2>10 DEF Inv, Typed
  <2>12. JournalFits(proc', journal')
    <3>1. ASSUME NEW q \in Procs, proc'[q].step = "replaced" PROVE FALSE
      <4>1. q # p /\ proc[q].step = "replaced"
        BY <2>5, <2>6, <2>8, <3>1
      <4>2. lock = q
        BY <4>1, StepSays
      <4> QED
        BY <1>4, <4>2, LauncherAssumption DEF Recover
    <3> QED
      BY <3>1 DEF JournalFits
  <2> QED
    BY <2>9, <2>11, <2>12 DEF Inv
<1> QED
  BY <1>2, <1>3, <1>4 DEF Recover, Restored


\* The page is there, and whoever awaits it hears of that.
LEMMA ReadyInv == ASSUME Inv, NEW p \in Procs, Ready(p) PROVE Inv'
<1>1. /\ proc[p].phase = "open" /\ UNCHANGED <<root, journal, lock, stage, spent>>
      /\ proc[p] \in Process /\ proc \in [Procs -> Process] /\ stage \in [Procs -> Stage]
      /\ Fits(proc, stage, lock)
  BY ProcTyped DEF Ready, Inv, Typed
<1>2. /\ StepFits(proc[p]) /\ Whole(stage[p].files) /\ (Holds(proc[p]) <=> lock = p)
  BY <1>1, OneFits DEF Active
<1>3. proc[p].step = "none" /\ proc[p].child = None /\ ~proc[p].ready /\ lock # p
  BY <1>1, <1>2 DEF StepFits, Holds, Handing, Copying, Windows
<1> DEFINE r == [proc[p] EXCEPT !.phase = "window"]
           P == [proc EXCEPT ![p] = r]
<1>4. /\ r \in Process /\ r.phase = "window" /\ r.step = "none" /\ r.child = None
      /\ ~r.ready /\ r.image = proc[p].image
  BY <1>1, <1>3 DEF Process
<1>5. proc' = [q \in Procs |->
                  IF q = p THEN r
                  ELSE IF proc[q].child = p /\ proc[q].step = "await"
                  THEN [proc[q] EXCEPT !.ready = TRUE]
                  ELSE proc[q]]
  BY DEF Ready
<1> HIDE DEF r
<1>6. StepFits(r) /\ Aims(r) /\ ~Holds(r) /\ Unseen(p, r)
  BY <1>1, <1>4 DEF StepFits, Aims, Holds, Unseen, Handing, Copying, Windows
<1>7. P \in [Procs -> Process] /\ P[p] = r /\ \A q \in Procs : q # p => P[q] = proc[q]
  BY <1>1, <1>4
<1>8. Fits(P, stage, lock)
  <2>1. ASSUME NEW q \in Procs, q # p, proc[q].child = p
        PROVE  Shows(proc[q], r, stage[p].files)
    <3>1. Shows(proc[q], proc[p], stage[p].files)
      BY <2>1, OneFits, LauncherAssumption
    <3> QED
      BY <1>1, <1>4, <3>1 DEF Shows, Windows
  <2>2. r.child # p /\ r.step \notin Copying
    BY <1>4, LauncherAssumption DEF Copying
  <2> QED
    BY <1>1, <1>2, <1>3, <1>4, <1>6, <2>1, <2>2, Single
<1> HIDE DEF P
<1>9. proc' \in [Procs -> Process] /\ Fits(proc', stage, lock)
  <2>1. CASE \A q \in Procs : ~(proc[q].child = p /\ proc[q].step = "await")
    <3>1. proc' = P
      BY <1>5, <1>7, <2>1
    <3> QED
      BY <1>7, <1>8, <3>1
  <2>2. ASSUME NEW q \in Procs, proc[q].child = p, proc[q].step = "await"
        PROVE  proc' \in [Procs -> Process] /\ Fits(proc', stage, lock)
    <3>1. /\ proc[q].child # q /\ StepFits(proc[q]) /\ Aims(proc[q])
          /\ \A o \in Procs : proc[o].child = p => o = q
          /\ Shows(proc[q], proc[p], stage[p].files) /\ lock # q
          /\ proc[q] \in Process /\ (Holds(proc[q]) <=> lock = q)
          /\ proc[q].phase \in Windows
      BY <2>2, OneFits, ProcTyped, StepSays, LauncherAssumption DEF Inv, Copying
    <3> DEFINE a == [proc[q] EXCEPT !.ready = TRUE]
    <3>2. /\ a \in Process /\ a.phase = proc[q].phase /\ a.step = "await" /\ a.child = p
          /\ a.image = proc[q].image /\ a.target = proc[q].target
      BY <2>2, <3>1 DEF Process
    <3> HIDE DEF a
    <3>3. proc' = [P EXCEPT ![q] = a]
      <4>1. \A o \in Procs : o # p /\ o # q => proc'[o] = proc[o]
        BY <1>5, <3>1
      <4>2. proc'[p] = r /\ proc'[q] = a
        BY <1>5, <2>2, <3>1 DEF a
      <4> QED
        BY <1>5, <1>7, <2>2, <3>1, <4>1, <4>2, ZenonT(40)
    <3>4. StepFits(a) /\ Aims(a) /\ ~Holds(a)
      BY <2>2, <3>1, <3>2, LauncherAssumption
         DEF StepFits, Aims, Holds, Handing, Copying, Windows
    <3>5. CopyFits(a, stage[p].files) /\ Shows(a, P[p], stage[p].files)
      BY <1>1, <1>4, <1>7, <2>2, <3>1, <3>2 DEF CopyFits, Shows, Windows
    <3>6. P[q] = proc[q] /\ a.child # q /\ a.child = P[q].child /\ a.step \notin Copying
      BY <1>7, <2>2, <3>1, <3>2 DEF Copying
    <3>7. ASSUME NEW o \in Procs, o # q, P[o].child = q
          PROVE  Shows(P[o], a, stage[q].files)
      <4>1. Shows(P[o], P[q], stage[q].files)
        BY <1>8, <3>7, LauncherAssumption DEF Fits, AwaitFits
      <4> QED
        BY <3>2, <3>6, <4>1 DEF Shows
    <3>8. a.phase \in Active => Whole(stage[q].files)
      BY <3>1, <3>2, OneFits DEF Active
    <3>9. P[q].phase # "gone"
      BY <3>1, <3>6 DEF Windows
    <3>10. Fits([P EXCEPT ![q] = a], stage, lock)
      <4>1. a.child \notin {None, P[q].child} => \A o \in Procs : P[o].child # a.child
        BY <3>6
      <4>2. a.child # None => /\ CopyFits(a, stage[a.child].files)
                              /\ Shows(a, P[a.child], stage[a.child].files)
        BY <3>2, <3>5
      <4> QED
        BY <1>1, <1>7, <1>8, <3>1, <3>2, <3>4, <3>6, <3>7, <3>8, <3>9, <4>1, <4>2, Single
    <3> QED
      BY <1>7, <3>2, <3>3, <3>10
  <2> QED
    BY <2>1, <2>2
<1>10. Typed'
  BY <1>1, <1>9 DEF Inv, Typed
<1>11. JournalFits(proc', journal')
  <2>1. \A q \in Procs : proc'[q].step = proc[q].step
    BY <1>1, <1>3, <1>4, <1>5 DEF Process
  <2> QED
    BY <1>1, <2>1 DEF Inv, JournalFits
<1> QED
  BY <1>1, <1>9, <1>10, <1>11 DEF Inv

\* The new launcher runs from the stage that was filled for it.
LEMMA SpawnInv == ASSUME Inv, NEW p \in Procs, Spawn(p) PROVE Inv'
<1> DEFINE c == proc[p].child
           image == [exe |-> stage[c].files.exe, ui |-> None]
           runs == Started("boot", image, Dirs \ {c})
<1>1. /\ proc[p].step = "spawn" /\ UNCHANGED <<root, journal, lock, stage, spent>>
      /\ proc[p].phase \in Windows \cup {"root"} /\ c \in Procs /\ ~proc[p].ready
      /\ proc[p] \in Process /\ proc \in [Procs -> Process] /\ stage \in [Procs -> Stage]
      /\ stage[c].files \in Runtimes
  BY StepSays, ProcTyped DEF Spawn, Handing, Copying, Inv, Typed
<1>2. /\ StepFits(proc[p]) /\ Aims(proc[p]) /\ lock # p /\ c # p /\ proc[c].phase = "gone"
      /\ \A q \in Procs : proc[q].child = c => q = p
      /\ CopyFits(proc[p], stage[c].files)
  <2>1. c # None
    BY <1>1, LauncherAssumption
  <2>2. ~Holds(proc[p])
    BY <1>1 DEF Holds
  <2> QED
    BY <1>1, <2>1, <2>2, OneFits DEF Copying
<1>3. CASE stage[c].files.exe = None
  <2>1. proc' = IF Works(p) THEN Finished(p, TRUE) ELSE Error(p)
    BY <1>3 DEF Spawn
  <2>2. CASE Works(p)
    BY <1>1, <1>2, <2>1, <2>2, FinishedInv
  <2>3. CASE ~Works(p)
    <3>1. Alive(p)
      BY <1>1 DEF Alive, Windows
    <3> QED
      BY <1>1, <1>2, <2>1, <2>3, <3>1, ErrorInv
  <2> QED
    BY <2>2, <2>3
<1>4. ASSUME stage[c].files.exe # None,
             NEW P \in [Procs -> Process], Fits(P, stage, lock), P[c].phase = "gone",
             \A q \in Procs : P[q].child = c =>
                /\ P[q].step \notin Copying
                /\ Shows(P[q], runs, stage[c].files),
             \A q \in Procs : P[q].step = "replaced" => proc[q].step = "replaced",
             proc' = [P EXCEPT ![c] = runs]
      PROVE  Inv'
  <2>1. Whole(stage[c].files)
    BY <1>1, <1>2, <1>4 DEF CopyFits, Whole
  <2>2. image \in Runtimes /\ (Dirs \ {c}) \in SUBSET Procs
    BY <1>1 DEF Runtimes, Dirs
  <2>3. Fits(proc', stage', lock')
    BY <1>1, <1>4, <2>1, <2>2, StartsFits
  <2>4. runs \in Process /\ runs.step = "sweep"
    BY <2>2, StartedFits
  <2> HIDE DEF runs
  <2>5. proc' \in [Procs -> Process]
    BY <1>4, <2>4
  <2>6. Typed'
    BY <1>1, <2>5 DEF Inv, Typed
  <2>7. JournalFits(proc', journal')
    BY <1>1, <1>4, <2>4 DEF Inv, JournalFits
  <2> QED
    BY <2>3, <2>6, <2>7 DEF Inv
<1>5. CASE stage[c].files.exe # None /\ Works(p)
  <2> DEFINE r == [proc[p] EXCEPT !.step = "await"]
             P == [proc EXCEPT ![p] = r]
  <2>1. proc[p].phase \in Windows
    BY <1>5 DEF Works, Windows
  <2>2. /\ r \in Process /\ r.step = "await" /\ r.phase = proc[p].phase
        /\ r.child = c /\ r.image = proc[p].image /\ r.target = proc[p].target
        /\ r.ready = proc[p].ready
    BY <1>1, GotoFits
  <2>3. proc' = [P EXCEPT ![c] = runs]
    <3>1. proc' = [proc EXCEPT ![c] = runs, ![p].step = "await"]
      BY <1>5 DEF Spawn
    <3> HIDE DEF runs
    <3> QED
      BY <1>1, <1>2, <3>1
  <2> HIDE DEF r
  <2>4. P \in [Procs -> Process] /\ P[p] = r /\ \A q \in Procs : q # p => P[q] = proc[q]
    BY <1>1, <2>2
  <2>5. StepFits(r) /\ Aims(r) /\ ~Holds(r)
    BY <1>1, <1>2, <2>1, <2>2, LauncherAssumption
       DEF StepFits, Aims, Holds, Handing, Copying, Windows
  <2>6. /\ CopyFits(r, stage[c].files) /\ Shows(r, proc[c], stage[c].files)
        /\ r.step \notin Copying
    BY <1>1, <1>2, <2>2 DEF CopyFits, Shows, Copying, Windows
  <2>7. ASSUME NEW q \in Procs, q # p, proc[q].child = p
        PROVE  Shows(proc[q], r, stage[p].files)
    <3>1. Shows(proc[q], proc[p], stage[p].files)
      BY <2>7, OneFits, LauncherAssumption
    <3> QED
      BY <2>2, <3>1 DEF Shows
  <2>8. r.phase \in Active => Whole(stage[p].files)
    BY <2>2, OneFits
  <2>9. Fits(P, stage, lock)
    <3>1. Fits(proc, stage, lock) /\ proc[p].phase # "gone"
      BY <2>1 DEF Inv, Windows
    <3> HIDE DEF c
    <3>2. r.child # p /\ r.child \in {None, proc[p].child}
      BY <1>2, <2>2 DEF c
    <3> QED
      BY <1>1, <1>2, <2>2, <2>5, <2>6, <2>7, <2>8, <3>1, <3>2, Single
  <2>10. runs.phase = "boot" /\ runs.image = image
    BY <1>1, StartedFits DEF Runtimes, Dirs
  <2> HIDE DEF runs
  <2>11. stage[c].files = r.target
    BY <1>1, <1>2, <1>5, <2>1, <2>2 DEF CopyFits
  <2>12. Shows(r, runs, stage[c].files)
    BY <1>1, <2>2, <2>10, <2>11 DEF Shows, Windows
  <2>13. \A q \in Procs : P[q].child = c =>
                /\ P[q].step \notin Copying
                /\ Shows(P[q], runs, stage[c].files)
    BY <1>2, <2>4, <2>6, <2>12
  <2>14. P[c].phase = "gone" /\ \A q \in Procs : P[q].step = "replaced" => proc[q].step = "replaced"
    BY <1>1, <1>2, <2>2, <2>4
  <2> HIDE DEF P, c
  <2> QED
    BY <1>4, <1>5, <2>3, <2>4, <2>9, <2>13, <2>14
<1>6. CASE stage[c].files.exe # None /\ ~Works(p)
  <2>1. PICK P \in [Procs -> Process] :
           /\ P = Gone(p) /\ Fits(P, stage, lock)
           /\ \A q \in Procs : q # p => P[q] = proc[q]
           /\ P[p].child = None /\ P[p].step = "none"
    BY <1>2, GoneKeeps
  <2>2. proc' = [P EXCEPT ![c] = runs]
    BY <1>6, <2>1 DEF Spawn
  <2> HIDE DEF runs
  <2>3. \A q \in Procs : P[q].child # c
    BY <1>1, <1>2, <2>1, LauncherAssumption
  <2>4. P[c].phase = "gone" /\ \A q \in Procs : P[q].step = "replaced" => proc[q].step = "replaced"
    BY <1>1, <1>2, <2>1
  <2> HIDE DEF c
  <2> QED
    BY <1>4, <1>6, <2>1, <2>2, <2>3, <2>4
<1> QED
  BY <1>3, <1>5, <1>6


-----------------------------------------------------------------------------
(* The theorems. *)

\* One window is open, from a whole stage.
LEMMA InvInit == Init => Inv
<1> SUFFICES ASSUME Init PROVE Inv
  OBVIOUS
<1> DEFINE first == Least(Procs)
           whole == [exe |-> FirstBuild, ui |-> FirstBuild]
           e == Ended(whole)
           r == [e EXCEPT !.phase = "window"]
<1>1. /\ whole \in Runtimes /\ Nothing \in Runtimes /\ Whole(whole)
      /\ [dir |-> TRUE, files |-> whole] \in Stage /\ NoStage \in Stage
      /\ [dir |-> TRUE, files |-> whole].files = whole
  BY LauncherAssumption DEF Runtimes, Nothing, Whole, Stage, NoStage
<1>2. root \in Installed /\ journal = None /\ lock = None
  BY LauncherAssumption DEF Init, Installed
<1>3. spent \in Counts
  BY LauncherAssumption DEF Init, Counts
<1>4. /\ stage = [s \in Procs |-> IF s = first THEN [dir |-> TRUE, files |-> whole]
                                               ELSE NoStage]
      /\ proc = [p \in Procs |-> IF p = first THEN r ELSE Ended(Nothing)]
  BY DEF Init
<1>5. e \in Process /\ e.step = "none" /\ e.child = None /\ StepFits(e)
  BY <1>1, EndedFits
<1> HIDE DEF e, whole, first
<1>6. r \in Process /\ r.phase = "window" /\ r.step = "none" /\ r.child = None /\ ~r.ready
  BY <1>5 DEF Process, StepFits
<1> HIDE DEF r
<1>7. StepFits(r) /\ Aims(r) /\ ~Holds(r)
  BY <1>6, WorkerFits DEF Windows
<1>8. /\ proc \in [Procs -> Process] /\ stage \in [Procs -> Stage]
      /\ \A p \in Procs :
            /\ StepFits(proc[p]) /\ Aims(proc[p]) /\ ~Holds(proc[p])
            /\ proc[p].child = None /\ proc[p].step = "none"
            /\ proc[p].phase \in Active => Whole(stage[p].files)
  <2>1. Ended(Nothing) \in Process /\ Ended(Nothing).phase \notin Active
    BY <1>1, EndedFits DEF Active, Windows
  <2> QED
    BY <1>1, <1>4, <1>6, <1>7, <2>1, EndedFits
<1>9. Fits(proc, stage, lock)
  <2>1. \A p \in Procs : p # None
    BY LauncherAssumption
  <2>2. EachFits(proc) /\ LockFits(proc, lock) /\ ActiveFits(proc, stage)
    BY <1>2, <1>8, <2>1 DEF EachFits, LockFits, ActiveFits
  <2>3. ChildrenApart(proc) /\ StageFits(proc, stage) /\ AwaitFits(proc, stage)
    BY <1>8, <2>1 DEF ChildrenApart, StageFits, AwaitFits, Copying
  <2> QED
    BY <2>2, <2>3 DEF Fits
<1>10. Typed
  BY <1>2, <1>3, <1>8 DEF Typed
<1> QED
  BY <1>8, <1>9, <1>10 DEF Inv, JournalFits

\* Every step keeps the invariant.
LEMMA InvNext == Inv /\ [Next]_vars => Inv'
<1> SUFFICES ASSUME Inv, [Next]_vars PROVE Inv'
  OBVIOUS
<1>1. ASSUME NEW p \in Procs, Worker(p) PROVE Inv'
  BY <1>1, LockInv, WorkInv, ReplaceExeInv, ReplaceUiInv,
     ReplaceFailsInv, CompareInv,
     StageRuntimeInv, StageRefusedInv, CopyExeInv, CopyUiInv, CheckStageInv, SpawnInv,
     AwaitAnswerInv, AwaitFailsInv DEF Worker
<1>2. ASSUME NEW p \in Procs, Main(p) PROVE Inv'
  BY <1>2, SweepInv, SweepDoneInv, RecoverInv, RecoverFailsInv, OpenInv, ReplyInv,
     ExitInv DEF Main
<1>3. ASSUME NEW p \in Procs, Ready(p) \/ Close(p) \/ Crash(p) PROVE Inv'
  BY <1>3, ReadyInv, CloseInv, CrashInv
<1>4. ASSUME NEW p \in Procs, NEW cmd \in Commands, Command(p, cmd) PROVE Inv'
  BY <1>4, CommandInv
<1>5. CASE OpenRoot \/ Edit
  BY <1>5, OpenRootInv, EditInv
<1>6. CASE UNCHANGED vars
  BY <1>6 DEF vars, Inv, Typed
<1> QED
  BY <1>1, <1>2, <1>3, <1>4, <1>5, <1>6 DEF Next

\* The invariant holds in every reachable state.
LEMMA InvAlways == Spec => []Inv
BY InvInit, InvNext, PTL DEF Spec

\* Every state has its type: the lock is held by a window that works, and
\* whoever stages or awaits a launcher knows which (main.cpp:411-560).
THEOREM TypeCorrect == Spec => []TypeOK
<1>1. Inv => TypeOK
  <2> SUFFICES ASSUME Inv PROVE TypeOK
    OBVIOUS
  <2>1. Typed
    BY DEF Inv
  <2>2. lock # None => Works(lock)
    <3>1. lock # None => lock \in Procs /\ Holds(proc[lock])
      BY <2>1, OneFits DEF Typed
    <3> QED
      BY <3>1, StepSays DEF Holds, Works, Windows
  <2>3. \A p \in Procs : proc[p].step \in {"copyExe", "copyUi", "check", "spawn", "await"}
                            => proc[p].child # None
    BY StepSays, LauncherAssumption DEF Handing, Copying
  <2> QED
    BY <2>1, <2>2, <2>3 DEF Typed, TypeOK, Installed, Counts
<1> QED
  BY <1>1, InvAlways, PTL

\* No cleanup ever takes a file from under a launcher that runs (main.cpp:435-450).
THEOREM RunningStageWholeCorrect == Spec => []RunningStageWhole
<1>1. Inv => RunningStageWhole
  BY OneFits DEF RunningStageWhole, Whole, Active, Windows
<1> QED
  BY <1>1, InvAlways, PTL

\* Only an answer hands a window over.
LEMMA OnlyAnswers ==
    ASSUME Inv, [Next]_vars, NEW p \in Procs,
           proc[p].step = "await", proc'[p].step = "handed"
    PROVE  Answered(p)
<1>1. proc \in [Procs -> Process]
  BY DEF Inv, Typed
<1>2. ASSUME NEW q \in Procs, NEW changed, proc' = Finished(q, changed) PROVE FALSE
  BY <1>1, <1>2 DEF Finished
<1>3. ASSUME NEW q \in Procs, proc' = Gone(q) \/ proc' = Error(q) PROVE FALSE
  <2>1. PICK r : r.step = "none" /\ proc' = [proc EXCEPT ![q] = r]
    BY <1>3, GoneFits, ErrorIs
  <2> QED
    BY <1>1, <2>1
<1>4. ASSUME NEW q \in Procs, NEW step, Goto(q, step), step # "handed" PROVE FALSE
  BY <1>1, <1>4 DEF Goto
<1>5. ASSUME NEW q \in Procs, Worker(q) PROVE Answered(p)
  <2>1. CASE Lock(q)
    BY <1>1, <1>4, <2>1 DEF Lock
  <2>2. CASE \/ Work(q) \/ ReplaceUi(q) \/ ReplaceFails(q)
             \/ \E b \in Builds : ReplaceExe(q, b)
    BY <1>1, <2>2 DEF Work, ReplaceUi, ReplaceFails, ReplaceExe
  <2>3. CASE Compare(q) \/ StageRefused(q) \/ AwaitFails(q)
    BY <1>1, <1>2, <2>3 DEF Compare, StageRefused, AwaitFails
  <2>4. CASE StageRuntime(q)
    BY <1>1, <2>4 DEF StageRuntime
  <2>5. CASE CopyExe(q) \/ CopyUi(q)
    BY <1>3, <1>4, <2>5 DEF CopyExe, CopyUi
  <2>6. CASE CheckStage(q)
    BY <1>2, <1>4, <2>6 DEF CheckStage
  <2>7. CASE Spawn(q)
    <3> DEFINE c == proc[q].child
    <3>1. PICK runs : runs.step = "sweep" /\
             \/ proc' = Finished(q, TRUE) \/ proc' = Error(q)
             \/ proc' = [proc EXCEPT ![c] = runs, ![q].step = "await"]
             \/ proc' = [Gone(q) EXCEPT ![c] = runs]
      <4> DEFINE image == [exe |-> stage[c].files.exe, ui |-> None]
      <4>1. c \in Procs
        BY <2>7, StepSays DEF Spawn, Handing, Copying
      <4>2. image \in Runtimes /\ (Dirs \ {c}) \in SUBSET Procs
        BY <4>1, ProcTyped DEF Inv, Runtimes, Dirs
      <4>3. Started("boot", image, Dirs \ {c}).step = "sweep"
        BY <4>2, StartedFits
      <4> QED
        BY <2>7, <4>3 DEF Spawn
    <3>2. CASE proc' = [proc EXCEPT ![c] = runs, ![q].step = "await"]
      BY <1>1, <3>1, <3>2
    <3>3. CASE proc' = [Gone(q) EXCEPT ![c] = runs]
      <4>1. PICK r : r.step = "none" /\ Gone(q) = [proc EXCEPT ![q] = r]
        BY GoneFits
      <4> QED
        BY <1>1, <3>1, <3>3, <4>1
    <3> QED
      BY <1>2, <1>3, <3>1, <3>2, <3>3
  <2>8. CASE AwaitAnswer(q)
    <3>1. CASE q = p
      BY <2>8, <3>1 DEF AwaitAnswer
    <3>2. CASE q # p
      BY <1>1, <2>8, <3>2 DEF AwaitAnswer, Goto
    <3> QED
      BY <3>1, <3>2
  <2> QED
    BY <1>5, <2>1, <2>2, <2>3, <2>4, <2>5, <2>6, <2>7, <2>8 DEF Worker
<1>6. ASSUME NEW q \in Procs, Main(q) \/ Ready(q) \/ Close(q) \/ Crash(q) PROVE FALSE
  <2>1. CASE \E s \in Procs : Sweep(q, s)
    BY <1>1, <2>1 DEF Sweep
  <2>2. CASE SweepDone(q)
    BY <1>1, <1>3, <1>4, <2>2 DEF SweepDone
  <2>3. CASE Recover(q)
    <3>1. CASE Goto(q, "open") \/ proc' = Error(q)
      BY <1>3, <1>4, <3>1
    <3>2. ASSUME NEW n, NEW image \in Runtimes,
                 proc' = [Gone(q) EXCEPT ![n] = Started("root", image, Dirs)]
          PROVE  FALSE
      <4>1. PICK r : r.step = "none" /\ Gone(q) = [proc EXCEPT ![q] = r]
        BY GoneFits
      <4>2. Started("root", image, Dirs).step = "sweep"
        BY <3>2, StartedFits DEF Dirs
      <4> QED
        BY <1>1, <3>2, <4>1, <4>2
    <3>3. journal # None => [exe |-> journal.exe, ui |-> None] \in Runtimes
      BY DEF Inv, Typed, Installed, Runtimes
    <3> QED
      BY <2>3, <3>1, <3>2, <3>3 DEF Recover
  <2>4. CASE Open(q) \/ RecoverFails(q)
    BY <1>1, <1>3, <2>4 DEF Open, RecoverFails
  <2>5. CASE Reply(q)
    BY <1>1, <2>5 DEF Reply
  <2>6. CASE Exit(q) \/ Crash(q)
    BY <1>3, <2>6 DEF Exit, Crash
  <2>7. CASE Close(q)
    <3>1. CASE proc' = Gone(q)
      BY <1>3, <3>1
    <3>2. CASE proc' = [proc EXCEPT ![q].phase = "closing", ![q].busy = FALSE,
                                    ![q].button = FALSE]
      <4>1. proc[q] \in Process
        BY <1>1
      <4>2. proc'[p].step = proc[p].step
        BY <1>1, <3>2, <4>1 DEF Process
      <4> QED
        BY <4>2
    <3> QED
      BY <2>7, <3>1, <3>2 DEF Close
  <2>8. CASE Ready(q)
    BY <1>1, <2>8 DEF Ready, Process
  <2> QED
    BY <1>6, <2>1, <2>2, <2>3, <2>4, <2>5, <2>6, <2>7, <2>8 DEF Main
<1>7. ASSUME NEW q \in Procs, NEW cmd \in Commands, Command(q, cmd) PROVE FALSE
  BY <1>1, <1>7 DEF Command
<1>8. CASE OpenRoot
  <2>1. [exe |-> root.exe, ui |-> None] \in Runtimes /\ Dirs \in SUBSET Procs
    BY DEF Inv, Typed, Installed, Runtimes, Dirs
  <2>2. Started("root", [exe |-> root.exe, ui |-> None], Dirs).step = "sweep"
    BY <2>1, StartedFits
  <2> QED
    BY <1>1, <1>8, <2>2 DEF OpenRoot
<1>9. CASE Edit \/ UNCHANGED vars
  BY <1>9 DEF Edit, vars
<1> QED
  BY <1>5, <1>6, <1>7, <1>8, <1>9 DEF Next

\* A window ends itself for a launcher that can acknowledge only when that one runs
\* and shows one build (main.cpp:495-560, launcher/AUTO-UPDATES.md:15-19).
THEOREM HandoffIsWholeCorrect == Spec => HandoffIsWhole
<1> DEFINE Handed == \A p \in Procs :
               (/\ proc[p].step = "await"
                /\ proc'[p].step = "handed"
                /\ proc[p].target.exe \in Acknowledging)
                  => \E b \in Builds : proc[proc[p].child].image = [exe |-> b, ui |-> b]
<1>1. Inv /\ [Next]_vars => Handed
  <2> SUFFICES ASSUME Inv, [Next]_vars, NEW p \in Procs,
                      proc[p].step = "await", proc'[p].step = "handed",
                      proc[p].target.exe \in Acknowledging
               PROVE  \E b \in Builds : proc[proc[p].child].image = [exe |-> b, ui |-> b]
    OBVIOUS
  <2>1. Answered(p)
    BY OnlyAnswers
  <2>2. proc[p].ready
    BY <2>1 DEF Answered
  <2>3. proc[p].child # None /\ proc[p].phase \in Windows
    BY StepSays, LauncherAssumption DEF Handing
  <2>4. proc[proc[p].child].image = proc[p].target
    BY <2>2, <2>3, OneFits DEF Shows
  <2>5. \E b \in Builds : proc[p].target = [exe |-> b, ui |-> b]
    BY <2>3, OneFits DEF Aims
  <2> QED
    BY <2>4, <2>5
<1>2. Inv /\ [Next]_vars => [Handed]_vars
  BY <1>1
<1>3. Spec => [][Handed]_vars
  BY <1>2, InvAlways, PTL DEF Spec
<1> QED
  BY <1>3 DEF HandoffIsWhole

\* No undo of an interrupted replacement, whoever does it, takes an edit of the
\* interface with it (install_transaction.cpp:109-115, main.cpp:735).
THEOREM EditOutlivesRecoveryCorrect == Spec => EditOutlivesRecovery
<1> DEFINE Outlives == root.ui = Edited /\ root'.ui # Edited
                => \E p \in Procs : /\ proc[p].step = "replaced"
                                    /\ root'.ui = proc[p].target.exe
                                    /\ journal' = None
<1>1. Inv /\ [Next]_vars => Outlives
  <2> SUFFICES ASSUME Inv, [Next]_vars, root.ui = Edited, root'.ui # Edited
               PROVE  \E p \in Procs : /\ proc[p].step = "replaced"
                                        /\ root'.ui = proc[p].target.exe
                                        /\ journal' = None
    BY DEF Outlives
  <2>1. root' # root
    OBVIOUS
  <2>2. ASSUME ~Spoiled PROVE Restored.ui = Edited
    BY <2>2 DEF Spoiled, Restored
  <2>3. ASSUME NEW p \in Procs, Worker(p)
        PROVE  ReplaceUi(p)
    <3>1. \/ ReplaceUi(p) \/ ReplaceFails(p) \/ \E b \in Builds : ReplaceExe(p, b)
      BY <2>1, <2>3 DEF Worker, Lock, Work, Compare, StageRuntime, StageRefused,
         CopyExe, CopyUi, CheckStage, Spawn, AwaitAnswer, AwaitFails
    <3>2. ~ReplaceFails(p)
      <4> SUFFICES ASSUME ReplaceFails(p) PROVE FALSE
        OBVIOUS
      <4>1. ~Spoiled /\ root' = Restored
        BY <2>1 DEF ReplaceFails
      <4> QED
        BY <2>2, <4>1
    <3>3. ASSUME NEW b \in Builds, ReplaceExe(p, b) PROVE FALSE
      <4>1. ~Spoiled /\ root' = [Restored EXCEPT !.exe = b]
        BY <3>3 DEF ReplaceExe
      <4>2. Restored \in Installed
        BY RestoredInstalled
      <4>3. root'.ui = Restored.ui
        BY <4>1, <4>2 DEF Installed
      <4> QED
        BY <2>2, <4>1, <4>3
    <3> QED
      BY <3>1, <3>2, <3>3
  <2>4. ASSUME NEW p \in Procs, Main(p) PROVE FALSE
    <3>1. Recover(p) \/ RecoverFails(p) \/ Open(p)
      BY <2>1, <2>4 DEF Main, Sweep, SweepDone, Reply, Exit
    <3> QED
      BY <2>1, <2>2, <3>1 DEF Recover, RecoverFails, Open
  <2>5. PICK p \in Procs : ReplaceUi(p)
    <3>1. ~OpenRoot /\ ~Edit /\ vars' # vars
      BY <2>1 DEF OpenRoot, Edit, vars
    <3>2. \A p \in Procs : ~Ready(p) /\ ~Close(p) /\ ~Crash(p)
      BY <2>1 DEF Ready, Close, Crash
    <3>3. \A p \in Procs, cmd \in Commands : ~Command(p, cmd)
      BY <2>1 DEF Command
    <3> QED
      BY <2>3, <2>4, <3>1, <3>2, <3>3 DEF Next
  <2>6. proc[p].step = "replaced" /\ journal' = None /\ root'.ui = proc[p].target.exe
    BY <2>5 DEF ReplaceUi
  <2> QED
    BY <2>6
<1>2. Inv /\ [Next]_vars => [Outlives]_vars
  BY <1>1
<1>3. Spec => [][Outlives]_vars
  BY <1>2, InvAlways, PTL DEF Spec
<1> QED
  BY <1>3 DEF EditOutlivesRecovery
=============================================================================
