---------------------------- MODULE AtomicInstall ----------------------------
(***************************************************************************)
(* What the journaled install of install_transaction.cpp promises: a build *)
(* is installed at once or not at all, and a rollback puts back, at once,  *)
(* exactly the files that the update replaced.  There is no crash here, no *)
(* journal and no recovery.                                                *)
(***************************************************************************)
EXTENDS Integers, FiniteSets

CONSTANTS Paths, Absent, Builds, KindOf, Ships, Image, Manifest, Allowed,
          InitialFiles, Editable, UserContents, Ids

VARIABLES
    tree,       \* the root, as recovery would leave it
    snapshots   \* the updates that can be rolled back

avars == <<tree, snapshots>>

\* What a build replaces: its files, those of the old inventory, and the
\* inventory itself.
Touched(b) ==
    LET k == KindOf[b]
        old == UNION {Ships[c] : c \in {c \in Builds :
                         KindOf[c] = k /\ Image[c][Manifest[k]] = tree[Manifest[k]]}}
    IN Ships[b] \cup (old \cap Allowed[k]) \cup {Manifest[k]}

AInit == tree = InitialFiles /\ snapshots = {}

AInstall(b) ==
    /\ Ships[b] \subseteq Allowed[KindOf[b]]
    /\ tree' = [p \in Paths |-> IF p \in Touched(b) THEN Image[b][p] ELSE tree[p]]
    /\ \E t \in Ids \ {s.id : s \in snapshots} :
          snapshots' = snapshots \cup
             {[id |-> t,
               before |-> [p \in Touched(b) |-> tree[p]],
               after |-> [p \in Touched(b) |-> Image[b][p]]]}

\* Refused when a file of the update was changed since.
ARollback(s) ==
    /\ \A p \in DOMAIN s.before : tree[p] \in {s.before[p], s.after[p]}
    /\ tree' = [p \in Paths |-> IF p \in DOMAIN s.before THEN s.before[p] ELSE tree[p]]
    /\ snapshots' = snapshots \ {s}

AEdit(p, c) ==
    /\ tree' = [tree EXCEPT ![p] = c]
    /\ UNCHANGED snapshots

ANext ==
    \/ \E b \in Builds : AInstall(b)
    \/ \E s \in snapshots : ARollback(s)
    \/ \E p \in Editable, c \in UserContents : AEdit(p, c)

ASpec == AInit /\ [][ANext]_avars

-----------------------------------------------------------------------------
(* What the packages and the first root have to be for a root to stay whole. *)

\* The kinds of packages have no path in common, an inventory tells what its
\* package is, and the user's bytes are those of no build.
PackagesSound ==
    /\ KindOf \in [Builds -> DOMAIN Allowed]
    /\ \A k \in DOMAIN Allowed : Manifest[k] \in Allowed[k] /\ Allowed[k] \subseteq Paths
    /\ \A j, k \in DOMAIN Allowed : j # k => Allowed[j] \cap Allowed[k] = {}
    /\ Image \in [Builds -> [Paths -> UNION {{Image[b][p] : p \in Paths} : b \in Builds}]]
    /\ \A b \in Builds : Image[b][Manifest[KindOf[b]]] # Absent
    /\ \A b \in Builds : \A p \in Allowed[KindOf[b]] :
          Image[b][p] # Absent => p = Manifest[KindOf[b]] \/ p \in Ships[b]
    /\ \A b, c \in Builds :
          (/\ KindOf[b] = KindOf[c]
           /\ Image[b][Manifest[KindOf[b]]] = Image[c][Manifest[KindOf[b]]])
             => \A p \in Allowed[KindOf[b]] : Image[b][p] = Image[c][p]
    /\ \A b \in Builds, p \in Paths : Image[b][p] \notin UserContents
    /\ Absent \notin UserContents
    /\ \A k \in DOMAIN Allowed : Manifest[k] \notin Editable

\* What the files of a kind can be: a build of that kind, or none.
Shapes(k) == {Image[b] : b \in {c \in Builds : KindOf[c] = k}} \cup {[p \in Paths |-> Absent]}

\* At first, each kind is one of these, with what the user has edited since.
RootSound ==
    /\ InitialFiles \in [Paths -> {InitialFiles[p] : p \in Paths}]
    /\ \A k \in DOMAIN Allowed :
          /\ InitialFiles[Manifest[k]] \notin UserContents
          /\ \E g \in Shapes(k) :
                \A p \in Allowed[k] : InitialFiles[p] \in {g[p]} \cup UserContents
=============================================================================
