--------------------------- MODULE PackageLayout ---------------------------
(***************************************************************************)
(* Backend::layout (native_backend.cpp:639-691): what the cache gives of a  *)
(* verified package that has an installer or operations of its own.  The    *)
(* stage is filled by the FOMOD installer or with a copy of the package,    *)
(* then the operations run on it, and only a stage that all of them left    *)
(* with files, and none that is a program, is renamed into the cache.       *)
(***************************************************************************)
EXTENDS ModLayout, Fomod

CONSTANTS
    Packages,       \* the trees of packages without an installer
    Raw,            \* the tree of one that needs no layout or has it cached
    MaxActions,     \* bound: the operations of a package
    MaxAfterFomod   \* bound: those of a package with an installer

ASSUME PackagesAssumption ==
    /\ \A t \in Packages \cup {Raw} : IsTree(t)
    /\ {MaxActions, MaxAfterFomod} \subseteq Nat

packageVars == <<tree, layoutVars, fomodVars>>

NoInstaller == None

NoFomod ==
    /\ job = NoInstaller /\ phase = "done" /\ at = 1
    /\ flags = <<>> /\ files = <<>> /\ consumed = {}

\* Without operations and installer, or with a verified layout in the cache,
\* there is nothing to stage.
NoLayout ==
    /\ NoFomod
    /\ act = NoAct /\ todo = {} /\ before = tree /\ left = 0 /\ layout = "placed"

PackageInit ==
    \/ FomodInit /\ LayoutInit(MaxAfterFomod)
    \/ /\ tree \in Packages
       /\ NoFomod
       /\ LayoutInit(MaxActions)
    \/ tree = Raw /\ NoLayout

PackageNext ==
    \/ FomodNext /\ UNCHANGED layoutVars
    \/ phase = "done" /\ LayoutNext /\ UNCHANGED fomodVars

PackageEnded == phase = "refused" \/ layout # "open"

-----------------------------------------------------------------------------
PackageTypeOK ==
    /\ IsTree(tree)
    /\ todo \subseteq Paths
    /\ left \in 0..MaxActions \cup 0..MaxAfterFomod
    /\ layout \in {"open", "placed", "failed"}
    /\ phase \in {"steps", "write", "done", "refused"}
    /\ at \in Nat \ {0}
    /\ job # NoInstaller => consumed \subseteq DOMAIN job.selections

\* The stage that the operations find is what the installer calls for under
\* the pinned selections, by priority and then by order, whatever it hides
\* (fomod.cpp:344-481).
FomodIsExact == phase = "done" /\ job # NoInstaller /\ act = NoAct => InstallerOutput
=============================================================================
