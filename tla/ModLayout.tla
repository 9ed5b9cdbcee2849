----------------------------- MODULE ModLayout -----------------------------
(***************************************************************************)
(* The operations that a profile declares for the staged copy of a package: *)
(* applyModActions and copyTree (mod_layout.cpp:58-80, 146-218), with the   *)
(* compatibility patch of a file (compatibility_patch.cpp:102-141) and the  *)
(* restoration of assets from the player's game (game_assets.cpp:145-183).  *)
(*                                                                         *)
(* A copy of a folder is one step per entry, in any order in which a folder *)
(* comes before what is in it; a patch is the contents that it wants and    *)
(* the contents that it makes of them.                                      *)
(***************************************************************************)
EXTENDS StagedTree, FiniteSets

CONSTANTS
    Empty,          \* the contents of an empty file
    Owned,          \* the assets of the game, loose or in its archives
    Programs,       \* names whose extension is that of a program
    Operations,     \* what a profile may declare
    MaxEntries      \* maxEntries: the entries of a stage, its root included

\* normalizeModActions: a profile names its paths; and what a patch or an asset
\* leaves is a file, as is what it wants there.
ASSUME OperationAssumption ==
    \A o \in Operations :
        /\ o.kind \in {"remove", "move", "copy", "patch", "restore"} /\ o.src \in Paths
        /\ o.kind \in {"patch", "restore"} => {o.wants, o.makes} \cap {None, Dir} = {}

VARIABLES
    act,        \* the last operation that was begun
    todo,       \* the entries that copyTree has still to copy
    before,     \* the stage when that operation began
    left,       \* the operations that may follow it
    layout      \* "open", "placed", or "failed": the stage is removed

layoutVars == <<act, todo, before, left, layout>>

Act(kind, src, to, force) == [kind |-> kind, src |-> src, to |-> to, force |-> force]
NoAct == Act("none", <<>>, <<>>, FALSE)

Moved(p, from, to) == to \o SubSeq(p, Len(from) + 1, Len(p))

\* "if (fs::is_directory(dst) && (type == "move" || fs::is_regular_file(src)))".
Target(kind, src, dst) ==
    IF tree[dst] = Dir /\ (kind = "move" \/ IsFile(tree, src))
    THEN Append(dst, Last(src)) ELSE dst

\* "Layout source/target may not overlap or contain one another."
Overlap(p, q) == IsPrefix(p, q) \/ IsPrefix(q, p)

Fits(n) == n + 1 <= MaxEntries

Fail == layout' = "failed" /\ todo' = {} /\ UNCHANGED tree

\* What an operation leaves; "Layout has too many entries." looks at all of it.
Leave(t) ==
    /\ tree' = t
    /\ layout' = IF Fits(Cardinality({q \in Paths : t[q] # None})) THEN layout ELSE "failed"

LayoutInit(n) ==
    /\ act = NoAct /\ todo = {} /\ before = tree
    /\ left = n /\ layout = "open"

BeginAct(kind, src, to, force) ==
    /\ layout = "open" /\ todo = {} /\ left > 0
    /\ act' = Act(kind, src, to, force)
    /\ before' = tree
    /\ left' = left - 1

\* removeManaged of a whole subtree.
RemovePath(p) ==
    /\ BeginAct("remove", p, p, FALSE)
    /\ IF tree[p] = None THEN Fail
       ELSE /\ tree' = [q \in Paths |-> IF IsPrefix(p, q) THEN None ELSE tree[q]]
            /\ UNCHANGED <<todo, layout>>

\* The instance ends at MaxDepth: nothing is put deeper.
InBounds(src, to) ==
    to \in Paths /\ \A q \in Existing(Under(src)) : Moved(q, src, to) \in Paths

Renamed(src, to) ==
    [q \in Paths |->
        IF Parent(q, to) THEN Dir
        ELSE IF IsPrefix(to, q)
             THEN IF Moved(q, to, src) \in Paths THEN tree[Moved(q, to, src)] ELSE None
        ELSE IF IsPrefix(src, q) THEN None
        ELSE tree[q]]

\* "Move collision: declare force=true to replace a target."
MoveRefused(src, to, force) ==
    \/ tree[src] = None \/ Overlap(src, to)
    \/ tree[to] # None /\ ~force
    \/ ~Reachable(to)

MovePath(src, dst, force) ==
    LET to == Target("move", src, dst)
    IN /\ InBounds(src, to)
       /\ BeginAct("move", src, to, force)
       /\ IF MoveRefused(src, to, force) THEN Fail
          ELSE Leave(Renamed(src, to)) /\ UNCHANGED todo

\* "Copy exceeds the layout expansion limit.", "Directory merge requires
\* force=true."
CopyRefused(src, to, force) ==
    \/ tree[src] = None \/ Overlap(src, to)
    \/ ~Fits(Cardinality(Existing(Paths)) + Cardinality(Existing(Under(src))))
    \/ tree[src] = Dir /\ tree[to] # None /\ ~force

CopyPath(src, dst, force) ==
    LET to == Target("copy", src, dst)
    IN /\ InBounds(src, to)
       /\ BeginAct("copy", src, to, force)
       /\ IF CopyRefused(src, to, force) THEN Fail
          ELSE todo' = Existing(Under(src)) /\ UNCHANGED <<tree, layout>>

\* Mutant: force is asked for only where folders are merged.
CollidesUnforced(e, to) ==
    ~Reachable(to) \/ IF tree[e] = Dir THEN IsFile(tree, to) ELSE tree[to] = Dir

\* "Copy directory collides with a file.", "Copy collision: declare
\* force=true", "Copy file collides with a directory."
Collides(e, to) ==
    \/ ~Reachable(to)
    \/ IF tree[e] = Dir THEN IsFile(tree, to)
       ELSE tree[to] = Dir \/ (tree[to] # None /\ ~act.force)

CopyOne(e) ==
    LET to == Moved(e, act.src, act.to)
    IN /\ \A q \in todo : ~Parent(q, e)
       /\ UNCHANGED <<act, before, left>>
       /\ IF Collides(e, to) THEN Fail
          ELSE /\ todo' = todo \ {e}
               /\ IF todo = {e} THEN Leave(Put(to, tree[e]))
                  ELSE tree' = Put(to, tree[e]) /\ UNCHANGED layout

\* "Compatibility patch source is missing.", "refused an unknown/local-edited
\* source"; what is already patched stays.
PatchRefused(o) ==
    /\ tree[o.src] # o.makes
    /\ \/ tree[o.src] = None /\ (~o.create \/ o.wants # Empty \/ ~Reachable(o.src))
       \/ tree[o.src] \notin {None, o.wants}

PatchFile(o) ==
    /\ BeginAct("patch", o.src, o.src, TRUE)
    /\ IF PatchRefused(o) THEN Fail
       ELSE Leave(Put(o.src, o.makes)) /\ UNCHANGED todo

\* "Owned-game asset replacement requires explicit force=true.", "bytes differ
\* from the profile's pinned original"; a folder is not replaced.
RestoreRefused(o) ==
    /\ tree[o.src] # o.makes
    /\ \/ tree[o.src] # None /\ ~o.force
       \/ tree[o.src] = Dir
       \/ ~Reachable(o.src)
       \/ Owned[o.asset] # o.wants

\* The files of one restoration have different targets, so an operation here
\* restores one of them.
RestoreAsset(o) ==
    /\ BeginAct("restore", o.src, o.src, o.force)
    /\ IF RestoreRefused(o) THEN Fail
       ELSE Leave(Put(o.src, o.makes)) /\ UNCHANGED todo

\* "Layout removed every file from the package.", "Server mod archives cannot
\* include native programs": any other stage is renamed into the cache.
Publishable ==
    /\ \E p \in Paths : IsFile(tree, p)
    /\ \A p \in Paths : IsFile(tree, p) => Last(p) \notin Programs

Publish ==
    /\ layout = "open" /\ todo = {}
    /\ layout' = IF Publishable THEN "placed" ELSE "failed"
    /\ UNCHANGED <<tree, act, todo, before, left>>

LayoutNext ==
    \/ \E o \in Operations :
          CASE o.kind = "remove"  -> RemovePath(o.src)
            [] o.kind = "move"    -> MovePath(o.src, o.dst, o.force)
            [] o.kind = "copy"    -> CopyPath(o.src, o.dst, o.force)
            [] o.kind = "patch"   -> PatchFile(o)
            [] o.kind = "restore" -> RestoreAsset(o)
    \/ \E e \in todo : CopyOne(e)
    \/ Publish

-----------------------------------------------------------------------------
\* What was named arrives, all of it and as it was; what was not named stays;
\* and without force nothing that exists is replaced: in whatever order the
\* entries of a folder are copied, and whichever of them are there already
\* (mod_layout.cpp:58-80, 184-216).
Settled == layout # "failed" /\ todo = {} /\ act.kind # "none"

LayoutIsExact ==
    Settled =>
        /\ act.kind \in {"copy", "move"} =>
              \A e \in Under(act.src) : before[e] # None =>
                  tree[Moved(e, act.src, act.to)] = before[e]
        /\ \A q \in Paths : tree[q] # before[q] =>
              \/ act.kind \in {"move", "remove"} /\ IsPrefix(act.src, q)
              \/ IsPrefix(act.to, q) /\ (before[q] = None \/ act.force)
              \/ Parent(q, act.to) /\ before[q] = None
        /\ act.kind \in {"move", "remove"} =>
              \A q \in Under(act.src) : tree[q] = None
        /\ act.kind \in {"patch", "restore"} => IsFile(tree, act.src)
=============================================================================
