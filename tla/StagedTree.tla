----------------------------- MODULE StagedTree -----------------------------
(***************************************************************************)
(* A folder under staging/ in which Backend::layout prepares a package      *)
(* (native_backend.cpp:658-684), as ModLayout and Fomod both write it.  A   *)
(* path is a sequence of names without their case, as the code compares     *)
(* them; a file is its contents.                                            *)
(***************************************************************************)
EXTENDS Naturals, SequencesExt

CONSTANTS
    Parts,          \* the names of files and folders
    MaxDepth,       \* bound: the longest path of the instance
    None,           \* nothing at a path
    Dir             \* a folder at a path

ASSUME TreeAssumption == None # Dir /\ MaxDepth \in Nat

VARIABLE tree

Paths == UNION {[1..n -> Parts] : n \in 1..MaxDepth}

IsFile(t, p) == t[p] \notin {None, Dir}
Under(p) == {q \in Paths : IsPrefix(p, q)}
Existing(S) == {q \in S : tree[q] # None}
Parent(q, p) == IsStrictPrefix(q, p)

\* Whatever exists is in a folder that exists.
IsTree(t) == \A p, q \in Paths : t[p] # None /\ Parent(q, p) => t[q] = Dir

\* create_directories: none of the folders it makes may be a file.
Reachable(p) == \A q \in Paths : Parent(q, p) => ~IsFile(tree, q)

\* Mutant: no folders are made above it.
PutAlone(p, value) == [q \in Paths |-> IF q = p THEN value ELSE tree[q]]

\* A file or a folder put at p, with the folders above it.
Put(p, value) ==
    [q \in Paths |-> IF Parent(q, p) THEN Dir ELSE IF q = p THEN value ELSE tree[q]]
=============================================================================
