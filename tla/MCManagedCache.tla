--------------------------- MODULE MCManagedCache ---------------------------
(***************************************************************************)
(* A small instance of ManagedCache.  Version v1 of the profile uses the   *)
(* layout ab derived from package a; v2 uses the packages b and a.         *)
(***************************************************************************)
EXTENDS ManagedCache, TLC

MCSource == [k \in Layouts |-> "a"]
MCDefinitions == [v \in Versions |->
    IF v = "v1" THEN <<[hash |-> "a", key |-> "ab"]>>
                ELSE <<[hash |-> "b", key |-> "b"], [hash |-> "a", key |-> "a"]>>]
Windows == Permutations(Procs)
=============================================================================
