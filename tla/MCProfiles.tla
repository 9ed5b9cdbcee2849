----------------------------- MODULE MCProfiles -----------------------------
(***************************************************************************)
(* A small instance of Profiles: "public" is the server of the built-in    *)
(* "vanilla" profile and advertises a revision from the start; an imported *)
(* manifest is for the same server; "other" advertises nothing at first.   *)
(***************************************************************************)
EXTENDS Profiles, TLC

MCBuiltIns == <<[id |-> "installed", host |-> None, revision |-> 0],
                [id |-> "vanilla", host |-> "public", revision |-> 0]>>
MCHostOf == [s \in Sources |-> "public"]
MCFirstAdvert == [h \in Hosts |-> IF h = "public" THEN 1 ELSE 0]
=============================================================================
