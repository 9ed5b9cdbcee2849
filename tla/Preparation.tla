---------------------------- MODULE Preparation ----------------------------
(***************************************************************************)
(* Backend::prepare (native_backend.cpp:754-851) as far as it decides what  *)
(* the game is started with: the packages are laid out first, one that      *)
(* fails ends the preparation, and then the plugins are ordered.  The       *)
(* profile has one package here.  openmw.cfg is written after that, with    *)
(* the order, and no step before writes anything that the game reads.       *)
(***************************************************************************)
EXTENDS PackageLayout, LoadOrder

CONSTANT
    BriefRequests   \* bound: what follows a package that must be laid out

ASSUME BriefAssumption == BriefRequests \subseteq Requests

PrepareInit ==
    /\ PackageInit
    /\ request \in IF layout = "placed" THEN Requests ELSE BriefRequests
    /\ Ready

PrepareNext ==
    \/ PackageNext /\ UNCHANGED orderVars
    \/ layout = "placed" /\ OrderNext /\ UNCHANGED packageVars
    \/ PackageEnded /\ layout # "placed" /\ UNCHANGED <<packageVars, orderVars>>

PrepareSpec == PrepareInit /\ [][PrepareNext]_<<packageVars, orderVars>>

PrepareTypeOK == PackageTypeOK /\ OrderTypeOK
=============================================================================
