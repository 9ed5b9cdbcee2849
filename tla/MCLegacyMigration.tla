------------------------- MODULE MCLegacyMigration -------------------------
(***************************************************************************)
(* Instances of LegacyMigration: two folders of two listed files each, in  *)
(* which one more path may be used, and two configurations, any of which   *)
(* may name the folders at first.                                          *)
(***************************************************************************)
EXTENDS LegacyMigration, TLC
=============================================================================
