--------------------------- MODULE MCLauncherApp ---------------------------
(***************************************************************************)
(* Instances of LauncherApp: a few processes and two builds, of which the  *)
(* older one cannot acknowledge a restart.                                 *)
(***************************************************************************)
EXTENDS LauncherApp, TLC
=============================================================================
