----------------------------- MODULE MCUmoTool -----------------------------
(***************************************************************************)
(* The instance of UmoTool that is checked: at first no program or another  *)
(* one is registered as the handler, which may register itself twice, and a *)
(* profile asks for two files.                                              *)
(***************************************************************************)
EXTENDS UmoTool
=============================================================================
