--------------------------- MODULE MCStandardPush ---------------------------
(***************************************************************************)
(* StandardPush for TLC.                                                   *)
(***************************************************************************)
EXTENDS StandardPush, TLC
=============================================================================
