---------------------------- MODULE MCPushServer ----------------------------
(***************************************************************************)
(* PushServer for TLC.  Clients that read alike are interchangeable; the   *)
(* symmetry is for the runs without liveness.                              *)
(***************************************************************************)
EXTENDS PushServer, TLC

ClientSymmetry == Permutations(Client)
=============================================================================
