--------------------------- MODULE MCBitsService ---------------------------
(***************************************************************************)
(* BitsService for TLC.  Accepted sockets are interchangeable.             *)
(***************************************************************************)
EXTENDS BitsService, TLC

ConnSymmetry == Permutations(Conns)
=============================================================================
