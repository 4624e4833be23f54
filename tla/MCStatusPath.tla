---------------------------- MODULE MCStatusPath ----------------------------
(***************************************************************************)
(* StatusPath for TLC.                                                     *)
(***************************************************************************)
EXTENDS StatusPath, TLC

Line(k, a) == [key |-> k, arg |-> a]

(* A number of two digits can be cut; leave stands for the other commands  *)
(* of one number.                                                          *)
MCPhpLine ==
    {Line("status", <<"0">>), Line("status", <<"1">>),
     Line("message", <<"1", "2", " ", "T">>), Line("message", <<"3", " ", "T=">>)}
MCFoneraLine ==
    {Line("status", <<"1">>), Line("leave", <<"3">>),
     Line("temperature", <<"0", " ", "1", "2">>)}

(* A hash of twenty bytes, as sha1binary's, with bits of every place. *)
MCDigest == {[i \in 1 .. 20 |-> (37 * i + 200) % 256]}

(* Around the two limits of packAsTextFrame, and of a byte. *)
MCJsonLen == <<125, 126, 256, 65535>>
=============================================================================
