---------------------------- MODULE MCRtcpSession ----------------------------
(* Small instances of RtcpSession for TLC.                                 *)
EXTENDS RtcpSession, TLC

CONSTANTS r1, r2

Symmetry == Permutations(Ids)
=============================================================================
