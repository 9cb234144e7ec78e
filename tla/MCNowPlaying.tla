----------------------------- MODULE MCNowPlaying -----------------------------
(* A small instance of NowPlaying for TLC.                                 *)
EXTENDS NowPlaying, TLC

CONSTANTS n1, n2

Symmetry == Permutations(Names)
=============================================================================
