---------------------------- MODULE MCTunerControl ----------------------------
(* Small instances of TunerControl for TLC.                                *)
EXTENDS TunerControl, TLC

CONSTANTS r1, r2, u1, u2

Symmetry == Permutations({r1, r2}) \union Permutations({u1, u2})
=============================================================================
