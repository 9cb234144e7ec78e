---------------------------- MODULE MCRemoteBrowser ---------------------------
(* A small instance of RemoteBrowser for TLC.                              *)
EXTENDS RemoteBrowser, TLC

CONSTANTS i1, i2

Symmetry == Permutations(Items)
=============================================================================
