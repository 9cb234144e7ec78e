---------------------------- MODULE MCInputControl ----------------------------
(* A small instance of InputControl for TLC.                               *)
EXTENDS InputControl

AnyPress == BOOLEAN
=============================================================================
