------------------------- MODULE MCBluetoothAuthority -------------------------
(* Small instances of BluetoothAuthority for TLC.                          *)
EXTENDS BluetoothAuthority, TLC

CONSTANTS p1, p2

Symmetry == Permutations({p1, p2})
=============================================================================
