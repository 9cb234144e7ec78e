---------------------------- MODULE MCNavigation ----------------------------
(* A small instance of Navigation for TLC.                                 *)
EXTENDS Navigation

(* One letter has countries and the other has none; a later flow may get a *)
(* shorter list.                                                           *)
SomeCountries == {<<1, 1>>, <<1>>}
=============================================================================
