---------------------------- MODULE MCStationStore ----------------------------
(* Small instances of StationStore for TLC.                                *)
EXTENDS StationStore, TLC

CONSTANTS s1, s2, s3, s4

Symmetry == Permutations(Stations)

(* Three records of Recent: two can be lost to the restart, and the fourth  *)
(* station played drives the first one out.                                *)
SmallCapacity == [k \in Kinds |-> CASE k = "saved" -> 1
                                     [] k = "favorites" -> 2
                                     [] OTHER -> 3]

(* Four changes before the restart, and one after it.                     *)
FewRevisions == [c \in 0..MaxCrashes |-> IF c = 0 THEN 7 ELSE 4]
=============================================================================
