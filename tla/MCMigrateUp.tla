---------------------------- MODULE MCMigrateUp ----------------------------
(* Instances of MigrateUp: a base file, then migrations of a second step. *)
EXTENDS MigrateUp, TLC

CONSTANTS p1, p2, b1, b2, absent

OneFile    == [f \in 1..1 |-> f]
TwoFiles   == [f \in 1..2 |-> f]
ThreeFiles == [f \in 1..3 |-> IF f = 1 THEN 1 ELSE 2]

Symmetry == Permutations({p1, p2}) \cup Permutations({b1, b2})
SeqSymmetry == Permutations({b1, b2})
=============================================================================
