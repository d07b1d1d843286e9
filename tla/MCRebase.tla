------------------------------ MODULE MCRebase ------------------------------
(* Instances of Rebase. *)
EXTENDS Rebase, TLC

CONSTANTS p1, p2, b1, b2, absent

WholeTree == {Files}
Symmetry == Permutations({p1, p2}) \cup Permutations({b1, b2})
=============================================================================
