------------------------------ MODULE MCMerge ------------------------------
(* Instances of Merge. *)
EXTENDS Merge, TLC

CONSTANTS b1, b2, absent, empty

\* A migration and a base file, each of a step of its own.
stepOf == <<"migrations", "base">>

Symmetry == Permutations({b1, b2})
=============================================================================
