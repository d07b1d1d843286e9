--------------------------- MODULE MCUpgradeChain ---------------------------
(* Instances of UpgradeChain: an old and a new tool, two contents of migrate.yml. *)
EXTENDS UpgradeChain, TLC

CONSTANTS p1, p2, t1, t2, y1, y2, absent

Symmetry == Permutations({p1, p2}) \cup Permutations({t1, t2}) \cup Permutations({y1, y2})
=============================================================================
