-------------------------------- MODULE Listing --------------------------------
(* The members of a finite set as a sequence: what sort does with a map's keys. *)
EXTENDS Integers, FiniteSets

\* S in the strict total order R: a member's place is the number of those before it.
Listed(S, R) ==
  [i \in 1..Cardinality(S) |->
     CHOOSE x \in S : Cardinality({y \in S : <<y, x>> \in R}) = i - 1]

\* Numbers from the smallest up.
Ascending(S) == Listed(S, {e \in S \X S : e[1] < e[2]})
=============================================================================
