------------------------------- MODULE ListMC -------------------------------
(* Instances of List for TLC: two of the three values compare equal, so     *)
(* that insertion has ties to break.                                       *)
EXTENDS List, TLC

CONSTANTS a, b, c, n1, n2, n3, n4

MCKey == a :> 1 @@ b :> 1 @@ c :> 0
Symmetry == Permutations(Nodes)
=============================================================================
