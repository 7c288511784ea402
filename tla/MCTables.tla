------------------------------- MODULE MCTables -------------------------------
EXTENDS Tables
CONSTANTS n1, n2, n3
TheSymmetry == Permutations(Keys) \union Permutations(Values)
TheNameHash == (n1 :> 1) @@ (n2 :> 3) @@ (n3 :> 2)
TheSxhash == (n1 :> 0) @@ (n2 :> 0) @@ (n3 :> 1)
=============================================================================
