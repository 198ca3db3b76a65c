-------------------------------- MODULE MCTree --------------------------------
(* A small instance of Tree: two workers, one file, one directory.           *)
EXTENDS Tree, TLC
Symmetry == Permutations(Workers) \cup Permutations(Names) \cup Permutations(Perms)
===============================================================================
