------------------------------- MODULE MCClient -------------------------------
(* Small instances of Client: two goroutines, one or two paths.              *)
EXTENDS Client, TLC
Symmetry == Permutations(Procs) \cup Permutations(Paths)
===============================================================================
