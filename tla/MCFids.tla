-------------------------------- MODULE MCFids --------------------------------
(* A small instance of Fids: two workers, two fids.                          *)
EXTENDS Fids, TLC
Symmetry == Permutations(Workers) \cup Permutations(Fid) \cup Permutations(Files)
===============================================================================
