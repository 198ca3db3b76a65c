-------------------------------- MODULE MCBiDi --------------------------------
(* A small instance of BiDi: two clients with two writes each.               *)
EXTENDS BiDi
===============================================================================
