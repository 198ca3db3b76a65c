------------------------------ MODULE MCListener ------------------------------
(* A small instance of Listener: three fids, room for one connection.        *)
EXTENDS Listener
===============================================================================
