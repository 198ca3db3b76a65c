----------------------------- MODULE MCTransport ------------------------------
(* A small instance of Transport: two workers, three calls.                  *)
EXTENDS Transport
===============================================================================
