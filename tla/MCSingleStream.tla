---------------------------- MODULE MCSingleStream ----------------------------
(* A small instance of SingleStream: two writers, two readers.               *)
EXTENDS SingleStream
===============================================================================
