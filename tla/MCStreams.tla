------------------------------ MODULE MCStreams -------------------------------
(* A small instance of Streams: two readers, two writes, each kind of stream.*)
EXTENDS Streams
===============================================================================
