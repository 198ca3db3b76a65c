---------------------------- MODULE MCSavedStream -----------------------------
(* A small instance of SavedStream: two readers, a file of three chunks.     *)
EXTENDS SavedStream
===============================================================================
