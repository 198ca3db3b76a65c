------------------------------ MODULE MCMount9p -------------------------------
(* A small instance of Mount9p: two names, two requests at a time.           *)
EXTENDS Mount9p
===============================================================================
