--------------------------------- MODULE Pipe ---------------------------------
(***************************************************************************)
(* What a stream with one buffer promises: the bytes come out in the order *)
(* in which they were put in, each once, in pieces of any length.  When    *)
(* the program fails, what has come out is still right.                    *)
(***************************************************************************)
EXTENDS Integers, Sequences

VARIABLES
  sent,   \* all the bytes put in
  recv,   \* all the bytes that have come out
  failed  \* has the program panicked?

Init == sent = <<>> /\ recv = <<>> /\ failed = FALSE

\* More of the bytes that were put in come out.
Deliver == \E n \in Len(recv)..Len(sent) : recv' = SubSeq(sent, 1, n)

Send ==
  /\ ~failed /\ SubSeq(sent', 1, Len(sent)) = sent
  /\ UNCHANGED <<recv, failed>>

Receive ==
  /\ ~failed /\ Deliver
  /\ UNCHANGED <<sent, failed>>

\* What is in the buffer may be lost.
Fail == ~failed /\ failed' = TRUE /\ Deliver

Next == Send \/ Receive \/ Fail

Spec == Init /\ [][Next]_<<sent, recv, failed>>
===============================================================================
