------------------------------- MODULE Channel -------------------------------
(***************************************************************************)
(* What one direction of a 9P connection promises: whole messages, each    *)
(* received once, unchanged and in the order in which they were sent.      *)
(* Messages at the end may be lost, when the connection breaks.            *)
(***************************************************************************)
EXTENDS Integers, Sequences, SequencesExt

VARIABLES
  sent,   \* the messages given to the connection
  recv    \* the messages taken from it

Init == sent = <<>> /\ recv = <<>>

Send ==
  /\ sent' # <<>> /\ sent' = Append(sent, Last(sent'))
  /\ UNCHANGED recv

Receive ==
  /\ Len(recv) < Len(sent)
  /\ recv' = Append(recv, sent[Len(recv) + 1])
  /\ UNCHANGED sent

Next == Send \/ Receive

Spec == Init /\ [][Next]_<<sent, recv>>
===============================================================================
