------------------------------ MODULE MCSession ------------------------------
(* A directory of three children; every message type that Readdir does not   *)
(* send is in one exchange.                                                  *)
EXTENDS Session
Three     == <<"x", "y", "z">>
ThreeNamed == [x |-> <<1>>, y |-> <<2, 2>>, z |-> <<>>]
Longer    == {<<3, 3, 3>>, <<>>}

AStat == StatOf(7, <<5, 5>>)
Pair(q, r) == [req |-> q, rep |-> r]
Others ==
  { Pair(Message("Tauth", 0, <<3, <<1>>, <<>>>>), Message("Rauth", 0, <<DirQid>>)),
    Pair(Message("Tcreate", Tag, <<1, <<4, 4>>, 420, 2>>), Message("Rcreate", Tag, <<DirQid, IOUnit>>)),
    Pair(Message("Twrite", Tag, <<1, 300, <<7, 0, 7>>>>), Message("Rwrite", Tag, <<3>>)),
    Pair(Message("Tflush", Tag, <<2>>), Message("Rflush", Tag, <<>>)),
    Pair(Message("Tremove", Tag, <<1>>), Message("Rremove", Tag, <<>>)),
    Pair(Message("Tremove", Tag, <<1>>), Message("Rerror", Tag, <<<<6, 6, 6>>>>)),
    Pair(Message("Tstat", Tag, <<1>>), Message("Rstat", Tag, <<AStat>>)),
    Pair(Message("Twstat", Tag, <<1, AStat>>), Message("Rwstat", Tag, <<>>)) }
===============================================================================
