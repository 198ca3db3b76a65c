-------------------------------- MODULE MCUnion --------------------------------
(* A small instance of Union: two clients whose trees share names, mounted at  *)
(* the root and at a directory of one of them.                                 *)
EXTENDS Union
CONSTANTS c1, c2
MCTree == (c1 :> (<<>> :> "dir" @@ <<"a">> :> "dir" @@ <<"a", "f">> :> "file"
                                @@ <<"b">> :> "dir" @@ <<"b", "f">> :> "file"))
       @@ (c2 :> (<<>> :> "dir" @@ <<"b">> :> "dir" @@ <<"f">> :> "file"))
AtRootAndA == {<<>>, <<"a">>}
BoundDeep == {<<"b">>, <<"a", "b">>}
===============================================================================
