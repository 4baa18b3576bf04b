----------------------------- MODULE MCFileTree -----------------------------
(***************************************************************************)
(* A small instance of FileTree: a file, an alias of it, a file below it   *)
(* (so the first becomes a directory) and one beside it.                   *)
(***************************************************************************)
EXTENDS FileTree

CONSTANTS file, alias, nested, beside, root

MCPaths == {file, alias, nested, beside, root}

MCComponents ==
  [path \in MCPaths |->
     CASE path = file  -> <<"a">>
       [] path = alias -> <<"a">>
       [] path = nested -> <<"a", "b">>
       [] path = beside -> <<"c">>
       [] path = root  -> <<>>]

MCDeltas == {[total |-> 1, peak |-> 0], [total |-> 2, peak |-> 1]}
=============================================================================
