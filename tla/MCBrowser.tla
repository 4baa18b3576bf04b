----------------------------- MODULE MCBrowser -----------------------------
(***************************************************************************)
(* A path with another one below it, so that it may be a directory, a file  *)
(* or one after the other, and a file beside it.                            *)
(***************************************************************************)
EXTENDS Browser

MCNodes == {<<"d">>, <<"d", "x">>, <<"e">>}

MCNameRank == [name \in {"d", "e", "x"} |->
                 CASE name = "d" -> 1 [] name = "e" -> 2 [] name = "x" -> 3]

AllKeys == FileNavigation \cup Characters \cup {"Tab", "Esc"}

PaneKeys == {"P", "Enter", "Down"}
=============================================================================
