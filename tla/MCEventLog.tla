----------------------------- MODULE MCEventLog -----------------------------
(***************************************************************************)
(* A directory and a file in it.                                           *)
(***************************************************************************)
EXTENDS EventLog

CONSTANTS root, directory, file

MCPrefixesOf ==
  [path \in {directory, file} |->
     IF path = file THEN {root, directory, file} ELSE {root, directory}]
=============================================================================
