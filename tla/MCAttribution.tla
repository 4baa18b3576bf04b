--------------------------- MODULE MCAttribution ---------------------------
(***************************************************************************)
(* One process and two files; the configurations say how many threads it   *)
(* has and how much the ring holds.                                        *)
(***************************************************************************)
EXTENDS Attribution

CONSTANTS t1, t2, process, a, b, pipe

MCProcessOf == [t \in Threads |-> process]

MCInherited == [fd \in Fds |-> IF fd = 0 THEN a ELSE None]

NothingInherited == [fd \in Fds |-> None]

\* Everything a process does to its descriptors.
MCCalls ==
  [op : {"open"}, file : {a, b}, relative : {FALSE}]
  \cup [op : {"open"}, file : {b}, relative : {TRUE}]
  \cup [op : {"untraced"}, file : {b, pipe}]
  \cup [op : {"read", "close"}, fd : {0, 1}]
  \cup [op : {"dup"}, fd : {0}]
  \cup [op : {"dup2"}, fd : {0}, to : {1}]
  \cup [op : {"dup2"}, fd : {1}, to : {0}]
  \cup [op : {"close_range"}, first : {0}, last : {1}, cloexec : BOOLEAN]

\* Opening, reading and closing.
FewCalls ==
  [op : {"open"}, file : {a, b}, relative : {FALSE}]
  \cup [op : {"read", "close"}, fd : {0}]
=============================================================================
