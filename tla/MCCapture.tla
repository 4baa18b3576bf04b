----------------------------- MODULE MCCapture -----------------------------
(***************************************************************************)
(* Two threads of one process and the kinds of calls that share a stash.   *)
(***************************************************************************)
EXTENDS Capture

CONSTANTS t1, t2, process, a

MCProcessOf == [t \in {t1, t2} |-> process]

MCInherited == [fd \in Fds |-> IF fd = 0 THEN a ELSE None]

MCCalls ==
  [op : {"open"}, file : {a}, relative : {FALSE}]
  \cup [op : {"read", "close", "dup"}, fd : {0}]
  \cup [op : {"close"}, fd : {1}]
  \cup [op : {"fcntl"}]
  \cup [op : {"close_range"}, first : {0}, last : {1}, cloexec : {FALSE}]
=============================================================================
