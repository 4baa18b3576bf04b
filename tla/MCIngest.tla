------------------------------ MODULE MCIngest ------------------------------
(***************************************************************************)
(* A small instance of Ingest: one process with two descriptors, another   *)
(* with one, and an ordinary file, an excluded one, the unresolved path    *)
(* and non-files as what they may refer to.                                *)
(***************************************************************************)
EXTENDS Ingest

CONSTANTS p1, p2, file, hidden, unresolved

MCDescriptors == {<<p1, 0>>, <<p1, 1>>, <<p2, 0>>}

MCProcTargets ==
  [d \in MCDescriptors |-> CASE d = <<p1, 0>> -> {file, Ignored}
                             [] d = <<p1, 1>> -> {unresolved}
                             [] d = <<p2, 0>> -> {file}]

Io(pid, fd, kind, result, latency) ==
  [kind |-> kind, pid |-> pid, fd |-> fd, result |-> result, latency |-> latency]

MCEvents ==
  {Io(p1, 0, "Read", 1, 2), Io(p1, 0, "Write", 2, 1), Io(p1, 1, "Write", 1, 1),
   Io(p2, 0, "Read", 1, 1), Io(p1, 0, "Read", 0, 1), Io(p1, 1, "Write", 0 - 1, 1)}
  \cup [kind : {"Open"}, pid : {p1}, fd : {0}, target : {hidden, Ignored}]
  \cup [kind : {"Open"}, pid : {p1}, fd : {1}, target : {unresolved}]
  \cup [kind : {"Close"}, pid : {p1}, fd : {0}]
  \cup [kind : {"Dup"}, pid : {p1}, old : {0}, new : {0, 1}]
  \cup [kind : {"Dup"}, pid : {p1}, old : {1}, new : {0}]
  \cup [kind : {"CloseRange"}, pid : {p1}, first : {0}, last : {1}, cloexec : BOOLEAN]
  \cup [kind : {"ProcessExec"}, pid : {p1}]
  \cup [kind : {"ProcessExit"}, pid : {p2}]
=============================================================================
