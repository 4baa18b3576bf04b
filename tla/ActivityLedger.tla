--------------------------- MODULE ActivityLedger ---------------------------
(***************************************************************************)
(* What the file tree promises, without a tree and without indexes.        *)
(*                                                                         *)
(* Activity is a ledger: what was recorded at every leaf, and every        *)
(* process's share of it.  Ending a process forgets its shares by looking  *)
(* at every leaf; nothing else is lost until the user resets the capture.  *)
(***************************************************************************)
EXTENDS NodeStats

CONSTANTS Pids, Leaves, Deltas

VARIABLES
  direct,   \* direct[leaf]: everything recorded at the leaf
  shares    \* shares[leaf]: [process -> its part], for processes seen there

Shares == UNION {[who -> NodeStats] : who \in SUBSET Pids}

TypeOK ==
  /\ direct \in [Leaves -> NodeStats]
  /\ shares \in [Leaves -> Shares]

Init ==
  /\ direct = [leaf \in Leaves |-> NoStats]
  /\ shares = [leaf \in Leaves |-> <<>>]

AddShare(share, pid, delta) ==
  [p \in DOMAIN share \cup {pid} |->
     IF p # pid THEN share[p]
     ELSE IF pid \in DOMAIN share THEN Accumulate(share[pid], delta)
     ELSE delta]

DropShare(share, pid) == [p \in DOMAIN share \ {pid} |-> share[p]]

Record(leaf, pid, delta) ==
  /\ direct' = [direct EXCEPT ![leaf] = Accumulate(@, delta)]
  /\ shares' = [shares EXCEPT ![leaf] = AddShare(@, pid, delta)]

EndProcess(pid) ==
  /\ shares' = [leaf \in Leaves |-> DropShare(shares[leaf], pid)]
  /\ UNCHANGED direct

Reset ==
  /\ direct' = [leaf \in Leaves |-> NoStats]
  /\ shares' = [leaf \in Leaves |-> <<>>]

Next ==
  \/ \E leaf \in Leaves, pid \in Pids, delta \in Deltas : Record(leaf, pid, delta)
  \/ \E pid \in Pids : EndProcess(pid)
  \/ Reset

vars == <<direct, shares>>

Spec == Init /\ [][Next]_vars
=============================================================================
