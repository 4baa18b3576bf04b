------------------------------ MODULE Delivery ------------------------------
(***************************************************************************)
(* What the capture pipeline promises about the records that the kernel    *)
(* emits: they are delivered in the order of their emission, none twice,   *)
(* and one that is not delivered is among the lost ones.                   *)
(***************************************************************************)
EXTENDS Naturals, Sequences, Selections

VARIABLES
  arrived,      \* records emitted so far; they are numbered from 1
  pending,      \* those still under way
  delivered,    \* those that reached the accounting state
  lost          \* how many will never reach it

vars == <<arrived, pending, delivered, lost>>

Init ==
  /\ arrived = 0
  /\ pending = <<>>
  /\ delivered = <<>>
  /\ lost = 0

Arrive ==
  /\ arrived' = arrived + 1
  /\ pending' = Append(pending, arrived + 1)
  /\ UNCHANGED <<delivered, lost>>

Refuse ==
  /\ arrived' = arrived + 1
  /\ lost' = lost + 1
  /\ UNCHANGED <<pending, delivered>>

Deliver(n) ==
  /\ delivered' = delivered \o SubSeq(pending, 1, n)
  /\ pending' = SubSeq(pending, n + 1, Len(pending))
  /\ UNCHANGED <<arrived, lost>>

Lose(kept) ==
  /\ pending' = Selected(pending, kept)
  /\ lost' = lost + (Len(pending) - Len(pending'))
  /\ UNCHANGED <<arrived, delivered>>

Next ==
  \/ Arrive
  \/ Refuse
  \/ \E n \in 1 .. Len(pending) : Deliver(n)
  \/ \E kept \in SUBSET (1 .. arrived) : Lose(kept)

Spec == Init /\ [][Next]_vars
=============================================================================
