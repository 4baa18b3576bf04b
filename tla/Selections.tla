----------------------------- MODULE Selections -----------------------------
(***************************************************************************)
(* Filters of sequences.                                                   *)
(***************************************************************************)
EXTENDS Naturals, Sequences

\* What of a sequence is in a set, in the order of the sequence: SelectSeq as a
\* recursive function, so that proofs can unfold it.
Selected(s, S) ==
  LET selected[i \in 0 .. Len(s)] ==
        IF i = 0 THEN <<>>
        ELSE IF s[i] \in S THEN Append(selected[i - 1], s[i])
        ELSE selected[i - 1]
  IN  selected[Len(s)]
=============================================================================
