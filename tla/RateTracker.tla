----------------------------- MODULE RateTracker -----------------------------
(***************************************************************************)
(* RateTracker of ncda/src/rate.rs: the rolling sum of the bytes of the    *)
(* last Window, kept in buckets.  Operations come with the time at which   *)
(* their batch is ingested, and queries with the present; both hold the    *)
(* lock of AppState, so that the times of all uses only grow.  Sums stay   *)
(* below 2^64.                                                             *)
(***************************************************************************)
EXTENDS RateBuckets, SequencesExt

CONSTANT Amounts    \* the numbers of bytes that operations move

VARIABLES
  now,
  buckets,          \* VecDeque<RateBucket>
  windowSum

vars == <<now, buckets, windowSum>>

BytesOf(some) == FoldLeft(LAMBDA sum, bucket : sum + bucket.bytes, 0, some)

\* saturating_sub
Less(n, m) == IF n > m THEN n - m ELSE 0

--------------------------------------------------------------------------------

Init ==
  /\ now \in Nat
  /\ buckets = <<>>
  /\ windowSum = 0

Advance ==
  /\ now' > now
  /\ UNCHANGED <<buckets, windowSum>>

Longer(bucket, bytes) == [bucket EXCEPT !.latestAt = now, !.bytes = @ + bytes]

\* The buckets after an operation, before they are trimmed.
WithOperation(live, bytes) ==
  IF JoinsLast(live, now)
  THEN [live EXCEPT ![Len(live)] = Longer(@, bytes)]
  ELSE Append(live, [startedAt |-> now, latestAt |-> now, bytes |-> bytes])

\* record_at
Record(bytes) ==
  LET live == LiveBuckets(buckets, now)
      sum == Less(windowSum, BytesOf(ExpiredBuckets(buckets, now)))
      grown == WithOperation(live, bytes)
  IN  /\ IF bytes = 0
         THEN buckets' = live /\ windowSum' = sum
         ELSE /\ buckets' = KeptBuckets(grown)
              /\ windowSum' = Less(sum + bytes, BytesOf(SurplusBuckets(grown)))
      /\ UNCHANGED now

\* rate_bps_at
RateBps ==
  /\ buckets' = LiveBuckets(buckets, now)
  /\ windowSum' = Less(windowSum, BytesOf(ExpiredBuckets(buckets, now)))
  /\ UNCHANGED now

Reset ==
  /\ buckets' = <<>>
  /\ windowSum' = 0
  /\ UNCHANGED now

Next ==
  \/ Advance
  \/ \E bytes \in Amounts : Record(bytes)
  \/ RateBps
  \/ Reset

Spec == Init /\ [][Next]_vars
=============================================================================
