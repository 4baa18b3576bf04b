----------------------------- MODULE RateBuckets -----------------------------
(***************************************************************************)
(* The time buckets that RateTracker and EventLog of ncda/src/rate.rs      *)
(* share: a queue of buckets, each with the time of its first and of its   *)
(* last operation, whatever else it holds.                                 *)
(*                                                                         *)
(* Time is in ticks (nanoseconds in the code).  Window is not zero: with a *)
(* zero window nothing is recorded and every rate is 0.                    *)
(***************************************************************************)
EXTENDS Integers, Sequences, FiniteSets

CONSTANTS Window, MaxTimeBuckets

ASSUME RateBucketsAssumption ==
  /\ Window \in Nat \ {0}
  /\ MaxTimeBuckets \in Nat \ {0, 1}

DivCeil(n, d) == (n + d - 1) \div d

\* A width that makes all buckets together as long as the window.
WidthOfAllBuckets == DivCeil(Window, MaxTimeBuckets)

\* bucket_width: one bucket less than there may be is as long as the window.
BucketWidth == DivCeil(Window, MaxTimeBuckets - 1)

\* How many buckets at the front ended before the window.
Expired(buckets, now) ==
  Cardinality({i \in DOMAIN buckets :
                 \A j \in 1 .. i : buckets[j].latestAt < now - Window})

\* expire_rate_buckets, expire_event_buckets: these, and what is left.
ExpiredBuckets(buckets, now) == SubSeq(buckets, 1, Expired(buckets, now))
LiveBuckets(buckets, now) == SubSeq(buckets, Expired(buckets, now) + 1, Len(buckets))

\* Whether an operation goes to the newest bucket.
JoinsLast(buckets, now) ==
  /\ buckets # <<>>
  /\ now - buckets[Len(buckets)].startedAt < BucketWidth

\* trim_rate_buckets, trim_event_buckets: how many are dropped at the front.
Surplus(buckets) == IF Len(buckets) > MaxTimeBuckets THEN Len(buckets) - MaxTimeBuckets ELSE 0
SurplusBuckets(buckets) == SubSeq(buckets, 1, Surplus(buckets))
KeptBuckets(buckets) == SubSeq(buckets, Surplus(buckets) + 1, Len(buckets))
=============================================================================
