------------------------------ MODULE EventLog ------------------------------
(***************************************************************************)
(* EventLog of ncda/src/rate.rs: recent bytes per path and process in time *)
(* buckets, with the indexes that keep a query from reading every event.   *)
(* Operations come with the time at which their batch is ingested, and     *)
(* queries with the present; both hold the lock of AppState, so that the   *)
(* times of all uses only grow.                                            *)
(*                                                                         *)
(* Paths have no empty components, so that the prefixes of one are all     *)
(* different.                                                              *)
(***************************************************************************)
EXTENDS RateBuckets, SequencesExt

CONSTANTS
  Paths, Pids, Root,
  PrefixesOf,       \* for_each_path_prefix: the path, what is above it, and Root
  Amounts,          \* the numbers of bytes that operations move
  MaxTime,          \* bound on the clock
  MaxBytes          \* bound on the bytes recorded between two resets

ASSUME EventLogAssumption ==
  /\ IsFiniteSet(Paths) /\ IsFiniteSet(Pids)
  /\ PrefixesOf \in [Paths -> SUBSET (Paths \cup {Root})]
  /\ \A path \in Paths : {path, Root} \subseteq PrefixesOf[path]
  /\ Amounts \subseteq Nat
  /\ {MaxTime, MaxBytes} \subseteq Nat

VARIABLES
  now,
  buckets,          \* VecDeque<EventBucket>
  activities,       \* <<path, pid>> -> bytes in the window
  prefixTotals,     \* prefix -> bytes in the window
  interned,         \* the paths that are interned
  pidCounts,        \* path -> how many processes have activity on it
  recorded          \* what was recorded since the last reset, tick by tick

index == [activities |-> activities, prefixTotals |-> prefixTotals,
          interned |-> interned, pidCounts |-> pidCounts]

vars == <<now, buckets, activities, prefixTotals, interned, pidCounts, recorded>>

Keys == Paths \X Pids

Times == 0 .. MaxTime

At(f, x) == IF x \in DOMAIN f THEN f[x] ELSE 0

Plus(f, x, n) == [y \in DOMAIN f \cup {x} |-> IF y = x THEN At(f, x) + n ELSE f[y]]

OneLess(f, x) == [f EXCEPT ![x] = @ - 1]

Only(f, S) == [x \in DOMAIN f \cap S |-> f[x]]

Sum(f, S) == SumFunctionOnSet(f, S)

--------------------------------------------------------------------------------
\* The indexes.

\* adjust_prefix_totals
AddToPrefixes(totals, path, bytes) ==
  [prefix \in DOMAIN totals \cup PrefixesOf[path] |->
     At(totals, prefix) + (IF prefix \in PrefixesOf[path] THEN bytes ELSE 0)]

\* A total that is not forgotten when nothing is left of it.
KeepEmptyPrefixes(totals, path, bytes) ==
  [prefix \in DOMAIN totals |->
     IF prefix \notin PrefixesOf[path] THEN totals[prefix]
     ELSE IF totals[prefix] > bytes THEN totals[prefix] - bytes ELSE 0]

TakeFromPrefixes(totals, path, bytes) ==
  LET gone == {prefix \in DOMAIN totals \cap PrefixesOf[path] : totals[prefix] <= bytes}
  IN  [prefix \in DOMAIN totals \ gone |->
         IF prefix \in PrefixesOf[path] THEN totals[prefix] - bytes ELSE totals[prefix]]

AddActivity(i, key, bytes) ==
  [activities |-> Plus(i.activities, key, bytes),
   prefixTotals |-> AddToPrefixes(i.prefixTotals, key[1], bytes),
   interned |-> i.interned \cup {key[1]},
   pidCounts |-> IF key \in DOMAIN i.activities THEN i.pidCounts
                 ELSE Plus(i.pidCounts, key[1], 1)]

\* The last process of a path leaves: the path need not be interned any longer.
Forget(i, key) ==
  LET path == key[1]
      last == At(i.pidCounts, path) = 1
  IN  [i EXCEPT !.activities = Only(@, DOMAIN @ \ {key}),
                !.pidCounts = IF last THEN Only(@, DOMAIN @ \ {path})
                              ELSE OneLess(@, path),
                !.interned = IF last THEN @ \ {path} ELSE @]

\* An activity that outlives its last byte.
SubtractDownToZero(i, key, bytes) ==
  IF key \notin DOMAIN i.activities THEN i
  ELSE IF i.activities[key] >= bytes THEN [i EXCEPT !.activities[key] = @ - bytes]
  ELSE Forget(i, key)

Subtract(i, key, bytes) ==
  IF key \notin DOMAIN i.activities THEN i
  ELSE IF i.activities[key] > bytes THEN [i EXCEPT !.activities[key] = @ - bytes]
  ELSE Forget(i, key)

\* remove_bucket
RemoveBucket(i, bucket) ==
  FoldSet(LAMBDA key, rest :
            [Subtract(rest, key, bucket.activities[key]) EXCEPT
               !.prefixTotals = TakeFromPrefixes(@, key[1], bucket.activities[key])],
          i, DOMAIN bucket.activities)

RemoveBuckets(i, some) == FoldLeft(RemoveBucket, i, some)

IndexBecomes(i) ==
  /\ activities' = i.activities
  /\ prefixTotals' = i.prefixTotals
  /\ interned' = i.interned
  /\ pidCounts' = i.pidCounts

--------------------------------------------------------------------------------

EmptyIndex == [activities |-> <<>>, prefixTotals |-> <<>>, interned |-> {}, pidCounts |-> <<>>]

Init ==
  /\ now = 0
  /\ buckets = <<>>
  /\ activities = <<>>
  /\ prefixTotals = <<>>
  /\ interned = {}
  /\ pidCounts = <<>>
  /\ recorded = [t \in Times |-> <<>>]

\* External: time passes.
Advance ==
  /\ now' \in now + 1 .. MaxTime
  /\ UNCHANGED <<buckets, activities, prefixTotals, interned, pidCounts, recorded>>

\* A bucket whose end stays where it began.
WithOperationKeepingEnd(live, key, bytes) ==
  IF JoinsLast(live, now)
  THEN [live EXCEPT ![Len(live)].activities = Plus(@, key, bytes)]
  ELSE Append(live, [startedAt |-> now, latestAt |-> now, activities |-> Plus(<<>>, key, bytes)])

Longer(bucket, key, bytes) ==
  [bucket EXCEPT !.latestAt = now, !.activities = Plus(@, key, bytes)]

WithOperation(live, key, bytes) ==
  IF JoinsLast(live, now)
  THEN [live EXCEPT ![Len(live)] = Longer(@, key, bytes)]
  ELSE Append(live, [startedAt |-> now, latestAt |-> now, activities |-> Plus(<<>>, key, bytes)])

RecordedBytes == Sum([t \in Times |-> Sum(recorded[t], DOMAIN recorded[t])], Times)

\* record_at
Record(path, pid, bytes) ==
  LET key == <<path, pid>>
      live == LiveBuckets(buckets, now)
      rest == RemoveBuckets(index, ExpiredBuckets(buckets, now))
      grown == WithOperation(live, key, bytes)
  IN  IF bytes = 0
      THEN /\ buckets' = live
           /\ IndexBecomes(rest)
           /\ UNCHANGED <<now, recorded>>
      ELSE /\ RecordedBytes + bytes <= MaxBytes
           /\ buckets' = KeptBuckets(grown)
           /\ IndexBecomes(RemoveBuckets(AddActivity(rest, key, bytes), SurplusBuckets(grown)))
           /\ recorded' = [recorded EXCEPT ![now] = Plus(@, key, bytes)]
           /\ UNCHANGED now

\* rate_for_prefix_at: what is older than the window goes before anything is read.
RateForPrefix ==
  /\ buckets' = LiveBuckets(buckets, now)
  /\ IndexBecomes(RemoveBuckets(index, ExpiredBuckets(buckets, now)))
  /\ UNCHANGED <<now, recorded>>

Reset ==
  /\ buckets' = <<>>
  /\ IndexBecomes(EmptyIndex)
  /\ recorded' = [t \in Times |-> <<>>]
  /\ UNCHANGED now

Next ==
  \/ Advance
  \/ \E path \in Paths : \E pid \in Pids : \E bytes \in Amounts : Record(path, pid, bytes)
  \/ RateForPrefix
  \/ Reset

Spec == Init /\ [][Next]_vars

--------------------------------------------------------------------------------

Below(prefix) == {key \in Keys : prefix \in PrefixesOf[key[1]]}

\* Bytes recorded at or after a time, of the paths below a prefix.
RecordedSince(prefix, time) ==
  Sum([t \in Times |-> Sum(recorded[t], DOMAIN recorded[t] \cap Below(prefix))],
      {t \in Times : t >= time})

InBuckets(key) == Sum([i \in DOMAIN buckets |-> At(buckets[i].activities, key)], DOMAIN buckets)

\* Type invariant.  There is no entry for nothing.
TypeOK ==
  /\ now \in Times
  /\ Len(buckets) <= MaxTimeBuckets
  /\ \A i \in DOMAIN buckets :
       /\ buckets[i].startedAt \in Times
       /\ buckets[i].latestAt \in buckets[i].startedAt .. now
       /\ DOMAIN buckets[i].activities \subseteq Keys
  /\ DOMAIN activities \subseteq Keys
  /\ DOMAIN prefixTotals \subseteq Paths \cup {Root}
  /\ \A key \in DOMAIN activities : activities[key] \in Nat \ {0}
  /\ \A prefix \in DOMAIN prefixTotals : prefixTotals[prefix] \in Nat \ {0}

\* What a query reads, of any prefix, has every byte of the window and none that
\* is older than the window by a bucket's width or more: the limit on buckets
\* never costs a byte that still counts ("Sixty-four buckets keep boundary error
\* small").
WindowIsExactToABucket ==
  (buckets # <<>> => Head(buckets).latestAt >= now - Window) =>
    \A prefix \in Paths \cup {Root} :
      /\ At(prefixTotals, prefix) >= RecordedSince(prefix, now - Window)
      /\ At(prefixTotals, prefix) <= RecordedSince(prefix, now - Window - BucketWidth + 1)

\* The indexes say what the buckets hold, whichever way a query takes, and what
\* they keep is bounded by the paths and processes that are active in the
\* window: a path is interned exactly while a process has activity on it.
IndexesMatchBuckets ==
  /\ DOMAIN activities = {key \in Keys : InBuckets(key) > 0}
  /\ \A key \in DOMAIN activities : activities[key] = InBuckets(key)
  /\ \A prefix \in Paths \cup {Root} :
       At(prefixTotals, prefix) = Sum(activities, DOMAIN activities \cap Below(prefix))
  /\ interned = {key[1] : key \in DOMAIN activities}
  /\ pidCounts = [path \in interned |-> Cardinality({key \in DOMAIN activities : key[1] = path})]

Tracker ==
  INSTANCE RateTracker WITH
    buckets <- [i \in DOMAIN buckets |->
                  [startedAt |-> buckets[i].startedAt, latestAt |-> buckets[i].latestAt,
                   bytes |-> Sum(buckets[i].activities, DOMAIN buckets[i].activities)]],
    windowSum <- At(prefixTotals, Root)

\* The rate of the root is the rate of a RateTracker that is given the same
\* operations: the figure beside the root and the one in the footer agree.
TrackerSpec == Tracker!Spec
=============================================================================
