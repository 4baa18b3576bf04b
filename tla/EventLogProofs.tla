--------------------------- MODULE EventLogProofs ---------------------------
(***************************************************************************)
(* Proofs about EventLog: its types, that the indexes say what the buckets *)
(* hold, that a query is exact to a bucket, and that the rate of the root  *)
(* is that of a RateTracker.                                               *)
(*                                                                         *)
(* The buckets begin at least BucketWidth apart, so that of those that     *)
(* reach into the window there are never more than MaxTimeBuckets: the     *)
(* limit drops nothing.  The four indexes are one function, IndexOf, of    *)
(* the bytes that the buckets hold of each path and process; an operation, *)
(* and the expiry of a bucket, take IndexOf of the bytes before to IndexOf *)
(* of the bytes after.  What a bucket holds is what was recorded from its  *)
(* start to its end, and what no bucket covers is older than the window.   *)
(***************************************************************************)
EXTENDS EventLog, Lemmas, TLAPS

Buckets == [startedAt : Times, latestAt : Times,
            activities : UNION {[D -> Nat \ {0}] : D \in SUBSET Keys}]

\* A bucket is shorter than BucketWidth, and begins that long after the one before.
Spaced(bs, time) ==
  /\ bs \in Seq(Buckets)
  /\ \A i \in 1 .. Len(bs) :
       /\ bs[i].startedAt <= bs[i].latestAt
       /\ bs[i].latestAt < bs[i].startedAt + BucketWidth
       /\ bs[i].latestAt <= time
  /\ \A i, j \in 1 .. Len(bs) : i < j => bs[i].startedAt + BucketWidth <= bs[j].startedAt

LEMMA WidthIsEnough ==
  /\ BucketWidth \in Nat \ {0}
  /\ Window <= BucketWidth * (MaxTimeBuckets - 1)
<1>1. PICK w, d \in Nat \ {0} : w = Window /\ d = MaxTimeBuckets - 1
  BY RateBucketsAssumption
<1>2. PICK q : q = (w + d - 1) \div d
  OBVIOUS
<1>3. q \in Nat /\ q * d <= w + d - 1 /\ w + d - 1 < (q + 1) * d
  BY <1>2
<1>4. w <= q * d /\ q # 0
  BY <1>3
<1>5. BucketWidth = q
  BY <1>1, <1>2, Zenon DEF BucketWidth, DivCeil
<1>. QED
  BY <1>1, <1>3, <1>4, <1>5

LEMMA BucketFields ==
  ASSUME NEW time, NEW bs, Spaced(bs, time), NEW i \in 1 .. Len(bs)
  PROVE  /\ bs[i] \in Buckets /\ bs[i].startedAt \in Nat /\ bs[i].latestAt \in Nat
         /\ Len(bs) \in Nat /\ DOMAIN bs = 1 .. Len(bs)
<1>1. bs \in Seq(Buckets)
  BY DEF Spaced
<1>2. Len(bs) \in Nat /\ DOMAIN bs = 1 .. Len(bs) /\ bs[i] \in Buckets
  BY <1>1, LenProperties
<1>. QED
  BY <1>2 DEF Buckets, Times

\* Expiry takes exactly the buckets that ended before the window.
LEMMA ExpiredIsPrefix ==
  ASSUME NEW time \in Times, NEW bs, Spaced(bs, time)
  PROVE  \E e \in 0 .. Len(bs) :
           /\ Expired(bs, time) = e
           /\ \A i \in 1 .. e : bs[i].latestAt < time - Window
           /\ \A i \in e + 1 .. Len(bs) : bs[i].latestAt >= time - Window
<1> DEFINE n == Len(bs)
           Live == {i \in 1 .. n : ~(bs[i].latestAt < time - Window)}
           first == IF Live = {} THEN n + 1 ELSE CHOOSE i \in Live : \A j \in Live : i <= j
           e == first - 1
<1>1. n \in Nat /\ DOMAIN bs = 1 .. n
  BY LenProperties DEF Spaced
<1>2. \A i, j \in 1 .. n : i < j => bs[i].latestAt < bs[j].latestAt
  <2>1. SUFFICES ASSUME NEW i \in 1 .. n, NEW j \in 1 .. n, i < j
                 PROVE  bs[i].latestAt < bs[j].latestAt
    OBVIOUS
  <2>2. /\ bs[i].latestAt < bs[i].startedAt + BucketWidth
        /\ bs[i].startedAt + BucketWidth <= bs[j].startedAt
        /\ bs[j].startedAt <= bs[j].latestAt
    BY <2>1 DEF Spaced
  <2>. QED
    BY <2>2, BucketFields, WidthIsEnough
<1>3. /\ \A i \in 1 .. n : bs[i].latestAt \in Nat
      /\ time \in Nat /\ Window \in Nat
  BY BucketFields, RateBucketsAssumption DEF Times
<1>. HIDE DEF n
<1>4. e \in 0 .. n /\ (\A i \in 1 .. e : i \notin Live) /\ (e < n => e + 1 \in Live)
  <2>1. CASE Live = {}
    BY <1>1, <2>1
  <2>2. CASE Live # {}
    <3>1. Live \in SUBSET Nat
      BY <1>1
    <3>. HIDE DEF Live
    <3>2. PICK i \in Live : \A j \in Live : i <= j
      BY <2>2, <3>1, LeastNumber
    <3>3. first \in Live /\ \A j \in Live : first <= j
      BY <2>2, <3>2
    <3>4. first \in 1 .. n
      BY <3>3 DEF Live
    <3>. HIDE DEF first
    <3>. QED
      BY <1>1, <3>3, <3>4
  <2>. QED
    BY <2>1, <2>2
<1>. HIDE DEF first
<1>5. \A i \in 1 .. n : i \in Live <=> e < i
  BY <1>1, <1>2, <1>3, <1>4
<1>6. {i \in DOMAIN bs : \A j \in 1 .. i : bs[j].latestAt < time - Window} = 1 .. e
  BY <1>1, <1>4, <1>5
<1>7. Expired(bs, time) = e
  <2>. HIDE DEF e
  <2>1. Cardinality(1 .. e) = e
    BY <1>1, <1>4, FS_Interval
  <2>. QED
    BY <1>6, <2>1 DEF Expired
<1>8. \A i \in 1 .. e : bs[i].latestAt < time - Window
  BY <1>1, <1>4
<1>9. \A i \in e + 1 .. n : bs[i].latestAt >= time - Window
  BY <1>1, <1>3, <1>4, <1>5
<1>. QED
  BY <1>4, <1>7, <1>8, <1>9 DEF n

\* bs taken apart after e.
Parts(bs, e, gone, rest) ==
  /\ gone \in Seq(Buckets) /\ Len(gone) = e /\ \A i \in 1 .. e : gone[i] = bs[i]
  /\ rest \in Seq(Buckets) /\ Len(rest) = Len(bs) - e
  /\ \A i \in 1 .. Len(bs) - e : rest[i] = bs[e + i]

LEMMA TakenApart ==
  ASSUME NEW bs \in Seq(Buckets), NEW e \in 0 .. Len(bs)
  PROVE  Parts(bs, e, SubSeq(bs, 1, e), SubSeq(bs, e + 1, Len(bs)))
<1> DEFINE n == Len(bs)
           gone == SubSeq(bs, 1, e)
           rest == SubSeq(bs, e + 1, n)
<1>1. n \in Nat /\ e \in Int /\ n \in Int /\ e + 1 \in Int /\ e <= n /\ 0 <= e
  BY LenProperties
<1>2. \A i \in 1 .. n : bs[i] \in Buckets
  BY LenProperties
<1>. HIDE DEF n
<1>3. (\A i \in 1 .. e : bs[i] \in Buckets) /\ (\A i \in e + 1 .. n : bs[i] \in Buckets)
  BY <1>1, <1>2
<1>4. /\ gone \in Seq(Buckets) /\ Len(gone) = IF 1 <= e THEN e - 1 + 1 ELSE 0
      /\ \A i \in 1 .. e - 1 + 1 : gone[i] = bs[1 + i - 1]
  BY <1>1, <1>3, SubSeqProperties
<1>5. /\ rest \in Seq(Buckets) /\ Len(rest) = IF e + 1 <= n THEN n - (e + 1) + 1 ELSE 0
      /\ \A i \in 1 .. n - (e + 1) + 1 : rest[i] = bs[e + 1 + i - 1]
  BY <1>1, <1>3, SubSeqProperties
<1>. HIDE DEF gone, rest
<1>6. Len(gone) = e /\ Len(rest) = n - e
  BY <1>1, <1>4, <1>5
<1>7. ASSUME NEW i \in 1 .. e PROVE gone[i] = bs[i]
  <2>1. i \in 1 .. e - 1 + 1 /\ 1 + i - 1 = i
    BY <1>1
  <2>. QED
    BY <1>4, <2>1
<1>8. ASSUME NEW i \in 1 .. n - e PROVE rest[i] = bs[e + i]
  <2>1. i \in 1 .. n - (e + 1) + 1 /\ e + 1 + i - 1 = e + i
    BY <1>1
  <2>. QED
    BY <1>5, <2>1
<1>. QED
  BY <1>4, <1>5, <1>6, <1>7, <1>8 DEF Parts, n, gone, rest

\* What is left of a spaced sequence is spaced, and in the window.
InWindow(bs, time) == \A i \in 1 .. Len(bs) : bs[i].latestAt >= time - Window

LEMMA LiveIsRest ==
  ASSUME NEW time \in Times, NEW bs, Spaced(bs, time)
  PROVE  \E e \in 0 .. Len(bs) :
           /\ Parts(bs, e, ExpiredBuckets(bs, time), LiveBuckets(bs, time))
           /\ \A i \in 1 .. e : bs[i].latestAt < time - Window
           /\ Spaced(LiveBuckets(bs, time), time)
           /\ InWindow(LiveBuckets(bs, time), time)
<1>1. PICK e \in 0 .. Len(bs) :
           /\ Expired(bs, time) = e
           /\ \A i \in 1 .. e : bs[i].latestAt < time - Window
           /\ \A i \in e + 1 .. Len(bs) : bs[i].latestAt >= time - Window
  BY ExpiredIsPrefix
<1>2. PICK gone, rest : gone = ExpiredBuckets(bs, time) /\ rest = LiveBuckets(bs, time)
  OBVIOUS
<1>3. Parts(bs, e, gone, rest)
  BY <1>1, <1>2, TakenApart DEF ExpiredBuckets, LiveBuckets, Spaced
<1>4. /\ Len(bs) \in Nat /\ rest \in Seq(Buckets) /\ Len(rest) = Len(bs) - e
      /\ \A i \in 1 .. Len(rest) : rest[i] = bs[e + i] /\ e + i \in e + 1 .. Len(bs)
                                   /\ e + i \in 1 .. Len(bs)
  BY <1>3, LenProperties DEF Parts, Spaced
<1>5. Spaced(rest, time)
  <2>1. ASSUME NEW i \in 1 .. Len(rest), NEW j \in 1 .. Len(rest), i < j
        PROVE  rest[i].startedAt + BucketWidth <= rest[j].startedAt
    <3>1. e + i < e + j
      BY <1>4, <2>1
    <3>. QED
      BY <1>4, <3>1 DEF Spaced
  <2>2. ASSUME NEW i \in 1 .. Len(rest)
        PROVE  /\ rest[i].startedAt <= rest[i].latestAt
               /\ rest[i].latestAt < rest[i].startedAt + BucketWidth
               /\ rest[i].latestAt <= time
    BY <1>4 DEF Spaced
  <2>. QED
    BY <1>4, <2>1, <2>2 DEF Spaced
<1>6. InWindow(rest, time)
  BY <1>1, <1>4 DEF InWindow
<1>. QED
  BY <1>1, <1>2, <1>3, <1>5, <1>6

\* The buckets with an operation of now: one is new or has grown, the last.
Extended(bs, rest, key, bytes) ==
  /\ bs \in Seq(Buckets) /\ Len(bs) \in {Len(rest), Len(rest) + 1} /\ Len(bs) >= 1
  /\ \A i \in 1 .. Len(bs) - 1 : bs[i] = rest[i]
  /\ bs[Len(bs)].latestAt = now
  /\ Len(bs) = Len(rest) + 1 =>
       /\ bs[Len(bs)].startedAt = now
       /\ rest # <<>> => rest[Len(rest)].startedAt + BucketWidth <= now
       /\ bs[Len(bs)].activities = Plus(<<>>, key, bytes)
  /\ Len(bs) = Len(rest) =>
       /\ bs[Len(bs)].startedAt = rest[Len(rest)].startedAt
       /\ now < bs[Len(bs)].startedAt + BucketWidth
       /\ bs[Len(bs)].activities = Plus(rest[Len(rest)].activities, key, bytes)

LEMMA OperationExtends ==
  ASSUME NEW rest, now \in Times, Spaced(rest, now), NEW key \in Keys, NEW bytes \in Nat \ {0}
  PROVE  Extended(WithOperation(rest, key, bytes), rest, key, bytes)
<1> DEFINE n == Len(rest)
           bs == WithOperation(rest, key, bytes)
<1>1. /\ rest \in Seq(Buckets) /\ n \in Nat /\ (n = 0 <=> rest = <<>>)
      /\ \A i \in 1 .. n : rest[i] \in Buckets
  BY LenProperties, EmptySeq DEF Spaced
<1>2. now \in Nat /\ BucketWidth \in Nat
  BY WidthIsEnough DEF Times
<1>3. CASE JoinsLast(rest, now)
  <2> DEFINE b == Longer(rest[n], key, bytes)
  <2>1. bs = [rest EXCEPT ![n] = b]
    BY <1>3, Zenon DEF WithOperation
  <2>2. n \in 1 .. n /\ rest[n] \in Buckets /\ rest[n].startedAt \in Nat
        /\ now < rest[n].startedAt + BucketWidth
    <3>1. n \in 1 .. n
      BY <1>1, <1>3 DEF JoinsLast
    <3>. QED
      BY <1>1, <1>2, <1>3, <3>1, BucketFields DEF JoinsLast
  <2>3. PICK D \in SUBSET Keys : rest[n].activities \in [D -> Nat \ {0}]
    BY <2>2 DEF Buckets
  <2>4. Plus(rest[n].activities, key, bytes) \in [D \cup {key} -> Nat \ {0}]
    BY <2>3 DEF Plus, At
  <2>5. b = [startedAt |-> rest[n].startedAt, latestAt |-> now,
             activities |-> Plus(rest[n].activities, key, bytes)]
    <3>1. PICK r \in Buckets : r = rest[n]
      BY <2>2
    <3>2. Longer(r, key, bytes) = [startedAt |-> r.startedAt, latestAt |-> now,
                                  activities |-> Plus(r.activities, key, bytes)]
      <4> DEFINE grown == Plus(r.activities, key, bytes)
      <4>1. r = [startedAt |-> r.startedAt, latestAt |-> r.latestAt, activities |-> r.activities]
        BY DEF Buckets
      <4>2. Longer(r, key, bytes) = [r EXCEPT !.latestAt = now, !.activities = grown]
        BY DEF Longer
      <4>. HIDE DEF grown
      <4>3. Longer(r, key, bytes) = [startedAt |-> r.startedAt, latestAt |-> now, activities |-> grown]
        BY <4>1, <4>2
      <4>. QED
        BY <4>3 DEF grown
    <3>. QED
      BY <3>1, <3>2
  <2>. HIDE DEF b
  <2>6. /\ b.latestAt = now /\ b.startedAt = rest[n].startedAt
        /\ b.activities = Plus(rest[n].activities, key, bytes)
        /\ b \in Buckets
    BY <2>2, <2>4, <2>5 DEF Buckets
  <2>. HIDE DEF b
  <2>7. bs \in Seq(Buckets) /\ Len(bs) = n /\ bs[n] = b /\ \A i \in 1 .. n - 1 : bs[i] = rest[i]
    BY <1>1, <2>1, <2>2, <2>6, ExceptSeq
  <2>. HIDE DEF bs
  <2>8. n >= 1 /\ n # n + 1
    BY <1>1, <2>2
  <2>9. Extended(bs, rest, key, bytes)
    BY <1>1, <2>2, <2>6, <2>7, <2>8 DEF Extended
  <2>. QED
    BY <2>9 DEF bs
<1>4. CASE ~JoinsLast(rest, now)
  <2> DEFINE b == [startedAt |-> now, latestAt |-> now, activities |-> Plus(<<>>, key, bytes)]
  <2>1. bs = Append(rest, b)
    BY <1>4 DEF WithOperation
  <2>2. Plus(<<>>, key, bytes) \in [{key} -> Nat \ {0}]
    BY EmptyQueue DEF Plus, At
  <2>3. b \in Buckets /\ b.latestAt = now /\ b.startedAt = now /\ b.activities = Plus(<<>>, key, bytes)
    BY <2>2 DEF Buckets
  <2>. HIDE DEF b
  <2>4. bs \in Seq(Buckets) /\ Len(bs) = n + 1 /\ bs[n + 1] = b /\ \A i \in 1 .. n : bs[i] = rest[i]
    BY <1>1, <2>1, <2>3, AppendProperties
  <2>5. rest # <<>> => rest[n].startedAt + BucketWidth <= now
    <3>1. SUFFICES ASSUME rest # <<>> PROVE rest[n].startedAt + BucketWidth <= now
      OBVIOUS
    <3>2. n \in 1 .. n /\ ~(now - rest[n].startedAt < BucketWidth)
      BY <1>1, <1>4, <3>1 DEF JoinsLast
    <3>. QED
      BY <1>2, <3>2, BucketFields
  <2>. HIDE DEF bs
  <2>6. (n + 1) - 1 = n /\ n + 1 # n /\ n + 1 >= 1
    BY <1>1
  <2>7. Extended(bs, rest, key, bytes)
    BY <1>1, <2>3, <2>4, <2>5, <2>6 DEF Extended
  <2>. QED
    BY <2>7 DEF bs
<1>. QED
  BY <1>3, <1>4

LEMMA ExtendedIsSpaced ==
  ASSUME NEW rest, now \in Times, Spaced(rest, now), InWindow(rest, now),
         NEW bs, NEW key, NEW bytes, Extended(bs, rest, key, bytes)
  PROVE  Spaced(bs, now) /\ InWindow(bs, now)
<1> DEFINE n == Len(bs)
           m == Len(rest)
<1>1. now \in Nat /\ BucketWidth \in Nat \ {0} /\ Window \in Nat
  BY WidthIsEnough, RateBucketsAssumption DEF Times
<1>2. /\ bs \in Seq(Buckets) /\ n \in Nat \ {0} /\ m \in Nat /\ (m = n \/ n = m + 1)
      /\ \A i \in 1 .. n : bs[i] \in Buckets /\ bs[i].startedAt \in Nat
  <2>1. /\ bs \in Seq(Buckets) /\ n \in Nat /\ n >= 1 /\ m \in Nat /\ (n = m \/ n = m + 1)
        /\ \A i \in 1 .. n : bs[i] \in Buckets
    BY LenProperties DEF Extended, Spaced
  <2>. QED
    BY <2>1 DEF Buckets, Times
<1>3. \A i \in 1 .. n - 1 : i \in 1 .. m /\ bs[i] = rest[i]
  BY <1>2 DEF Extended
<1>4. \A i \in 1 .. m : /\ rest[i].startedAt \in Nat /\ rest[i].latestAt \in Nat
                        /\ rest[i].startedAt <= rest[i].latestAt
                        /\ rest[i].latestAt < rest[i].startedAt + BucketWidth
                        /\ rest[i].latestAt <= now
                        /\ rest[i].latestAt >= now - Window
  <2>1. \A i \in 1 .. m : rest[i].startedAt \in Nat /\ rest[i].latestAt \in Nat
    BY BucketFields
  <2>. QED
    BY <2>1 DEF Spaced, InWindow
<1>5. /\ bs[n].latestAt = now /\ bs[n].startedAt <= now /\ now < bs[n].startedAt + BucketWidth
      /\ \A i \in 1 .. n - 1 : rest[i].startedAt + BucketWidth <= bs[n].startedAt
  <2>1. CASE n = m
    <3>1. bs[n].startedAt = rest[m].startedAt /\ now < bs[n].startedAt + BucketWidth
      BY <2>1 DEF Extended
    <3>2. m \in 1 .. m /\ rest[m].startedAt <= now
      BY <1>1, <1>2, <1>4, <2>1
    <3>3. \A i \in 1 .. n - 1 : rest[i].startedAt + BucketWidth <= rest[m].startedAt
      <4>1. \A i \in 1 .. n - 1 : i \in 1 .. m /\ i < m
        BY <1>2, <2>1
      <4>. QED
        BY <3>2, <4>1 DEF Spaced
    <3>. QED
      BY <3>1, <3>2, <3>3 DEF Extended
  <2>2. CASE n = m + 1
    <3>1. bs[n].startedAt = now /\ (rest # <<>> => rest[m].startedAt + BucketWidth <= now)
      BY <2>2 DEF Extended
    <3>2. ASSUME NEW i \in 1 .. n - 1 PROVE rest[i].startedAt + BucketWidth <= now
      <4>1. i \in 1 .. m /\ m \in 1 .. m /\ rest # <<>>
        BY <1>2, <2>2, EmptySeq
      <4>2. rest[i].startedAt <= rest[m].startedAt
        <5>1. CASE i = m
          BY <1>4, <4>1, <5>1
        <5>2. CASE i # m
          <6>1. rest[i].startedAt + BucketWidth <= rest[m].startedAt
            BY <1>2, <4>1, <5>2 DEF Spaced
          <6>2. /\ rest[i].startedAt \in Nat /\ rest[m].startedAt \in Nat
            BY <1>4, <4>1
          <6>. HIDE DEF m, n
          <6>. QED
            BY <1>1, <6>1, <6>2
        <5>. QED
          BY <5>1, <5>2
      <4>. QED
        BY <1>1, <1>4, <3>1, <4>1, <4>2, SMTT(60)
    <3>. QED
      BY <1>1, <3>1, <3>2 DEF Extended
  <2>. QED
    BY <1>2, <2>1, <2>2
<1>. HIDE DEF n, m
<1>6. ASSUME NEW i \in 1 .. n
      PROVE  /\ bs[i].startedAt <= bs[i].latestAt
             /\ bs[i].latestAt < bs[i].startedAt + BucketWidth
             /\ bs[i].latestAt <= now
             /\ bs[i].latestAt >= now - Window
  <2>1. CASE i = n
    BY <1>1, <1>5, <2>1
  <2>2. CASE i # n
    <3>1. i \in 1 .. n - 1
      BY <1>2, <2>2
    <3>. QED
      BY <1>3, <1>4, <3>1
  <2>. QED
    BY <2>1, <2>2
<1>7. ASSUME NEW i \in 1 .. n, NEW j \in 1 .. n, i < j
      PROVE  bs[i].startedAt + BucketWidth <= bs[j].startedAt
  <2>1. i \in 1 .. n - 1 /\ i \in 1 .. m /\ bs[i] = rest[i]
    BY <1>2, <1>3, <1>7
  <2>2. CASE j = n
    BY <1>5, <2>1, <2>2
  <2>3. CASE j # n
    <3>1. j \in 1 .. n - 1 /\ j \in 1 .. m /\ bs[j] = rest[j]
      BY <1>2, <1>3, <2>3
    <3>. QED
      BY <1>7, <2>1, <3>1 DEF Spaced, m
  <2>. QED
    BY <2>2, <2>3
<1>. QED
  BY <1>2, <1>6, <1>7 DEF Spaced, InWindow, n

\* The limit on buckets never bites: of buckets that reach into the window there are
\* never more than MaxTimeBuckets.
LEMMA NeverTooMany ==
  ASSUME NEW time \in Times, NEW bs, Spaced(bs, time), InWindow(bs, time)
  PROVE  Len(bs) <= MaxTimeBuckets
<1>1. SUFFICES ASSUME Len(bs) > MaxTimeBuckets PROVE FALSE
  BY BucketFields, LenProperties, RateBucketsAssumption DEF Spaced
<1>2. PICK n, w, m, l \in Nat : /\ n = Len(bs) /\ w = BucketWidth /\ m = MaxTimeBuckets /\ l = Window
  BY LenProperties, WidthIsEnough, RateBucketsAssumption DEF Spaced
<1>3. m >= 2 /\ n > m /\ l <= w * (m - 1) /\ w >= 1
  BY <1>1, <1>2, RateBucketsAssumption, WidthIsEnough
<1>4. \A i \in 1 .. n : bs[i].startedAt \in Nat /\ bs[i].latestAt \in Nat
  BY <1>2, BucketFields
<1>5. \A i, j \in 1 .. n : i < j => bs[i].startedAt + w <= bs[j].startedAt
  BY <1>2 DEF Spaced
<1> DEFINE T == {i \in Nat : i + 2 <= n => bs[i + 2].startedAt >= bs[2].startedAt + i * w}
<1>6. 0 \in T
  <2>1. 2 \in 1 .. n
    BY <1>3
  <2>. QED
    BY <1>2, <1>4, <2>1
<1>7. ASSUME NEW i \in Nat, i \in T PROVE i + 1 \in T
  <2>1. SUFFICES ASSUME (i + 1) + 2 <= n PROVE bs[(i + 1) + 2].startedAt >= bs[2].startedAt + (i + 1) * w
    OBVIOUS
  <2>2. /\ i + 2 \in 1 .. n /\ (i + 1) + 2 \in 1 .. n /\ i + 2 < (i + 1) + 2 /\ 2 \in 1 .. n
    BY <2>1
  <2>3. bs[i + 2].startedAt + w <= bs[(i + 1) + 2].startedAt
    BY <1>5, <2>2
  <2>4. bs[i + 2].startedAt >= bs[2].startedAt + i * w
    BY <1>7, <2>2
  <2>5. (i + 1) * w = i * w + w /\ i * w \in Nat
    BY <1>2
  <2>. QED
    BY <1>2, <1>4, <2>2, <2>3, <2>4, <2>5
<1>. HIDE DEF T
<1>8. n - 2 \in T
  <2>1. n - 2 \in Nat
    BY <1>3
  <2>. QED
    BY <1>6, <1>7, <2>1, AllNumbers
<1>9. bs[n].startedAt >= bs[2].startedAt + (n - 2) * w
  <2>1. (n - 2) + 2 = n
    BY <1>3
  <2>. QED
    BY <1>8, <2>1 DEF T
<1>10. 1 \in 1 .. n /\ 2 \in 1 .. n /\ n \in 1 .. n
  BY <1>3
<1>11. /\ bs[1].latestAt < bs[1].startedAt + w
       /\ bs[1].latestAt >= time - l
       /\ bs[1].startedAt + w <= bs[2].startedAt
       /\ bs[n].startedAt <= bs[n].latestAt /\ bs[n].latestAt <= time
  BY <1>2, <1>5, <1>10 DEF Spaced, InWindow
<1>12. time \in Nat
  BY DEF Times
<1>13. (n - 2) * w < l
  <2> DEFINE p == (n - 2) * w
  <2>1. p \in Nat
    BY <1>2, <1>3
  <2>2. bs[n].startedAt >= bs[2].startedAt + p
    BY <1>9
  <2>. HIDE DEF p
  <2>3. p < l
    BY <1>2, <1>4, <1>10, <1>11, <1>12, <2>1, <2>2, SMTT(60)
  <2>. QED
    BY <2>3 DEF p
<1>14. (n - 2) * w >= (m - 1) * w
  <2>1. n - 2 \in Nat /\ m - 1 \in Nat /\ n - 2 >= m - 1
    BY <1>3
  <2>2. PICK a, b, d \in Nat : a = n - 2 /\ b = m - 1 /\ a = b + d
    <3>1. (n - 2) - (m - 1) \in Nat
      BY <2>1
    <3>. QED
      BY <2>1, <3>1
  <2>3. a * w = b * w + d * w /\ d * w \in Nat /\ b * w \in Nat
    BY <1>2, <2>2
  <2>. QED
    BY <2>2, <2>3
<1>15. w * (m - 1) = (m - 1) * w /\ (m - 1) * w \in Nat /\ (n - 2) * w \in Nat
  BY <1>2, <1>3
<1>. QED
  BY <1>2, <1>3, <1>13, <1>14, <1>15

LEMMA NothingTrimmed ==
  ASSUME NEW bs \in Seq(Buckets), Len(bs) <= MaxTimeBuckets
  PROVE  KeptBuckets(bs) = bs /\ SurplusBuckets(bs) = <<>>
<1>1. Len(bs) \in Nat /\ MaxTimeBuckets \in Nat
  BY LenProperties, RateBucketsAssumption
<1>2. Surplus(bs) = 0
  BY <1>1 DEF Surplus
<1>3. Parts(bs, 0, SurplusBuckets(bs), KeptBuckets(bs))
  BY <1>1, <1>2, TakenApart DEF SurplusBuckets, KeptBuckets
<1>4. PICK gone, rest : gone = SurplusBuckets(bs) /\ rest = KeptBuckets(bs)
  OBVIOUS
<1>5. /\ gone \in Seq(Buckets) /\ Len(gone) = 0
      /\ rest \in Seq(Buckets) /\ Len(rest) = Len(bs)
      /\ \A i \in 1 .. Len(bs) : rest[i] = bs[i]
  <2>1. Len(bs) - 0 = Len(bs) /\ \A i \in 1 .. Len(bs) : 0 + i = i
    BY <1>1
  <2>. QED
    BY <1>1, <1>3, <1>4, <2>1 DEF Parts
<1>6. rest = bs
  BY <1>5, SeqEqual
<1>7. gone = <<>>
  BY <1>5, EmptySeq
<1>. QED
  BY <1>4, <1>6, <1>7

--------------------------------------------------------------------------------
\* The indexes are a function of the bytes of each path and process.

Counts == [Keys -> Nat]

PathPrefixes == Paths \cup {Root}

Active(m) == {key \in Keys : m[key] > 0}

ActivePaths(m) == {key[1] : key \in Active(m)}

ActiveOn(m, path) == {key \in Active(m) : key[1] = path}

Under(m, prefix) == Sum(m, Below(prefix))

IndexOf(m) ==
  [activities |-> [key \in Active(m) |-> m[key]],
   prefixTotals |-> [prefix \in {p \in PathPrefixes : Under(m, p) > 0} |-> Under(m, prefix)],
   interned |-> ActivePaths(m),
   pidCounts |-> [path \in ActivePaths(m) |-> Cardinality(ActiveOn(m, path))]]

\* n has d more bytes than m for key, and the same for others.
OneMore(n, m, key, d) ==
  /\ m \in Counts /\ n \in Counts /\ key \in Keys /\ d \in Nat \ {0}
  /\ n[key] = m[key] + d
  /\ \A k \in Keys \ {key} : n[k] = m[k]

LEMMA KeysAreFinite ==
  /\ IsFiniteSet(Keys)
  /\ \A S \in SUBSET Keys : IsFiniteSet(S) /\ \A m \in Counts : Numbers(m, S)
  /\ \A prefix : Below(prefix) \in SUBSET Keys
<1>1. IsFiniteSet(Keys)
  BY EventLogAssumption, FS_Product DEF Keys
<1>2. \A S \in SUBSET Keys : IsFiniteSet(S)
  BY <1>1, FS_Subset
<1>. QED
  BY <1>1, <1>2 DEF Numbers, Counts, Below

LEMMA UnderMore ==
  ASSUME NEW n, NEW m, NEW key, NEW d, OneMore(n, m, key, d), NEW prefix
  PROVE  /\ Under(m, prefix) \in Nat /\ Under(n, prefix) \in Nat
         /\ Under(n, prefix) = Under(m, prefix) + IF prefix \in PrefixesOf[key[1]] THEN d ELSE 0
         /\ prefix \in PrefixesOf[key[1]] => Under(m, prefix) >= m[key]
<1> DEFINE B == Below(prefix)
<1>1. /\ B \in SUBSET Keys /\ Numbers(m, B) /\ Numbers(n, B)
      /\ Numbers(m, B \ {key}) /\ Numbers(n, B \ {key})
  BY KeysAreFinite DEF OneMore
<1>2. key \in B <=> prefix \in PrefixesOf[key[1]]
  BY DEF OneMore, Below
<1>. HIDE DEF B
<1>3. SumFunctionOnSet(m, B) \in Nat /\ SumFunctionOnSet(n, B) \in Nat
  BY <1>1, SumType
<1>4. \A k \in B \ {key} : m[k] = n[k]
  BY <1>1 DEF OneMore
<1>5. SumFunctionOnSet(m, B \ {key}) = SumFunctionOnSet(n, B \ {key})
  <2> DEFINE C == B \ {key}
  <2>1. Numbers(m, C) /\ \A k \in C : m[k] = n[k]
    BY <1>1, <1>4
  <2>. HIDE DEF C
  <2>2. SumFunctionOnSet(m, C) = SumFunctionOnSet(n, C)
    BY <2>1, SumSame
  <2>. QED
    BY <2>2 DEF C
<1>6. CASE key \in B
  <2>1. /\ SumFunctionOnSet(m, B) = m[key] + SumFunctionOnSet(m, B \ {key})
        /\ SumFunctionOnSet(n, B) = n[key] + SumFunctionOnSet(n, B \ {key})
        /\ SumFunctionOnSet(m, B \ {key}) \in Nat
    BY <1>1, <1>6, SumRemove, SumType
  <2>2. n[key] = m[key] + d /\ m[key] \in Nat /\ d \in Nat
    BY DEF OneMore, Counts
  <2>3. SumFunctionOnSet(n, B) = SumFunctionOnSet(m, B) + d /\ SumFunctionOnSet(m, B) >= m[key]
    BY <1>5, <2>1, <2>2
  <2>. QED
    BY <1>2, <1>3, <1>6, <2>3 DEF Under, Sum, B
<1>7. CASE key \notin B
  <2>1. B \ {key} = B
    BY <1>7
  <2>. QED
    BY <1>2, <1>3, <1>5, <1>7, <2>1 DEF Under, Sum, B
<1>. QED
  BY <1>6, <1>7

LEMMA ActiveMore ==
  ASSUME NEW n, NEW m, NEW key, NEW d, OneMore(n, m, key, d)
  PROVE  /\ Active(n) = Active(m) \cup {key}
         /\ m[key] \in Nat /\ n[key] \in Nat /\ n[key] = m[key] + d /\ d \in Nat \ {0}
         /\ key \in Active(m) <=> n[key] > d
         /\ key \notin Active(m) => m[key] = 0 /\ Active(m) = Active(n) \ {key}
         /\ \A k \in Active(m) : k # key => n[k] = m[k]
         /\ ActivePaths(n) = ActivePaths(m) \cup {key[1]}
         /\ \A path \in ActivePaths(n) : path # key[1] => ActiveOn(n, path) = ActiveOn(m, path)
         /\ ActiveOn(n, key[1]) = ActiveOn(m, key[1]) \cup {key}
         /\ key[1] \in ActivePaths(m) <=> ActiveOn(m, key[1]) # {}
         /\ \A path : IsFiniteSet(ActiveOn(m, path)) /\ IsFiniteSet(ActiveOn(n, path))
<1>1. /\ key \in Keys /\ d \in Nat \ {0} /\ n[key] = m[key] + d
      /\ \A k \in Keys : m[k] \in Nat /\ n[k] \in Nat
      /\ \A k \in Keys : k # key => n[k] = m[k]
  BY DEF OneMore, Counts
<1>2. Active(n) = Active(m) \cup {key}
  BY <1>1 DEF Active
<1>3. key \in Active(m) <=> n[key] > d
  BY <1>1 DEF Active
<1>4. key \notin Active(m) => m[key] = 0 /\ Active(m) = Active(n) \ {key}
  BY <1>1, <1>2 DEF Active
<1>5. \A k \in Active(m) : k # key => n[k] = m[k]
  BY <1>1 DEF Active
<1>6. ActivePaths(n) = ActivePaths(m) \cup {key[1]}
  BY <1>2 DEF ActivePaths
<1>7. \A path \in ActivePaths(n) : path # key[1] => ActiveOn(n, path) = ActiveOn(m, path)
  BY <1>2 DEF ActiveOn
<1>8. ActiveOn(n, key[1]) = ActiveOn(m, key[1]) \cup {key}
  BY <1>2 DEF ActiveOn
<1>9. key[1] \in ActivePaths(m) <=> ActiveOn(m, key[1]) # {}
  BY DEF ActivePaths, ActiveOn
<1>10. \A path : IsFiniteSet(ActiveOn(m, path)) /\ IsFiniteSet(ActiveOn(n, path))
  BY KeysAreFinite DEF ActiveOn, Active
<1>. QED
  BY <1>1, <1>2, <1>3, <1>4, <1>5, <1>6, <1>7, <1>8, <1>9, <1>10

LEMMA IndexAdds ==
  ASSUME NEW n, NEW m, NEW key, NEW d, OneMore(n, m, key, d)
  PROVE  AddActivity(IndexOf(m), key, d) = IndexOf(n)
<1> DEFINE i == IndexOf(m)
           j == IndexOf(n)
           path == key[1]
<1>1. Plus(i.activities, key, d) = j.activities
  <2> DEFINE f == [k \in Active(m) |-> m[k]]
             g == [k \in Active(n) |-> n[k]]
  <2>1. DOMAIN f = Active(m) /\ \A k \in Active(m) : f[k] = m[k]
    OBVIOUS
  <2>2. At(f, key) = m[key]
    BY <2>1, ActiveMore DEF At
  <2>. HIDE DEF f
  <2>3. Plus(f, key, d) = g
    BY <2>1, <2>2, ActiveMore DEF Plus
  <2>. QED
    BY <2>3 DEF IndexOf, f
<1>2. AddToPrefixes(i.prefixTotals, path, d) = j.prefixTotals
  <2> DEFINE P == {p \in PathPrefixes : Under(m, p) > 0}
             Q == {p \in PathPrefixes : Under(n, p) > 0}
             f == [p \in P |-> Under(m, p)]
             g == [p \in Q |-> Under(n, p)]
  <2>1. key \in Keys /\ path \in Paths /\ PrefixesOf[path] \subseteq PathPrefixes /\ d \in Nat \ {0}
    BY EventLogAssumption DEF OneMore, Keys, PathPrefixes
  <2>2. \A p : /\ Under(m, p) \in Nat /\ Under(n, p) \in Nat
               /\ Under(n, p) = Under(m, p) + IF p \in PrefixesOf[path] THEN d ELSE 0
    BY UnderMore
  <2>3. Q = P \cup PrefixesOf[path]
    BY <2>1, <2>2
  <2>4. DOMAIN f = P /\ \A p \in P : f[p] = Under(m, p)
    OBVIOUS
  <2>5. \A p \in Q : At(f, p) = Under(m, p)
    BY <2>2, <2>4 DEF At
  <2>. HIDE DEF f, P, Q, path
  <2>6. AddToPrefixes(f, path, d) = [p \in P \cup PrefixesOf[path] |->
                                       At(f, p) + (IF p \in PrefixesOf[path] THEN d ELSE 0)]
    BY <2>4, Zenon DEF AddToPrefixes
  <2>7. AddToPrefixes(f, path, d) = g
    BY <2>2, <2>3, <2>5, <2>6
  <2>. QED
    BY <2>7 DEF IndexOf, f, P, Q
<1>3. i.interned \cup {path} = j.interned
  BY ActiveMore DEF IndexOf
<1>4. (IF key \in DOMAIN i.activities THEN i.pidCounts ELSE Plus(i.pidCounts, path, 1)) = j.pidCounts
  <2> DEFINE f == [p \in ActivePaths(m) |-> Cardinality(ActiveOn(m, p))]
             g == [p \in ActivePaths(n) |-> Cardinality(ActiveOn(n, p))]
  <2>1. DOMAIN f = ActivePaths(m) /\ \A p \in ActivePaths(m) : f[p] = Cardinality(ActiveOn(m, p))
    OBVIOUS
  <2>2. DOMAIN i.activities = Active(m)
    BY DEF IndexOf
  <2>3. CASE key \in Active(m)
    <3>1. ActivePaths(n) = ActivePaths(m) /\ \A p \in ActivePaths(n) : ActiveOn(n, p) = ActiveOn(m, p)
      <4>1. path \in ActivePaths(m) /\ ActiveOn(n, path) = ActiveOn(m, path)
        BY <2>3, ActiveMore DEF ActivePaths, ActiveOn
      <4>2. ActivePaths(n) = ActivePaths(m) \cup {path}
        BY ActiveMore
      <4>3. \A p \in ActivePaths(n) : p # path => ActiveOn(n, p) = ActiveOn(m, p)
        BY ActiveMore
      <4>. HIDE DEF path
      <4>. QED
        BY <4>1, <4>2, <4>3
    <3>2. f = g
      BY <3>1
    <3>. QED
      BY <2>2, <2>3, <3>2 DEF IndexOf
  <2>4. CASE key \notin Active(m)
    <3>1. Cardinality(ActiveOn(n, path)) = Cardinality(ActiveOn(m, path)) + 1
      <4>1. PICK A : A = ActiveOn(m, path)
        OBVIOUS
      <4>2. key \notin A
        BY <2>4, <4>1 DEF ActiveOn
      <4>3. IsFiniteSet(A) /\ ActiveOn(n, path) = A \cup {key}
        BY <4>1, ActiveMore
      <4>4. Cardinality(A \cup {key}) = Cardinality(A) + 1
        BY <4>2, <4>3, FS_AddElement
      <4>. QED
        BY <4>1, <4>3, <4>4
    <3>2. At(f, path) = Cardinality(ActiveOn(m, path))
      <4>1. path \notin ActivePaths(m) => Cardinality(ActiveOn(m, path)) = 0
        BY ActiveMore, FS_EmptySet
      <4>. QED
        BY <2>1, <4>1 DEF At
    <3>. HIDE DEF f, path
    <3>3. Plus(f, path, 1) = [p \in ActivePaths(m) \cup {path} |->
                                IF p = path THEN At(f, path) + 1 ELSE f[p]]
      BY <2>1, Zenon DEF Plus
    <3>4. Plus(f, path, 1) = g
      <4>1. ActivePaths(n) = ActivePaths(m) \cup {path}
        BY ActiveMore DEF path
      <4>2. \A p \in ActivePaths(n) : p # path => p \in ActivePaths(m) /\ ActiveOn(n, p) = ActiveOn(m, p)
        BY ActiveMore DEF path
      <4>. QED
        BY <2>1, <3>1, <3>2, <3>3, <4>1, <4>2
    <3>. QED
      BY <2>2, <2>4, <3>4 DEF IndexOf, f
  <2>. QED
    BY <2>3, <2>4
<1>5. j = [activities |-> j.activities, prefixTotals |-> j.prefixTotals,
           interned |-> j.interned, pidCounts |-> j.pidCounts]
  BY DEF IndexOf
<1>. HIDE DEF i, j
<1>6. AddActivity(i, key, d) = j
  BY <1>1, <1>2, <1>3, <1>4, <1>5 DEF AddActivity
<1>. QED
  BY <1>6 DEF i, j

\* What RemoveBucket does with one activity of a bucket.
TakeActivity(i, key, d) ==
  [Subtract(i, key, d) EXCEPT !.prefixTotals = TakeFromPrefixes(@, key[1], d)]

LEMMA IndexSubtracts ==
  ASSUME NEW n, NEW m, NEW key, NEW d, OneMore(n, m, key, d)
  PROVE  TakeActivity(IndexOf(n), key, d) = IndexOf(m)
<1> DEFINE i == IndexOf(n)
           j == IndexOf(m)
           path == key[1]
           totals == TakeFromPrefixes(i.prefixTotals, path, d)
<1>1. /\ i = [activities |-> i.activities, prefixTotals |-> i.prefixTotals,
              interned |-> i.interned, pidCounts |-> i.pidCounts]
      /\ j = [activities |-> j.activities, prefixTotals |-> j.prefixTotals,
              interned |-> j.interned, pidCounts |-> j.pidCounts]
  BY DEF IndexOf
<1>2. totals = j.prefixTotals
  <2> DEFINE P == {p \in PathPrefixes : Under(m, p) > 0}
             Q == {p \in PathPrefixes : Under(n, p) > 0}
             f == [p \in P |-> Under(m, p)]
             g == [p \in Q |-> Under(n, p)]
             gone == {p \in DOMAIN g \cap PrefixesOf[path] : g[p] <= d}
  <2>1. d \in Nat \ {0}
    BY DEF OneMore
  <2>2. \A p : /\ Under(m, p) \in Nat /\ Under(n, p) \in Nat
               /\ Under(n, p) = Under(m, p) + IF p \in PrefixesOf[path] THEN d ELSE 0
    BY UnderMore
  <2>3. DOMAIN g = Q /\ \A p \in Q : g[p] = Under(n, p)
    OBVIOUS
  <2>4. DOMAIN g \ gone = P
    BY <2>1, <2>2
  <2>. HIDE DEF g, P, Q, path
  <2>5. TakeFromPrefixes(g, path, d) =
          [p \in DOMAIN g \ gone |-> IF p \in PrefixesOf[path] THEN g[p] - d ELSE g[p]]
    BY Zenon DEF TakeFromPrefixes
  <2>6. \A p \in P : p \in Q
    BY <2>1, <2>2 DEF P, Q
  <2>. HIDE DEF gone
  <2>7. TakeFromPrefixes(g, path, d) = f
    BY <2>1, <2>2, <2>3, <2>4, <2>5, <2>6
  <2>. QED
    BY <2>7 DEF IndexOf, P, Q, g
<1>3. /\ DOMAIN i.activities = Active(n) /\ \A k \in Active(n) : i.activities[k] = n[k]
      /\ key \in Active(n) /\ i.activities[key] = n[key]
  BY ActiveMore DEF IndexOf
<1>4. CASE n[key] > d
  <2> DEFINE f == [i.activities EXCEPT ![key] = n[key] - d]
  <2>1. Active(n) = Active(m) /\ n[key] - d = m[key]
    <3>1. key \in Active(m) /\ Active(n) = Active(m) \cup {key}
      BY <1>4, ActiveMore
    <3>2. n[key] = m[key] + d /\ m[key] \in Nat /\ d \in Nat
      BY ActiveMore
    <3>. QED
      BY <3>1, <3>2
  <2>2. f = j.activities
    <3>1. f = [k \in Active(n) |-> IF k = key THEN n[key] - d ELSE n[k]]
      <4>1. i.activities = [k \in Active(n) |-> n[k]]
        BY DEF IndexOf
      <4>. QED
        BY <4>1
    <3>2. \A k \in Active(m) : k # key => n[k] = m[k]
      BY ActiveMore
    <3>3. f = [k \in Active(m) |-> m[k]]
      BY <2>1, <3>1, <3>2
    <3>. QED
      BY <3>3 DEF IndexOf
  <2>3. i.interned = j.interned /\ i.pidCounts = j.pidCounts
    BY <2>1 DEF IndexOf, ActivePaths, ActiveOn
  <2>4. Subtract(i, key, d) = [i EXCEPT !.activities = f]
    <3>. HIDE DEF i
    <3>. QED
      BY <1>3, <1>4 DEF Subtract
  <2>. HIDE DEF i, j, f, totals, path
  <2>5. TakeActivity(i, key, d) = [[i EXCEPT !.activities = f] EXCEPT !.prefixTotals = totals]
    <3>1. [i EXCEPT !.activities = f].prefixTotals = i.prefixTotals
      BY <1>1
    <3>. QED
      BY <2>4, <3>1 DEF TakeActivity, totals, path
  <2>6. TakeActivity(i, key, d) = j
    BY <1>1, <1>2, <2>2, <2>3, <2>5
  <2>. QED
    BY <2>6 DEF i, j
<1>5. CASE ~(n[key] > d)
  <2> DEFINE last == At(i.pidCounts, path) = 1
             a == Only(i.activities, Active(n) \ {key})
             c == IF last THEN Only(i.pidCounts, DOMAIN i.pidCounts \ {path}) ELSE OneLess(i.pidCounts, path)
             s == IF last THEN i.interned \ {path} ELSE i.interned
  <2>1. key \notin Active(m) /\ m[key] = 0 /\ Active(m) = Active(n) \ {key}
    BY <1>5, ActiveMore
  <2>2. a = j.activities
    <3>1. \A k \in Active(m) : n[k] = m[k] /\ k \in Active(n)
      BY <2>1, ActiveMore
    <3>2. a = [k \in Active(n) \cap (Active(n) \ {key}) |-> i.activities[k]]
      BY <1>3 DEF Only
    <3>3. Active(n) \cap (Active(n) \ {key}) = Active(m)
      BY <2>1
    <3>4. a = [k \in Active(m) |-> m[k]]
      BY <1>3, <3>1, <3>2, <3>3
    <3>. QED
      BY <3>4 DEF IndexOf
  <2>3. c = j.pidCounts /\ s = j.interned
    <3> DEFINE f == [p \in ActivePaths(m) |-> Cardinality(ActiveOn(m, p))]
               g == [p \in ActivePaths(n) |-> Cardinality(ActiveOn(n, p))]
    <3>1. PICK A, B : A = ActiveOn(m, path) /\ B = ActiveOn(n, path)
      OBVIOUS
    <3>2. B = A \cup {key} /\ key \notin A /\ IsFiniteSet(A)
      <4>1. key \notin ActiveOn(m, path)
        BY <2>1 DEF ActiveOn
      <4>2. B = A \cup {key} /\ IsFiniteSet(A)
        BY <3>1, ActiveMore
      <4>. QED
        BY <3>1, <4>1, <4>2
    <3>3. Cardinality(B) = Cardinality(A) + 1 /\ Cardinality(A) \in Nat
      BY <3>2, FS_AddElement, FS_CardinalityType
    <3>4. (Cardinality(A) = 0) <=> path \notin ActivePaths(m)
      <4>1. Cardinality(A) = 0 <=> A = {}
        BY <3>2, FS_EmptySet
      <4>. QED
        BY <3>1, <4>1, ActiveMore
    <3>5. path \in ActivePaths(n) /\ g[path] = Cardinality(B)
      BY <1>3, <3>1 DEF ActivePaths
    <3>6. ActivePaths(n) = ActivePaths(m) \cup {path}
      BY ActiveMore
    <3>7. \A p \in ActivePaths(n) : p # path => p \in ActivePaths(m) /\ ActiveOn(n, p) = ActiveOn(m, p)
      BY <3>6, ActiveMore
    <3>8. i.pidCounts = g /\ i.interned = ActivePaths(n) /\ j.pidCounts = f /\ j.interned = ActivePaths(m)
      BY DEF IndexOf
    <3>9. last <=> path \notin ActivePaths(m)
      BY <3>3, <3>4, <3>5, <3>8 DEF At
    <3>10. DOMAIN g = ActivePaths(n) /\ \A p \in ActivePaths(n) : g[p] = Cardinality(ActiveOn(n, p))
      OBVIOUS
    <3>11. \A p \in ActivePaths(m) : p # path => g[p] = Cardinality(ActiveOn(m, p))
      BY <3>6, <3>7, <3>10
    <3>. HIDE DEF g, last, path, i, j
    <3>12. CASE last
      <4>1. ActivePaths(m) = ActivePaths(n) \ {path}
        BY <3>6, <3>9, <3>12
      <4>2. Only(g, DOMAIN g \ {path}) = [p \in ActivePaths(n) \cap (ActivePaths(n) \ {path}) |-> g[p]]
        BY <3>10 DEF Only
      <4>3. ActivePaths(n) \cap (ActivePaths(n) \ {path}) = ActivePaths(m)
        BY <4>1
      <4>4. \A p \in ActivePaths(m) : g[p] = Cardinality(ActiveOn(m, p))
        BY <3>9, <3>11, <3>12
      <4>5. Only(g, DOMAIN g \ {path}) = f
        BY <4>2, <4>3, <4>4
      <4>. QED
        BY <3>8, <3>12, <4>1, <4>5
    <3>13. CASE ~last
      <4>1. ActivePaths(m) = ActivePaths(n) /\ path \in ActivePaths(n)
        BY <3>5, <3>6, <3>9, <3>13
      <4>2. g[path] - 1 = Cardinality(ActiveOn(m, path))
        BY <3>1, <3>3, <3>5
      <4>3. OneLess(g, path) = [p \in ActivePaths(n) |-> IF p = path THEN g[path] - 1 ELSE g[p]]
        BY <3>10 DEF OneLess
      <4>4. OneLess(g, path) = f
        BY <3>11, <4>1, <4>2, <4>3
      <4>. QED
        BY <3>8, <3>13, <4>1, <4>4
    <3>. QED
      BY <3>12, <3>13
  <2>4. Subtract(i, key, d) = [i EXCEPT !.activities = a, !.pidCounts = c, !.interned = s]
    <3>1. Subtract(i, key, d) = Forget(i, key)
      <4>. HIDE DEF i
      <4>. QED
        BY <1>3, <1>5 DEF Subtract
    <3>. HIDE DEF i
    <3>. QED
      BY <1>3, <3>1 DEF Forget
  <2>. HIDE DEF i, j, a, c, s, totals
  <2>5. [i EXCEPT !.activities = a, !.pidCounts = c, !.interned = s] =
          [activities |-> a, prefixTotals |-> i.prefixTotals, interned |-> s, pidCounts |-> c]
    <3>1. PICK v, w, x, y : i = [activities |-> v, prefixTotals |-> w, interned |-> x, pidCounts |-> y]
      BY <1>1
    <3>2. i.prefixTotals = w
      BY <3>1
    <3>3. [i EXCEPT !.activities = a, !.pidCounts = c, !.interned = s] =
            [activities |-> a, prefixTotals |-> w, interned |-> s, pidCounts |-> c]
      <4>1. PICK i1 : i1 = [i EXCEPT !.activities = a]
        OBVIOUS
      <4>2. PICK i2 : i2 = [i1 EXCEPT !.pidCounts = c]
        OBVIOUS
      <4>3. PICK i3 : i3 = [i2 EXCEPT !.interned = s]
        OBVIOUS
      <4>4. i1 = [activities |-> a, prefixTotals |-> w, interned |-> x, pidCounts |-> y]
        BY <3>1, <4>1
      <4>5. i2 = [activities |-> a, prefixTotals |-> w, interned |-> x, pidCounts |-> c]
        BY <4>2, <4>4
      <4>6. i3 = [activities |-> a, prefixTotals |-> w, interned |-> s, pidCounts |-> c]
        BY <4>3, <4>5
      <4>7. [i EXCEPT !.activities = a, !.pidCounts = c, !.interned = s] = i3
        BY <4>1, <4>2, <4>3
      <4>. QED
        BY <4>6, <4>7
    <3>. QED
      BY <3>2, <3>3
  <2>6. TakeActivity(i, key, d) = [activities |-> a, prefixTotals |-> totals, interned |-> s, pidCounts |-> c]
    <3>1. PICK r : r = Subtract(i, key, d)
      OBVIOUS
    <3>2. r = [activities |-> a, prefixTotals |-> i.prefixTotals, interned |-> s, pidCounts |-> c]
      BY <2>4, <2>5, <3>1
    <3>3. TakeActivity(i, key, d) = [r EXCEPT !.prefixTotals = totals]
      <4>1. r.prefixTotals = i.prefixTotals
        BY <3>2
      <4>2. TakeActivity(i, key, d) = [r EXCEPT !.prefixTotals = TakeFromPrefixes(r.prefixTotals, path, d)]
        BY <3>1 DEF TakeActivity
      <4>. QED
        BY <4>1, <4>2 DEF totals
    <3>. QED
      BY <3>2, <3>3
  <2>7. TakeActivity(i, key, d) = j
    BY <1>1, <1>2, <2>2, <2>3, <2>6
  <2>. QED
    BY <2>7 DEF i, j
<1>. QED
  BY <1>4, <1>5

\* m without what f has for the keys of s.
Minus(m, f, s) == [key \in Keys |-> IF key \in s THEN m[key] - f[key] ELSE m[key]]

LEMMA BucketLeaves ==
  ASSUME NEW m \in Counts, NEW bucket \in Buckets,
         \A key \in DOMAIN bucket.activities : m[key] >= bucket.activities[key]
  PROVE  RemoveBucket(IndexOf(m), bucket) = IndexOf(Minus(m, bucket.activities, DOMAIN bucket.activities))
<1> DEFINE a == bucket.activities
           D == DOMAIN a
           i == IndexOf(m)
           IsFold(g) == g = [s \in SUBSET D |->
                               IF s = {} THEN i
                               ELSE TakeActivity(g[s \ {Chosen(s)}], Chosen(s), a[Chosen(s)])]
           g == CHOOSE g : IsFold(g)
           h == [s \in SUBSET D |-> IndexOf(Minus(m, a, s))]
<1>1. D \in SUBSET Keys /\ (\A key \in D : a[key] \in Nat \ {0} /\ m[key] >= a[key]) /\ IsFiniteSet(D)
  <2>1. PICK K \in SUBSET Keys : a \in [K -> Nat \ {0}]
    BY DEF Buckets
  <2>. QED
    BY <2>1, KeysAreFinite
<1>2. RemoveBucket(i, bucket) = g[D]
  <2>. HIDE DEF i
  <2>. QED
    BY DEF RemoveBucket, FoldSet, MapThenFoldSet, TakeActivity, Chosen
<1>. HIDE DEF a, D
<1>3. \A s \in SUBSET D : h[s] = IndexOf(Minus(m, a, s))
  OBVIOUS
<1>4. Minus(m, a, {}) = m
  BY DEF Minus, Counts
<1>5. ASSUME NEW s \in SUBSET D, NEW x \in s
      PROVE  TakeActivity(IndexOf(Minus(m, a, s \ {x})), x, a[x]) = IndexOf(Minus(m, a, s))
  <2>1. PICK n, k, d : n = Minus(m, a, s \ {x}) /\ k = Minus(m, a, s) /\ d = a[x]
    OBVIOUS
  <2>2. n \in Counts /\ k \in Counts
    BY <1>1, <2>1 DEF Minus, Counts
  <2>3. x \in Keys /\ n[x] = m[x] /\ k[x] = m[x] - d /\ d \in Nat \ {0} /\ m[x] \in Nat
    BY <1>1, <2>1 DEF Minus, Counts
  <2>4. \A y \in Keys \ {x} : n[y] = k[y]
    BY <2>1 DEF Minus
  <2>5. OneMore(n, k, x, d)
    BY <2>2, <2>3, <2>4 DEF OneMore
  <2>. QED
    BY <2>1, <2>5, IndexSubtracts
<1>6. IsFold(h)
  <2>1. ASSUME NEW s \in SUBSET D, s # {}
        PROVE  h[s] = TakeActivity(h[s \ {Chosen(s)}], Chosen(s), a[Chosen(s)])
    <3>1. PICK x : x = Chosen(s)
      OBVIOUS
    <3>2. x \in s
      BY <2>1, <3>1 DEF Chosen
    <3>3. h[s \ {x}] = IndexOf(Minus(m, a, s \ {x})) /\ h[s] = IndexOf(Minus(m, a, s))
      BY <1>3
    <3>. QED
      BY <1>5, <3>1, <3>2, <3>3
  <2>2. h[{}] = i
    BY <1>3, <1>4
  <2>3. h = [s \in SUBSET D |-> h[s]]
    OBVIOUS
  <2>. HIDE DEF h, i
  <2>. QED
    BY <2>1, <2>2, <2>3
<1>. HIDE DEF h, i
<1>7. IsFold(g)
  <2>. HIDE DEF IsFold
  <2>. QED
    BY <1>6
<1>. HIDE DEF g
<1> DEFINE T == {s \in SUBSET D : g[s] = h[s]}
<1>8. {} \in T
  BY <1>6, <1>7
<1>9. ASSUME NEW s \in SUBSET D, s # {}, \A x \in s : s \ {x} \in T PROVE s \in T
  <2>1. PICK x : x = Chosen(s)
    OBVIOUS
  <2>2. x \in s
    BY <1>9, <2>1 DEF Chosen
  <2>3. g[s] = TakeActivity(g[s \ {x}], x, a[x]) /\ h[s] = TakeActivity(h[s \ {x}], x, a[x])
    BY <1>6, <1>7, <1>9, <2>1
  <2>. QED
    BY <1>9, <2>2, <2>3
<1>. HIDE DEF T
<1>10. SUBSET D \subseteq T
  BY <1>1, <1>8, <1>9, AllSubsets
<1>11. D \in SUBSET D
  OBVIOUS
<1>12. g[D] = h[D]
  BY <1>10, <1>11 DEF T
<1>. QED
  BY <1>2, <1>3, <1>11, <1>12 DEF i, D, a

--------------------------------------------------------------------------------
\* What some buckets hold.

InEach(bs, key) == [i \in DOMAIN bs |-> At(bs[i].activities, key)]

Of(bs) == [key \in Keys |-> Sum(InEach(bs, key), DOMAIN bs)]

LEMMA EachIsNumber ==
  ASSUME NEW bs \in Seq(Buckets), NEW key
  PROVE  /\ DOMAIN bs = 1 .. Len(bs) /\ IsFiniteSet(DOMAIN bs)
         /\ \A i \in DOMAIN bs : /\ bs[i] \in Buckets
                                 /\ InEach(bs, key)[i] = At(bs[i].activities, key)
                                 /\ At(bs[i].activities, key) \in Nat
         /\ \A s \in SUBSET DOMAIN bs : Numbers(InEach(bs, key), s) /\ Sum(InEach(bs, key), s) \in Nat
<1>1. DOMAIN bs = 1 .. Len(bs) /\ Len(bs) \in Nat /\ \A i \in DOMAIN bs : bs[i] \in Buckets
  BY LenProperties
<1>2. IsFiniteSet(DOMAIN bs)
  BY <1>1, FS_Interval
<1>3. ASSUME NEW i \in DOMAIN bs PROVE At(bs[i].activities, key) \in Nat
  <2>1. PICK K \in SUBSET Keys : bs[i].activities \in [K -> Nat \ {0}]
    BY <1>1 DEF Buckets
  <2>. QED
    BY <2>1 DEF At
<1>4. \A i \in DOMAIN bs : InEach(bs, key)[i] = At(bs[i].activities, key)
  BY DEF InEach
<1>5. Numbers(InEach(bs, key), DOMAIN bs)
  BY <1>2, <1>3, <1>4 DEF Numbers
<1>6. ASSUME NEW s \in SUBSET DOMAIN bs PROVE Numbers(InEach(bs, key), s) /\ Sum(InEach(bs, key), s) \in Nat
  <2>1. PICK f : f = InEach(bs, key)
    OBVIOUS
  <2>2. Numbers(f, s) /\ SumFunctionOnSet(f, s) \in Nat
    BY <1>5, <2>1, SumPart
  <2>. QED
    BY <2>1, <2>2 DEF Sum
<1>. QED
  BY <1>1, <1>2, <1>3, <1>4, <1>6

LEMMA OfIsCounts == ASSUME NEW bs \in Seq(Buckets) PROVE Of(bs) \in Counts
BY EachIsNumber DEF Of, Counts

\* m without what the buckets at some places hold.
MinusAll(m, bs, s) == [key \in Keys |-> m[key] - Sum(InEach(bs, key), s)]

LEMMA BucketsLeave ==
  ASSUME NEW m \in Counts, NEW bs \in Seq(Buckets), \A key \in Keys : m[key] >= Of(bs)[key]
  PROVE  RemoveBuckets(IndexOf(m), bs) = IndexOf(MinusAll(m, bs, DOMAIN bs))
<1> DEFINE D == DOMAIN bs
           i == IndexOf(m)
           IsFold(g) == g = [s \in SUBSET D |->
                               IF s = {} THEN i ELSE RemoveBucket(g[s \ {Max(s)}], bs[Max(s)])]
           g == CHOOSE g : IsFold(g)
           h == [s \in SUBSET D |-> IndexOf(MinusAll(m, bs, s))]
<1>1. RemoveBuckets(i, bs) = g[D]
  <2>. HIDE DEF i
  <2>. QED
    BY DEF RemoveBuckets, FoldLeft, MapThenFoldSet
<1>2. /\ IsFiniteSet(D) /\ D \in SUBSET Nat
      /\ \A j \in D : bs[j] \in Buckets
  BY EachIsNumber
<1>3. ASSUME NEW s \in SUBSET D, s # {} PROVE Max(s) \in s
  <2>1. Len(bs) \in Nat /\ s \in SUBSET (0 .. Len(bs))
    BY LenProperties
  <2>. QED
    BY <1>3, <2>1, LargestNumber
<1>4. \A key \in Keys, s \in SUBSET D :
         /\ Numbers(InEach(bs, key), s) /\ Sum(InEach(bs, key), s) \in Nat
         /\ m[key] \in Nat /\ m[key] >= Sum(InEach(bs, key), s)
  <2>1. SUFFICES ASSUME NEW key \in Keys, NEW s \in SUBSET D
                 PROVE  /\ Numbers(InEach(bs, key), s) /\ Sum(InEach(bs, key), s) \in Nat
                        /\ m[key] \in Nat /\ m[key] >= Sum(InEach(bs, key), s)
    OBVIOUS
  <2>2. PICK f : f = InEach(bs, key)
    OBVIOUS
  <2>3. Numbers(f, D) /\ Numbers(f, s) /\ SumFunctionOnSet(f, s) \in Nat /\ SumFunctionOnSet(f, D) \in Nat
    BY <2>2, EachIsNumber DEF Sum
  <2>4. SumFunctionOnSet(f, s) <= SumFunctionOnSet(f, D)
    BY <2>3, SumOfMore
  <2>5. m[key] \in Nat /\ m[key] >= SumFunctionOnSet(f, D)
    BY <2>2 DEF Of, Sum, Counts
  <2>. QED
    BY <2>2, <2>3, <2>4, <2>5 DEF Sum
<1>. HIDE DEF D
<1>5. \A s \in SUBSET D : h[s] = IndexOf(MinusAll(m, bs, s))
  OBVIOUS
<1>6. MinusAll(m, bs, {}) = m
  BY SumNothing DEF MinusAll, Sum, Counts
<1>7. ASSUME NEW s \in SUBSET D, NEW x \in s
      PROVE  RemoveBucket(IndexOf(MinusAll(m, bs, s \ {x})), bs[x]) = IndexOf(MinusAll(m, bs, s))
  <2>1. PICK n, k, b : n = MinusAll(m, bs, s \ {x}) /\ k = MinusAll(m, bs, s) /\ b = bs[x]
    OBVIOUS
  <2>2. PICK K \in SUBSET Keys : b.activities \in [K -> Nat \ {0}]
    <3>1. b \in Buckets
      BY <1>2, <2>1
    <3>. QED
      BY <3>1 DEF Buckets
  <2>3. ASSUME NEW key \in Keys
        PROVE  /\ n[key] \in Nat /\ k[key] \in Nat
               /\ At(b.activities, key) \in Nat
               /\ n[key] = k[key] + At(b.activities, key)
    <3>1. PICK f : f = InEach(bs, key)
      OBVIOUS
    <3>2. SumFunctionOnSet(f, s) = f[x] + SumFunctionOnSet(f, s \ {x})
      BY <1>4, <3>1, SumRemove
    <3>3. f[x] = At(b.activities, key) /\ f[x] \in Nat
      BY <2>1, <3>1, EachIsNumber DEF D
    <3>4. /\ SumFunctionOnSet(f, s) \in Nat /\ m[key] \in Nat /\ m[key] >= SumFunctionOnSet(f, s)
          /\ SumFunctionOnSet(f, s \ {x}) \in Nat /\ m[key] >= SumFunctionOnSet(f, s \ {x})
      BY <1>4, <3>1 DEF Sum
    <3>5. n[key] = m[key] - SumFunctionOnSet(f, s \ {x}) /\ k[key] = m[key] - SumFunctionOnSet(f, s)
      BY <2>1, <3>1 DEF MinusAll, Sum
    <3>. HIDE DEF At
    <3>. QED
      BY <3>2, <3>3, <3>4, <3>5
  <2>4. n \in Counts /\ k = [key \in Keys |-> k[key]]
    <3>1. n = [key \in Keys |-> n[key]]
      BY <2>1 DEF MinusAll
    <3>2. k = [key \in Keys |-> k[key]]
      BY <2>1 DEF MinusAll
    <3>. QED
      BY <2>3, <3>1, <3>2 DEF Counts
  <2>5. \A key \in K : key \in Keys /\ n[key] >= b.activities[key] /\ At(b.activities, key) = b.activities[key]
    BY <2>2, <2>3 DEF At
  <2>6. DOMAIN b.activities = K
    BY <2>2
  <2>7. RemoveBucket(IndexOf(n), b) = IndexOf(Minus(n, b.activities, K))
    BY <1>2, <2>1, <2>4, <2>5, <2>6, BucketLeaves
  <2>8. Minus(n, b.activities, K) = k
    <3>1. \A key \in Keys : k[key] = IF key \in K THEN n[key] - b.activities[key] ELSE n[key]
      <4>1. SUFFICES ASSUME NEW key \in Keys
                     PROVE  k[key] = IF key \in K THEN n[key] - b.activities[key] ELSE n[key]
        OBVIOUS
      <4>2. CASE key \in K
        BY <2>3, <2>5, <4>2
      <4>3. CASE key \notin K
        <5>1. At(b.activities, key) = 0
          BY <2>6, <4>3 DEF At
        <5>. QED
          BY <2>3, <4>3, <5>1
      <4>. QED
        BY <4>2, <4>3
    <3>. QED
      BY <2>4, <3>1 DEF Minus
  <2>. QED
    BY <2>1, <2>7, <2>8
<1>8. IsFold(h)
  <2>1. ASSUME NEW s \in SUBSET D, s # {}
        PROVE  h[s] = RemoveBucket(h[s \ {Max(s)}], bs[Max(s)])
    <3>1. PICK x : x = Max(s)
      OBVIOUS
    <3>2. x \in s
      BY <1>3, <2>1, <3>1
    <3>3. h[s \ {x}] = IndexOf(MinusAll(m, bs, s \ {x})) /\ h[s] = IndexOf(MinusAll(m, bs, s))
      BY <1>5
    <3>. QED
      BY <1>7, <3>1, <3>2, <3>3
  <2>2. h[{}] = i
    BY <1>5, <1>6
  <2>3. h = [s \in SUBSET D |-> h[s]]
    OBVIOUS
  <2>. HIDE DEF h, i
  <2>. QED
    BY <2>1, <2>2, <2>3
<1>. HIDE DEF h, i
<1>9. IsFold(g)
  <2>. HIDE DEF IsFold
  <2>. QED
    BY <1>8
<1>. HIDE DEF g
<1> DEFINE T == {s \in SUBSET D : g[s] = h[s]}
<1>10. {} \in T
  BY <1>8, <1>9
<1>11. ASSUME NEW s \in SUBSET D, s # {}, \A x \in s : s \ {x} \in T PROVE s \in T
  <2>1. PICK x : x = Max(s)
    OBVIOUS
  <2>2. x \in s
    BY <1>3, <1>11, <2>1
  <2>3. g[s] = RemoveBucket(g[s \ {x}], bs[x]) /\ h[s] = RemoveBucket(h[s \ {x}], bs[x])
    BY <1>8, <1>9, <1>11, <2>1
  <2>. QED
    BY <1>11, <2>2, <2>3
<1>. HIDE DEF T
<1>12. SUBSET D \subseteq T
  BY <1>2, <1>10, <1>11, AllSubsets
<1>13. D \in SUBSET D
  OBVIOUS
<1>14. g[D] = h[D]
  BY <1>12, <1>13 DEF T
<1>. QED
  BY <1>1, <1>5, <1>13, <1>14 DEF i, D

LEMMA OfParts ==
  ASSUME NEW bs \in Seq(Buckets), NEW e \in 0 .. Len(bs), NEW gone, NEW rest,
         Parts(bs, e, gone, rest), NEW key \in Keys
  PROVE  /\ Of(gone)[key] \in Nat /\ Of(rest)[key] \in Nat
         /\ Of(bs)[key] = Of(gone)[key] + Of(rest)[key]
<1> DEFINE n == Len(bs)
           f == InEach(bs, key)
           g == InEach(gone, key)
           r == InEach(rest, key)
           A == 1 .. e
           B == 1 .. n - e
           C == {e + i : i \in B}
<1>1. /\ n \in Nat /\ e \in 0 .. n /\ gone \in Seq(Buckets) /\ rest \in Seq(Buckets)
      /\ DOMAIN bs = 1 .. n /\ DOMAIN gone = A /\ DOMAIN rest = B
  BY LenProperties DEF Parts
<1>2. 1 .. n = A \cup C /\ A \cap C = {} /\ A \in SUBSET (1 .. n) /\ C \in SUBSET (1 .. n)
  <2>1. ASSUME NEW i \in e + 1 .. n PROVE i \in C
    <3>1. i - e \in B /\ e + (i - e) = i
      BY <1>1
    <3>. QED
      BY <3>1
  <2>2. \A i \in B : e + i \in e + 1 .. n
    BY <1>1
  <2>3. C = e + 1 .. n
    BY <2>1, <2>2
  <2>. HIDE DEF C, n
  <2>. QED
    BY <1>1, <2>3
<1>3. Numbers(f, A) /\ Numbers(f, C) /\ Numbers(g, A) /\ Numbers(r, B)
  <2>1. Numbers(f, A) /\ Numbers(f, C)
    BY <1>1, <1>2, EachIsNumber
  <2>2. DOMAIN gone \in SUBSET DOMAIN gone /\ DOMAIN rest \in SUBSET DOMAIN rest
    OBVIOUS
  <2>3. Numbers(g, A) /\ Numbers(r, B)
    BY <1>1, <2>2, EachIsNumber
  <2>. QED
    BY <2>1, <2>3
<1>4. \A i \in A : g[i] = f[i]
  BY <1>1, <1>2 DEF Parts, InEach
<1>5. ASSUME NEW i \in B PROVE r[i] = f[e + i]
  <2>1. e + i \in DOMAIN bs /\ i \in DOMAIN rest /\ rest[i] = bs[e + i]
    BY <1>1, <1>2 DEF Parts
  <2>. QED
    BY <2>1 DEF InEach
<1>. HIDE DEF f, g, r
<1>6. SumFunctionOnSet(g, A) = SumFunctionOnSet(f, A)
  BY <1>3, <1>4, SumSame
<1>7. SumFunctionOnSet(r, B) = SumFunctionOnSet(f, C)
  <2> DEFINE b == [i \in B |-> e + i]
  <2>1. \A i \in B : b[i] = e + i
    OBVIOUS
  <2>2. \A i, j \in B : b[i] = b[j] => i = j
    BY <1>1
  <2>3. C = {b[i] : i \in B}
    OBVIOUS
  <2>. HIDE DEF b, C, B
  <2>4. \A i \in B : r[i] = f[b[i]]
    BY <1>5, <2>1
  <2>5. SumFunctionOnSet(r, B) = SumFunctionOnSet(f, {b[i] : i \in B})
    BY <1>3, <2>2, <2>4, SumRenamed
  <2>. QED
    BY <2>3, <2>5
<1>. HIDE DEF A, B, C
<1>8. SumFunctionOnSet(f, 1 .. n) = SumFunctionOnSet(f, A) + SumFunctionOnSet(f, C)
  <2>1. SumFunctionOnSet(f, A \cup C) = SumFunctionOnSet(f, A) + SumFunctionOnSet(f, C)
    BY <1>2, <1>3, SumUnion
  <2>. QED
    BY <1>2, <2>1
<1>9. SumFunctionOnSet(g, A) \in Nat /\ SumFunctionOnSet(r, B) \in Nat
  BY <1>3, SumType
<1>10. /\ Of(bs)[key] = SumFunctionOnSet(f, 1 .. n)
       /\ Of(gone)[key] = SumFunctionOnSet(g, A)
       /\ Of(rest)[key] = SumFunctionOnSet(r, B)
  BY <1>1 DEF Of, Sum, f, g, r
<1>. QED
  BY <1>6, <1>7, <1>8, <1>9, <1>10

LEMMA OfExtended ==
  ASSUME NEW rest \in Seq(Buckets), NEW key \in Keys, NEW bytes \in Nat \ {0},
         NEW bs, Extended(bs, rest, key, bytes)
  PROVE  OneMore(Of(bs), Of(rest), key, bytes)
<1> DEFINE n == Len(bs)
           m == Len(rest)
           S == 1 .. n - 1
<1>1. /\ bs \in Seq(Buckets) /\ n \in Nat /\ n >= 1 /\ m \in Nat /\ (n = m \/ n = m + 1)
      /\ DOMAIN bs = 1 .. n /\ DOMAIN rest = 1 .. m
      /\ \A i \in S : bs[i] = rest[i]
  BY LenProperties DEF Extended
<1>2. n \in 1 .. n /\ S = (1 .. n) \ {n} /\ S \in SUBSET (1 .. n) /\ S \in SUBSET (1 .. m)
      /\ (n = m => m \in 1 .. m /\ S = (1 .. m) \ {m}) /\ (n = m + 1 => S = 1 .. m)
  <2>. HIDE DEF n, m
  <2>1. n \in 1 .. n /\ S = (1 .. n) \ {n} /\ S \in SUBSET (1 .. n) /\ S \in SUBSET (1 .. m)
    BY <1>1
  <2>2. ASSUME n = m PROVE m \in 1 .. m /\ S = (1 .. m) \ {m}
    BY <1>1, <2>2
  <2>3. ASSUME n = m + 1 PROVE S = 1 .. m
    BY <1>1, <2>3
  <2>. QED
    BY <2>1, <2>2, <2>3
<1>. HIDE DEF n, m, S
<1>3. ASSUME NEW k \in Keys
      PROVE  Of(bs)[k] = Of(rest)[k] + (IF k = key THEN bytes ELSE 0)
  <2> DEFINE f == InEach(bs, k)
             r == InEach(rest, k)
             more == IF k = key THEN bytes ELSE 0
  <2>1. Numbers(f, 1 .. n) /\ Numbers(f, S) /\ Numbers(r, 1 .. m) /\ Numbers(r, S)
    <3>1. 1 .. n \in SUBSET (1 .. n) /\ 1 .. m \in SUBSET (1 .. m)
      OBVIOUS
    <3>. QED
      BY <1>1, <1>2, <3>1, EachIsNumber
  <2>2. \A i \in S : f[i] = r[i]
    BY <1>1, <1>2 DEF InEach
  <2>3. /\ f[n] = At(bs[n].activities, k) /\ (n = m => r[n] = At(rest[n].activities, k))
        /\ (n = m => r[n] \in Nat)
    BY <1>1, <1>2, EachIsNumber
  <2>4. f[n] = (IF n = m THEN r[n] ELSE 0) + more /\ more \in Nat
    <3>1. CASE n = m
      <4>1. bs[n].activities = Plus(rest[n].activities, key, bytes)
        BY <3>1 DEF Extended, n, m
      <4>2. PICK a : a = rest[n].activities
        OBVIOUS
      <4>3. PICK K \in SUBSET Keys : a \in [K -> Nat \ {0}]
        <5>1. rest[n] \in Buckets
          BY <1>1, <1>2, <3>1, EachIsNumber
        <5>. QED
          BY <4>2, <5>1 DEF Buckets
      <4>4. At(Plus(a, key, bytes), k) = At(a, k) + more
        BY <4>3 DEF Plus, At
      <4>. QED
        BY <2>3, <3>1, <4>1, <4>2, <4>4
    <3>2. CASE n = m + 1
      <4>1. bs[n].activities = Plus(<<>>, key, bytes)
        BY <3>2 DEF Extended, n, m
      <4>2. At(Plus(<<>>, key, bytes), k) = more
        BY EmptyQueue DEF Plus, At
      <4>3. n # m
        BY <1>1, <3>2
      <4>. QED
        BY <2>3, <4>1, <4>2, <4>3
    <3>. QED
      BY <1>1, <3>1, <3>2
  <2>. HIDE DEF f, r, more
  <2>5. SumFunctionOnSet(f, S) = SumFunctionOnSet(r, S) /\ SumFunctionOnSet(r, S) \in Nat
    BY <2>1, <2>2, SumSame, SumType
  <2>6. SumFunctionOnSet(f, 1 .. n) = f[n] + SumFunctionOnSet(f, S)
    BY <1>2, <2>1, SumRemove
  <2>7. SumFunctionOnSet(r, 1 .. m) = (IF n = m THEN r[n] ELSE 0) + SumFunctionOnSet(r, S)
    <3>1. CASE n = m
      BY <1>2, <2>1, <3>1, SumRemove
    <3>2. CASE n = m + 1
      <4>1. n # m
        BY <1>1, <3>2
      <4>2. S = 1 .. m
        BY <1>2, <3>2
      <4>3. PICK s \in Nat : s = SumFunctionOnSet(r, S)
        BY <2>5
      <4>. QED
        BY <4>1, <4>2, <4>3
    <3>. QED
      BY <1>1, <3>1, <3>2
  <2>8. Of(bs)[k] = SumFunctionOnSet(f, 1 .. n) /\ Of(rest)[k] = SumFunctionOnSet(r, 1 .. m)
    BY <1>1 DEF Of, Sum, f, r
  <2>9. (IF n = m THEN r[n] ELSE 0) \in Nat
    BY <2>3
  <2>10. Of(bs)[k] = Of(rest)[k] + more
    BY <2>4, <2>5, <2>6, <2>7, <2>8, <2>9
  <2>. QED
    BY <2>10 DEF more
<1>4. Of(bs) \in Counts /\ Of(rest) \in Counts
  BY <1>1, OfIsCounts
<1>5. \A k \in Keys : Of(rest)[k] \in Nat
  BY <1>4 DEF Counts
<1>. QED
  BY <1>3, <1>4, <1>5 DEF OneMore

LEMMA OfNothing == Of(<<>>) = [key \in Keys |-> 0] /\ IndexOf(Of(<<>>)) = EmptyIndex
<1>1. Of(<<>>) = [key \in Keys |-> 0]
  BY EmptyQueue, SumNothing DEF Of, Sum
<1>2. PICK m : m = Of(<<>>)
  OBVIOUS
<1>3. Active(m) = {} /\ ActivePaths(m) = {}
  BY <1>1, <1>2 DEF Active, ActivePaths
<1>4. ASSUME NEW prefix PROVE ~(Under(m, prefix) > 0)
  <2>1. IsFiniteSet(Below(prefix)) /\ \A key \in Below(prefix) : m[key] = 0
    BY <1>1, <1>2, KeysAreFinite
  <2>2. Under(m, prefix) = 0
    BY <2>1, SumNoNumbers DEF Under, Sum
  <2>. QED
    BY <2>2
<1>5. {p \in PathPrefixes : Under(m, p) > 0} = {}
  BY <1>4
<1>6. /\ [key \in Active(m) |-> m[key]] = <<>>
      /\ [prefix \in {p \in PathPrefixes : Under(m, p) > 0} |-> Under(m, prefix)] = <<>>
      /\ [path \in ActivePaths(m) |-> Cardinality(ActiveOn(m, path))] = <<>>
  BY <1>3, <1>5
<1>. QED
  BY <1>1, <1>2, <1>3, <1>6 DEF IndexOf, EmptyIndex

\* When buckets expire the index becomes that of the buckets that are left.
LEMMA ExpiryKeepsIndex ==
  ASSUME NEW time \in Times, NEW bs, Spaced(bs, time)
  PROVE  RemoveBuckets(IndexOf(Of(bs)), ExpiredBuckets(bs, time)) = IndexOf(Of(LiveBuckets(bs, time)))
<1>1. PICK gone, rest : gone = ExpiredBuckets(bs, time) /\ rest = LiveBuckets(bs, time)
  OBVIOUS
<1>2. PICK e \in 0 .. Len(bs) : Parts(bs, e, gone, rest)
  BY <1>1, LiveIsRest
<1>3. bs \in Seq(Buckets) /\ gone \in Seq(Buckets) /\ rest \in Seq(Buckets)
  BY <1>2 DEF Spaced, Parts
<1>4. PICK m, r : m = Of(bs) /\ r = Of(rest)
  OBVIOUS
<1>5. m \in Counts /\ r \in Counts
  BY <1>3, <1>4, OfIsCounts
<1>6. ASSUME NEW key \in Keys
      PROVE  m[key] >= Of(gone)[key] /\ m[key] - Sum(InEach(gone, key), DOMAIN gone) = r[key]
  <2>1. Of(gone)[key] \in Nat /\ r[key] \in Nat /\ m[key] = Of(gone)[key] + r[key]
    BY <1>2, <1>3, <1>4, OfParts
  <2>2. Of(gone)[key] = Sum(InEach(gone, key), DOMAIN gone)
    BY DEF Of
  <2>. QED
    BY <2>1, <2>2
<1>7. RemoveBuckets(IndexOf(m), gone) = IndexOf(MinusAll(m, gone, DOMAIN gone))
  BY <1>3, <1>5, <1>6, BucketsLeave
<1>8. MinusAll(m, gone, DOMAIN gone) = r
  BY <1>5, <1>6 DEF MinusAll, Counts
<1>. QED
  BY <1>1, <1>4, <1>7, <1>8

--------------------------------------------------------------------------------
\* The inductive invariant: the buckets are spaced and few, and the index is that of
\* what they hold.
BucketsInv ==
  /\ now \in Times
  /\ Spaced(buckets, now)
  /\ Len(buckets) <= MaxTimeBuckets
  /\ index = IndexOf(Of(buckets))

LEMMA NothingSpaced == ASSUME NEW time PROVE Spaced(<<>>, time) /\ InWindow(<<>>, time)
BY EmptySeq DEF Spaced, InWindow

LEMMA LaterIsSpaced ==
  ASSUME NEW t \in Times, NEW u \in Times, t <= u, NEW bs, Spaced(bs, t)
  PROVE  Spaced(bs, u)
<1>1. \A i \in 1 .. Len(bs) : bs[i].latestAt \in Nat /\ bs[i].latestAt <= t
  BY BucketFields DEF Spaced
<1>2. \A i \in 1 .. Len(bs) : bs[i].latestAt <= u
  BY <1>1 DEF Times
<1>. QED
  BY <1>2 DEF Spaced

LEMMA IndexBecomesIndex == ASSUME NEW i, IndexBecomes(i),
    i = [activities |-> i.activities, prefixTotals |-> i.prefixTotals,
         interned |-> i.interned, pidCounts |-> i.pidCounts]
  PROVE index' = i
BY DEF IndexBecomes, index

LEMMA IndexFields ==
  ASSUME NEW m, NEW i, i = IndexOf(m)
  PROVE  i = [activities |-> i.activities, prefixTotals |-> i.prefixTotals,
              interned |-> i.interned, pidCounts |-> i.pidCounts]
BY DEF IndexOf

LEMMA BucketsInit == Init => BucketsInv
<1>1. SUFFICES ASSUME Init PROVE BucketsInv
  OBVIOUS
<1>2. now \in Times
  BY <1>1, EventLogAssumption DEF Init, Times
<1>3. Spaced(buckets, now)
  BY <1>1, NothingSpaced DEF Init
<1>4. Len(buckets) <= MaxTimeBuckets
  BY <1>1, EmptySeq, RateBucketsAssumption DEF Init
<1>5. index = IndexOf(Of(buckets))
  BY <1>1, OfNothing DEF Init, index, EmptyIndex
<1>. QED
  BY <1>2, <1>3, <1>4, <1>5 DEF BucketsInv

LEMMA LiveStep ==
  ASSUME BucketsInv, now' = now, buckets' = LiveBuckets(buckets, now),
         IndexBecomes(RemoveBuckets(index, ExpiredBuckets(buckets, now)))
  PROVE  BucketsInv'
<1>1. PICK rest : rest = LiveBuckets(buckets, now)
  OBVIOUS
<1>2. now \in Times /\ Spaced(buckets, now) /\ index = IndexOf(Of(buckets))
  BY DEF BucketsInv
<1>3. Spaced(rest, now) /\ InWindow(rest, now)
  BY <1>1, <1>2, LiveIsRest
<1>4. Len(rest) <= MaxTimeBuckets
  BY <1>2, <1>3, NeverTooMany
<1>5. PICK i : i = IndexOf(Of(rest))
  OBVIOUS
<1>6. RemoveBuckets(index, ExpiredBuckets(buckets, now)) = i
  BY <1>1, <1>2, <1>5, ExpiryKeepsIndex
<1>7. index' = i
  BY <1>5, <1>6, IndexFields, IndexBecomesIndex
<1>8. buckets' = rest /\ now' = now
  BY <1>1
<1>9. /\ Spaced(buckets, now)' /\ (Len(buckets) <= MaxTimeBuckets)' /\ (now \in Times)'
      /\ (index = IndexOf(Of(buckets)))'
  <2>1. Spaced(buckets', now') /\ Len(buckets') <= MaxTimeBuckets /\ now' \in Times
    BY <1>2, <1>3, <1>4, <1>8
  <2>2. index' = IndexOf(Of(buckets'))
    BY <1>5, <1>7, <1>8
  <2>. QED
    BY <2>1, <2>2
<1>. QED
  BY <1>9 DEF BucketsInv

\* The buckets after an operation of some bytes.
LEMMA OperationStep ==
  ASSUME BucketsInv, now' = now, NEW key \in Keys, NEW bytes \in Nat \ {0},
         NEW live, live = LiveBuckets(buckets, now),
         NEW rest, rest = RemoveBuckets(index, ExpiredBuckets(buckets, now)),
         NEW grown, grown = WithOperation(live, key, bytes),
         buckets' = KeptBuckets(grown),
         IndexBecomes(RemoveBuckets(AddActivity(rest, key, bytes), SurplusBuckets(grown)))
  PROVE  /\ BucketsInv'
         /\ Spaced(live, now) /\ InWindow(live, now)
         /\ Extended(buckets', live, key, bytes)
<1>1. now \in Times /\ Spaced(buckets, now) /\ index = IndexOf(Of(buckets))
  BY DEF BucketsInv
<1>2. Spaced(live, now) /\ InWindow(live, now)
  BY <1>1, LiveIsRest
<1>3. Extended(grown, live, key, bytes)
  BY <1>1, <1>2, OperationExtends
<1>4. Spaced(grown, now) /\ InWindow(grown, now)
  BY <1>1, <1>2, <1>3, ExtendedIsSpaced
<1>5. Len(grown) <= MaxTimeBuckets
  BY <1>1, <1>4, NeverTooMany
<1>6. grown \in Seq(Buckets) /\ live \in Seq(Buckets)
  BY <1>2, <1>4 DEF Spaced
<1>7. buckets' = grown /\ SurplusBuckets(grown) = <<>>
  BY <1>5, <1>6, NothingTrimmed
<1>8. PICK n, m : n = Of(grown) /\ m = Of(live)
  OBVIOUS
<1>9. OneMore(n, m, key, bytes)
  BY <1>3, <1>6, <1>8, OfExtended
<1>10. rest = IndexOf(m)
  BY <1>1, <1>8, ExpiryKeepsIndex
<1>11. AddActivity(rest, key, bytes) = IndexOf(n)
  BY <1>9, <1>10, IndexAdds
<1>12. RemoveBuckets(IndexOf(n), <<>>) = IndexOf(n)
  <2>1. n \in Counts /\ <<>> \in Seq(Buckets)
    BY <1>6, <1>8, OfIsCounts, EmptySeq
  <2>2. \A k \in Keys : Of(<<>>)[k] = 0 /\ n[k] \in Nat /\ n[k] >= 0
    BY <2>1, OfNothing DEF Counts
  <2>3. RemoveBuckets(IndexOf(n), <<>>) = IndexOf(MinusAll(n, <<>>, DOMAIN <<>>))
    BY <2>1, <2>2, BucketsLeave
  <2>4. MinusAll(n, <<>>, DOMAIN <<>>) = n
    BY <2>1, <2>2, EmptyQueue, SumNothing DEF MinusAll, Sum, Counts
  <2>. QED
    BY <2>3, <2>4
<1>13. PICK i : i = IndexOf(n)
  OBVIOUS
<1>14. index' = i
  <2>1. RemoveBuckets(AddActivity(rest, key, bytes), SurplusBuckets(grown)) = i
    BY <1>7, <1>11, <1>12, <1>13
  <2>2. IndexBecomes(i)
    BY <2>1
  <2>. QED
    BY <1>13, <2>2, IndexFields, IndexBecomesIndex
<1>15. BucketsInv'
  <2>1. Spaced(buckets', now') /\ Len(buckets') <= MaxTimeBuckets /\ now' \in Times
    BY <1>1, <1>4, <1>5, <1>7
  <2>2. index' = IndexOf(Of(buckets'))
    BY <1>7, <1>8, <1>13, <1>14
  <2>. QED
    BY <2>1, <2>2 DEF BucketsInv
<1>. QED
  BY <1>2, <1>3, <1>7, <1>15

LEMMA BucketsNext == BucketsInv /\ [Next]_vars => BucketsInv'
<1>1. SUFFICES ASSUME BucketsInv, [Next]_vars PROVE BucketsInv'
  OBVIOUS
<1>2. CASE Advance
  <2>1. now' \in now + 1 .. MaxTime /\ buckets' = buckets /\ index' = index
    BY <1>2 DEF Advance, index
  <2>2. now \in Times /\ Spaced(buckets, now) /\ Len(buckets) <= MaxTimeBuckets /\ index = IndexOf(Of(buckets))
    BY <1>1 DEF BucketsInv
  <2>3. now' \in Times /\ now <= now'
    BY <2>1, <2>2, EventLogAssumption DEF Times
  <2>4. Spaced(buckets, now')
    BY <2>2, <2>3, LaterIsSpaced
  <2>5. Spaced(buckets', now') /\ Len(buckets') <= MaxTimeBuckets
    BY <2>1, <2>2, <2>4
  <2>6. index' = IndexOf(Of(buckets'))
    BY <2>1, <2>2
  <2>. QED
    BY <2>3, <2>5, <2>6 DEF BucketsInv
<1>3. ASSUME NEW path \in Paths, NEW pid \in Pids, NEW bytes \in Amounts, Record(path, pid, bytes)
      PROVE  BucketsInv'
  <2>1. now' = now
    BY <1>3 DEF Record
  <2>2. CASE bytes = 0
    <3>1. /\ buckets' = LiveBuckets(buckets, now)
          /\ IndexBecomes(RemoveBuckets(index, ExpiredBuckets(buckets, now)))
      BY <1>3, <2>2 DEF Record
    <3>. QED
      BY <1>1, <2>1, <3>1, LiveStep
  <2>3. CASE bytes # 0
    <3>1. PICK key, live, rest, grown :
             /\ key = <<path, pid>>
             /\ live = LiveBuckets(buckets, now)
             /\ rest = RemoveBuckets(index, ExpiredBuckets(buckets, now))
             /\ grown = WithOperation(live, key, bytes)
      OBVIOUS
    <3>2. /\ buckets' = KeptBuckets(grown)
          /\ IndexBecomes(RemoveBuckets(AddActivity(rest, key, bytes), SurplusBuckets(grown)))
      BY <1>3, <2>3, <3>1 DEF Record
    <3>3. key \in Keys /\ bytes \in Nat \ {0}
      BY <2>3, <3>1, EventLogAssumption DEF Keys
    <3>. QED
      BY <1>1, <2>1, <3>1, <3>2, <3>3, OperationStep
  <2>. QED
    BY <2>2, <2>3
<1>4. CASE RateForPrefix
  BY <1>1, <1>4, LiveStep DEF RateForPrefix
<1>5. CASE Reset
  <2>1. now' = now /\ now \in Times /\ buckets' = <<>>
    BY <1>1, <1>5 DEF Reset, BucketsInv
  <2>2. index' = EmptyIndex
    BY <1>5, IndexBecomesIndex DEF Reset, EmptyIndex
  <2>3. Spaced(buckets', now') /\ Len(buckets') <= MaxTimeBuckets
    BY <2>1, NothingSpaced, EmptySeq, RateBucketsAssumption
  <2>4. index' = IndexOf(Of(buckets'))
    BY <2>1, <2>2, OfNothing
  <2>. QED
    BY <2>1, <2>3, <2>4 DEF BucketsInv
<1>6. CASE UNCHANGED vars
  <2>1. now' = now /\ buckets' = buckets /\ index' = index
    BY <1>6 DEF vars, index
  <2>. QED
    BY <1>1, <2>1 DEF BucketsInv
<1>. QED
  BY <1>1, <1>2, <1>3, <1>4, <1>5, <1>6 DEF Next

LEMMA BucketsAlways == Spec => []BucketsInv
BY BucketsInit, BucketsNext, PTL DEF Spec

\* In every behaviour the clock, the buckets and the indexes have their types: no
\* bucket ends before it starts or after now, there are never more than
\* MaxTimeBuckets, and no index keeps an entry for nothing.
THEOREM EventLogTypeCorrect == Spec => []TypeOK
<1>1. ASSUME BucketsInv PROVE TypeOK
  <2>1. now \in Times /\ Spaced(buckets, now) /\ Len(buckets) <= MaxTimeBuckets
    BY <1>1 DEF BucketsInv
  <2>2. ASSUME NEW i \in DOMAIN buckets
        PROVE  /\ buckets[i].startedAt \in Times
               /\ buckets[i].latestAt \in buckets[i].startedAt .. now
               /\ DOMAIN buckets[i].activities \subseteq Keys
    <3>1. i \in 1 .. Len(buckets) /\ buckets[i] \in Buckets
      BY <2>1, EachIsNumber DEF Spaced
    <3>2. PICK b \in Buckets : b = buckets[i]
      BY <3>1
    <3>3. b.startedAt \in Times /\ b.latestAt \in Times /\ DOMAIN b.activities \subseteq Keys
      BY DEF Buckets
    <3>4. b.startedAt <= b.latestAt /\ b.latestAt <= now
      BY <2>1, <3>1, <3>2 DEF Spaced
    <3>. QED
      BY <2>1, <3>2, <3>3, <3>4 DEF Times
  <2>3. PICK m : m = Of(buckets)
    OBVIOUS
  <2>4. m \in Counts
    BY <2>1, <2>3, OfIsCounts DEF Spaced
  <2>5. /\ activities = [key \in Active(m) |-> m[key]]
        /\ prefixTotals = [prefix \in {p \in PathPrefixes : Under(m, p) > 0} |-> Under(m, prefix)]
    BY <1>1, <2>3 DEF BucketsInv, index, IndexOf
  <2>6. /\ DOMAIN activities \subseteq Keys
        /\ \A key \in DOMAIN activities : activities[key] \in Nat \ {0}
    BY <2>4, <2>5 DEF Active, Counts
  <2>7. \A prefix : Under(m, prefix) \in Nat
    BY <2>4, KeysAreFinite, SumType DEF Under, Sum
  <2>8. /\ DOMAIN prefixTotals \subseteq PathPrefixes
        /\ \A prefix \in DOMAIN prefixTotals : prefixTotals[prefix] \in Nat \ {0}
    BY <2>5, <2>7
  <2>. QED
    BY <2>1, <2>2, <2>6, <2>8 DEF TypeOK, PathPrefixes
<1>. QED
  BY <1>1, BucketsAlways, PTL

\* The sum over the active ones of the index, and over all.
LEMMA ActiveSum ==
  ASSUME NEW m \in Counts, NEW prefix, NEW a, a = [key \in Active(m) |-> m[key]]
  PROVE  Under(m, prefix) \in Nat /\ Under(m, prefix) = Sum(a, Active(m) \cap Below(prefix))
<1> DEFINE B == Below(prefix)
           C == Active(m) \cap B
<1>1. B \in SUBSET Keys /\ C \in SUBSET Keys /\ C \subseteq B /\ Numbers(m, B) /\ Numbers(m, C)
  BY KeysAreFinite DEF Active
<1>2. \A key \in B \ C : m[key] = 0
  BY <1>1 DEF Active, Counts
<1>3. \A key \in C : m[key] = a[key]
  OBVIOUS
<1>. HIDE DEF B, C
<1>4. SumFunctionOnSet(m, C) = SumFunctionOnSet(m, B) /\ SumFunctionOnSet(m, B) \in Nat
  BY <1>1, <1>2, SumOfMore, SumType
<1>5. SumFunctionOnSet(m, C) = SumFunctionOnSet(a, C)
  BY <1>1, <1>3, SumSame
<1>. QED
  BY <1>4, <1>5 DEF Under, Sum, B, C

\* However operations, expiry, queries and resets of EventLog are interleaved, its
\* indexes say what its buckets hold: the bytes of each path and process, the total
\* of each prefix, which paths are interned and how many processes each has.  So no
\* subtraction of an expired bucket takes more than was added, and none leaves an
\* entry behind.
THEOREM IndexesAreTrue == Spec => []IndexesMatchBuckets
<1>1. ASSUME BucketsInv PROVE IndexesMatchBuckets
  <2>1. PICK m : m = Of(buckets)
    OBVIOUS
  <2>2. m \in Counts
    BY <1>1, <2>1, OfIsCounts DEF BucketsInv, Spaced
  <2>3. /\ activities = [key \in Active(m) |-> m[key]]
        /\ prefixTotals = [prefix \in {p \in PathPrefixes : Under(m, p) > 0} |-> Under(m, prefix)]
        /\ interned = ActivePaths(m)
        /\ pidCounts = [path \in ActivePaths(m) |-> Cardinality(ActiveOn(m, path))]
    BY <1>1, <2>1 DEF BucketsInv, index, IndexOf
  <2>4. \A key \in Keys : InBuckets(key) = m[key]
    BY <2>1 DEF InBuckets, Of, InEach
  <2>5. DOMAIN activities = Active(m) /\ \A key \in Active(m) : activities[key] = m[key] /\ key \in Keys
    BY <2>3 DEF Active
  <2>6. Active(m) = {key \in Keys : InBuckets(key) > 0}
    BY <2>4 DEF Active
  <2>7. \A key \in DOMAIN activities : activities[key] = InBuckets(key)
    BY <2>4, <2>5
  <2>8. ASSUME NEW prefix \in Paths \cup {Root}
        PROVE  At(prefixTotals, prefix) = Sum(activities, DOMAIN activities \cap Below(prefix))
    <3>1. Under(m, prefix) \in Nat /\ Under(m, prefix) = Sum(activities, Active(m) \cap Below(prefix))
      BY <2>2, <2>3, ActiveSum
    <3>2. At(prefixTotals, prefix) = Under(m, prefix)
      BY <2>3, <3>1 DEF At, PathPrefixes
    <3>. QED
      BY <2>5, <3>1, <3>2
  <2>9. interned = {key[1] : key \in DOMAIN activities}
    BY <2>3, <2>5 DEF ActivePaths
  <2>10. pidCounts = [path \in interned |-> Cardinality({key \in DOMAIN activities : key[1] = path})]
    BY <2>3, <2>5 DEF ActiveOn
  <2>. QED
    BY <2>5, <2>6, <2>7, <2>8, <2>9, <2>10 DEF IndexesMatchBuckets
<1>. QED
  BY <1>1, BucketsAlways, PTL

--------------------------------------------------------------------------------
\* What buckets hold is what was recorded in their time.

\* What may have been recorded at each time.
Records == [Times -> UNION {[D -> Nat \ {0}] : D \in SUBSET Keys}]

\* The bytes recorded of a key, by time.
Moved(rec, key) == [t \in Times |-> At(rec[t], key)]

\* The times that a bucket covers.
Span(bucket) == bucket.startedAt .. bucket.latestAt

\* Buckets hold, of each key, what was recorded in their spans; outside of them nothing
\* was recorded but what is older than the window.
Kept(bs, rec, time) ==
  /\ rec \in Records
  /\ \A i \in 1 .. Len(bs), key \in Keys :
       At(bs[i].activities, key) = Sum(Moved(rec, key), Span(bs[i]))
  /\ \A t \in Times : DOMAIN rec[t] # {} =>
       t < time - Window \/ \E i \in 1 .. Len(bs) : t \in Span(bs[i])

LEMMA MovedIsNumber ==
  ASSUME NEW rec \in Records, NEW key
  PROVE  /\ IsFiniteSet(Times)
         /\ \A t \in Times : Moved(rec, key)[t] = At(rec[t], key) /\ At(rec[t], key) \in Nat
         /\ \A s \in SUBSET Times : Numbers(Moved(rec, key), s) /\ Sum(Moved(rec, key), s) \in Nat
<1>1. IsFiniteSet(Times)
  <2>1. 0 \in Int /\ MaxTime \in Int
    BY EventLogAssumption
  <2>. QED
    BY <2>1, FS_Interval DEF Times
<1>2. ASSUME NEW t \in Times PROVE At(rec[t], key) \in Nat
  <2>1. PICK D \in SUBSET Keys : rec[t] \in [D -> Nat \ {0}]
    BY DEF Records
  <2>. QED
    BY <2>1 DEF At
<1>3. PICK f : f = Moved(rec, key)
  OBVIOUS
<1>4. \A t \in Times : f[t] = At(rec[t], key)
  BY <1>3 DEF Moved
<1>5. Numbers(f, Times)
  BY <1>1, <1>2, <1>4 DEF Numbers
<1>6. \A s \in SUBSET Times : Numbers(f, s) /\ SumFunctionOnSet(f, s) \in Nat
  BY <1>5, SumPart
<1>. QED
  BY <1>1, <1>2, <1>3, <1>4, <1>6 DEF Sum

LEMMA SpanOfBucket ==
  ASSUME NEW time \in Times, NEW bs, Spaced(bs, time)
  PROVE  \A i \in 1 .. Len(bs) :
           /\ Span(bs[i]) \in SUBSET Times
           /\ \A j \in 1 .. Len(bs) : i < j => \A t \in Span(bs[i]), u \in Span(bs[j]) : t < u
<1>1. \A i \in 1 .. Len(bs) : bs[i].startedAt \in Times /\ bs[i].latestAt \in Times
  BY BucketFields DEF Buckets
<1>2. ASSUME NEW i \in 1 .. Len(bs) PROVE Span(bs[i]) \in SUBSET Times
  BY <1>1, EventLogAssumption DEF Span, Times
<1>3. ASSUME NEW i \in 1 .. Len(bs), NEW j \in 1 .. Len(bs), i < j,
             NEW t \in Span(bs[i]), NEW u \in Span(bs[j])
      PROVE  t < u
  <2>1. bs[i].latestAt < bs[i].startedAt + BucketWidth /\ bs[i].startedAt + BucketWidth <= bs[j].startedAt
    BY <1>3 DEF Spaced
  <2>2. t <= bs[i].latestAt /\ bs[j].startedAt <= u /\ t \in Int /\ u \in Int
    BY <1>1 DEF Span
  <2>3. /\ bs[i].startedAt \in Nat /\ bs[i].latestAt \in Nat /\ bs[j].startedAt \in Nat
        /\ BucketWidth \in Nat
    BY BucketFields, WidthIsEnough
  <2>. QED
    BY <2>1, <2>2, <2>3, SMTT(60)
<1>. QED
  BY <1>2, <1>3

LEMMA EndOfSpan ==
  ASSUME NEW time, NEW bs, Spaced(bs, time), NEW i \in 1 .. Len(bs)
  PROVE  bs[i].latestAt \in Span(bs[i]) /\ bs[i].latestAt <= time
<1>1. bs[i].startedAt <= bs[i].latestAt /\ bs[i].latestAt <= time
  BY DEF Spaced
<1>2. bs[i].startedAt \in Nat /\ bs[i].latestAt \in Nat
  BY BucketFields
<1>. QED
  BY <1>1, <1>2 DEF Span

LEMMA ExpiryKeeps ==
  ASSUME NEW time \in Times, NEW bs, Spaced(bs, time), NEW rec, Kept(bs, rec, time)
  PROVE  Kept(LiveBuckets(bs, time), rec, time)
<1>1. PICK rest : rest = LiveBuckets(bs, time)
  OBVIOUS
<1>2. PICK e \in 0 .. Len(bs) :
         /\ Parts(bs, e, ExpiredBuckets(bs, time), rest)
         /\ \A i \in 1 .. e : bs[i].latestAt < time - Window
  BY <1>1, LiveIsRest
<1>3. /\ Len(bs) \in Nat /\ Len(rest) = Len(bs) - e
      /\ \A i \in 1 .. Len(rest) : rest[i] = bs[e + i] /\ e + i \in 1 .. Len(bs)
  BY <1>2, LenProperties DEF Parts, Spaced
<1>4. ASSUME NEW t \in Times, DOMAIN rec[t] # {}
      PROVE  t < time - Window \/ \E i \in 1 .. Len(rest) : t \in Span(rest[i])
  <2>1. SUFFICES ASSUME NEW i \in 1 .. Len(bs), t \in Span(bs[i])
                 PROVE  t < time - Window \/ \E j \in 1 .. Len(rest) : t \in Span(rest[j])
    BY <1>4 DEF Kept
  <2>2. CASE i <= e
    <3>1. bs[i].latestAt < time - Window
      BY <1>2, <2>2
    <3>2. t <= bs[i].latestAt /\ bs[i].latestAt \in Nat /\ t \in Nat /\ time \in Nat /\ Window \in Nat
      BY <2>1, BucketFields, RateBucketsAssumption DEF Span, Times
    <3>. QED
      BY <3>1, <3>2
  <2>3. CASE i > e
    <3>1. i - e \in 1 .. Len(rest) /\ e + (i - e) = i
      BY <1>3, <2>3
    <3>2. rest[i - e] = bs[i]
      BY <1>3, <3>1
    <3>. QED
      BY <2>1, <3>1, <3>2
  <2>. QED
    BY <2>2, <2>3
<1>5. \A i \in 1 .. Len(rest), key \in Keys :
         At(rest[i].activities, key) = Sum(Moved(rec, key), Span(rest[i]))
  BY <1>3 DEF Kept
<1>6. Kept(rest, rec, time)
  BY <1>4, <1>5 DEF Kept
<1>. QED
  BY <1>1, <1>6

\* Nothing was recorded after the last bucket.
LEMMA NothingLater ==
  ASSUME now \in Times, NEW bs, Spaced(bs, now), InWindow(bs, now), NEW rec, Kept(bs, rec, now),
         NEW t \in Times, now - Window <= t, \A i \in 1 .. Len(bs) : bs[i].latestAt < t
  PROVE  rec[t] = <<>> /\ \A key \in Keys : Moved(rec, key)[t] = 0
<1>1. ~(t < now - Window)
  BY RateBucketsAssumption DEF Times
<1>2. ASSUME NEW i \in 1 .. Len(bs) PROVE t \notin Span(bs[i])
  BY BucketFields DEF Span, Times
<1>3. DOMAIN rec[t] = {}
  BY <1>1, <1>2 DEF Kept
<1>4. PICK D \in SUBSET Keys : rec[t] \in [D -> Nat \ {0}]
  BY DEF Kept, Records
<1>5. rec[t] = <<>>
  <2>1. rec[t] = [key \in {} |-> 0]
    BY <1>3, <1>4
  <2>2. <<>> = [key \in {} |-> 0]
    OBVIOUS
  <2>. QED
    BY <2>1, <2>2
<1>6. \A key : At(rec[t], key) = 0
  BY <1>3 DEF At
<1>7. \A key \in Keys : Moved(rec, key)[t] = 0
  BY <1>6 DEF Moved
<1>. QED
  BY <1>5, <1>7

LEMMA OperationKeeps ==
  ASSUME now \in Times, NEW rest, Spaced(rest, now), InWindow(rest, now),
         NEW rec, Kept(rest, rec, now),
         NEW key \in Keys, NEW bytes \in Nat \ {0},
         NEW bs, Extended(bs, rest, key, bytes),
         NEW more, more = [rec EXCEPT ![now] = Plus(rec[now], key, bytes)]
  PROVE  Kept(bs, more, now)
<1> DEFINE n == Len(bs)
           m == Len(rest)
<1>1. /\ now \in Nat /\ Window \in Nat /\ rec \in Records
  BY RateBucketsAssumption DEF Times, Kept
<1>2. Spaced(bs, now)
  BY ExtendedIsSpaced
<1>3. /\ n \in Nat /\ n >= 1 /\ m \in Nat /\ (n = m \/ n = m + 1) /\ n \in 1 .. n
      /\ \A i \in 1 .. n - 1 : bs[i] = rest[i] /\ i \in 1 .. m /\ i \in 1 .. n /\ i < n
      /\ bs[n].latestAt = now
  <2>1. n \in Nat /\ n >= 1 /\ m \in Nat /\ (n = m \/ n = m + 1)
    BY <1>2, LenProperties DEF Extended, Spaced
  <2>2. \A i \in 1 .. n - 1 : i \in 1 .. m /\ i \in 1 .. n /\ i < n
    BY <2>1
  <2>. QED
    BY <2>1, <2>2 DEF Extended
<1>4. /\ n = m => bs[n].startedAt = rest[n].startedAt /\ bs[n].activities = Plus(rest[n].activities, key, bytes)
      /\ n = m + 1 => bs[n].startedAt = now /\ bs[n].activities = Plus(<<>>, key, bytes)
  BY <1>3 DEF Extended
<1>5. bs[n].startedAt \in Nat /\ bs[n].startedAt <= now /\ Span(bs[n]) = bs[n].startedAt .. now
      /\ now \in Span(bs[n]) /\ Span(bs[n]) \in SUBSET Times
  <2>1. bs[n].startedAt \in Nat /\ bs[n].startedAt <= bs[n].latestAt
    BY <1>2, <1>3, BucketFields DEF Spaced
  <2>2. Span(bs[n]) \in SUBSET Times
    BY <1>2, <1>3, SpanOfBucket
  <2>. HIDE DEF n
  <2>. QED
    BY <1>1, <1>3, <2>1, <2>2 DEF Span
<1>6. \A i \in 1 .. n - 1 : now \notin Span(bs[i])
  <2>1. ASSUME NEW i \in 1 .. n - 1 PROVE now \notin Span(bs[i])
    <3>1. \A t \in Span(bs[i]), u \in Span(bs[n]) : t < u
      BY <1>2, <1>3, SpanOfBucket
    <3>. QED
      BY <1>1, <1>5, <3>1
  <2>. QED
    BY <2>1
<1>. HIDE DEF n, m
<1>7. more \in Records /\ \A t \in Times : t # now => more[t] = rec[t]
  <2>1. PICK D \in SUBSET Keys : rec[now] \in [D -> Nat \ {0}]
    BY <1>1 DEF Records
  <2>2. Plus(rec[now], key, bytes) \in [D \cup {key} -> Nat \ {0}]
    BY <2>1 DEF Plus, At
  <2>. QED
    BY <1>1, <2>2, ZenonT(100) DEF Records
<1>8. more[now] = Plus(rec[now], key, bytes)
  BY <1>1 DEF Records
<1>9. ASSUME NEW k \in Keys
      PROVE  /\ \A t \in Times : t # now => Moved(more, k)[t] = Moved(rec, k)[t]
             /\ Moved(more, k)[now] = Moved(rec, k)[now] + (IF k = key THEN bytes ELSE 0)
  <2>1. \A t \in Times : Moved(more, k)[t] = At(more[t], k) /\ Moved(rec, k)[t] = At(rec[t], k)
    BY DEF Moved
  <2>2. PICK D \in SUBSET Keys : rec[now] \in [D -> Nat \ {0}]
    BY <1>1 DEF Records
  <2>3. At(Plus(rec[now], key, bytes), k) = At(rec[now], k) + (IF k = key THEN bytes ELSE 0)
    BY <2>2 DEF Plus, At
  <2>. QED
    BY <1>7, <1>8, <2>1, <2>3, ZenonT(100)
<1>10. ASSUME NEW i \in 1 .. n, NEW k \in Keys
       PROVE  At(bs[i].activities, k) = Sum(Moved(more, k), Span(bs[i]))
  <2> DEFINE f == Moved(rec, k)
             g == Moved(more, k)
             d == IF k = key THEN bytes ELSE 0
  <2>1. /\ \A s \in SUBSET Times : Numbers(f, s) /\ Numbers(g, s)
        /\ \A t \in Times : f[t] \in Nat /\ g[t] \in Nat
    <3>1. \A s \in SUBSET Times : Numbers(f, s) /\ Numbers(g, s)
      BY <1>1, <1>7, MovedIsNumber
    <3>2. \A t \in Times : Moved(rec, k)[t] = At(rec[t], k) /\ At(rec[t], k) \in Nat
      BY <1>1, MovedIsNumber
    <3>3. \A t \in Times : Moved(more, k)[t] = At(more[t], k) /\ At(more[t], k) \in Nat
      BY <1>7, MovedIsNumber
    <3>. QED
      BY <3>1, <3>2, <3>3
  <2>2. g[now] = f[now] + d /\ \A t \in Times : t # now => g[t] = f[t]
    BY <1>9
  <2>3. d \in Nat
    OBVIOUS
  <2>4. \A j \in 1 .. m : At(rest[j].activities, k) = SumFunctionOnSet(f, Span(rest[j]))
    BY DEF Kept, Sum, m
  <2>5. \A t \in Times : now - Window <= t /\ (\A j \in 1 .. m : rest[j].latestAt < t) => f[t] = 0
    BY NothingLater DEF m
  <2>. HIDE DEF f, g, d
  <2>6. CASE i # n
    <3>1. i \in 1 .. n - 1
      BY <1>3, <2>6
    <3>2. bs[i] = rest[i] /\ i \in 1 .. m /\ now \notin Span(bs[i]) /\ Span(bs[i]) \in SUBSET Times
      BY <1>2, <1>3, <1>6, <3>1, SpanOfBucket DEF n
    <3>3. PICK s : s = Span(bs[i])
      OBVIOUS
    <3>4. Numbers(f, s) /\ \A t \in s : f[t] = g[t]
      BY <2>1, <2>2, <3>2, <3>3
    <3>5. SumFunctionOnSet(f, s) = SumFunctionOnSet(g, s)
      BY <3>4, SumSame
    <3>6. At(bs[i].activities, k) = SumFunctionOnSet(g, s)
      BY <2>4, <3>2, <3>3, <3>5
    <3>. QED
      BY <3>3, <3>6 DEF Sum, g
  <2>7. CASE i = n
    <3> DEFINE old == IF n = m THEN Span(rest[n]) ELSE {}
               s == Span(bs[n])
               o == IF n = m THEN At(rest[n].activities, k) ELSE 0
    <3>1. s \in SUBSET Times /\ now \in s /\ s = bs[n].startedAt .. now
      BY <1>5
    <3>2. old \subseteq s /\ \A t \in s \ old : f[t] = 0
      <4>1. CASE n = m
        <5>1. n \in 1 .. m /\ rest[n].latestAt \in Nat /\ rest[n].latestAt <= now
              /\ rest[n].latestAt >= now - Window
          BY <1>3, <4>1, BucketFields DEF m, Spaced, InWindow
        <5>2. old = bs[n].startedAt .. rest[n].latestAt
          BY <1>4, <4>1 DEF Span
        <5>3. old \subseteq s
          BY <1>1, <1>5, <3>1, <5>1, <5>2
        <5>4. ASSUME NEW t \in s \ old PROVE f[t] = 0
          <6>1. t \in Times /\ t > rest[n].latestAt /\ t \in Nat
            BY <1>5, <3>1, <5>1, <5>2
          <6>2. \A j \in 1 .. m : rest[j].latestAt <= rest[n].latestAt
            <7>1. ASSUME NEW j \in 1 .. m, j # n PROVE rest[j].latestAt <= rest[n].latestAt
              <8>1. j < n
                BY <4>1, <7>1, <1>3
              <8>2. rest[j].latestAt \in Span(rest[j]) /\ rest[n].latestAt \in Span(rest[n])
                BY <5>1, EndOfSpan DEF m
              <8>3. rest[j].latestAt < rest[n].latestAt
                BY <5>1, <8>1, <8>2, SpanOfBucket DEF m
              <8>. QED
                BY <5>1, <8>3, BucketFields DEF m
            <7>. QED
              BY <5>1, <7>1
          <6>3. \A j \in 1 .. m : rest[j].latestAt < t
            <7>1. \A j \in 1 .. m : rest[j].latestAt \in Nat
              BY BucketFields DEF m
            <7>. QED
              BY <5>1, <6>1, <6>2, <7>1
          <6>4. now - Window <= t
            BY <1>1, <5>1, <6>1
          <6>. QED
            BY <2>5, <6>1, <6>3, <6>4
        <5>. QED
          BY <5>3, <5>4
      <4>2. CASE n = m + 1
        <5>1. n # m
          BY <1>3, <4>2
        <5>2. s = {now}
          <6>1. bs[n].startedAt = now
            BY <1>4, <4>2
          <6>. QED
            BY <1>1, <3>1, <6>1
        <5>3. \A j \in 1 .. m : rest[j].latestAt < now
          <6>1. ASSUME NEW j \in 1 .. m PROVE rest[j].latestAt < now
            <7>1. j \in 1 .. n - 1 /\ j \in 1 .. n /\ n \in 1 .. n /\ j < n
              BY <1>3, <4>2
            <7>2. bs[j] = rest[j] /\ rest[j].latestAt \in Span(rest[j])
              BY <1>3, <7>1, EndOfSpan DEF m
            <7>3. now \in Span(bs[n])
              BY <1>5
            <7>. QED
              BY <1>2, <7>1, <7>2, <7>3, SpanOfBucket DEF n
          <6>. QED
            BY <6>1
        <5>4. f[now] = 0
          BY <1>1, <2>5, <5>3
        <5>. QED
          BY <5>1, <5>2, <5>4
      <4>. QED
        BY <1>3, <4>1, <4>2
    <3>3. o = SumFunctionOnSet(f, old)
      <4>1. CASE n = m
        <5>1. n \in 1 .. m
          BY <1>3, <4>1
        <5>. QED
          BY <2>4, <4>1, <5>1
      <4>2. CASE n # m
        BY <4>2, SumNothing
      <4>. QED
        BY <4>1, <4>2
    <3>4. At(bs[n].activities, k) = o + d
      <4>1. CASE n = m
        <5>1. PICK a : a = rest[n].activities
          OBVIOUS
        <5>2. PICK D \in SUBSET Keys : a \in [D -> Nat \ {0}]
          <6>1. rest[n] \in Buckets
            BY <1>3, <4>1, BucketFields DEF m
          <6>. QED
            BY <5>1, <6>1 DEF Buckets
        <5>3. At(Plus(a, key, bytes), k) = At(a, k) + d
          BY <5>2 DEF Plus, At, d
        <5>. QED
          BY <1>4, <4>1, <5>1, <5>3
      <4>2. CASE n = m + 1
        <5>1. n # m
          BY <1>3, <4>2
        <5>2. At(Plus(<<>>, key, bytes), k) = d
          BY EmptyQueue DEF Plus, At, d
        <5>. QED
          BY <1>4, <2>3, <4>2, <5>1, <5>2
      <4>. QED
        BY <1>3, <4>1, <4>2
    <3>. HIDE DEF s, o, old
    <3>5. SumFunctionOnSet(f, s) = o
      <4>1. Numbers(f, s) /\ old \subseteq s
        BY <2>1, <3>1, <3>2
      <4>. QED
        BY <3>2, <3>3, <4>1, SumOfMore
    <3>6. SumFunctionOnSet(g, s) = o + d
      <4> DEFINE S == s \ {now}
      <4>1. Numbers(f, s) /\ Numbers(g, s) /\ Numbers(f, S)
        BY <2>1, <3>1
      <4>2. \A t \in S : f[t] = g[t]
        BY <2>2, <3>1
      <4>3. /\ SumFunctionOnSet(f, s) = f[now] + SumFunctionOnSet(f, S)
            /\ SumFunctionOnSet(g, s) = g[now] + SumFunctionOnSet(g, S)
        <5>1. PICK x : x = now
          OBVIOUS
        <5>2. x \in s
          BY <3>1, <5>1
        <5>3. SumFunctionOnSet(f, s) = f[x] + SumFunctionOnSet(f, s \ {x})
          BY <4>1, <5>2, SumRemove
        <5>4. SumFunctionOnSet(g, s) = g[x] + SumFunctionOnSet(g, s \ {x})
          BY <4>1, <5>2, SumRemove
        <5>. QED
          BY <5>1, <5>3, <5>4
      <4>. HIDE DEF S
      <4>4. SumFunctionOnSet(f, S) = SumFunctionOnSet(g, S)
        BY <4>1, <4>2, SumSame
      <4>5. SumFunctionOnSet(f, S) \in Nat /\ f[now] \in Nat
        BY <2>1, <4>1, SumType
      <4>6. g[now] = f[now] + d
        BY <2>2
      <4>. QED
        BY <2>3, <3>5, <4>3, <4>4, <4>5, <4>6
    <3>7. At(bs[n].activities, k) = SumFunctionOnSet(g, s)
      BY <3>4, <3>6
    <3>. QED
      BY <2>7, <3>7 DEF Sum, g, s
  <2>. QED
    BY <2>6, <2>7
<1>11. ASSUME NEW t \in Times, DOMAIN more[t] # {}
       PROVE  t < now - Window \/ \E i \in 1 .. n : t \in Span(bs[i])
  <2>1. CASE t = now
    BY <1>3, <1>5, <2>1
  <2>2. CASE t # now /\ ~(t < now - Window)
    <3>1. DOMAIN rec[t] # {}
      BY <1>7, <1>11, <2>2
    <3>2. PICK j \in 1 .. m : t \in Span(rest[j])
      BY <2>2, <3>1 DEF Kept, m
    <3>3. CASE j \in 1 .. n - 1
      BY <1>3, <3>2, <3>3
    <3>4. CASE j \notin 1 .. n - 1
      <4>1. j = n /\ n = m
        BY <1>3, <3>4
      <4>2. t \in Nat /\ rest[n].startedAt <= t /\ t <= rest[n].latestAt /\ rest[n].latestAt <= now
            /\ rest[n].latestAt \in Nat
        <5>1. j \in 1 .. Len(rest)
          BY DEF m
        <5>2. /\ rest[j].startedAt \in Nat /\ rest[j].latestAt \in Nat /\ rest[j].latestAt <= now
          BY <5>1, BucketFields, EndOfSpan
        <5>. QED
          BY <3>2, <4>1, <5>2 DEF Span, Times
      <4>3. t \in bs[n].startedAt .. now
        BY <1>1, <1>4, <4>1, <4>2
      <4>. QED
        BY <1>3, <1>5, <4>3
    <3>. QED
      BY <3>3, <3>4
  <2>. QED
    BY <2>1, <2>2
<1>12. Kept(bs, more, now)
  BY <1>7, <1>10, <1>11 DEF Kept, n
<1>. QED
  BY <1>12

\* The times that are in some bucket.
Covered(bs) == UNION {Span(bs[i]) : i \in 1 .. Len(bs)}

LEMMA HeldIsCovered ==
  ASSUME NEW time \in Times, NEW bs, Spaced(bs, time), NEW rec, Kept(bs, rec, time), NEW key \in Keys
  PROVE  Covered(bs) \in SUBSET Times /\ Of(bs)[key] = Sum(Moved(rec, key), Covered(bs))
<1> DEFINE n == Len(bs)
           f == InEach(bs, key)
           g == Moved(rec, key)
           C(j) == UNION {Span(bs[i]) : i \in 1 .. j}
           T == {j \in Nat : j <= n => SumFunctionOnSet(f, 1 .. j) = SumFunctionOnSet(g, C(j))}
<1>1. bs \in Seq(Buckets) /\ n \in Nat /\ DOMAIN bs = 1 .. n /\ rec \in Records
  BY LenProperties DEF Spaced, Kept
<1>2. \A i \in 1 .. n : /\ Span(bs[i]) \in SUBSET Times
                        /\ \A j \in 1 .. n : i < j => \A t \in Span(bs[i]), u \in Span(bs[j]) : t < u
  BY SpanOfBucket
<1>3. \A i \in 1 .. n : f[i] = SumFunctionOnSet(g, Span(bs[i]))
  BY <1>1, EachIsNumber DEF Kept, Sum
<1>4. \A s \in SUBSET (1 .. n) : Numbers(f, s)
  BY <1>1, EachIsNumber
<1>5. \A s \in SUBSET Times : Numbers(g, s)
  BY <1>1, MovedIsNumber
<1>6. \A j \in 0 .. n : C(j) \in SUBSET Times
  BY <1>1, <1>2
<1>. HIDE DEF f, g, n
<1>7. 0 \in T
  <2>1. 1 .. 0 = {} /\ C(0) = {}
    OBVIOUS
  <2>. HIDE DEF C
  <2>. QED
    BY <2>1, SumNothing
<1>8. ASSUME NEW j \in Nat, j \in T PROVE j + 1 \in T
  <2>1. SUFFICES ASSUME j + 1 <= n
                 PROVE  SumFunctionOnSet(f, 1 .. j + 1) = SumFunctionOnSet(g, C(j + 1))
    OBVIOUS
  <2>2. PICK k : k = j + 1
    OBVIOUS
  <2>3. k \in 1 .. n /\ j \in 0 .. n /\ j <= n /\ k \in 1 .. k /\ (1 .. k) \ {k} = 1 .. j
        /\ 1 .. k \in SUBSET (1 .. n)
    BY <1>1, <2>1, <2>2
  <2>4. SumFunctionOnSet(f, 1 .. k) = f[k] + SumFunctionOnSet(f, 1 .. j)
    <3>1. PICK s : s = 1 .. k
      OBVIOUS
    <3>2. SumFunctionOnSet(f, s) = f[k] + SumFunctionOnSet(f, s \ {k})
      BY <1>4, <2>3, <3>1, SumRemove
    <3>. QED
      BY <2>3, <3>1, <3>2
  <2>5. C(k) = C(j) \cup Span(bs[k])
    <3>1. 1 .. k = (1 .. j) \cup {k}
      BY <1>8, <2>2
    <3>. QED
      BY <3>1
  <2>6. C(j) \cap Span(bs[k]) = {}
    <3>1. ASSUME NEW i \in 1 .. j, NEW t \in Span(bs[i]), t \in Span(bs[k]) PROVE FALSE
      <4>1. i \in 1 .. n /\ i < k
        BY <1>1, <2>1, <2>2
      <4>2. t < t /\ t \in Nat
        BY <1>2, <2>3, <3>1, <4>1 DEF Times
      <4>. QED
        BY <4>2
    <3>. QED
      BY <3>1
  <2>7. PICK c, s : c = C(j) /\ s = Span(bs[k])
    OBVIOUS
  <2>8. Numbers(g, c) /\ Numbers(g, s) /\ c \cap s = {}
    BY <1>2, <1>5, <1>6, <2>3, <2>6, <2>7
  <2>9. SumFunctionOnSet(g, c \cup s) = SumFunctionOnSet(g, c) + SumFunctionOnSet(g, s)
    BY <2>8, SumUnion
  <2>10. SumFunctionOnSet(g, c) \in Nat /\ SumFunctionOnSet(g, s) \in Nat
    BY <2>8, SumType
  <2>11. SumFunctionOnSet(f, 1 .. j) = SumFunctionOnSet(g, c)
    BY <1>8, <2>3, <2>7
  <2>12. f[k] = SumFunctionOnSet(g, s)
    BY <1>3, <2>3, <2>7
  <2>13. C(k) = c \cup s
    BY <2>5, <2>7
  <2>. HIDE DEF C
  <2>14. SumFunctionOnSet(f, 1 .. k) = SumFunctionOnSet(g, c \cup s)
    <3>1. PICK v, w \in Nat : v = SumFunctionOnSet(g, c) /\ w = SumFunctionOnSet(g, s)
      BY <2>10
    <3>2. SumFunctionOnSet(f, 1 .. k) = w + v /\ SumFunctionOnSet(g, c \cup s) = v + w
      BY <2>4, <2>9, <2>11, <2>12, <3>1
    <3>. QED
      BY <3>2
  <2>. QED
    BY <2>2, <2>13, <2>14
<1>. HIDE DEF T
<1>9. n \in T
  BY <1>1, <1>7, <1>8, AllNumbers
<1>10. SumFunctionOnSet(f, 1 .. n) = SumFunctionOnSet(g, C(n))
  BY <1>1, <1>9 DEF T
<1>11. C(n) = Covered(bs)
  BY DEF Covered, n
<1>12. Of(bs)[key] = SumFunctionOnSet(f, 1 .. n)
  BY <1>1 DEF Of, Sum, f
<1>13. Covered(bs) \in SUBSET Times
  <2>1. n \in 0 .. n
    BY <1>1
  <2>. HIDE DEF C
  <2>. QED
    BY <1>6, <1>11, <2>1
<1>. QED
  BY <1>10, <1>11, <1>12, <1>13 DEF Sum, g

\* What is recorded at some times below a prefix, counted by key.
Rows(rec, prefix) == [t \in Times |-> Sum(rec[t], DOMAIN rec[t] \cap Below(prefix))]

LEMMA RowsByKey ==
  ASSUME NEW rec \in Records, NEW prefix, NEW S \in SUBSET Times
  PROVE  /\ Numbers(Rows(rec, prefix), S)
         /\ Sum(Rows(rec, prefix), S) = Sum([key \in Keys |-> Sum(Moved(rec, key), S)], Below(prefix))
<1> DEFINE B == Below(prefix)
           F == [p \in S \X B |-> At(rec[p[1]], p[2])]
           rows == Rows(rec, prefix)
           columns == [key \in Keys |-> Sum(Moved(rec, key), S)]
<1>1. B \in SUBSET Keys /\ IsFiniteSet(B)
  BY KeysAreFinite
<1>2. IsFiniteSet(S) /\ IsFiniteSet(Times)
  BY MovedIsNumber, FS_Subset
<1>3. \A t \in Times, key \in Keys : At(rec[t], key) \in Nat
  BY MovedIsNumber
<1>4. F \in [S \X B -> Nat] /\ \A t \in S, key \in B : F[<<t, key>>] = At(rec[t], key)
  BY <1>1, <1>3
<1>5. ASSUME NEW t \in S
      PROVE  /\ rows[t] = SumFunctionOnSet(Row(F, B, t), B)
             /\ rows[t] \in Nat
  <2> DEFINE r == rec[t]
             f == Row(F, B, t)
             C == DOMAIN r \cap B
  <2>1. PICK D \in SUBSET Keys : r \in [D -> Nat \ {0}]
    <3>1. t \in Times
      OBVIOUS
    <3>. QED
      BY <3>1 DEF Records
  <2>2. \A key \in B : f[key] = At(r, key) /\ f[key] \in Nat
    BY <1>1, <1>3, <1>4 DEF Row
  <2>3. \A key \in C : f[key] = r[key]
    BY <2>2 DEF At
  <2>4. \A key \in B \ C : f[key] = 0
    BY <2>2 DEF At
  <2>5. rows[t] = SumFunctionOnSet(r, C)
    BY DEF Rows, Sum
  <2>6. C \subseteq B
    OBVIOUS
  <2>. HIDE DEF C, f, r, B, F
  <2>7. Numbers(f, B)
    BY <1>1, <2>2 DEF Numbers
  <2>8. SumFunctionOnSet(f, C) = SumFunctionOnSet(f, B) /\ Numbers(f, C) /\ SumFunctionOnSet(f, B) \in Nat
    BY <2>4, <2>6, <2>7, SumOfMore, SumPart, SumType
  <2>9. SumFunctionOnSet(f, C) = SumFunctionOnSet(r, C)
    BY <2>3, <2>8, SumSame
  <2>. HIDE DEF rows
  <2>10. rows[t] = SumFunctionOnSet(f, B) /\ rows[t] \in Nat
    BY <2>5, <2>8, <2>9
  <2>. QED
    BY <2>10 DEF f
<1>6. ASSUME NEW key \in B
      PROVE  columns[key] = SumFunctionOnSet(Column(F, S, key), S)
  <2> DEFINE f == Column(F, S, key)
             g == Moved(rec, key)
  <2>1. \A t \in S : g[t] = f[t]
    BY <1>4 DEF Moved, Column
  <2>2. Numbers(g, S)
    BY MovedIsNumber
  <2>3. columns[key] = SumFunctionOnSet(g, S)
    BY <1>1 DEF Sum
  <2>. HIDE DEF f, g, columns, F, B
  <2>4. SumFunctionOnSet(g, S) = SumFunctionOnSet(f, S)
    BY <2>1, <2>2, SumSame
  <2>5. columns[key] = SumFunctionOnSet(f, S)
    BY <2>3, <2>4
  <2>. QED
    BY <2>5 DEF f
<1>. HIDE DEF B, F, rows, columns
<1>7. SumFunctionOnSet(rows, S) = SumFunctionOnSet(columns, B)
  <2>1. PICK G, D, r, c : G = F /\ D = B /\ r = rows /\ c = columns
    OBVIOUS
  <2>2. \A t \in S : r[t] = SumFunctionOnSet(Row(G, D, t), D)
    BY <1>5, <2>1
  <2>3. \A key \in D : c[key] = SumFunctionOnSet(Column(G, S, key), S)
    BY <1>6, <2>1
  <2>4. IsFiniteSet(S) /\ IsFiniteSet(D) /\ G \in [S \X D -> Nat]
    BY <1>1, <1>2, <1>4, <2>1
  <2>5. SumFunctionOnSet(r, S) = SumFunctionOnSet(c, D)
    <3>1. IsTable(G, S, D, r, c)
      BY <2>2, <2>3, <2>4 DEF IsTable
    <3>. QED
      BY <3>1, SumOfTable
  <2>. QED
    BY <2>1, <2>5
<1>8. Numbers(rows, S)
  BY <1>2, <1>5 DEF Numbers
<1>. QED
  BY <1>7, <1>8 DEF Sum, rows, columns, B

\* The invariant with what was recorded.
KeptInv == BucketsInv /\ Kept(buckets, recorded, now)

LEMMA NothingKept ==
  ASSUME NEW time \in Times
  PROVE  Kept(<<>>, [t \in Times |-> <<>>], time)
<1>1. <<>> \in [{} -> Nat \ {0}] /\ Len(<<>>) = 0
  BY EmptySeq, EmptyQueue
<1>2. [t \in Times |-> <<>>] \in Records
  BY <1>1 DEF Records
<1>. QED
  BY <1>1, <1>2, EmptyQueue DEF Kept

LEMMA KeptLater ==
  ASSUME NEW t \in Times, NEW u \in Times, t <= u, NEW bs, NEW rec, Kept(bs, rec, t)
  PROVE  Kept(bs, rec, u)
<1>1. \A v \in Times : v < t - Window => v < u - Window
  BY RateBucketsAssumption DEF Times
<1>. QED
  BY <1>1 DEF Kept

LEMMA KeptInit == Init => KeptInv
<1>1. SUFFICES ASSUME Init PROVE KeptInv
  OBVIOUS
<1>2. BucketsInv
  BY <1>1, BucketsInit
<1>3. Kept(<<>>, [t \in Times |-> <<>>], now)
  BY <1>2, NothingKept DEF BucketsInv
<1>. QED
  BY <1>1, <1>2, <1>3 DEF KeptInv, Init

LEMMA KeptNext == KeptInv /\ [Next]_vars => KeptInv'
<1>1. SUFFICES ASSUME KeptInv, [Next]_vars PROVE Kept(buckets', recorded', now')
  BY BucketsNext DEF KeptInv
<1>2. BucketsInv /\ Kept(buckets, recorded, now) /\ BucketsInv'
  BY <1>1, BucketsNext DEF KeptInv
<1>3. now \in Times /\ now' \in Times /\ Spaced(buckets, now)
  BY <1>2 DEF BucketsInv
<1>4. CASE Advance
  <2>1. now <= now' /\ buckets' = buckets /\ recorded' = recorded
    BY <1>3, <1>4 DEF Advance, Times
  <2>2. Kept(buckets, recorded, now')
    BY <1>2, <1>3, <2>1, KeptLater
  <2>. QED
    BY <2>1, <2>2
<1>5. ASSUME now' = now, buckets' = LiveBuckets(buckets, now), recorded' = recorded
      PROVE  Kept(buckets', recorded', now')
  <2>1. Kept(LiveBuckets(buckets, now), recorded, now)
    BY <1>2, <1>3, ExpiryKeeps
  <2>. QED
    BY <1>5, <2>1
<1>6. ASSUME NEW path \in Paths, NEW pid \in Pids, NEW bytes \in Amounts, Record(path, pid, bytes)
      PROVE  Kept(buckets', recorded', now')
  <2>1. now' = now
    BY <1>6 DEF Record
  <2>2. CASE bytes = 0
    <3>1. buckets' = LiveBuckets(buckets, now) /\ recorded' = recorded
      BY <1>6, <2>2 DEF Record
    <3>. QED
      BY <1>5, <2>1, <3>1
  <2>3. CASE bytes # 0
    <3>1. PICK key, live, rest, grown :
             /\ key = <<path, pid>>
             /\ live = LiveBuckets(buckets, now)
             /\ rest = RemoveBuckets(index, ExpiredBuckets(buckets, now))
             /\ grown = WithOperation(live, key, bytes)
      OBVIOUS
    <3>2. /\ buckets' = KeptBuckets(grown)
          /\ IndexBecomes(RemoveBuckets(AddActivity(rest, key, bytes), SurplusBuckets(grown)))
          /\ recorded' = [recorded EXCEPT ![now] = Plus(@, key, bytes)]
      BY <1>6, <2>3, <3>1 DEF Record
    <3>3. key \in Keys /\ bytes \in Nat \ {0}
      BY <2>3, <3>1, EventLogAssumption DEF Keys
    <3>4. Spaced(live, now) /\ InWindow(live, now) /\ Extended(buckets', live, key, bytes)
      BY <1>2, <2>1, <3>1, <3>2, <3>3, OperationStep
    <3>5. Kept(live, recorded, now)
      BY <1>2, <1>3, <3>1, ExpiryKeeps
    <3>6. PICK bs, more : bs = buckets' /\ more = recorded'
      OBVIOUS
    <3>7. Extended(bs, live, key, bytes) /\ more = [recorded EXCEPT ![now] = Plus(recorded[now], key, bytes)]
      BY <3>2, <3>4, <3>6
    <3>8. Kept(bs, more, now)
      BY <1>3, <3>2, <3>3, <3>4, <3>5, <3>7, OperationKeeps
    <3>. QED
      BY <2>1, <3>6, <3>8
  <2>. QED
    BY <2>2, <2>3
<1>7. CASE RateForPrefix
  BY <1>5, <1>7 DEF RateForPrefix
<1>8. CASE Reset
  <2>1. now' = now /\ buckets' = <<>> /\ recorded' = [t \in Times |-> <<>>]
    BY <1>8 DEF Reset
  <2>2. Kept(<<>>, [t \in Times |-> <<>>], now)
    BY <1>3, NothingKept
  <2>. QED
    BY <2>1, <2>2
<1>9. CASE UNCHANGED vars
  <2>1. now' = now /\ buckets' = buckets /\ recorded' = recorded
    BY <1>9 DEF vars
  <2>. QED
    BY <1>2, <2>1
<1>. QED
  BY <1>1, <1>4, <1>6, <1>7, <1>8, <1>9 DEF Next

\* The rate EventLog shows of any prefix counts every byte of the window, and none
\* that is a bucket's width older than the window, for every length of the window
\* and every limit on buckets.
THEOREM WindowIsExact == Spec => []WindowIsExactToABucket
<1>1. ASSUME KeptInv PROVE WindowIsExactToABucket
  <2>1. /\ now \in Times /\ Spaced(buckets, now) /\ index = IndexOf(Of(buckets))
        /\ buckets \in Seq(Buckets) /\ Kept(buckets, recorded, now) /\ recorded \in Records
    BY <1>1 DEF KeptInv, BucketsInv, Spaced, Kept
  <2>2. SUFFICES ASSUME buckets # <<>> => Head(buckets).latestAt >= now - Window,
                        NEW prefix \in Paths \cup {Root}
                 PROVE  /\ At(prefixTotals, prefix) >= RecordedSince(prefix, now - Window)
                        /\ At(prefixTotals, prefix) <= RecordedSince(prefix, now - Window - BucketWidth + 1)
    BY DEF WindowIsExactToABucket
  <2>3. now \in Nat /\ Window \in Nat /\ BucketWidth \in Nat
    BY <2>1, RateBucketsAssumption, WidthIsEnough DEF Times
  <2>4. ASSUME NEW i \in 1 .. Len(buckets), NEW t \in Span(buckets[i])
        PROVE  t >= now - Window - BucketWidth + 1
    <3>1. Len(buckets) \in Nat /\ 1 \in 1 .. Len(buckets) /\ buckets # <<>> /\ Head(buckets) = buckets[1]
      BY <2>1, LenProperties, EmptySeq, HeadTailProperties
    <3>2. buckets[1].latestAt >= now - Window
      BY <2>2, <3>1
    <3>3. buckets[i].latestAt >= now - Window
      <4>1. CASE i = 1
        BY <3>2, <4>1
      <4>2. CASE i # 1
        <5>1. 1 < i
          BY <4>2
        <5>2. buckets[1].latestAt < buckets[i].latestAt
          BY <2>1, <3>1, <5>1, EndOfSpan, SpanOfBucket
        <5>. QED
          BY <2>1, <2>3, <3>1, <3>2, <5>2, BucketFields
      <4>. QED
        BY <4>1, <4>2
    <3>4. buckets[i].latestAt < buckets[i].startedAt + BucketWidth
      BY <2>1 DEF Spaced
    <3>5. buckets[i].startedAt \in Nat /\ buckets[i].latestAt \in Nat
      BY <2>1, BucketFields
    <3>6. buckets[i].startedAt <= t /\ t \in Int
      BY <3>5 DEF Span
    <3>. QED
      BY <2>3, <3>3, <3>4, <3>5, <3>6
  <2>5. PICK m, rec, rows, C : /\ m = Of(buckets) /\ rec = recorded
                               /\ rows = Rows(recorded, prefix) /\ C = Covered(buckets)
    OBVIOUS
  <2>6. m \in Counts
    BY <2>1, <2>5, OfIsCounts
  <2>7. C \in SUBSET Times
    <3>1. \A i \in 1 .. Len(buckets) : Span(buckets[i]) \in SUBSET Times
      BY <2>1, SpanOfBucket
    <3>. QED
      BY <2>5, <3>1 DEF Covered
  <2>8. At(prefixTotals, prefix) = SumFunctionOnSet(rows, C)
    <3>1. prefixTotals = [p \in {p \in PathPrefixes : Under(m, p) > 0} |-> Under(m, p)]
      BY <2>1, <2>5 DEF index, IndexOf
    <3>2. Under(m, prefix) \in Nat
      BY <2>6, KeysAreFinite, SumType DEF Under, Sum
    <3>3. At(prefixTotals, prefix) = Under(m, prefix)
      BY <3>1, <3>2 DEF At, PathPrefixes
    <3> DEFINE columns == [key \in Keys |-> Sum(Moved(rec, key), C)]
    <3>4. \A key \in Below(prefix) : m[key] = columns[key]
      BY <2>1, <2>5, HeldIsCovered DEF Below
    <3>5. Numbers(m, Below(prefix))
      BY <2>6, KeysAreFinite
    <3>6. SumFunctionOnSet(rows, C) = SumFunctionOnSet(columns, Below(prefix))
      BY <2>1, <2>5, <2>7, RowsByKey DEF Sum
    <3>. HIDE DEF columns
    <3>7. SumFunctionOnSet(m, Below(prefix)) = SumFunctionOnSet(columns, Below(prefix))
      BY <3>4, <3>5, SumSame
    <3>. QED
      BY <3>3, <3>6, <3>7 DEF Under, Sum
  <2>9. \A s \in SUBSET Times : Numbers(rows, s)
    BY <2>1, <2>5, RowsByKey
  <2>10. \A time : RecordedSince(prefix, time) = SumFunctionOnSet(rows, {t \in Times : t >= time})
    BY <2>5 DEF RecordedSince, Rows, Sum
  <2>11. RecordedSince(prefix, now - Window) <= At(prefixTotals, prefix)
    <3> DEFINE S == {t \in Times : t >= now - Window}
    <3>1. ASSUME NEW t \in S, t \notin C PROVE rows[t] = 0
      <4>1. \A i \in 1 .. Len(buckets) : t \notin Span(buckets[i])
        BY <2>5, <3>1 DEF Covered
      <4>2. ~(t < now - Window)
        BY <2>3 DEF Times
      <4>3. DOMAIN recorded[t] = {}
        BY <2>1, <4>1, <4>2 DEF Kept
      <4>4. rows[t] = Sum(recorded[t], {})
        BY <2>5, <4>3 DEF Rows
      <4>. QED
        BY <4>4, SumNothing DEF Sum
    <3>2. S \in SUBSET Times
      OBVIOUS
    <3>. HIDE DEF S
    <3> DEFINE R == S \cap C
    <3>3. R \subseteq S /\ R \subseteq C /\ Numbers(rows, S) /\ Numbers(rows, C) /\ Numbers(rows, R)
          /\ \A t \in S \ R : rows[t] = 0
      BY <2>7, <2>9, <3>1, <3>2
    <3>. HIDE DEF R
    <3>4. SumFunctionOnSet(rows, R) = SumFunctionOnSet(rows, S)
      BY <3>3, SumOfMore
    <3>5. SumFunctionOnSet(rows, R) <= SumFunctionOnSet(rows, C)
      BY <3>3, SumOfMore
    <3>6. RecordedSince(prefix, now - Window) = SumFunctionOnSet(rows, S)
      BY <2>10 DEF S
    <3>. QED
      BY <2>8, <3>4, <3>5, <3>6
  <2>12. At(prefixTotals, prefix) <= RecordedSince(prefix, now - Window - BucketWidth + 1)
    <3> DEFINE S == {t \in Times : t >= now - Window - BucketWidth + 1}
    <3>1. C \subseteq S
      BY <2>4, <2>5, <2>7 DEF Covered
    <3>2. S \in SUBSET Times
      OBVIOUS
    <3>3. RecordedSince(prefix, now - Window - BucketWidth + 1) = SumFunctionOnSet(rows, S)
      BY <2>10
    <3>. HIDE DEF S
    <3>4. SumFunctionOnSet(rows, C) <= SumFunctionOnSet(rows, S)
      BY <2>9, <3>1, <3>2, SumOfMore
    <3>. QED
      BY <2>8, <3>3, <3>4
  <2>13. /\ RecordedSince(prefix, now - Window) \in Nat
         /\ At(prefixTotals, prefix) \in Nat
    <3>1. PICK S \in SUBSET Times : S = {t \in Times : t >= now - Window}
      OBVIOUS
    <3>2. SumFunctionOnSet(rows, S) \in Nat /\ SumFunctionOnSet(rows, C) \in Nat
      BY <2>7, <2>9, SumType
    <3>. QED
      BY <2>8, <2>10, <3>1, <3>2
  <2>. QED
    BY <2>11, <2>12, <2>13
<1>. QED
  BY <1>1, KeptInit, KeptNext, PTL DEF Spec

--------------------------------------------------------------------------------
\* The root's rate is that of a RateTracker.

\* A bucket of EventLog as one of RateTracker.
BytesIn(bucket) ==
  [startedAt |-> bucket.startedAt, latestAt |-> bucket.latestAt,
   bytes |-> Sum(bucket.activities, DOMAIN bucket.activities)]

Totalled(bs) == [i \in DOMAIN bs |-> BytesIn(bs[i])]

RateBucket == [startedAt : Times, latestAt : Times, bytes : Nat]

LEMMA TotalledBuckets ==
  ASSUME NEW bs \in Seq(Buckets)
  PROVE  /\ Totalled(bs) \in Seq(RateBucket)
         /\ Len(Totalled(bs)) = Len(bs) /\ Len(bs) \in Nat
         /\ DOMAIN bs = 1 .. Len(bs) /\ DOMAIN Totalled(bs) = 1 .. Len(bs)
         /\ \A i \in 1 .. Len(bs) : /\ Totalled(bs)[i] = BytesIn(bs[i])
                                    /\ Totalled(bs)[i] \in RateBucket
<1>1. Len(bs) \in Nat /\ DOMAIN bs = 1 .. Len(bs) /\ \A i \in 1 .. Len(bs) : bs[i] \in Buckets
  BY LenProperties
<1>2. ASSUME NEW b \in Buckets PROVE BytesIn(b) \in RateBucket
  <2>1. PICK K \in SUBSET Keys : b.activities \in [K -> Nat \ {0}]
    BY DEF Buckets
  <2>2. Numbers(b.activities, DOMAIN b.activities)
    BY <2>1, KeysAreFinite DEF Numbers
  <2>3. PICK f, D : f = b.activities /\ D = DOMAIN b.activities
    OBVIOUS
  <2>4. SumFunctionOnSet(f, D) \in Nat
    BY <2>2, <2>3, SumType
  <2>5. b.startedAt \in Times /\ b.latestAt \in Times
    BY DEF Buckets
  <2>. QED
    BY <2>3, <2>4, <2>5 DEF BytesIn, RateBucket, Sum
<1>3. PICK s : s = Totalled(bs)
  OBVIOUS
<1>4. s = [i \in 1 .. Len(bs) |-> BytesIn(bs[i])]
  BY <1>1, <1>3 DEF Totalled
<1>5. \A i \in 1 .. Len(bs) : s[i] = BytesIn(bs[i]) /\ s[i] \in RateBucket
  BY <1>1, <1>2, <1>4
<1>6. s \in [1 .. Len(bs) -> RateBucket]
  BY <1>4, <1>5
<1>7. s \in Seq(RateBucket) /\ Len(s) = Len(bs)
  <2>1. s \in Seq(RateBucket)
    <3>1. PICK n \in Nat : n = Len(bs)
      BY <1>1
    <3>2. s \in [1 .. n -> RateBucket]
      BY <1>6, <3>1
    <3>. QED
      BY <3>2, SeqDef
  <2>2. DOMAIN s = 1 .. Len(s) /\ Len(s) \in Nat
    BY <2>1, LenProperties
  <2>3. PICK n, m \in Nat : n = Len(s) /\ m = Len(bs)
    BY <1>1, <2>2
  <2>4. DOMAIN s = 1 .. m
    BY <1>6, <2>3
  <2>5. 1 .. n = 1 .. m
    BY <2>2, <2>3, <2>4
  <2>6. n = m
    BY <2>5
  <2>. QED
    BY <2>1, <2>3, <2>6
<1>. QED
  BY <1>1, <1>3, <1>4, <1>5, <1>7

LEMMA TotalledPart ==
  ASSUME NEW bs \in Seq(Buckets), NEW a \in Int, NEW b \in Int, 1 <= a, b <= Len(bs)
  PROVE  SubSeq(Totalled(bs), a, b) = Totalled(SubSeq(bs, a, b))
<1>1. PICK n, t : n = Len(bs) /\ t = Totalled(bs)
  OBVIOUS
<1>2. /\ n \in Nat /\ \A i \in a .. b : i \in 1 .. n
      /\ \A i \in 1 .. n : bs[i] \in Buckets /\ t[i] = BytesIn(bs[i]) /\ t[i] \in RateBucket
  BY <1>1, TotalledBuckets, LenProperties
<1>3. PICK p, q : p = SubSeq(bs, a, b) /\ q = SubSeq(t, a, b)
  OBVIOUS
<1>4. /\ p \in Seq(Buckets) /\ Len(p) = IF a <= b THEN b - a + 1 ELSE 0
      /\ \A i \in 1 .. b - a + 1 : p[i] = bs[a + i - 1]
  <2>1. \A i \in a .. b : bs[i] \in Buckets
    BY <1>2
  <2>. QED
    BY <1>3, <2>1, SubSeqProperties
<1>5. /\ q \in Seq(RateBucket) /\ Len(q) = IF a <= b THEN b - a + 1 ELSE 0
      /\ \A i \in 1 .. b - a + 1 : q[i] = t[a + i - 1]
  <2>1. \A i \in a .. b : t[i] \in RateBucket
    BY <1>2
  <2>. QED
    BY <1>3, <2>1, SubSeqProperties
<1>6. PICK r : r = Totalled(p)
  OBVIOUS
<1>7. r \in Seq(RateBucket) /\ Len(r) = Len(p) /\ \A i \in 1 .. Len(p) : r[i] = BytesIn(p[i])
  BY <1>4, <1>6, TotalledBuckets
<1>8. ASSUME NEW i \in 1 .. Len(q) PROVE q[i] = r[i]
  <2>1. i \in 1 .. b - a + 1 /\ i \in 1 .. Len(p) /\ a + i - 1 \in 1 .. n
    BY <1>2, <1>4, <1>5
  <2>. QED
    BY <1>2, <1>4, <1>5, <1>7, <2>1
<1>9. Len(q) = Len(r)
  BY <1>4, <1>5, <1>7
<1>10. q = r
  BY <1>5, <1>7, <1>8, <1>9, SeqEqual
<1>. QED
  BY <1>1, <1>3, <1>6, <1>10

\* RateTracker has the definitions of RateBuckets too.
LEMMA TrackersBuckets ==
  ASSUME NEW bs
  PROVE  /\ \A t : Tracker!ExpiredBuckets(bs, t) = ExpiredBuckets(bs, t)
         /\ \A t : Tracker!LiveBuckets(bs, t) = LiveBuckets(bs, t)
         /\ \A t : Tracker!JoinsLast(bs, t) = JoinsLast(bs, t)
         /\ Tracker!SurplusBuckets(bs) = SurplusBuckets(bs)
         /\ Tracker!KeptBuckets(bs) = KeptBuckets(bs)
<1>1. \A S : Tracker!Cardinality(S) = Cardinality(S)
  BY DEF Tracker!Cardinality, Cardinality
<1>2. \A t : Tracker!Expired(bs, t) = Expired(bs, t)
  BY <1>1 DEF Tracker!Expired, Expired
<1>3. Tracker!BucketWidth = BucketWidth
  BY DEF Tracker!BucketWidth, BucketWidth, Tracker!DivCeil, DivCeil
<1>4. Tracker!Surplus(bs) = Surplus(bs)
  BY DEF Tracker!Surplus, Surplus
<1>5. \A t : Tracker!JoinsLast(bs, t) = JoinsLast(bs, t)
  BY <1>3 DEF Tracker!JoinsLast, JoinsLast
<1>. QED
  BY <1>2, <1>4, <1>5 DEF Tracker!ExpiredBuckets, ExpiredBuckets, Tracker!LiveBuckets, LiveBuckets,
     Tracker!SurplusBuckets, SurplusBuckets, Tracker!KeptBuckets, KeptBuckets

LEMMA TotalledExpiry ==
  ASSUME NEW time \in Times, NEW bs, Spaced(bs, time)
  PROVE  /\ ExpiredBuckets(Totalled(bs), time) = Totalled(ExpiredBuckets(bs, time))
         /\ LiveBuckets(Totalled(bs), time) = Totalled(LiveBuckets(bs, time))
<1>1. bs \in Seq(Buckets) /\ Len(bs) \in Nat
  BY LenProperties DEF Spaced
<1>2. PICK t : t = Totalled(bs)
  OBVIOUS
<1>3. /\ DOMAIN t = 1 .. Len(bs) /\ DOMAIN bs = 1 .. Len(bs) /\ Len(t) = Len(bs)
      /\ \A i \in 1 .. Len(bs) : t[i].latestAt = bs[i].latestAt
  <2>1. /\ DOMAIN t = 1 .. Len(bs) /\ DOMAIN bs = 1 .. Len(bs) /\ Len(t) = Len(bs)
        /\ \A i \in 1 .. Len(bs) : t[i] = BytesIn(bs[i])
    BY <1>1, <1>2, TotalledBuckets
  <2>2. \A b : BytesIn(b).latestAt = b.latestAt
    BY DEF BytesIn
  <2>. QED
    BY <2>1, <2>2
<1>4. {i \in DOMAIN t : \A j \in 1 .. i : t[j].latestAt < time - Window} =
        {i \in DOMAIN bs : \A j \in 1 .. i : bs[j].latestAt < time - Window}
  <2>1. ASSUME NEW i \in 1 .. Len(bs), NEW j \in 1 .. i PROVE t[j].latestAt = bs[j].latestAt
    <3>1. j \in 1 .. Len(bs)
      BY <1>1
    <3>. QED
      BY <1>3, <3>1
  <2>. QED
    BY <1>3, <2>1
<1>5. PICK e \in 0 .. Len(bs) : Expired(bs, time) = e
  BY ExpiredIsPrefix
<1>6. Expired(t, time) = e
  BY <1>4, <1>5 DEF Expired
<1>7. /\ ExpiredBuckets(t, time) = SubSeq(t, 1, e) /\ ExpiredBuckets(bs, time) = SubSeq(bs, 1, e)
      /\ LiveBuckets(t, time) = SubSeq(t, e + 1, Len(bs))
      /\ LiveBuckets(bs, time) = SubSeq(bs, e + 1, Len(bs))
  BY <1>3, <1>5, <1>6 DEF ExpiredBuckets, LiveBuckets
<1>8. 1 \in Int /\ e \in Int /\ e + 1 \in Int /\ Len(bs) \in Int /\ 1 <= e + 1 /\ e <= Len(bs)
  BY <1>1
<1>. QED
  BY <1>1, <1>2, <1>7, <1>8, TotalledPart

LEMMA TotalledOperation ==
  ASSUME NEW rest, now \in Times, Spaced(rest, now), NEW key \in Keys, NEW bytes \in Nat \ {0}
  PROVE  Tracker!WithOperation(Totalled(rest), bytes) = Totalled(WithOperation(rest, key, bytes))
<1>1. PICK bs : bs = WithOperation(rest, key, bytes)
  OBVIOUS
<1>2. Extended(bs, rest, key, bytes)
  BY <1>1, OperationExtends
<1>3. PICK t, u : t = Totalled(rest) /\ u = Totalled(bs)
  OBVIOUS
<1>4. rest \in Seq(Buckets) /\ bs \in Seq(Buckets)
  BY <1>2 DEF Spaced, Extended
<1>5. PICK n, m : n = Len(bs) /\ m = Len(rest)
  OBVIOUS
<1>6. /\ t \in Seq(RateBucket) /\ Len(t) = m /\ m \in Nat
      /\ u \in Seq(RateBucket) /\ Len(u) = n /\ n \in Nat
      /\ \A i \in 1 .. m : t[i] = BytesIn(rest[i]) /\ t[i] \in RateBucket /\ rest[i] \in Buckets
      /\ \A i \in 1 .. n : u[i] = BytesIn(bs[i]) /\ u[i] \in RateBucket /\ bs[i] \in Buckets
  BY <1>3, <1>4, <1>5, TotalledBuckets, LenProperties
<1>7. n >= 1 /\ (n = m \/ n = m + 1) /\ \A i \in 1 .. n - 1 : bs[i] = rest[i]
  BY <1>2, <1>5 DEF Extended
<1>8. ASSUME NEW f, NEW K \in SUBSET Keys, f \in [K -> Nat \ {0}]
      PROVE  Sum(Plus(f, key, bytes), DOMAIN Plus(f, key, bytes)) = Sum(f, DOMAIN f) + bytes
  <2> DEFINE g == Plus(f, key, bytes)
             D == K \cup {key}
             E == K \ {key}
  <2>1. DOMAIN f = K /\ DOMAIN g = D /\ g[key] = At(f, key) + bytes
        /\ (\A k \in E : g[k] = f[k]) /\ (\A k \in D : g[k] \in Nat) /\ At(f, key) \in Nat
    BY <1>8 DEF Plus, At
  <2>2. Numbers(g, D) /\ Numbers(g, E) /\ Numbers(f, K) /\ key \in D /\ D \ {key} = E
    BY <1>8, <2>1, KeysAreFinite DEF Numbers
  <2>3. SumFunctionOnSet(f, K) = At(f, key) + SumFunctionOnSet(f, E)
    <3>1. CASE key \in K
      BY <2>2, <3>1, <1>8, SumRemove DEF At
    <3>2. CASE key \notin K
      <4>1. E = K /\ At(f, key) = 0
        BY <1>8, <3>2 DEF At
      <4>2. SumFunctionOnSet(f, K) \in Nat
        BY <2>2, SumType
      <4>. QED
        BY <4>1, <4>2
    <3>. QED
      BY <3>1, <3>2
  <2>. HIDE DEF g, D, E
  <2>4. SumFunctionOnSet(g, D) = g[key] + SumFunctionOnSet(g, D \ {key})
    BY <2>2, SumRemove
  <2>5. SumFunctionOnSet(g, E) = SumFunctionOnSet(f, E) /\ SumFunctionOnSet(g, E) \in Nat
    BY <2>1, <2>2, SumSame, SumType
  <2>6. SumFunctionOnSet(g, D) = SumFunctionOnSet(f, K) + bytes
    <3>1. PICK a, v \in Nat : a = At(f, key) /\ v = SumFunctionOnSet(f, E)
      BY <2>1, <2>5
    <3>2. g[key] = a + bytes
      BY <2>1, <3>1
    <3>3. SumFunctionOnSet(g, D) = (a + bytes) + v
      BY <2>2, <2>4, <2>5, <3>1, <3>2
    <3>4. SumFunctionOnSet(f, K) = a + v
      BY <2>3, <3>1
    <3>. QED
      BY <3>3, <3>4
  <2>. QED
    BY <2>1, <2>6 DEF Sum, g
<1>9. CASE JoinsLast(rest, now)
  <2>1. n = m /\ m \in 1 .. m
    <3>1. bs = [rest EXCEPT ![m] = Longer(rest[m], key, bytes)]
      BY <1>1, <1>5, <1>9, Zenon DEF WithOperation
    <3>2. DOMAIN bs = DOMAIN rest
      BY <3>1
    <3>3. DOMAIN bs = 1 .. n /\ DOMAIN rest = 1 .. m
      BY <1>4, <1>5, LenProperties
    <3>4. 1 .. n = 1 .. m
      BY <3>2, <3>3, Zenon
    <3>. QED
      BY <1>6, <1>7, <3>4
  <2>2. /\ bs[m].startedAt = rest[m].startedAt /\ bs[m].latestAt = now
        /\ bs[m].activities = Plus(rest[m].activities, key, bytes)
    BY <1>2, <1>5, <2>1 DEF Extended
  <2>3. PICK K \in SUBSET Keys : rest[m].activities \in [K -> Nat \ {0}]
    BY <1>6, <2>1, ZenonT(300) DEF Buckets
  <2>4. PICK r \in RateBucket : r = t[m]
    BY <1>6, <2>1
  <2>5. /\ r.startedAt = rest[m].startedAt
        /\ r.bytes = Sum(rest[m].activities, DOMAIN rest[m].activities)
    BY <1>6, <2>1, <2>4 DEF BytesIn
  <2>6. u[m] = [startedAt |-> r.startedAt, latestAt |-> now, bytes |-> r.bytes + bytes]
    <3>1. u[m] = BytesIn(bs[m])
      BY <1>6, <2>1
    <3>2. PICK f : f = rest[m].activities
      OBVIOUS
    <3>3. Sum(Plus(f, key, bytes), DOMAIN Plus(f, key, bytes)) = Sum(f, DOMAIN f) + bytes
      BY <1>8, <2>3, <3>2
    <3>4. BytesIn(bs[m]) = [startedAt |-> r.startedAt, latestAt |-> now,
                            bytes |-> Sum(Plus(f, key, bytes), DOMAIN Plus(f, key, bytes))]
      BY <2>2, <2>5, <3>2 DEF BytesIn
    <3>. QED
      BY <2>5, <3>1, <3>2, <3>3, <3>4
  <2>7. Tracker!Longer(r, bytes) = u[m]
    <3>1. r = [startedAt |-> r.startedAt, latestAt |-> r.latestAt, bytes |-> r.bytes]
      BY DEF RateBucket
    <3>2. PICK r1 : r1 = [r EXCEPT !.latestAt = now]
      OBVIOUS
    <3>3. r1 = [startedAt |-> r.startedAt, latestAt |-> now, bytes |-> r.bytes]
      BY <3>1, <3>2
    <3>4. PICK r2 : r2 = [r1 EXCEPT !.bytes = r.bytes + bytes]
      OBVIOUS
    <3>5. r2 = [startedAt |-> r.startedAt, latestAt |-> now, bytes |-> r.bytes + bytes]
      BY <3>3, <3>4
    <3>6. Tracker!Longer(r, bytes) = r2
      BY <3>2, <3>4 DEF Tracker!Longer
    <3>. QED
      BY <2>6, <3>5, <3>6
  <2>8. Tracker!JoinsLast(t, now)
    <3>1. t # <<>> /\ t[Len(t)].startedAt = rest[m].startedAt
      BY <1>6, <2>1, <2>4, <2>5, EmptySeq
    <3>2. JoinsLast(t, now)
      BY <1>5, <1>9, <3>1 DEF JoinsLast
    <3>. QED
      BY <3>2, TrackersBuckets
  <2>9. PICK v : v = [t EXCEPT ![m] = u[m]]
    OBVIOUS
  <2>10. Tracker!WithOperation(t, bytes) = v
    <3>1. Tracker!WithOperation(t, bytes) = [t EXCEPT ![Len(t)] = Tracker!Longer(t[Len(t)], bytes)]
      BY <2>8, Zenon DEF Tracker!WithOperation
    <3>. QED
      BY <1>6, <2>4, <2>7, <2>9, <3>1
  <2>11. v \in Seq(RateBucket) /\ Len(v) = m /\ \A i \in 1 .. m : v[i] = IF i = m THEN u[m] ELSE t[i]
    BY <1>6, <2>1, <2>9, ExceptSeq
  <2>12. ASSUME NEW i \in 1 .. m PROVE v[i] = u[i]
    <3>1. CASE i = m
      BY <2>11, <3>1
    <3>2. CASE i # m
      <4>1. i \in 1 .. n - 1
        BY <1>6, <2>1, <3>2
      <4>. QED
        BY <1>6, <1>7, <2>1, <2>11, <3>2, <4>1
    <3>. QED
      BY <3>1, <3>2
  <2>13. v = u
    BY <1>6, <2>1, <2>11, <2>12, SeqEqual
  <2>. QED
    BY <1>1, <1>3, <2>10, <2>13
<1>10. CASE ~JoinsLast(rest, now)
  <2>1. n = m + 1
    <3>1. PICK b : bs = Append(rest, b)
      BY <1>1, <1>10 DEF WithOperation
    <3>. QED
      BY <1>4, <1>5, <1>6, <1>7, <3>1, AppendProperties
  <2>2. bs[n].startedAt = now /\ bs[n].latestAt = now /\ bs[n].activities = Plus(<<>>, key, bytes)
    BY <1>2, <1>5, <2>1 DEF Extended
  <2>3. u[n] = [startedAt |-> now, latestAt |-> now, bytes |-> bytes]
    <3>1. PICK f : f = <<>>
      OBVIOUS
    <3>2. f \in [{} -> Nat \ {0}] /\ DOMAIN f = {} /\ {} \in SUBSET Keys
      BY <3>1, EmptyQueue
    <3>3. Sum(f, DOMAIN f) = 0
      BY <3>2, SumNothing DEF Sum
    <3>4. Sum(Plus(f, key, bytes), DOMAIN Plus(f, key, bytes)) = Sum(f, DOMAIN f) + bytes
      BY <1>8, <3>2
    <3>5. n \in 1 .. n
      BY <1>6, <1>7
    <3>6. u[n] = BytesIn(bs[n])
      BY <1>6, <3>5
    <3>. QED
      BY <2>2, <3>1, <3>3, <3>4, <3>6 DEF BytesIn
  <2>4. ~Tracker!JoinsLast(t, now)
    <3>1. ~JoinsLast(t, now)
      <4>1. CASE m = 0
        BY <1>6, <4>1, EmptySeq DEF JoinsLast
      <4>2. CASE m # 0
        <5>1. m \in 1 .. m /\ rest # <<>>
          BY <1>5, <1>6, <4>2, EmptySeq
        <5>2. t[m].startedAt = rest[m].startedAt
          BY <1>6, <5>1 DEF BytesIn
        <5>. QED
          BY <1>5, <1>6, <1>10, <5>1, <5>2 DEF JoinsLast
      <4>. QED
        BY <4>1, <4>2
    <3>. QED
      BY <3>1, TrackersBuckets
  <2>5. PICK v : v = Append(t, u[n])
    OBVIOUS
  <2>6. Tracker!WithOperation(t, bytes) = v
    BY <2>3, <2>4, <2>5, Zenon DEF Tracker!WithOperation
  <2>7. n \in 1 .. n /\ u[n] \in RateBucket
    BY <1>6, <1>7
  <2>8. v \in Seq(RateBucket) /\ Len(v) = m + 1 /\ v[m + 1] = u[n] /\ \A i \in 1 .. m : v[i] = t[i]
    BY <1>6, <2>5, <2>7, AppendProperties
  <2>9. ASSUME NEW i \in 1 .. m + 1 PROVE v[i] = u[i]
    <3>1. CASE i = m + 1
      BY <2>1, <2>8, <3>1
    <3>2. CASE i # m + 1
      <4>1. i \in 1 .. n - 1 /\ i \in 1 .. m /\ i \in 1 .. n
        BY <1>6, <2>1, <3>2
      <4>. QED
        BY <1>6, <1>7, <2>8, <4>1
    <3>. QED
      BY <3>1, <3>2
  <2>10. v = u
    BY <1>6, <2>1, <2>8, <2>9, SeqEqual
  <2>. QED
    BY <1>1, <1>3, <2>6, <2>10
<1>. QED
  BY <1>9, <1>10

\* What the buckets hold in all: a sum by bucket, and by key.
LEMMA TotalByKey ==
  ASSUME NEW bs \in Seq(Buckets), NEW b, b = [i \in DOMAIN bs |-> BytesIn(bs[i]).bytes]
  PROVE  /\ Numbers(b, DOMAIN bs)
         /\ SumFunctionOnSet(b, DOMAIN bs) = Under(Of(bs), Root)
<1> DEFINE D == DOMAIN bs
           F == [p \in D \X Keys |-> At(bs[p[1]].activities, p[2])]
<1>1. IsFiniteSet(D) /\ IsFiniteSet(Keys)
  BY EachIsNumber, KeysAreFinite
<1>2. \A i \in D, key \in Keys : At(bs[i].activities, key) \in Nat /\ InEach(bs, key)[i] = At(bs[i].activities, key)
  BY EachIsNumber
<1>3. F \in [D \X Keys -> Nat] /\ \A i \in D, key \in Keys : F[<<i, key>>] = At(bs[i].activities, key)
  BY <1>2
<1>4. ASSUME NEW i \in D
      PROVE  b[i] = SumFunctionOnSet(Row(F, Keys, i), Keys) /\ b[i] \in Nat
  <2> DEFINE r == bs[i].activities
             f == Row(F, Keys, i)
             C == DOMAIN r
  <2>1. PICK K \in SUBSET Keys : r \in [K -> Nat \ {0}]
    <3>1. bs[i] \in Buckets
      BY EachIsNumber
    <3>. QED
      BY <3>1 DEF Buckets
  <2>2. \A key \in Keys : f[key] = At(r, key) /\ f[key] \in Nat
    BY <1>2, <1>3 DEF Row
  <2>3. C \subseteq Keys /\ \A key \in C : f[key] = r[key]
    BY <2>1, <2>2 DEF At
  <2>4. \A key \in Keys \ C : f[key] = 0
    BY <2>2 DEF At
  <2>5. b[i] = SumFunctionOnSet(r, C)
    BY DEF BytesIn, Sum
  <2>. HIDE DEF C, f, r, F
  <2>6. Numbers(f, Keys)
    BY <1>1, <2>2 DEF Numbers
  <2>7. SumFunctionOnSet(f, C) = SumFunctionOnSet(f, Keys) /\ Numbers(f, C) /\ SumFunctionOnSet(f, Keys) \in Nat
    BY <2>3, <2>4, <2>6, SumOfMore, SumPart, SumType
  <2>8. SumFunctionOnSet(f, C) = SumFunctionOnSet(r, C)
    BY <2>3, <2>7, SumSame
  <2>9. b[i] = SumFunctionOnSet(f, Keys) /\ b[i] \in Nat
    BY <2>5, <2>7, <2>8
  <2>. QED
    BY <2>9 DEF f
<1>5. ASSUME NEW key \in Keys
      PROVE  Of(bs)[key] = SumFunctionOnSet(Column(F, D, key), D)
  <2> DEFINE f == Column(F, D, key)
             g == InEach(bs, key)
  <2>1. \A i \in D : g[i] = f[i]
    BY <1>2, <1>3 DEF Column
  <2>2. Numbers(g, D)
    <3>1. D \in SUBSET DOMAIN bs
      OBVIOUS
    <3>. QED
      BY <3>1, EachIsNumber
  <2>3. Of(bs)[key] = SumFunctionOnSet(g, D)
    BY DEF Of, Sum
  <2>. HIDE DEF f, g, F
  <2>4. SumFunctionOnSet(g, D) = SumFunctionOnSet(f, D)
    BY <2>1, <2>2, SumSame
  <2>5. Of(bs)[key] = SumFunctionOnSet(f, D)
    BY <2>3, <2>4
  <2>. QED
    BY <2>5 DEF f
<1>6. PICK c : c = Of(bs)
  OBVIOUS
<1>. HIDE DEF F, D
<1>7. IsTable(F, D, Keys, b, c)
  BY <1>1, <1>3, <1>4, <1>5, <1>6 DEF IsTable
<1>8. SumFunctionOnSet(b, D) = SumFunctionOnSet(c, Keys)
  BY <1>7, SumOfTable
<1>9. Below(Root) = Keys
  BY EventLogAssumption DEF Below, Keys
<1>10. Numbers(b, D)
  BY <1>1, <1>4 DEF Numbers
<1>. QED
  BY <1>6, <1>8, <1>9, <1>10 DEF Under, Sum, D

\* What leaves a RateTracker with some buckets is what the index loses.
LEMMA BytesOfBuckets ==
  ASSUME NEW bs \in Seq(Buckets)
  PROVE  /\ Tracker!BytesOf(Totalled(bs)) = Under(Of(bs), Root)
         /\ Under(Of(bs), Root) \in Nat
<1> DEFINE D == DOMAIN bs
           b == [i \in D |-> BytesIn(bs[i]).bytes]
           t == Totalled(bs)
           IsFold(g) == g = [s \in SUBSET D |-> IF s = {} THEN 0 ELSE g[s \ {Max(s)}] + t[Max(s)].bytes]
           g == CHOOSE g : IsFold(g)
           h == [s \in SUBSET D |-> SumFunctionOnSet(b, s)]
<1>1. Tracker!BytesOf(t) = g[D]
  <2>1. \A s : Tracker!Max(s) = Max(s)
    BY DEF Tracker!Max, Max
  <2>2. DOMAIN t = D
    BY DEF Totalled
  <2>. HIDE DEF t, D
  <2>3. Tracker!BytesOf(t) =
         (CHOOSE f : f = [s \in SUBSET DOMAIN t |-> IF s = {} THEN 0
                                                   ELSE f[s \ {Tracker!Max(s)}] + t[Tracker!Max(s)].bytes])[DOMAIN t]
    BY DEF Tracker!BytesOf, Tracker!FoldLeft, Tracker!MapThenFoldSet
  <2>. QED
    BY <2>1, <2>2, <2>3, ZenonT(150)
<1>2. IsFiniteSet(D) /\ Numbers(b, D)
  BY EachIsNumber, TotalByKey
<1>3. \A i \in D : t[i].bytes = b[i]
  BY DEF Totalled
<1>4. ASSUME NEW s \in SUBSET D, s # {} PROVE Max(s) \in s
  <2>1. Len(bs) \in Nat /\ s \in SUBSET (0 .. Len(bs))
    BY LenProperties
  <2>. QED
    BY <1>4, <2>1, LargestNumber
<1>5. SumFunctionOnSet(b, D) = Under(Of(bs), Root)
  BY TotalByKey
<1>. HIDE DEF D, b, t
<1>6. \A s \in SUBSET D : h[s] = SumFunctionOnSet(b, s)
  OBVIOUS
<1>7. IsFold(h)
  <2>1. ASSUME NEW s \in SUBSET D, s # {}
        PROVE  h[s] = h[s \ {Max(s)}] + t[Max(s)].bytes
    <3>1. PICK x : x = Max(s)
      OBVIOUS
    <3>2. x \in s /\ x \in D
      BY <1>4, <2>1, <3>1
    <3>3. /\ b[x] \in Nat /\ SumFunctionOnSet(b, s \ {x}) \in Nat
          /\ SumFunctionOnSet(b, s) = b[x] + SumFunctionOnSet(b, s \ {x})
      BY <1>2, <3>2, SumPart, SMTT(60)
    <3>4. h[s \ {x}] = SumFunctionOnSet(b, s \ {x}) /\ h[s] = SumFunctionOnSet(b, s) /\ t[x].bytes = b[x]
      BY <1>3, <1>6, <3>2
    <3>. HIDE DEF h
    <3>5. h[s] = h[s \ {x}] + t[x].bytes
      BY <3>3, <3>4
    <3>. QED
      BY <3>1, <3>5
  <2>2. h[{}] = 0
    BY <1>6, SumNothing
  <2>3. h = [s \in SUBSET D |-> h[s]]
    OBVIOUS
  <2>. HIDE DEF h
  <2>. QED
    BY <2>1, <2>2, <2>3
<1>. HIDE DEF h
<1>8. IsFold(g)
  <2>. HIDE DEF IsFold
  <2>. QED
    BY <1>7
<1>. HIDE DEF g
<1> DEFINE T == {s \in SUBSET D : g[s] = h[s]}
<1>9. {} \in T
  BY <1>7, <1>8
<1>10. ASSUME NEW s \in SUBSET D, s # {}, \A x \in s : s \ {x} \in T PROVE s \in T
  <2>1. PICK x : x = Max(s)
    OBVIOUS
  <2>2. x \in s
    BY <1>4, <1>10, <2>1
  <2>3. g[s] = g[s \ {x}] + t[x].bytes /\ h[s] = h[s \ {x}] + t[x].bytes
    BY <1>7, <1>8, <1>10, <2>1
  <2>. QED
    BY <1>10, <2>2, <2>3
<1>. HIDE DEF T
<1>11. SUBSET D \subseteq T
  BY <1>2, <1>9, <1>10, AllSubsets
<1>12. D \in SUBSET D
  OBVIOUS
<1>13. g[D] = h[D]
  BY <1>11, <1>12 DEF T
<1>14. SumFunctionOnSet(b, D) \in Nat
  BY <1>2, SumType
<1>. QED
  BY <1>1, <1>5, <1>6, <1>12, <1>13, <1>14 DEF t

LEMMA TotalledNothing ==
  /\ Totalled(<<>>) = <<>>
  /\ Tracker!BytesOf(<<>>) = 0
<1>1. Totalled(<<>>) = <<>>
  BY EmptyQueue DEF Totalled
<1>2. <<>> \in Seq(Buckets)
  BY EmptySeq
<1>3. Tracker!BytesOf(<<>>) = Under(Of(<<>>), Root)
  BY <1>1, <1>2, BytesOfBuckets
<1>4. PICK m : m = Of(<<>>)
  OBVIOUS
<1>5. IsFiniteSet(Below(Root)) /\ \A key \in Below(Root) : m[key] = 0
  BY <1>4, OfNothing, KeysAreFinite
<1>6. Under(m, Root) = 0
  BY <1>5, SumNoNumbers DEF Under, Sum
<1>. QED
  BY <1>1, <1>3, <1>4, <1>6

RootIsTotal == At(prefixTotals, Root) = Under(Of(buckets), Root)

LEMMA RootOfIndex == BucketsInv => RootIsTotal
<1>. SUFFICES ASSUME BucketsInv PROVE RootIsTotal
  OBVIOUS
<1>1. PICK m : m = Of(buckets)
  OBVIOUS
<1>2. m \in Counts
  BY <1>1, OfIsCounts DEF BucketsInv, Spaced
<1>3. prefixTotals = [p \in {p \in PathPrefixes : Under(m, p) > 0} |-> Under(m, p)]
  BY <1>1 DEF BucketsInv, index, IndexOf
<1>4. Under(m, Root) \in Nat
  BY <1>2, KeysAreFinite, SumType DEF Under, Sum
<1>. QED
  BY <1>1, <1>3, <1>4 DEF At, PathPrefixes, RootIsTotal

LEMMA RootOfNextIndex == BucketsInv' => RootIsTotal'
BY RootOfIndex, PTL

LEMMA UnderAdds ==
  ASSUME NEW m, NEW g \in Counts, NEW r \in Counts, NEW prefix, \A key \in Keys : m[key] = g[key] + r[key]
  PROVE  Under(m, prefix) = Under(g, prefix) + Under(r, prefix)
<1> DEFINE B == Below(prefix)
<1>1. Numbers(g, B) /\ Numbers(r, B) /\ \A key \in B : m[key] = g[key] + r[key]
  BY KeysAreFinite
<1>. HIDE DEF B
<1>2. SumFunctionOnSet(m, B) = SumFunctionOnSet(g, B) + SumFunctionOnSet(r, B)
  BY <1>1, SumAdds
<1>. QED
  BY <1>2 DEF Under, Sum, B

\* What expires, in bytes.
LEMMA RootExpires ==
  ASSUME NEW time \in Times, NEW bs, Spaced(bs, time)
  PROVE  Tracker!Less(Under(Of(bs), Root), Tracker!BytesOf(Tracker!ExpiredBuckets(Totalled(bs), time)))
           = Under(Of(LiveBuckets(bs, time)), Root)
<1>1. PICK gone, rest : gone = ExpiredBuckets(bs, time) /\ rest = LiveBuckets(bs, time)
  OBVIOUS
<1>2. PICK e \in 0 .. Len(bs) : Parts(bs, e, gone, rest)
  BY <1>1, LiveIsRest
<1>3. bs \in Seq(Buckets) /\ gone \in Seq(Buckets) /\ rest \in Seq(Buckets)
  BY <1>2 DEF Spaced, Parts
<1>4. PICK m, g, r : m = Of(bs) /\ g = Of(gone) /\ r = Of(rest)
  OBVIOUS
<1>5. \A key \in Keys : m[key] = g[key] + r[key]
  BY <1>2, <1>3, <1>4, OfParts
<1>6. g \in Counts /\ r \in Counts
  BY <1>3, <1>4, OfIsCounts
<1>7. Under(m, Root) = Under(g, Root) + Under(r, Root)
  BY <1>5, <1>6, UnderAdds
<1>8. PICK v, w \in Nat : v = Under(g, Root) /\ w = Under(r, Root)
  BY <1>3, <1>4, BytesOfBuckets
<1>9. Tracker!BytesOf(Tracker!ExpiredBuckets(Totalled(bs), time)) = v
  <2>1. Tracker!ExpiredBuckets(Totalled(bs), time) = Totalled(gone)
    BY <1>1, TrackersBuckets, TotalledExpiry
  <2>2. Tracker!BytesOf(Totalled(gone)) = Under(Of(gone), Root)
    BY <1>3, BytesOfBuckets
  <2>. QED
    BY <1>4, <1>8, <2>1, <2>2
<1>10. Under(m, Root) = v + w /\ Under(r, Root) = w
  BY <1>7, <1>8
<1>11. Tracker!Less(v + w, v) = w
  BY <1>8 DEF Tracker!Less
<1>. QED
  BY <1>1, <1>4, <1>9, <1>10, <1>11

\* What an operation adds, in bytes, and that nothing is trimmed.
LEMMA RootGrows ==
  ASSUME now \in Times, NEW live, Spaced(live, now), NEW key \in Keys, NEW bytes \in Nat \ {0},
         NEW grown, grown = WithOperation(live, key, bytes), Len(grown) <= MaxTimeBuckets,
         NEW more, more = Tracker!WithOperation(Totalled(live), bytes)
  PROVE  /\ Tracker!KeptBuckets(more) = Totalled(KeptBuckets(grown))
         /\ Tracker!Less(Under(Of(live), Root) + bytes, Tracker!BytesOf(Tracker!SurplusBuckets(more)))
              = Under(Of(KeptBuckets(grown)), Root)
<1>1. Extended(grown, live, key, bytes) /\ more = Totalled(grown)
  BY OperationExtends, TotalledOperation
<1>2. grown \in Seq(Buckets) /\ live \in Seq(Buckets)
  BY <1>1 DEF Extended, Spaced
<1>3. KeptBuckets(grown) = grown
  BY <1>2, NothingTrimmed
<1>4. PICK n \in Nat : n = Len(grown)
  BY <1>2, LenProperties
<1>5. Len(more) = n
  BY <1>1, <1>2, <1>4, TotalledBuckets
<1>6. Surplus(grown) = 0 /\ Surplus(more) = 0
  BY <1>4, <1>5, RateBucketsAssumption DEF Surplus
<1>7. KeptBuckets(more) = Totalled(KeptBuckets(grown))
  <2>1. KeptBuckets(more) = SubSeq(more, 0 + 1, n) /\ KeptBuckets(grown) = SubSeq(grown, 0 + 1, n)
    BY <1>4, <1>5, <1>6 DEF KeptBuckets
  <2>2. 0 + 1 \in Int /\ n \in Int /\ 1 <= 0 + 1 /\ n <= Len(grown)
    BY <1>4
  <2>. QED
    BY <1>1, <1>2, <2>1, <2>2, TotalledPart
<1>8. SurplusBuckets(more) = <<>>
  <2>1. SurplusBuckets(more) = SubSeq(more, 1, 0) /\ SurplusBuckets(grown) = SubSeq(grown, 1, 0)
    BY <1>6 DEF SurplusBuckets
  <2>2. SubSeq(more, 1, 0) = Totalled(SubSeq(grown, 1, 0))
    <3>1. 1 \in Int /\ 0 \in Int /\ 1 <= 1 /\ 0 <= Len(grown)
      BY <1>4
    <3>. QED
      BY <1>1, <1>2, <3>1, TotalledPart
  <2>3. SurplusBuckets(grown) = <<>>
    BY <1>2, NothingTrimmed
  <2>. QED
    BY <2>1, <2>2, <2>3, TotalledNothing
<1>9. PICK m, r : m = Of(grown) /\ r = Of(live)
  OBVIOUS
<1>10. OneMore(m, r, key, bytes)
  BY <1>1, <1>2, <1>9, OfExtended
<1>11. Root \in PrefixesOf[key[1]]
  BY EventLogAssumption DEF Keys
<1>12. PICK v, w \in Nat : v = Under(r, Root) /\ w = Under(m, Root) /\ w = v + bytes
  BY <1>10, <1>11, UnderMore
<1>13. Tracker!Less(v + bytes, 0) = w
  BY <1>12 DEF Tracker!Less
<1>. QED
  BY <1>3, <1>7, <1>8, <1>9, <1>12, <1>13, TrackersBuckets, TotalledNothing

--------------------------------------------------------------------------------
\* The step of the tracker.

LEMMA TrackerInit == Init => Tracker!Init
<1>1. SUFFICES ASSUME Init PROVE Tracker!Init
  OBVIOUS
<1>2. Totalled(buckets) = <<>> /\ At(prefixTotals, Root) = 0 /\ now \in Nat
  BY <1>1, TotalledNothing, EmptyQueue DEF Init, At
<1>. QED
  BY <1>2 DEF Tracker!Init, Totalled, BytesIn

LEMMA LiveTracked ==
  ASSUME BucketsInv, BucketsInv', now' = now, buckets' = LiveBuckets(buckets, now)
  PROVE  /\ Totalled(buckets)' = Tracker!LiveBuckets(Totalled(buckets), now)
         /\ At(prefixTotals, Root)' =
              Tracker!Less(At(prefixTotals, Root), Tracker!BytesOf(Tracker!ExpiredBuckets(Totalled(buckets), now)))
<1>1. At(prefixTotals, Root) = Under(Of(buckets), Root)
  BY RootOfIndex DEF RootIsTotal
<1>2. At(prefixTotals, Root)' = Under(Of(buckets), Root)'
  BY RootOfNextIndex DEF RootIsTotal
<1>3. PICK t, rest : t = Totalled(buckets) /\ rest = LiveBuckets(buckets, now)
  OBVIOUS
<1>4. now \in Times /\ Spaced(buckets, now)
  BY DEF BucketsInv
<1>5. LiveBuckets(t, now) = Totalled(rest)
  BY <1>3, <1>4, TotalledExpiry
<1>6. Tracker!LiveBuckets(t, now) = Totalled(rest)
  BY <1>5, TrackersBuckets
<1>7. Totalled(buckets)' = Totalled(rest) /\ Under(Of(buckets), Root)' = Under(Of(rest), Root)
  BY <1>3
<1>8. Tracker!Less(Under(Of(buckets), Root), Tracker!BytesOf(Tracker!ExpiredBuckets(t, now)))
        = Under(Of(rest), Root)
  BY <1>3, <1>4, RootExpires
<1>. QED
  BY <1>1, <1>2, <1>3, <1>6, <1>7, <1>8

\* Every step is one of the tracker.
LEMMA TrackerNext == BucketsInv /\ BucketsInv' /\ [Next]_vars => [Tracker!Next]_(Tracker!vars)
<1>1. SUFFICES ASSUME BucketsInv, BucketsInv', [Next]_vars PROVE [Tracker!Next]_(Tracker!vars)
  OBVIOUS
<1>2. now \in Times /\ now' \in Times /\ Spaced(buckets, now)
  BY <1>1 DEF BucketsInv
<1>3. CASE Advance
  <2>1. now' > now /\ buckets' = buckets /\ prefixTotals' = prefixTotals
    BY <1>2, <1>3, EventLogAssumption DEF Advance, Times
  <2>. QED
    BY <2>1 DEF Tracker!Advance, Tracker!Next
<1>4. ASSUME NEW path \in Paths, NEW pid \in Pids, NEW bytes \in Amounts, Record(path, pid, bytes)
      PROVE  Tracker!Record(bytes)
  <2>1. now' = now
    BY <1>4 DEF Record
  <2>2. CASE bytes = 0
    <3>1. buckets' = LiveBuckets(buckets, now)
      BY <1>4, <2>2 DEF Record
    <3>2. /\ Totalled(buckets)' = Tracker!LiveBuckets(Totalled(buckets), now)
          /\ At(prefixTotals, Root)' =
               Tracker!Less(At(prefixTotals, Root), Tracker!BytesOf(Tracker!ExpiredBuckets(Totalled(buckets), now)))
      BY <1>1, <2>1, <3>1, LiveTracked
    <3>. QED
      BY <2>1, <2>2, <3>2 DEF Tracker!Record, Totalled, BytesIn
  <2>3. CASE bytes # 0
    <3>1. PICK key, live, rest, grown :
             /\ key = <<path, pid>>
             /\ live = LiveBuckets(buckets, now)
             /\ rest = RemoveBuckets(index, ExpiredBuckets(buckets, now))
             /\ grown = WithOperation(live, key, bytes)
      OBVIOUS
    <3>2. /\ buckets' = KeptBuckets(grown)
          /\ IndexBecomes(RemoveBuckets(AddActivity(rest, key, bytes), SurplusBuckets(grown)))
      BY <1>4, <2>3, <3>1 DEF Record
    <3>3. key \in Keys /\ bytes \in Nat \ {0}
      BY <2>3, <3>1, EventLogAssumption DEF Keys
    <3>4. Spaced(live, now) /\ InWindow(live, now)
      BY <1>2, <3>1, LiveIsRest
    <3>5. Len(grown) <= MaxTimeBuckets
      <4>1. Extended(grown, live, key, bytes)
        BY <1>2, <3>1, <3>3, <3>4, OperationExtends
      <4>2. Spaced(grown, now) /\ InWindow(grown, now)
        BY <1>2, <3>3, <3>4, <4>1, ExtendedIsSpaced
      <4>. QED
        BY <1>2, <4>2, NeverTooMany
    <3>6. PICK t, more, s, gone : /\ t = Totalled(buckets)
                                  /\ more = Tracker!WithOperation(Totalled(live), bytes)
                                  /\ s = At(prefixTotals, Root)
                                  /\ gone = Tracker!ExpiredBuckets(t, now)
      OBVIOUS
    <3>7. Tracker!LiveBuckets(t, now) = Totalled(live)
      BY <1>2, <3>1, <3>6, TotalledExpiry, TrackersBuckets, ZenonT(100)
    <3>8. Tracker!Less(s, Tracker!BytesOf(gone)) = Under(Of(live), Root)
      <4>1. s = Under(Of(buckets), Root)
        BY <1>1, <3>6, RootOfIndex DEF RootIsTotal
      <4>. QED
        BY <1>2, <3>1, <3>6, <4>1, RootExpires
    <3>9. PICK bs : bs = KeptBuckets(grown)
      OBVIOUS
    <3>10. /\ Tracker!KeptBuckets(more) = Totalled(bs)
           /\ Tracker!Less(Under(Of(live), Root) + bytes, Tracker!BytesOf(Tracker!SurplusBuckets(more)))
                = Under(Of(bs), Root)
      BY <1>2, <3>1, <3>3, <3>4, <3>5, <3>6, <3>9, RootGrows
    <3>11. Totalled(buckets)' = Totalled(bs) /\ At(prefixTotals, Root)' = Under(Of(bs), Root)
      <4>1. At(prefixTotals, Root)' = Under(Of(buckets), Root)'
        BY <1>1, RootOfNextIndex DEF RootIsTotal
      <4>2. buckets' = bs
        BY <3>2, <3>9
      <4>3. Under(Of(buckets), Root)' = Under(Of(bs), Root)
        BY <4>2
      <4>. QED
        BY <4>1, <4>2, <4>3
    <3>12. Tracker!Record(bytes)
      <4>1. /\ Totalled(buckets)' = Tracker!KeptBuckets(more)
            /\ At(prefixTotals, Root)' =
                 Tracker!Less(Tracker!Less(s, Tracker!BytesOf(gone)) + bytes, Tracker!BytesOf(Tracker!SurplusBuckets(more)))
        BY <3>8, <3>10, <3>11
      <4>2. more = Tracker!WithOperation(Tracker!LiveBuckets(t, now), bytes)
        BY <3>6, <3>7
      <4>. QED
        BY <2>1, <2>3, <3>6, <4>1, <4>2 DEF Tracker!Record, Totalled, BytesIn
    <3>. QED
      BY <3>12
  <2>. QED
    BY <2>2, <2>3
<1>5. CASE RateForPrefix
  <2>1. now' = now /\ buckets' = LiveBuckets(buckets, now)
    BY <1>5 DEF RateForPrefix
  <2>2. /\ Totalled(buckets)' = Tracker!LiveBuckets(Totalled(buckets), now)
        /\ At(prefixTotals, Root)' =
             Tracker!Less(At(prefixTotals, Root), Tracker!BytesOf(Tracker!ExpiredBuckets(Totalled(buckets), now)))
    BY <1>1, <2>1, LiveTracked
  <2>3. Tracker!RateBps
    BY <2>1, <2>2 DEF Tracker!RateBps, Totalled, BytesIn
  <2>. QED
    BY <2>3 DEF Tracker!Next
<1>6. CASE Reset
  <2>1. now' = now /\ buckets' = <<>> /\ prefixTotals' = <<>>
    BY <1>6 DEF Reset, IndexBecomes, EmptyIndex
  <2>2. Totalled(buckets)' = <<>> /\ At(prefixTotals, Root)' = 0
    BY <2>1, TotalledNothing, EmptyQueue DEF At
  <2>3. Tracker!Reset
    BY <2>1, <2>2 DEF Tracker!Reset, Totalled, BytesIn
  <2>. QED
    BY <2>3 DEF Tracker!Next
<1>7. CASE UNCHANGED vars
  BY <1>7 DEF vars, Tracker!vars
<1>. QED
  BY <1>1, <1>3, <1>4, <1>5, <1>6, <1>7 DEF Next, Tracker!Next

\* EventLog implements RateTracker: with the bytes of its buckets for buckets, and
\* the root's total for windowSum, its steps are those of a RateTracker that is
\* given the same operations.
THEOREM RootRateIsATrackers == Spec => TrackerSpec
BY TrackerInit, TrackerNext, BucketsAlways, PTL DEF Spec, TrackerSpec, Tracker!Spec
=============================================================================
