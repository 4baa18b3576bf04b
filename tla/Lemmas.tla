------------------------------- MODULE Lemmas -------------------------------
(***************************************************************************)
(* Facts about queues, selections, folds, sums and numbers that the proofs of *)
(* several modules need.                                                   *)
(***************************************************************************)
EXTENDS Integers, Sequences, SequencesExt, Selections, SequenceTheorems, FiniteSetTheorems,
        WellFoundedInduction, TLAPS

--------------------------------------------------------------------------------
\* Queues, of whatever they hold.

IsQueue(q) == q \in Seq(Range(q))

LEMMA EmptyQueue == IsQueue(<<>>) /\ DOMAIN <<>> = {}
<1>1. <<>> \in Seq(Range(<<>>)) /\ Len(<<>>) = 0
  BY EmptySeq
<1>2. DOMAIN <<>> = 1 .. Len(<<>>)
  BY <1>1, LenProperties
<1>. QED
  BY <1>1, <1>2 DEF IsQueue

LEMMA QueueDomain ==
  ASSUME NEW q, IsQueue(q)
  PROVE  Len(q) \in Nat /\ DOMAIN q = 1 .. Len(q)
BY LenProperties DEF IsQueue

LEMMA AppendedQueue ==
  ASSUME NEW q, NEW e, IsQueue(q)
  PROVE  /\ IsQueue(Append(q, e))
         /\ DOMAIN Append(q, e) = 1 .. Len(q) + 1
         /\ \A i \in DOMAIN q : Append(q, e)[i] = q[i]
         /\ Append(q, e)[Len(q) + 1] = e
<1> DEFINE S == Range(q) \cup {e}
           r == Append(q, e)
<1>1. q \in [1 .. Len(q) -> Range(q)] /\ Len(q) \in Nat
  BY LenProperties DEF IsQueue
<1>2. q \in Seq(S)
  BY <1>1
<1>3. /\ r \in Seq(S) /\ Len(r) = Len(q) + 1
      /\ \A i \in 1 .. Len(q) : r[i] = q[i]
      /\ r[Len(q) + 1] = e
  BY <1>2, AppendProperties
<1>4. r \in [1 .. Len(r) -> S]
  BY <1>3, LenProperties
<1>5. r \in [1 .. Len(r) -> Range(r)]
  BY <1>4 DEF Range
<1>. HIDE DEF r
<1>6. r \in Seq(Range(r))
  BY <1>1, <1>3, <1>5
<1>. QED
  BY <1>1, <1>3, <1>4, <1>6 DEF IsQueue, r

LEMMA RestOfQueue ==
  ASSUME NEW q, IsQueue(q), q # <<>>
  PROVE  /\ IsQueue(Tail(q))
         /\ Len(q) \in Nat \ {0} /\ DOMAIN q = 1 .. Len(q)
         /\ DOMAIN Tail(q) = 1 .. Len(q) - 1
         /\ \A i \in DOMAIN Tail(q) : Tail(q)[i] = q[i + 1]
         /\ Head(q) = q[1]
<1> DEFINE r == Tail(q)
<1>1. q \in Seq(Range(q))
  BY DEF IsQueue
<1>2. Len(q) \in Nat \ {0} /\ DOMAIN q = 1 .. Len(q)
  BY <1>1, EmptySeq, LenProperties
<1>3. /\ r \in Seq(Range(q)) /\ Len(r) = Len(q) - 1
      /\ \A i \in 1 .. Len(r) : r[i] = q[i + 1]
  BY <1>1, HeadTailProperties
<1>4. r \in [1 .. Len(r) -> Range(q)] /\ Len(r) \in Nat
  BY <1>3, LenProperties
<1>5. r \in [1 .. Len(r) -> Range(r)]
  BY <1>4 DEF Range
<1>. HIDE DEF r
<1>6. r \in Seq(Range(r))
  BY <1>4, <1>5
<1>7. Head(q) = q[1]
  BY <1>1
<1>. QED
  BY <1>2, <1>3, <1>4, <1>6, <1>7 DEF IsQueue, r

--------------------------------------------------------------------------------
\* The natural numbers: the principle of the least number, and induction for a set.

LEMMA LeastNumber ==
  ASSUME NEW T \in SUBSET Nat, T # {}
  PROVE  \E n \in T : \A m \in T : n <= m
<1> DEFINE Less == {ss \in Nat \X Nat : ss[1] < ss[2]}
<1>1. IsWellFoundedOn(Less, Nat)
  BY NatLessThanWellFounded, Zenon DEF OpToRel
<1>2. T \subseteq Nat
  OBVIOUS
<1>3. \A m, n \in T : m < n => <<m, n>> \in Less
  OBVIOUS
<1>. HIDE DEF Less
<1>4. PICK n \in T : \A m \in T : ~(<<m, n>> \in Less)
  BY <1>1, <1>2, WFMin
<1>5. \A m \in T : ~(m < n)
  BY <1>3, <1>4
<1>. QED
  BY <1>5

\* A set of numbers below a bound has a largest one.
LEMMA LargestNumber ==
  ASSUME NEW n \in Nat, NEW S \in SUBSET (0 .. n), S # {}
  PROVE  Max(S) \in S /\ \A y \in S : Max(S) >= y
<1> DEFINE T == {n - x : x \in S}
<1>1. T \in SUBSET Nat /\ T # {}
  <2>1. \A x \in S : x \in 0 .. n /\ n - x \in Nat
    OBVIOUS
  <2>. QED
    BY <2>1
<1>. HIDE DEF T
<1>2. PICK m \in T : \A k \in T : m <= k
  BY <1>1, LeastNumber
<1>3. PICK x \in S : m = n - x
  BY <1>2 DEF T
<1>4. ASSUME NEW y \in S PROVE x >= y
  <2>1. n - y \in T
    BY DEF T
  <2>2. n - x <= n - y /\ x \in 0 .. n /\ y \in 0 .. n
    BY <1>2, <1>3, <2>1
  <2>. QED
    BY <2>2
<1>. QED
  BY <1>4 DEF Max

LEMMA AllNumbers ==
  ASSUME NEW T, 0 \in T, \A n \in Nat : n \in T => n + 1 \in T
  PROVE  Nat \subseteq T
<1> DEFINE Missing == {n \in Nat : n \notin T}
<1>1. SUFFICES ASSUME Missing # {} PROVE FALSE
  OBVIOUS
<1>2. PICK n \in Missing : \A m \in Missing : n <= m
  BY <1>1, LeastNumber
<1>3. n - 1 \in Nat /\ n - 1 \notin Missing
  BY <1>2
<1>. QED
  BY <1>2, <1>3

--------------------------------------------------------------------------------
\* Recursive functions: what TLA+ writes as f[i \in 0 .. n] == ... exists, and is
\* the same for every n.

IsIteration(f, n, base, step) ==
  f = [i \in 0 .. n |-> IF i = 0 THEN base ELSE step[<<i, f[i - 1]>>]]

LEMMA IterationExists ==
  ASSUME NEW V, NEW base \in V, NEW step \in [Nat \X V -> V], NEW n \in Nat
  PROVE  \E f \in [0 .. n -> V] : IsIteration(f, n, base, step)
<1> DEFINE T == {m \in Nat : \E f \in [0 .. m -> V] : IsIteration(f, m, base, step)}
<1>1. 0 \in T
  <2> DEFINE f == [i \in 0 .. 0 |-> base]
  <2>1. f \in [0 .. 0 -> V] /\ IsIteration(f, 0, base, step)
    BY DEF IsIteration
  <2>. QED
    BY <2>1
<1>2. ASSUME NEW m \in Nat, m \in T PROVE m + 1 \in T
  <2>1. PICK f \in [0 .. m -> V] : IsIteration(f, m, base, step)
    BY <1>2
  <2> DEFINE g == [i \in 0 .. m + 1 |-> IF i <= m THEN f[i] ELSE step[<<m + 1, f[m]>>]]
  <2>2. f[0] = base /\ \A i \in 1 .. m : f[i] = step[<<i, f[i - 1]>>]
    BY <2>1 DEF IsIteration
  <2>3. step[<<m + 1, f[m]>>] \in V
    OBVIOUS
  <2>4. g \in [0 .. m + 1 -> V]
    BY <2>3
  <2>5. g[0] = base
    BY <2>2
  <2>6. ASSUME NEW i \in 1 .. m + 1 PROVE g[i] = step[<<i, g[i - 1]>>]
    <3>1. i - 1 \in 0 .. m /\ g[i - 1] = f[i - 1]
      OBVIOUS
    <3>2. CASE i <= m
      <4>1. i \in 1 .. m /\ g[i] = f[i]
        BY <3>2
      <4>. QED
        BY <2>2, <3>1, <4>1
    <3>3. CASE i = m + 1
      <4>1. g[i] = step[<<m + 1, f[m]>>] /\ i - 1 = m
        BY <3>3
      <4>. QED
        BY <3>1, <3>3, <4>1
    <3>. QED
      BY <3>2, <3>3
  <2>. HIDE DEF g
  <2>7. g = [i \in 0 .. m + 1 |-> g[i]]
    BY <2>4
  <2>8. \A i \in 0 .. m + 1 : g[i] = IF i = 0 THEN base ELSE step[<<i, g[i - 1]>>]
    BY <2>5, <2>6
  <2>9. IsIteration(g, m + 1, base, step)
    BY <2>7, <2>8 DEF IsIteration
  <2>. QED
    BY <2>4, <2>9
<1>. HIDE DEF T
<1>3. n \in T
  BY <1>1, <1>2, AllNumbers
<1>. QED
  BY <1>3 DEF T

\* Induction over sequences, by their length.
LEMMA AllSequences ==
  ASSUME NEW S, NEW T, <<>> \in T,
         \A s \in Seq(S) : s \in T => \A e \in S : Append(s, e) \in T
  PROVE  Seq(S) \subseteq T
<1> DEFINE L == {n \in Nat : \A s \in Seq(S) : Len(s) = n => s \in T}
<1>1. 0 \in L
  BY EmptySeq
<1>2. ASSUME NEW n \in Nat, n \in L PROVE n + 1 \in L
  <2>1. SUFFICES ASSUME NEW s \in Seq(S), Len(s) = n + 1 PROVE s \in T
    OBVIOUS
  <2>2. s # <<>>
    BY <2>1, EmptySeq
  <2>3. PICK r \in Seq(S), e \in S : s = Append(r, e)
    BY <2>2, SequenceEmptyOrAppend
  <2>4. Len(r) = n
    BY <2>1, <2>3, AppendProperties, LenProperties
  <2>. QED
    BY <1>2, <2>3, <2>4
<1>. HIDE DEF L
<1>3. Nat \subseteq L
  BY <1>1, <1>2, AllNumbers
<1>. QED
  BY <1>3, LenProperties DEF L
--------------------------------------------------------------------------------
\* Filters.

SelectStep(s, S, V) ==
  [p \in Nat \X V |-> IF p[1] \in 1 .. Len(s) /\ s[p[1]] \in S THEN Append(p[2], s[p[1]])
                      ELSE p[2]]

\* What Selected goes through.
SelectionSteps(f, s, S, X) ==
  /\ f \in [0 .. Len(s) -> Seq(X)]
  /\ f[0] = <<>>
  /\ \A i \in 1 .. Len(s) : f[i] = IF s[i] \in S THEN Append(f[i - 1], s[i]) ELSE f[i - 1]
  /\ Selected(s, S) = f[Len(s)]

LEMMA SelectedIteration ==
  ASSUME NEW X, NEW S, NEW s \in Seq(X)
  PROVE  \E f : SelectionSteps(f, s, S, X)
<1> DEFINE V == Seq(X)
           step == SelectStep(s, S, V)
           Eq(f) == f = [i \in 0 .. Len(s) |->
                           IF i = 0 THEN <<>>
                           ELSE IF s[i] \in S THEN Append(f[i - 1], s[i])
                           ELSE f[i - 1]]
           g == CHOOSE f : Eq(f)
<1>1. Len(s) \in Nat /\ \A i \in 1 .. Len(s) : s[i] \in X
  BY LenProperties
<1>2. step \in [Nat \X V -> V]
  BY <1>1, AppendProperties DEF SelectStep
<1>3. <<>> \in V
  BY EmptySeq
<1>4. PICK f \in [0 .. Len(s) -> V] : IsIteration(f, Len(s), <<>>, step)
  <2>. HIDE DEF step, V
  <2>. QED
    BY <1>1, <1>2, <1>3, IterationExists
<1>5. ASSUME NEW i \in 1 .. Len(s), NEW v \in V
      PROVE  step[<<i, v>>] = IF s[i] \in S THEN Append(v, s[i]) ELSE v
  BY <1>1 DEF SelectStep
<1>6. ASSUME NEW i \in 0 .. Len(s)
      PROVE  f[i] = IF i = 0 THEN <<>> ELSE IF s[i] \in S THEN Append(f[i - 1], s[i]) ELSE f[i - 1]
  <2>1. CASE i = 0
    BY <1>1, <1>4, <2>1 DEF IsIteration
  <2>2. CASE i # 0
    <3>1. i \in 1 .. Len(s) /\ f[i - 1] \in V
      BY <1>1, <2>2
    <3>. HIDE DEF step, V
    <3>2. f[i] = step[<<i, f[i - 1]>>]
      BY <1>1, <1>4, <2>2 DEF IsIteration
    <3>. QED
      BY <1>5, <2>2, <3>1, <3>2
  <2>. QED
    BY <2>1, <2>2
<1>7. Eq(f)
  <2>1. f = [i \in 0 .. Len(s) |-> f[i]]
    OBVIOUS
  <2>. QED
    BY <1>6, <2>1, Zenon
<1>8. Eq(g)
  BY <1>7
<1>9. ASSUME NEW h, Eq(h)
      PROVE  /\ h[0] = <<>>
             /\ \A i \in 1 .. Len(s) : h[i] = IF s[i] \in S THEN Append(h[i - 1], s[i]) ELSE h[i - 1]
             /\ h = [i \in 0 .. Len(s) |-> h[i]]
  <2>1. h = [i \in 0 .. Len(s) |-> IF i = 0 THEN <<>>
                                  ELSE IF s[i] \in S THEN Append(h[i - 1], s[i])
                                  ELSE h[i - 1]]
    BY <1>9
  <2>2. 0 \in 0 .. Len(s) /\ \A i \in 1 .. Len(s) : i \in 0 .. Len(s) /\ i # 0
    BY <1>1
  <2>3. h[0] = <<>>
    BY <2>1, <2>2, Zenon
  <2>4. ASSUME NEW i \in 1 .. Len(s)
        PROVE  h[i] = IF s[i] \in S THEN Append(h[i - 1], s[i]) ELSE h[i - 1]
    BY <2>1, <2>2, Zenon
  <2>5. h = [i \in 0 .. Len(s) |-> h[i]]
    BY <2>1, Zenon
  <2>. QED
    BY <2>3, <2>4, <2>5
<1>10. /\ g[0] = <<>>
       /\ \A i \in 1 .. Len(s) : g[i] = IF s[i] \in S THEN Append(g[i - 1], s[i]) ELSE g[i - 1]
       /\ g = [i \in 0 .. Len(s) |-> g[i]]
  <2>. HIDE DEF g
  <2>. QED
    BY <1>8, <1>9, Zenon
<1>11. Selected(s, S) = g[Len(s)]
  BY DEF Selected
<1>. HIDE DEF g, step
<1>12. \A i \in 0 .. Len(s) : g[i] \in V
  <2> DEFINE T == {i \in Nat : i <= Len(s) => g[i] \in V}
  <2>1. 0 \in T
    BY <1>3, <1>10
  <2>2. ASSUME NEW i \in Nat, i \in T PROVE i + 1 \in T
    <3>1. SUFFICES ASSUME i + 1 <= Len(s) PROVE g[i + 1] \in V
      OBVIOUS
    <3>2. i + 1 \in 1 .. Len(s) /\ (i + 1) - 1 = i /\ g[i] \in V /\ s[i + 1] \in X
      BY <1>1, <2>2, <3>1
    <3>3. g[i + 1] = IF s[i + 1] \in S THEN Append(g[i], s[i + 1]) ELSE g[i]
      BY <1>10, <3>2
    <3>. QED
      BY <3>2, <3>3, AppendProperties
  <2>. HIDE DEF T
  <2>3. Nat \subseteq T
    BY <2>1, <2>2, AllNumbers
  <2>. QED
    BY <1>1, <2>3 DEF T
<1>13. g \in [0 .. Len(s) -> V]
  BY <1>10, <1>12
<1>. QED
  BY <1>10, <1>11, <1>13 DEF SelectionSteps

LEMMA SelectedEmpty == ASSUME NEW S PROVE Selected(<<>>, S) = <<>>
<1>1. <<>> \in Seq({}) /\ Len(<<>>) = 0
  BY EmptySeq
<1>2. PICK f : SelectionSteps(f, <<>>, S, {})
  BY <1>1, SelectedIteration
<1>. QED
  BY <1>1, <1>2 DEF SelectionSteps

LEMMA SelectedAppend ==
  ASSUME NEW X, NEW S, NEW s \in Seq(X), NEW e \in X
  PROVE  /\ Selected(s, S) \in Seq(X)
         /\ Selected(Append(s, e), S) = IF e \in S THEN Append(Selected(s, S), e) ELSE Selected(s, S)
<1> DEFINE r == Append(s, e)
<1>1. /\ r \in Seq(X) /\ Len(s) \in Nat /\ Len(r) = Len(s) + 1
      /\ \A i \in 1 .. Len(s) : r[i] = s[i]
      /\ r[Len(s) + 1] = e
  BY AppendProperties, LenProperties
<1>. HIDE DEF r
<1>2. PICK f : SelectionSteps(f, s, S, X)
  BY SelectedIteration
<1>3. PICK g : SelectionSteps(g, r, S, X)
  BY <1>1, SelectedIteration
<1> DEFINE T == {i \in Nat : i <= Len(s) => f[i] = g[i]}
<1>4. 0 \in T
  BY <1>2, <1>3 DEF SelectionSteps
<1>5. ASSUME NEW i \in Nat, i \in T PROVE i + 1 \in T
  <2>1. SUFFICES ASSUME i + 1 <= Len(s) PROVE f[i + 1] = g[i + 1]
    OBVIOUS
  <2>2. /\ i + 1 \in 1 .. Len(s) /\ i + 1 \in 1 .. Len(r) /\ (i + 1) - 1 = i
        /\ r[i + 1] = s[i + 1] /\ f[i] = g[i]
    BY <1>1, <1>5, <2>1
  <2>3. f[i + 1] = IF s[i + 1] \in S THEN Append(f[i], s[i + 1]) ELSE f[i]
    BY <1>2, <2>2 DEF SelectionSteps
  <2>4. g[i + 1] = IF r[i + 1] \in S THEN Append(g[i], r[i + 1]) ELSE g[i]
    BY <1>3, <2>2 DEF SelectionSteps
  <2>. QED
    BY <2>2, <2>3, <2>4
<1>. HIDE DEF T
<1>6. Nat \subseteq T
  BY <1>4, <1>5, AllNumbers
<1>7. f[Len(s)] = g[Len(s)]
  BY <1>1, <1>6 DEF T
<1>8. Len(r) \in 1 .. Len(r) /\ Len(r) - 1 = Len(s) /\ r[Len(r)] = e /\ Len(s) \in 0 .. Len(s)
  BY <1>1
<1>9. g[Len(r)] = IF e \in S THEN Append(g[Len(s)], e) ELSE g[Len(s)]
  BY <1>3, <1>8 DEF SelectionSteps
<1>. QED
  BY <1>1, <1>2, <1>3, <1>7, <1>8, <1>9 DEF r, SelectionSteps

LEMMA SelectedConcat ==
  ASSUME NEW X, NEW S, NEW s \in Seq(X), NEW t \in Seq(X)
  PROVE  Selected(s \o t, S) = Selected(s, S) \o Selected(t, S)
<1> DEFINE T == {u \in Seq(X) : Selected(s \o u, S) = Selected(s, S) \o Selected(u, S)}
<1>1. <<>> \in T
  <2>1. s \o <<>> = s /\ Selected(s, S) \in Seq(X) /\ <<>> \in Seq(X)
    <3>1. CASE X = {}
      BY <3>1, EmptySeq, SelectedEmpty
    <3>2. CASE X # {}
      BY <3>2, EmptySeq, SelectedAppend
    <3>. QED
      BY <3>1, <3>2
  <2>2. Selected(s, S) \o <<>> = Selected(s, S)
    BY <2>1, ConcatEmptySeq
  <2>. QED
    BY <2>1, <2>2, SelectedEmpty
<1>2. ASSUME NEW u \in Seq(X), u \in T, NEW e \in X PROVE Append(u, e) \in T
  <2>1. /\ Selected(s, S) \in Seq(X) /\ Selected(u, S) \in Seq(X)
        /\ Selected(Append(u, e), S) = IF e \in S THEN Append(Selected(u, S), e) ELSE Selected(u, S)
    BY SelectedAppend
  <2>2. s \o u \in Seq(X) /\ Append(u, e) \in Seq(X) /\ s \o Append(u, e) = Append(s \o u, e)
    OBVIOUS
  <2>3. Selected(Append(s \o u, e), S)
          = IF e \in S THEN Append(Selected(s \o u, S), e) ELSE Selected(s \o u, S)
    <3> DEFINE v == s \o u
    <3>1. v \in Seq(X)
      BY <2>2
    <3>. HIDE DEF v
    <3>2. Selected(Append(v, e), S) = IF e \in S THEN Append(Selected(v, S), e) ELSE Selected(v, S)
      BY <3>1, SelectedAppend
    <3>. QED
      BY <3>2 DEF v
  <2>4. Selected(s, S) \o Append(Selected(u, S), e) = Append(Selected(s, S) \o Selected(u, S), e)
    BY <2>1
  <2>. QED
    BY <1>2, <2>1, <2>2, <2>3, <2>4
<1>. HIDE DEF T
<1>3. Seq(X) \subseteq T
  BY <1>1, <1>2, AllSequences
<1>. QED
  BY <1>3 DEF T

LEMMA SelectedAll ==
  ASSUME NEW X, NEW S, NEW s \in Seq(X), \A i \in 1 .. Len(s) : s[i] \in S
  PROVE  Selected(s, S) = s
<1> DEFINE T == {u \in Seq(X) : (\A i \in 1 .. Len(u) : u[i] \in S) => Selected(u, S) = u}
<1>1. <<>> \in T
  BY SelectedEmpty, EmptySeq
<1>2. ASSUME NEW u \in Seq(X), u \in T, NEW e \in X PROVE Append(u, e) \in T
  <2>1. /\ Append(u, e) \in Seq(X) /\ Len(Append(u, e)) = Len(u) + 1 /\ Len(u) \in Nat
        /\ \A i \in 1 .. Len(u) : Append(u, e)[i] = u[i]
        /\ Append(u, e)[Len(u) + 1] = e
    BY AppendProperties, LenProperties
  <2>2. SUFFICES ASSUME \A i \in 1 .. Len(u) + 1 : Append(u, e)[i] \in S
                 PROVE  Selected(Append(u, e), S) = Append(u, e)
    BY <2>1
  <2>3. e \in S /\ \A i \in 1 .. Len(u) : u[i] \in S
    BY <2>1, <2>2
  <2>. QED
    BY <1>2, <2>3, SelectedAppend
<1>. HIDE DEF T
<1>3. Seq(X) \subseteq T
  BY <1>1, <1>2, AllSequences
<1>. QED
  BY <1>3 DEF T

LEMMA SelectedNone ==
  ASSUME NEW X, NEW s \in Seq(X)
  PROVE  Selected(s, {}) = <<>>
<1> DEFINE T == {u \in Seq(X) : Selected(u, {}) = <<>>}
<1>1. <<>> \in T
  BY SelectedEmpty, EmptySeq
<1>2. ASSUME NEW u \in Seq(X), u \in T, NEW e \in X PROVE Append(u, e) \in T
  BY <1>2, SelectedAppend, AppendProperties
<1>. HIDE DEF T
<1>3. Seq(X) \subseteq T
  BY <1>1, <1>2, AllSequences
<1>. QED
  BY <1>3 DEF T

Unselected(s, S) == {i \in 1 .. Len(s) : s[i] \notin S}

\* A filter takes nothing that is not there, and all that is in the set.
LEMMA SelectedCounts ==
  ASSUME NEW X, NEW S, NEW s \in Seq(X)
  PROVE  /\ Selected(s, S) \in Seq(X)
         /\ \A i \in 1 .. Len(Selected(s, S)) : \E j \in 1 .. Len(s) : Selected(s, S)[i] = s[j] /\ s[j] \in S
         /\ Len(s) - Len(Selected(s, S)) = Cardinality(Unselected(s, S))
         /\ Cardinality(Unselected(s, S)) \in Nat
<1> DEFINE Out(u) == {i \in 1 .. Len(u) : u[i] \notin S}
           T == {u \in Seq(X) :
                   /\ Selected(u, S) \in Seq(X)
                   /\ \A i \in 1 .. Len(Selected(u, S)) :
                        \E j \in 1 .. Len(u) : Selected(u, S)[i] = u[j] /\ u[j] \in S
                   /\ IsFiniteSet(Out(u))
                   /\ Len(u) - Len(Selected(u, S)) = Cardinality(Out(u))}
<1>1. <<>> \in T
  <2>1. <<>> \in Seq(X) /\ Len(<<>>) = 0
    BY EmptySeq
  <2>2. Out(<<>>) = {}
    BY <2>1
  <2>3. IsFiniteSet({}) /\ Cardinality({}) = 0
    BY FS_EmptySet
  <2>. HIDE DEF Out
  <2>4. /\ Selected(<<>>, S) \in Seq(X)
        /\ Len(<<>>) - Len(Selected(<<>>, S)) = Cardinality(Out(<<>>))
        /\ IsFiniteSet(Out(<<>>))
        /\ 1 .. Len(Selected(<<>>, S)) = {}
    <3>1. Selected(<<>>, S) = <<>>
      BY SelectedEmpty
    <3>2. Len(Selected(<<>>, S)) = 0
      BY <2>1, <3>1
    <3>3. Cardinality(Out(<<>>)) = 0 /\ IsFiniteSet(Out(<<>>))
      BY <2>2, <2>3, Zenon
    <3>4. 1 .. 0 = {} /\ 0 - 0 = 0
      OBVIOUS
    <3>. QED
      BY <2>1, <3>1, <3>2, <3>3, <3>4
  <2>. QED
    BY <2>1, <2>4
<1>2. ASSUME NEW u \in Seq(X), u \in T, NEW e \in X PROVE Append(u, e) \in T
  <2> DEFINE r == Append(u, e)
             f == Selected(u, S)
             g == Selected(r, S)
  <2>1. /\ r \in Seq(X) /\ Len(r) = Len(u) + 1 /\ Len(u) \in Nat
        /\ \A i \in 1 .. Len(u) : r[i] = u[i]
        /\ r[Len(u) + 1] = e
    BY AppendProperties, LenProperties
  <2>2. /\ f \in Seq(X) /\ Len(f) \in Nat
        /\ \A i \in 1 .. Len(f) : \E j \in 1 .. Len(u) : f[i] = u[j] /\ u[j] \in S
        /\ IsFiniteSet(Out(u))
        /\ Len(u) - Len(f) = Cardinality(Out(u))
    BY <1>2, LenProperties
  <2>3. g = IF e \in S THEN Append(f, e) ELSE f
    BY SelectedAppend
  <2>. HIDE DEF r, f, g
  <2>4. CASE e \in S
    <3>1. /\ g \in Seq(X) /\ Len(g) = Len(f) + 1
          /\ \A i \in 1 .. Len(f) : g[i] = f[i]
          /\ g[Len(f) + 1] = e
      BY <2>2, <2>3, <2>4, AppendProperties
    <3>2. Out(r) = Out(u)
      BY <2>1, <2>4
    <3>3. ASSUME NEW i \in 1 .. Len(g) PROVE \E j \in 1 .. Len(r) : g[i] = r[j] /\ r[j] \in S
      <4>1. CASE i = Len(f) + 1
        <5>1. Len(u) + 1 \in 1 .. Len(r) /\ g[i] = r[Len(u) + 1] /\ r[Len(u) + 1] \in S
          BY <2>1, <2>4, <3>1, <4>1
        <5>. QED
          BY <5>1
      <4>2. CASE i # Len(f) + 1
        <5>1. i \in 1 .. Len(f)
          BY <2>2, <3>1, <4>2
        <5>2. PICK j \in 1 .. Len(u) : f[i] = u[j] /\ u[j] \in S
          BY <2>2, <5>1
        <5>3. j \in 1 .. Len(r) /\ g[i] = r[j] /\ r[j] \in S
          BY <2>1, <3>1, <5>1, <5>2
        <5>. QED
          BY <5>3
      <4>. QED
        BY <4>1, <4>2
    <3>4. Len(r) - Len(g) = Len(u) - Len(f)
      BY <2>1, <2>2, <3>1
    <3>. HIDE DEF Out
    <3>5. IsFiniteSet(Out(r)) /\ Len(r) - Len(g) = Cardinality(Out(r))
      BY <2>2, <3>2, <3>4
    <3>. QED
      BY <2>1, <3>1, <3>3, <3>5 DEF r, g
  <2>5. CASE e \notin S
    <3>1. g = f
      BY <2>3, <2>5
    <3>2. Out(r) = Out(u) \cup {Len(u) + 1} /\ Len(u) + 1 \notin Out(u)
      BY <2>1, <2>5
    <3>3. ASSUME NEW i \in 1 .. Len(g) PROVE \E j \in 1 .. Len(r) : g[i] = r[j] /\ r[j] \in S
      <4>1. PICK j \in 1 .. Len(u) : f[i] = u[j] /\ u[j] \in S
        BY <2>2, <3>1
      <4>2. j \in 1 .. Len(r) /\ g[i] = r[j] /\ r[j] \in S
        BY <2>1, <3>1, <4>1
      <4>. QED
        BY <4>2
    <3>. HIDE DEF Out
    <3>4. IsFiniteSet(Out(r)) /\ Cardinality(Out(r)) = Cardinality(Out(u)) + 1
      BY <2>2, <3>2, FS_AddElement
    <3>5. Len(r) - Len(g) = Cardinality(Out(r))
      BY <2>1, <2>2, <3>1, <3>4
    <3>. QED
      BY <2>1, <2>2, <3>1, <3>3, <3>4, <3>5 DEF r, g
  <2>. QED
    BY <2>4, <2>5
<1>. HIDE DEF T
<1>3. Seq(X) \subseteq T
  BY <1>1, <1>2, AllSequences
<1>4. s \in T
  BY <1>3
<1>5. Unselected(s, S) = Out(s)
  BY DEF Unselected
<1>6. Cardinality(Out(s)) \in Nat
  <2>1. IsFiniteSet(Out(s))
    BY <1>4 DEF T
  <2>. HIDE DEF Out
  <2>. QED
    BY <2>1, FS_CardinalityType
<1>. QED
  BY <1>4, <1>5, <1>6 DEF T

\* Sequences of numbers that grow.
Ascending(s) == \A i, j \in 1 .. Len(s) : i < j => s[i] < s[j]

LEMMA AscendingAppend ==
  ASSUME NEW s \in Seq(Nat), NEW e \in Nat
  PROVE  Ascending(Append(s, e)) <=> Ascending(s) /\ \A i \in 1 .. Len(s) : s[i] < e
<1> DEFINE r == Append(s, e)
<1>1. /\ Len(r) = Len(s) + 1 /\ Len(s) \in Nat
      /\ \A i \in 1 .. Len(s) : r[i] = s[i]
      /\ r[Len(s) + 1] = e
  BY AppendProperties, LenProperties
<1>. HIDE DEF r
<1>2. ASSUME Ascending(r) PROVE Ascending(s) /\ \A i \in 1 .. Len(s) : s[i] < e
  <2>1. \A i \in 1 .. Len(s) : i \in 1 .. Len(r)
    BY <1>1
  <2>2. Len(s) + 1 \in 1 .. Len(r) /\ \A i \in 1 .. Len(s) : i < Len(s) + 1
    BY <1>1
  <2>. QED
    BY <1>1, <1>2, <2>1, <2>2 DEF Ascending
<1>3. ASSUME Ascending(s), \A i \in 1 .. Len(s) : s[i] < e PROVE Ascending(r)
  <2>1. SUFFICES ASSUME NEW i \in 1 .. Len(r), NEW j \in 1 .. Len(r), i < j PROVE r[i] < r[j]
    BY DEF Ascending
  <2>2. i \in 1 .. Len(s) /\ r[i] = s[i]
    BY <1>1, <2>1
  <2>3. CASE j = Len(s) + 1
    BY <1>1, <1>3, <2>2, <2>3
  <2>4. CASE j # Len(s) + 1
    <3>1. j \in 1 .. Len(s) /\ r[j] = s[j]
      BY <1>1, <2>4
    <3>. QED
      BY <1>3, <2>1, <2>2, <3>1 DEF Ascending
  <2>. QED
    BY <2>3, <2>4
<1>. QED
  BY <1>2, <1>3 DEF r

LEMMA SelectedAscending ==
  ASSUME NEW S, NEW s \in Seq(Nat), Ascending(s)
  PROVE  Ascending(Selected(s, S))
<1> DEFINE T == {u \in Seq(Nat) : Ascending(u) => Ascending(Selected(u, S))}
<1>1. <<>> \in T
  BY SelectedEmpty, EmptySeq
<1>2. ASSUME NEW u \in Seq(Nat), u \in T, NEW e \in Nat PROVE Append(u, e) \in T
  <2>1. SUFFICES ASSUME Ascending(Append(u, e)) PROVE Ascending(Selected(Append(u, e), S))
    BY AppendProperties
  <2> DEFINE f == Selected(u, S)
  <2>2. Ascending(u) /\ \A i \in 1 .. Len(u) : u[i] < e
    BY <2>1, AscendingAppend
  <2>3. f \in Seq(Nat) /\ Ascending(f) /\ \A i \in 1 .. Len(f) : \E j \in 1 .. Len(u) : f[i] = u[j]
    <3>1. Ascending(f)
      BY <1>2, <2>2
    <3>. HIDE DEF T
    <3>2. /\ f \in Seq(Nat)
          /\ \A i \in 1 .. Len(f) : \E j \in 1 .. Len(u) : f[i] = u[j] /\ u[j] \in S
      BY SelectedCounts, Zenon
    <3>. QED
      BY <3>1, <3>2
  <2>4. Selected(Append(u, e), S) = IF e \in S THEN Append(f, e) ELSE f
    BY SelectedAppend
  <2>. HIDE DEF f
  <2>5. \A i \in 1 .. Len(f) : f[i] < e
    BY <2>2, <2>3
  <2>6. Ascending(Append(f, e))
    BY <2>3, <2>5, AscendingAppend
  <2>. QED
    BY <2>3, <2>4, <2>6
<1>. HIDE DEF T
<1>3. Seq(Nat) \subseteq T
  BY <1>1, <1>2, AllSequences
<1>. QED
  BY <1>3 DEF T

--------------------------------------------------------------------------------
\* Sequences of sequences.

\* \o, kept closed: the SMT backend replaces \o by what it does.
Concat(s, t) == s \o t

LEMMA Associative ==
  ASSUME NEW X, NEW s \in Seq(X), NEW t \in Seq(X), NEW u \in Seq(X)
  PROVE  Concat(Concat(s, t), u) = Concat(s, Concat(t, u))
BY ConcatAssociative DEF Concat

\* What FlattenSeq goes through.
FlattenSteps(g, c, X) ==
  /\ \A i \in 1 .. Len(c) : /\ g[i] \in Seq(X)
                            /\ g[i] = IF i = 1 THEN c[i] ELSE g[i - 1] \o c[i]
  /\ FlattenSeq(c) = IF Len(c) = 0 THEN c ELSE g[Len(c)]

LEMMA FlattenIteration ==
  ASSUME NEW X, NEW c \in Seq(Seq(X))
  PROVE  \E g : FlattenSteps(g, c, X)
<1> DEFINE V == Seq(X)
           n == Len(c)
           step == [p \in Nat \X V |-> IF p[1] \in 1 .. n THEN p[2] \o c[p[1]] ELSE p[2]]
           Eq(f) == f = [i \in 1 .. n |-> IF i = 1 THEN c[i] ELSE f[i - 1] \o c[i]]
           g == CHOOSE f : Eq(f)
<1>1. n \in Nat /\ \A i \in 1 .. n : c[i] \in V
  BY LenProperties
<1>2. step \in [Nat \X V -> V]
  BY <1>1
<1>3. <<>> \in V
  BY EmptySeq
<1>4. PICK f \in [0 .. n -> V] : IsIteration(f, n, <<>>, step)
  <2>. HIDE DEF step, V, n
  <2>. QED
    BY <1>1, <1>2, <1>3, IterationExists
<1>5. ASSUME NEW i \in 1 .. n, NEW v \in V PROVE step[<<i, v>>] = v \o c[i]
  <2>1. i \in Nat /\ <<i, v>> \in Nat \X V /\ <<i, v>>[1] = i /\ <<i, v>>[2] = v
    BY <1>1
  <2>. HIDE DEF n, V
  <2>. QED
    BY <2>1
<1>. HIDE DEF step, n
<1> DEFINE h == [i \in 1 .. n |-> f[i]]
<1>6. ASSUME NEW i \in 1 .. n
      PROVE  f[i] = IF i = 1 THEN c[i] ELSE f[i - 1] \o c[i]
  <2>1. f[i] = f[i - 1] \o c[i]
    <3>1. i \in 0 .. n /\ i # 0 /\ i - 1 \in 0 .. n /\ f[i - 1] \in V
      BY <1>1
    <3>2. f[i] = step[<<i, f[i - 1]>>]
      BY <1>4, <3>1 DEF IsIteration
    <3>. QED
      BY <1>5, <3>1, <3>2
  <2>2. f[0] = <<>>
    BY <1>1, <1>4 DEF IsIteration
  <2>3. <<>> \o c[i] = c[i]
    BY <1>1, ConcatEmptySeq
  <2>4. CASE i = 1
    <3>1. i - 1 = 0
      BY <2>4
    <3>2. f[i] = <<>> \o c[i]
      BY <2>1, <2>2, <3>1, Zenon
    <3>. QED
      BY <2>3, <2>4, <3>2, Zenon
  <2>5. CASE i # 1
    BY <2>1, <2>5
  <2>. QED
    BY <2>4, <2>5
<1>7. Eq(h)
  <2>1. \A i \in 1 .. n : i # 1 => h[i - 1] = f[i - 1]
    BY <1>1
  <2>2. \A i \in 1 .. n : f[i] = IF i = 1 THEN c[i] ELSE h[i - 1] \o c[i]
    BY <1>6, <2>1
  <2>. QED
    BY <2>2, Zenon
<1>8. Eq(g)
  BY <1>7, Zenon
<1>9. \A i \in 1 .. n : g[i] = IF i = 1 THEN c[i] ELSE g[i - 1] \o c[i]
  <2>. HIDE DEF g
  <2>. QED
    BY <1>8, Zenon
<1>10. FlattenSeq(c) = IF Len(c) = 0 THEN c ELSE g[Len(c)]
  BY DEF FlattenSeq, n
<1>. HIDE DEF g
<1>11. ASSUME NEW i \in 1 .. n PROVE g[i] \in V
  <2> DEFINE T == {j \in Nat : j + 1 \in 1 .. n => g[j + 1] \in V}
  <2>1. 0 \in T
    <3>1. 0 + 1 = 1
      OBVIOUS
    <3>2. ASSUME 1 \in 1 .. n PROVE g[1] \in V
      BY <1>1, <1>9, <3>2
    <3>. QED
      BY <3>1, <3>2
  <2>2. ASSUME NEW j \in Nat, j \in T PROVE j + 1 \in T
    <3>1. SUFFICES ASSUME (j + 1) + 1 \in 1 .. n PROVE g[(j + 1) + 1] \in V
      OBVIOUS
    <3>2. /\ (j + 1) + 1 # 1 /\ ((j + 1) + 1) - 1 = j + 1 /\ j + 1 \in 1 .. n
          /\ g[j + 1] \in V /\ c[(j + 1) + 1] \in V
      BY <1>1, <2>2, <3>1
    <3>3. g[(j + 1) + 1] = g[j + 1] \o c[(j + 1) + 1]
      BY <1>9, <3>1, <3>2
    <3>. QED
      BY <3>2, <3>3, ConcatProperties
  <2>. HIDE DEF T
  <2>3. Nat \subseteq T
    BY <2>1, <2>2, AllNumbers
  <2>4. i - 1 \in Nat /\ (i - 1) + 1 = i
    BY <1>1
  <2>. QED
    BY <2>3, <2>4 DEF T
<1>. QED
  BY <1>9, <1>10, <1>11 DEF FlattenSteps, n

LEMMA FlattenEmpty == FlattenSeq(<<>>) = <<>>
<1>1. Len(<<>>) = 0
  BY EmptySeq
<1>. QED
  BY <1>1 DEF FlattenSeq

LEMMA FlattenAppend ==
  ASSUME NEW X, NEW c \in Seq(Seq(X)), NEW b \in Seq(X)
  PROVE  /\ FlattenSeq(c) \in Seq(X)
         /\ FlattenSeq(Append(c, b)) = FlattenSeq(c) \o b
<1> DEFINE r == Append(c, b)
<1>1. /\ r \in Seq(Seq(X)) /\ Len(c) \in Nat /\ Len(r) = Len(c) + 1
      /\ \A i \in 1 .. Len(c) : r[i] = c[i] /\ c[i] \in Seq(X)
      /\ r[Len(c) + 1] = b
  <2>1. r \in Seq(Seq(X)) /\ Len(r) = Len(c) + 1 /\ r[Len(c) + 1] = b
        /\ \A i \in 1 .. Len(c) : r[i] = c[i]
    BY AppendProperties
  <2>. QED
    BY <2>1, LenProperties
<1>. HIDE DEF r
<1>2. PICK f : FlattenSteps(f, c, X)
  BY FlattenIteration
<1>3. PICK g : FlattenSteps(g, r, X)
  BY <1>1, FlattenIteration
<1>4. FlattenSeq(r) = g[Len(r)]
  BY <1>1, <1>3 DEF FlattenSteps
<1>5. CASE Len(c) = 0
  <2>1. c = <<>>
    BY <1>5, EmptySeq
  <2>2. FlattenSeq(c) = <<>>
    BY <2>1, FlattenEmpty
  <2>3. 1 \in 1 .. Len(r) /\ Len(r) = 1 /\ r[1] = b
    BY <1>1, <1>5
  <2>4. FlattenSeq(r) = b
    BY <1>3, <1>4, <2>3 DEF FlattenSteps
  <2>. QED
    BY <2>2, <2>4, ConcatEmptySeq, EmptySeq DEF r
<1>6. CASE Len(c) # 0
  <2> DEFINE T == {i \in Nat : i + 1 \in 1 .. Len(c) => f[i + 1] = g[i + 1]}
  <2>1. 0 \in T
    <3>1. 1 \in 1 .. Len(r)
      BY <1>1
    <3>. QED
      BY <1>1, <1>2, <1>3, <3>1 DEF FlattenSteps
  <2>2. ASSUME NEW i \in Nat, i \in T PROVE i + 1 \in T
    <3>1. SUFFICES ASSUME (i + 1) + 1 \in 1 .. Len(c) PROVE f[(i + 1) + 1] = g[(i + 1) + 1]
      OBVIOUS
    <3>2. /\ (i + 1) + 1 # 1 /\ ((i + 1) + 1) - 1 = i + 1 /\ (i + 1) + 1 \in 1 .. Len(r)
          /\ f[i + 1] = g[i + 1] /\ r[(i + 1) + 1] = c[(i + 1) + 1]
      BY <1>1, <2>2, <3>1
    <3>3. f[(i + 1) + 1] = f[i + 1] \o c[(i + 1) + 1]
      BY <1>2, <3>1, <3>2 DEF FlattenSteps
    <3>4. g[(i + 1) + 1] = g[i + 1] \o r[(i + 1) + 1]
      BY <1>3, <3>2 DEF FlattenSteps
    <3>. QED
      BY <3>2, <3>3, <3>4
  <2>. HIDE DEF T
  <2>3. Nat \subseteq T
    BY <2>1, <2>2, AllNumbers
  <2>4. Len(c) - 1 \in Nat /\ (Len(c) - 1) + 1 = Len(c) /\ Len(c) \in 1 .. Len(c)
    BY <1>1, <1>6
  <2>5. f[Len(c)] = g[Len(c)]
    BY <2>3, <2>4 DEF T
  <2>6. Len(r) \in 1 .. Len(r) /\ Len(r) # 1 /\ Len(r) - 1 = Len(c) /\ r[Len(r)] = b
    BY <1>1, <1>6
  <2>7. g[Len(r)] = g[Len(c)] \o b
    BY <1>3, <2>6 DEF FlattenSteps
  <2>8. FlattenSeq(c) = f[Len(c)] /\ f[Len(c)] \in Seq(X)
    BY <1>2, <1>6, <2>4 DEF FlattenSteps
  <2>. QED
    BY <1>4, <2>5, <2>7, <2>8 DEF r
<1>. QED
  BY <1>5, <1>6

LEMMA FlattenHead ==
  ASSUME NEW X, NEW c \in Seq(Seq(X)), c # <<>>
  PROVE  FlattenSeq(c) = Head(c) \o FlattenSeq(Tail(c))
<1> DEFINE T == {d \in Seq(Seq(X)) : d # <<>> => FlattenSeq(d) = Head(d) \o FlattenSeq(Tail(d))}
<1>1. <<>> \in T
  BY EmptySeq
<1>2. ASSUME NEW d \in Seq(Seq(X)), d \in T, NEW b \in Seq(X) PROVE Append(d, b) \in T
  <2> DEFINE r == Append(d, b)
  <2>1. /\ r \in Seq(Seq(X))
        /\ Head(r) = IF d = <<>> THEN b ELSE Head(d)
        /\ Tail(r) = IF d = <<>> THEN <<>> ELSE Append(Tail(d), b)
    BY AppendProperties, HeadTailAppend
  <2>2. FlattenSeq(r) = FlattenSeq(d) \o b
    BY FlattenAppend
  <2>. HIDE DEF r
  <2>3. CASE d = <<>>
    <3>1. FlattenSeq(r) = b
      BY <2>2, <2>3, FlattenEmpty, ConcatEmptySeq, EmptySeq
    <3>2. FlattenSeq(Tail(r)) = <<>> /\ Head(r) = b /\ b \o <<>> = b
      BY <2>1, <2>3, FlattenEmpty, ConcatEmptySeq
    <3>. QED
      BY <2>1, <3>1, <3>2 DEF r
  <2>4. CASE d # <<>>
    <3>1. Tail(d) \in Seq(Seq(X)) /\ Head(d) \in Seq(X)
      BY <2>4, HeadTailProperties
    <3> DEFINE t == Tail(d)
    <3>. HIDE DEF t
    <3>2. FlattenSeq(t) \in Seq(X) /\ FlattenSeq(Append(t, b)) = FlattenSeq(t) \o b
      <4>1. t \in Seq(Seq(X))
        BY <3>1 DEF t
      <4>. QED
        BY <4>1, FlattenAppend
    <3>3. FlattenSeq(r) = (Head(d) \o FlattenSeq(t)) \o b
      BY <1>2, <2>2, <2>4 DEF t
    <3>4. (Head(d) \o FlattenSeq(t)) \o b = Head(d) \o (FlattenSeq(t) \o b)
        <4> DEFINE h == Head(d)
                 f == FlattenSeq(t)
      <4>1. h \in Seq(X) /\ f \in Seq(X)
        BY <3>1, <3>2
      <4>. HIDE DEF h, f, T
      <4>2. Concat(Concat(h, f), b) = Concat(h, Concat(f, b))
        BY <4>1, Associative
      <4>. QED
        BY <4>2, Zenon DEF h, f, Concat
    <3>5. Head(r) = Head(d) /\ Tail(r) = Append(t, b)
      BY <2>1, <2>4 DEF t
    <3>. QED
      BY <2>1, <3>2, <3>3, <3>4, <3>5 DEF r
  <2>. QED
    BY <2>3, <2>4
<1>. HIDE DEF T
<1>3. Seq(Seq(X)) \subseteq T
  BY <1>1, <1>2, AllSequences
<1>. QED
  BY <1>3 DEF T

--------------------------------------------------------------------------------
\* A sequence of growing numbers that loses some of them.

LEMMA SelectedSame ==
  ASSUME NEW X, NEW S, NEW R, NEW s \in Seq(X), \A i \in 1 .. Len(s) : s[i] \in S <=> s[i] \in R
  PROVE  Selected(s, S) = Selected(s, R)
<1> DEFINE T == {u \in Seq(X) :
                   (\A i \in 1 .. Len(u) : u[i] \in S <=> u[i] \in R)
                     => Selected(u, S) = Selected(u, R)}
<1>1. <<>> \in T
  BY SelectedEmpty, EmptySeq
<1>2. ASSUME NEW u \in Seq(X), u \in T, NEW e \in X PROVE Append(u, e) \in T
  <2>1. /\ Append(u, e) \in Seq(X) /\ Len(Append(u, e)) = Len(u) + 1 /\ Len(u) \in Nat
        /\ \A i \in 1 .. Len(u) : Append(u, e)[i] = u[i]
        /\ Append(u, e)[Len(u) + 1] = e
    BY AppendProperties, LenProperties
  <2>2. SUFFICES ASSUME \A i \in 1 .. Len(u) + 1 : Append(u, e)[i] \in S <=> Append(u, e)[i] \in R
                 PROVE  Selected(Append(u, e), S) = Selected(Append(u, e), R)
    BY <2>1
  <2>3. (e \in S <=> e \in R) /\ \A i \in 1 .. Len(u) : u[i] \in S <=> u[i] \in R
    BY <2>1, <2>2
  <2>4. Selected(u, S) = Selected(u, R)
    BY <1>2, <2>3
  <2>5. /\ Selected(Append(u, e), S) = IF e \in S THEN Append(Selected(u, S), e) ELSE Selected(u, S)
        /\ Selected(Append(u, e), R) = IF e \in R THEN Append(Selected(u, R), e) ELSE Selected(u, R)
    BY SelectedAppend
  <2>. QED
    BY <2>3, <2>4, <2>5
<1>. HIDE DEF T
<1>3. Seq(X) \subseteq T
  BY <1>1, <1>2, AllSequences
<1>4. s \in T
  BY <1>3
<1>. QED
  BY <1>4 DEF T

LEMMA AscendingConcat ==
  ASSUME NEW a \in Seq(Nat), NEW b \in Seq(Nat)
  PROVE  Ascending(a \o b) <=> /\ Ascending(a) /\ Ascending(b)
                               /\ \A i \in 1 .. Len(a), j \in 1 .. Len(b) : a[i] < b[j]
<1> DEFINE r == a \o b
<1>1. /\ Len(a) \in Nat /\ Len(b) \in Nat /\ Len(r) = Len(a) + Len(b)
      /\ \A i \in 1 .. Len(a) : r[i] = a[i] /\ i \in 1 .. Len(r) /\ a[i] \in Nat
      /\ \A i \in 1 .. Len(b) : r[Len(a) + i] = b[i] /\ Len(a) + i \in 1 .. Len(r) /\ b[i] \in Nat
      /\ \A i \in 1 .. Len(r) : \/ i \in 1 .. Len(a)
                                \/ \E j \in 1 .. Len(b) : i = Len(a) + j
  <2>1. /\ Len(a) \in Nat /\ Len(b) \in Nat /\ Len(r) = Len(a) + Len(b)
        /\ \A i \in 1 .. Len(r) : r[i] = IF i <= Len(a) THEN a[i] ELSE b[i - Len(a)]
        /\ \A i \in 1 .. Len(a) : a[i] \in Nat
        /\ \A i \in 1 .. Len(b) : b[i] \in Nat
    BY ConcatProperties, LenProperties
  <2>. HIDE DEF r
  <2>2. ASSUME NEW i \in 1 .. Len(a) PROVE r[i] = a[i] /\ i \in 1 .. Len(r)
    BY <2>1
  <2>3. ASSUME NEW i \in 1 .. Len(b) PROVE r[Len(a) + i] = b[i] /\ Len(a) + i \in 1 .. Len(r)
    <3>1. Len(a) + i \in 1 .. Len(r) /\ ~(Len(a) + i <= Len(a)) /\ (Len(a) + i) - Len(a) = i
      BY <2>1
    <3>. QED
      BY <2>1, <3>1
  <2>4. ASSUME NEW i \in 1 .. Len(r), i \notin 1 .. Len(a)
        PROVE  \E j \in 1 .. Len(b) : i = Len(a) + j
    <3>1. i - Len(a) \in 1 .. Len(b) /\ i = Len(a) + (i - Len(a))
      BY <2>1, <2>4
    <3>. QED
      BY <3>1
  <2>. QED
    BY <2>1, <2>2, <2>3, <2>4
<1>. HIDE DEF r
<1>2. ASSUME Ascending(r)
      PROVE  /\ Ascending(a) /\ Ascending(b)
             /\ \A i \in 1 .. Len(a), j \in 1 .. Len(b) : a[i] < b[j]
  <2>1. Ascending(a)
    BY <1>1, <1>2 DEF Ascending
  <2>2. ASSUME NEW i \in 1 .. Len(b), NEW j \in 1 .. Len(b), i < j PROVE b[i] < b[j]
    <3>1. Len(a) + i < Len(a) + j
      BY <1>1, <2>2
    <3>. QED
      BY <1>1, <1>2, <3>1 DEF Ascending
  <2>3. ASSUME NEW i \in 1 .. Len(a), NEW j \in 1 .. Len(b) PROVE a[i] < b[j]
    <3>1. i < Len(a) + j
      BY <1>1
    <3>. QED
      BY <1>1, <1>2, <3>1 DEF Ascending
  <2>. QED
    BY <2>1, <2>2, <2>3 DEF Ascending
<1>3. ASSUME Ascending(a), Ascending(b), \A i \in 1 .. Len(a), j \in 1 .. Len(b) : a[i] < b[j]
      PROVE  Ascending(r)
  <2>1. SUFFICES ASSUME NEW i \in 1 .. Len(r), NEW j \in 1 .. Len(r), i < j PROVE r[i] < r[j]
    BY DEF Ascending
  <2>2. CASE j \in 1 .. Len(a)
    <3>1. i \in 1 .. Len(a)
      BY <1>1, <2>1, <2>2
    <3>. QED
      BY <1>1, <1>3, <2>1, <2>2, <3>1 DEF Ascending
  <2>3. ASSUME NEW k \in 1 .. Len(b), j = Len(a) + k PROVE r[i] < r[j]
    <3>1. CASE i \in 1 .. Len(a)
      BY <1>1, <1>3, <2>3, <3>1
    <3>2. ASSUME NEW m \in 1 .. Len(b), i = Len(a) + m PROVE r[i] < r[j]
      <4>1. m < k
        BY <1>1, <2>1, <2>3, <3>2
      <4>. QED
        BY <1>1, <1>3, <2>3, <3>2, <4>1 DEF Ascending
    <3>. QED
      BY <1>1, <3>1, <3>2
  <2>. QED
    BY <1>1, <2>2, <2>3
<1>. QED
  BY <1>2, <1>3 DEF r

\* A sequence over 1 .. n becomes another one by losing elements.
CanBecome(s, t, n) == \E kept \in SUBSET (1 .. n) : Selected(s, kept) = t

\* Losing some of a part in the middle is losing some of the whole.
LEMMA LossOfPart ==
  ASSUME NEW n \in Nat, NEW S, NEW a \in Seq(Nat), NEW m \in Seq(Nat), NEW c \in Seq(Nat),
         Ascending(Concat(a, Concat(m, c))),
         \A i \in 1 .. Len(a) : a[i] \in 1 .. n,
         \A i \in 1 .. Len(m) : m[i] \in 1 .. n,
         \A i \in 1 .. Len(c) : c[i] \in 1 .. n
  PROVE  CanBecome(Concat(a, Concat(m, c)), Concat(a, Concat(Selected(m, S), c)), n)
<1> DEFINE kept == {x \in 1 .. n : x \in S \/ \A i \in 1 .. Len(m) : m[i] # x}
<1>1. Concat(m, c) \in Seq(Nat)
  BY ConcatProperties DEF Concat
<1>2. Ascending(Concat(m, c)) /\ \A i \in 1 .. Len(a), j \in 1 .. Len(Concat(m, c)) : a[i] < Concat(m, c)[j]
  <2> DEFINE p == Concat(m, c)
  <2>1. p \in Seq(Nat) /\ Ascending(a \o p)
    BY <1>1 DEF Concat
  <2>. HIDE DEF p
  <2>. QED
    BY <2>1, AscendingConcat DEF p
<1>3. \A i \in 1 .. Len(m), j \in 1 .. Len(c) : m[i] < c[j]
  BY <1>2, AscendingConcat DEF Concat
<1>4. \A i \in 1 .. Len(a), j \in 1 .. Len(m) : a[i] < m[j]
  <2>1. /\ Len(m) \in Nat /\ Len(c) \in Nat /\ Len(Concat(m, c)) = Len(m) + Len(c)
        /\ \A j \in 1 .. Len(m) : Concat(m, c)[j] = m[j]
    BY ConcatProperties, LenProperties DEF Concat
  <2>. QED
    BY <1>2, <2>1
<1>5. /\ \A i \in 1 .. Len(a) : a[i] \in Nat
      /\ \A i \in 1 .. Len(m) : m[i] \in Nat
      /\ \A i \in 1 .. Len(c) : c[i] \in Nat
  BY LenProperties
<1>6. \A i \in 1 .. Len(a) : a[i] \in kept
  BY <1>4, <1>5, SMTT(60)
<1>7. \A i \in 1 .. Len(c) : c[i] \in kept
  BY <1>3, <1>5
<1>8. \A i \in 1 .. Len(m) : m[i] \in kept <=> m[i] \in S
  OBVIOUS
<1>9. kept \in SUBSET (1 .. n)
  OBVIOUS
<1>. HIDE DEF kept
<1>10. Selected(a, kept) = a /\ Selected(c, kept) = c /\ Selected(m, kept) = Selected(m, S)
  BY <1>6, <1>7, <1>8, SelectedAll, SelectedSame
<1>11. Selected(Concat(m, c), kept) = Concat(Selected(m, S), c)
  <2>1. Selected(Concat(m, c), kept) = Concat(Selected(m, kept), Selected(c, kept))
    BY SelectedConcat DEF Concat
  <2>. QED
    BY <1>10, <2>1
<1>12. Selected(Concat(a, Concat(m, c)), kept) = Concat(a, Concat(Selected(m, S), c))
  <2> DEFINE p == Concat(m, c)
  <2>1. p \in Seq(Nat)
    BY <1>1
  <2>. HIDE DEF p
  <2>2. Selected(Concat(a, p), kept) = Concat(Selected(a, kept), Selected(p, kept))
    BY <2>1, SelectedConcat DEF Concat
  <2>. QED
    BY <1>10, <1>11, <2>2 DEF p
<1>. QED
  BY <1>9, <1>12 DEF CanBecome

\* Taking the first part off a sequence.
LEMMA SplitConcat ==
  ASSUME NEW X, NEW a \in Seq(X), NEW b \in Seq(X)
  PROVE  /\ SubSeq(Concat(a, b), 1, Len(a)) = a
         /\ SubSeq(Concat(a, b), Len(a) + 1, Len(Concat(a, b))) = b
         /\ Len(Concat(a, b)) = Len(a) + Len(b)
         /\ Concat(a, b) \in Seq(X)
<1> DEFINE r == Concat(a, b)
<1>1. /\ r \in Seq(X) /\ Len(a) \in Nat /\ Len(b) \in Nat /\ Len(r) = Len(a) + Len(b)
      /\ \A i \in 1 .. Len(r) : r[i] = IF i <= Len(a) THEN a[i] ELSE b[i - Len(a)]
      /\ \A i \in 1 .. Len(r) : r[i] \in X
  BY ConcatProperties, LenProperties DEF Concat
<1>. HIDE DEF r
<1>2. SubSeq(r, 1, Len(a)) = a
  <2> DEFINE t == SubSeq(r, 1, Len(a))
  <2>1. /\ t \in Seq(X) /\ Len(t) = Len(a)
        /\ \A i \in 1 .. Len(a) : t[i] = r[i]
    <3>1. Len(a) \in Int /\ \A i \in 1 .. Len(a) : r[i] \in X
      BY <1>1
    <3>2. /\ t \in Seq(X) /\ Len(t) = IF 1 <= Len(a) THEN Len(a) - 1 + 1 ELSE 0
          /\ \A i \in 1 .. Len(a) - 1 + 1 : t[i] = r[1 + i - 1]
      BY <3>1, SubSeqProperties
    <3>3. \A i \in 1 .. Len(a) : 1 + i - 1 = i /\ i \in 1 .. Len(a) - 1 + 1
      BY <1>1
    <3>. HIDE DEF t
    <3>4. Len(t) = Len(a)
      BY <1>1, <3>2
    <3>. QED
      BY <3>2, <3>3, <3>4
  <2>. HIDE DEF t
  <2>2. \A i \in 1 .. Len(a) : t[i] = a[i]
    BY <1>1, <2>1
  <2>3. t = a
    BY <2>1, <2>2, SeqEqual
  <2>. QED
    BY <2>3 DEF t
<1>3. SubSeq(r, Len(a) + 1, Len(r)) = b
  <2> DEFINE t == SubSeq(r, Len(a) + 1, Len(r))
  <2>1. /\ t \in Seq(X) /\ Len(t) = Len(b)
        /\ \A i \in 1 .. Len(b) : t[i] = r[Len(a) + i]
    <3>1. Len(a) + 1 \in Int /\ Len(r) \in Int /\ \A i \in Len(a) + 1 .. Len(r) : r[i] \in X
      BY <1>1
    <3>2. /\ t \in Seq(X)
          /\ Len(t) = IF Len(a) + 1 <= Len(r) THEN Len(r) - (Len(a) + 1) + 1 ELSE 0
          /\ \A i \in 1 .. Len(r) - (Len(a) + 1) + 1 : t[i] = r[Len(a) + 1 + i - 1]
      BY <3>1, SubSeqProperties
    <3>3. \A i \in 1 .. Len(b) : /\ Len(a) + 1 + i - 1 = Len(a) + i
                                 /\ i \in 1 .. Len(r) - (Len(a) + 1) + 1
      BY <1>1
    <3>. HIDE DEF t
    <3>4. Len(t) = Len(b)
      BY <1>1, <3>2
    <3>. QED
      BY <3>2, <3>3, <3>4
  <2>. HIDE DEF t
  <2>2. ASSUME NEW i \in 1 .. Len(b) PROVE t[i] = b[i]
    <3>1. Len(a) + i \in 1 .. Len(r) /\ ~(Len(a) + i <= Len(a)) /\ (Len(a) + i) - Len(a) = i
      BY <1>1
    <3>. QED
      BY <1>1, <2>1, <3>1
  <2>3. t = b
    BY <2>1, <2>2, SeqEqual
  <2>. QED
    BY <2>3 DEF t
<1>. QED
  BY <1>1, <1>2, <1>3 DEF r
--------------------------------------------------------------------------------
\* Finite sets.

\* Induction over the subsets of a finite set.
LEMMA AllSubsets ==
  ASSUME NEW S, IsFiniteSet(S), NEW T, {} \in T,
         \A s \in SUBSET S : s # {} /\ (\A x \in s : s \ {x} \in T) => s \in T
  PROVE  SUBSET S \subseteq T
<1> DEFINE N == {n \in Nat : \A s \in SUBSET S : Cardinality(s) = n => s \in T}
<1>1. \A s \in SUBSET S : IsFiniteSet(s) /\ Cardinality(s) \in Nat
  BY FS_Subset, FS_CardinalityType
<1>2. 0 \in N
  BY <1>1, FS_EmptySet
<1>3. ASSUME NEW n \in Nat, n \in N PROVE n + 1 \in N
  <2>1. SUFFICES ASSUME NEW s \in SUBSET S, Cardinality(s) = n + 1 PROVE s \in T
    OBVIOUS
  <2>2. s # {}
    BY <1>1, <2>1, FS_EmptySet
  <2>3. ASSUME NEW x \in s PROVE s \ {x} \in T
    <3>1. Cardinality(s \ {x}) = Cardinality(s) - 1
      BY <1>1, FS_RemoveElement
    <3>. QED
      BY <1>3, <2>1, <3>1
  <2>. QED
    BY <2>2, <2>3
<1>. HIDE DEF N
<1>4. Nat \subseteq N
  BY <1>2, <1>3, AllNumbers
<1>. QED
  BY <1>1, <1>4 DEF N

\* A function takes finitely many values on a finite set.
LEMMA FiniteImage ==
  ASSUME NEW S, IsFiniteSet(S), NEW f
  PROVE  IsFiniteSet({f[x] : x \in S})
<1> DEFINE Named(s) == {f[x] : x \in s}
           T == {s \in SUBSET S : IsFiniteSet(Named(s))}
<1>1. {} \in T
  <2>1. Named({}) = {}
    OBVIOUS
  <2>. QED
    BY <2>1, FS_EmptySet
<1>2. ASSUME NEW s \in SUBSET S, s # {}, \A x \in s : s \ {x} \in T PROVE s \in T
  <2>1. PICK x : x \in s
    BY <1>2
  <2>2. Named(s) = Named(s \ {x}) \cup {f[x]}
    BY <2>1
  <2>3. IsFiniteSet(Named(s \ {x}))
    BY <1>2, <2>1
  <2>. HIDE DEF Named
  <2>4. PICK r : r = Named(s \ {x})
    OBVIOUS
  <2>5. IsFiniteSet(r \cup {f[x]})
    BY <2>3, <2>4, FS_AddElement
  <2>6. Named(s) = r \cup {f[x]}
    BY <2>2, <2>4
  <2>. QED
    BY <2>5, <2>6
<1>. HIDE DEF T
<1>3. SUBSET S \subseteq T
  BY <1>1, <1>2, AllSubsets
<1>4. S \in T
  BY <1>3
<1>. QED
  BY <1>4 DEF T

--------------------------------------------------------------------------------
\* Sums.

Chosen(S) == CHOOSE x \in S : TRUE

Numbers(f, S) == IsFiniteSet(S) /\ \A x \in S : f[x] \in Nat

\* What SumFunctionOnSet goes through.
IsSum(g, f, S) ==
  g = [s \in SUBSET S |-> IF s = {} THEN 0 ELSE f[Chosen(s)] + g[s \ {Chosen(s)}]]

LEMMA SumExists ==
  ASSUME NEW S, NEW f, Numbers(f, S)
  PROVE  \E g \in [SUBSET S -> Nat] : IsSum(g, f, S)
<1> DEFINE V == [SUBSET S -> Nat]
           next(h) == [s \in SUBSET S |-> IF s = {} THEN 0 ELSE f[Chosen(s)] + h[s \ {Chosen(s)}]]
           step == [p \in Nat \X V |-> next(p[2])]
           base == [s \in SUBSET S |-> 0]
           n == Cardinality(S)
<1>1. /\ n \in Nat
      /\ \A s \in SUBSET S : Cardinality(s) \in 0 .. n /\ (Cardinality(s) = 0 <=> s = {})
      /\ \A s \in SUBSET S : s # {} =>
            /\ Chosen(s) \in s
            /\ s \ {Chosen(s)} \in SUBSET S
            /\ Cardinality(s \ {Chosen(s)}) = Cardinality(s) - 1
  <2>1. \A s \in SUBSET S : /\ IsFiniteSet(s) /\ Cardinality(s) \in Nat /\ Cardinality(s) <= n
                            /\ Cardinality(s) = 0 <=> s = {}
    BY FS_Subset, FS_CardinalityType, FS_EmptySet DEF Numbers
  <2>2. n \in Nat
    BY FS_CardinalityType DEF Numbers
  <2>3. ASSUME NEW s \in SUBSET S, s # {} PROVE Chosen(s) \in s
    BY <2>3 DEF Chosen
  <2>4. ASSUME NEW s \in SUBSET S, s # {}
        PROVE  Cardinality(s \ {Chosen(s)}) = Cardinality(s) - 1
    BY <2>1, <2>3, <2>4, FS_RemoveElement
  <2>. HIDE DEF n
  <2>. QED
    BY <2>1, <2>2, <2>3, <2>4
<1>2. ASSUME NEW h \in V PROVE next(h) \in V
  <2>. HIDE DEF n
  <2>1. ASSUME NEW s \in SUBSET S, s # {} PROVE f[Chosen(s)] + h[s \ {Chosen(s)}] \in Nat
    <3>1. Chosen(s) \in S /\ s \ {Chosen(s)} \in SUBSET S
      BY <1>1, <2>1
    <3>2. f[Chosen(s)] \in Nat /\ h[s \ {Chosen(s)}] \in Nat
      BY <3>1 DEF Numbers
    <3>. QED
      BY <3>2
  <2>. QED
    BY <2>1
<1>. HIDE DEF next
<1>3. step \in [Nat \X V -> V] /\ base \in V
  BY <1>2
<1>4. \A i \in Nat, h \in V : step[<<i, h>>] = next(h)
  OBVIOUS
<1>. HIDE DEF V, step, base, n
<1>5. PICK h \in [0 .. n + 1 -> V] : IsIteration(h, n + 1, base, step)
  <2>1. n + 1 \in Nat
    BY <1>1
  <2>. QED
    BY <1>3, <2>1, IterationExists
<1>6. \A i \in 0 .. n : h[i + 1] = next(h[i]) /\ h[i] \in V
  <2>1. ASSUME NEW i \in 0 .. n PROVE h[i + 1] = next(h[i]) /\ h[i] \in V
    <3>1. /\ i \in 0 .. n + 1 /\ i + 1 \in 0 .. n + 1 /\ i + 1 # 0 /\ (i + 1) - 1 = i
          /\ i + 1 \in Nat
      BY <1>1
    <3>2. h[i + 1] = step[<<i + 1, h[(i + 1) - 1]>>]
      BY <1>5, <3>1, Zenon DEF IsIteration
    <3>. QED
      BY <1>4, <1>5, <3>1, <3>2
  <2>. QED
    BY <2>1
<1> DEFINE T == {i \in Nat : i <= n =>
                   \A s \in SUBSET S : Cardinality(s) <= i => h[i][s] = h[i + 1][s]}
<1>7. \A u \in V, s \in SUBSET S :
         next(u)[s] = IF s = {} THEN 0 ELSE f[Chosen(s)] + u[s \ {Chosen(s)}]
  BY DEF next
<1>8. 0 \in T
  <2>1. h[0] = base
    BY <1>1, <1>5 DEF IsIteration
  <2>2. ASSUME NEW s \in SUBSET S, Cardinality(s) <= 0 PROVE h[0][s] = h[0 + 1][s]
    <3>1. s = {}
      BY <1>1, <2>2
    <3>. QED
      <4>1. 0 \in 0 .. n /\ 0 + 1 = 1
        BY <1>1
      <4>2. h[1] = next(h[0]) /\ h[0] \in V
        BY <1>6, <4>1
      <4>3. h[1][s] = 0
        BY <1>7, <3>1, <4>2
      <4>4. h[0][s] = 0
        BY <2>1 DEF base
      <4>. QED
        BY <4>1, <4>3, <4>4
  <2>. QED
    BY <2>2
<1>9. ASSUME NEW i \in Nat, i \in T PROVE i + 1 \in T
  <2>1. SUFFICES ASSUME i + 1 <= n, NEW s \in SUBSET S, Cardinality(s) <= i + 1
                 PROVE  h[i + 1][s] = h[i + 2][s]
    <3>1. (i + 1) + 1 = i + 2
      OBVIOUS
    <3>. QED
      BY <3>1
  <2>2. /\ i \in 0 .. n /\ i + 1 \in 0 .. n /\ (i + 1) + 1 = i + 2
    BY <1>1, <2>1
  <2>3. h[i + 1] = next(h[i]) /\ h[i + 2] = next(h[i + 1]) /\ h[i] \in V /\ h[i + 1] \in V
    BY <1>6, <2>2
  <2>4. CASE s = {}
    BY <1>7, <2>3, <2>4
  <2>5. CASE s # {}
    <3>1. s \ {Chosen(s)} \in SUBSET S /\ Cardinality(s \ {Chosen(s)}) <= i
      BY <1>1, <2>1, <2>5
    <3>2. h[i][s \ {Chosen(s)}] = h[i + 1][s \ {Chosen(s)}]
      BY <1>1, <1>9, <2>1, <3>1
    <3>. QED
      BY <1>7, <2>3, <2>5, <3>2, ZenonT(100)
  <2>. QED
    BY <2>4, <2>5
<1>. HIDE DEF T
<1>10. n \in T
  BY <1>1, <1>8, <1>9, AllNumbers
<1>11. \A s \in SUBSET S : h[n][s] = h[n + 1][s]
  BY <1>1, <1>10 DEF T
<1>12. n \in 0 .. n
  BY <1>1
<1>13. h[n + 1] = next(h[n]) /\ h[n] \in V
  BY <1>6, <1>12
<1>14. PICK g : g = h[n]
  OBVIOUS
<1>15. g \in V /\ \A s \in SUBSET S : g[s] = next(g)[s]
  BY <1>11, <1>13, <1>14
<1>16. \A s \in SUBSET S : g[s] = IF s = {} THEN 0 ELSE f[Chosen(s)] + g[s \ {Chosen(s)}]
  BY <1>7, <1>15
<1>17. g \in [SUBSET S -> Nat]
  BY <1>15 DEF V
<1>18. g = [s \in SUBSET S |-> g[s]]
  BY <1>17
<1>19. IsSum(g, f, S)
  BY <1>16, <1>18, Zenon DEF IsSum
<1>. QED
  BY <1>17, <1>19

LEMMA SumUnique ==
  ASSUME NEW f, NEW S, NEW R, NEW g, NEW h, IsFiniteSet(S), S \subseteq R,
         IsSum(g, f, S), IsSum(h, f, R)
  PROVE  g[S] = h[S]
<1> DEFINE T == {s \in SUBSET S : g[s] = h[s]}
<1>1. {} \in T
  BY DEF IsSum
<1>2. ASSUME NEW s \in SUBSET S, s # {}, \A x \in s : s \ {x} \in T PROVE s \in T
  <2>1. Chosen(s) \in s
    BY <1>2 DEF Chosen
  <2>2. g[s \ {Chosen(s)}] = h[s \ {Chosen(s)}]
    BY <1>2, <2>1
  <2>3. g[s] = f[Chosen(s)] + g[s \ {Chosen(s)}] /\ h[s] = f[Chosen(s)] + h[s \ {Chosen(s)}]
    BY <1>2 DEF IsSum
  <2>. QED
    BY <2>2, <2>3
<1>. HIDE DEF T
<1>3. SUBSET S \subseteq T
  BY <1>1, <1>2, AllSubsets
<1>4. S \in SUBSET S
  OBVIOUS
<1>. QED
  BY <1>3, <1>4 DEF T

LEMMA SumUnfolds ==
  ASSUME NEW f, NEW S, Numbers(f, S)
  PROVE  \E g \in [SUBSET S -> Nat] :
           IsSum(g, f, S) /\ \A s \in SUBSET S : SumFunctionOnSet(f, s) = g[s]
<1>1. PICK g \in [SUBSET S -> Nat] : IsSum(g, f, S)
  BY SumExists
<1>2. ASSUME NEW s \in SUBSET S PROVE SumFunctionOnSet(f, s) = g[s]
  <2> DEFINE u == CHOOSE u : IsSum(u, f, s)
  <2>1. IsFiniteSet(s) /\ Numbers(f, s)
    BY FS_Subset DEF Numbers
  <2>2. IsSum(u, f, s)
    BY <2>1, SumExists, Zenon
  <2>3. SumFunctionOnSet(f, s) = u[s]
    BY DEF SumFunctionOnSet, FoldFunctionOnSet, MapThenFoldSet, IsSum, Chosen
  <2>. HIDE DEF u
  <2>4. u[s] = g[s]
    BY <1>1, <2>1, <2>2, SumUnique
  <2>. QED
    BY <2>3, <2>4
<1>. QED
  BY <1>1, <1>2

LEMMA SumNothing == ASSUME NEW f PROVE SumFunctionOnSet(f, {}) = 0
<1>1. Numbers(f, {})
  BY FS_EmptySet DEF Numbers
<1>. QED
  BY <1>1, SumUnfolds DEF IsSum

LEMMA SumType == ASSUME NEW f, NEW S, Numbers(f, S) PROVE SumFunctionOnSet(f, S) \in Nat
<1>1. S \in SUBSET S
  OBVIOUS
<1>2. PICK g \in [SUBSET S -> Nat] : \A s \in SUBSET S : SumFunctionOnSet(f, s) = g[s]
  BY SumUnfolds, ZenonT(100)
<1>. QED
  BY <1>1, <1>2

LEMMA SumRemove ==
  ASSUME NEW f, NEW S, Numbers(f, S), NEW x \in S
  PROVE  SumFunctionOnSet(f, S) = f[x] + SumFunctionOnSet(f, S \ {x})
<1> DEFINE T == {s \in SUBSET S : \A y \in s : SumFunctionOnSet(f, s) = f[y] + SumFunctionOnSet(f, s \ {y})}
<1>1. PICK g \in [SUBSET S -> Nat] :
         IsSum(g, f, S) /\ \A s \in SUBSET S : SumFunctionOnSet(f, s) = g[s]
  BY SumUnfolds
<1>2. {} \in T
  OBVIOUS
<1>3. ASSUME NEW s \in SUBSET S, s # {}, \A y \in s : s \ {y} \in T PROVE s \in T
  <2>1. Chosen(s) \in s
    BY <1>3 DEF Chosen
  <2>2. PICK c : c = Chosen(s)
    OBVIOUS
  <2>3. c \in s /\ g[s] = f[c] + g[s \ {c}]
    BY <1>1, <1>3, <2>1, <2>2 DEF IsSum
  <2>4. ASSUME NEW y \in s PROVE g[s] = f[y] + g[s \ {y}]
    <3>1. CASE y = c
      BY <2>3, <3>1
    <3>2. CASE y # c
      <4>1. g[s \ {c}] = f[y] + g[(s \ {c}) \ {y}]
        BY <1>1, <1>3, <2>3, <3>2
      <4>2. g[s \ {y}] = f[c] + g[(s \ {y}) \ {c}]
        BY <1>1, <1>3, <2>3, <3>2
      <4>3. (s \ {c}) \ {y} = (s \ {y}) \ {c}
        OBVIOUS
      <4>4. f[c] \in Nat /\ f[y] \in Nat /\ g[(s \ {c}) \ {y}] \in Nat
        BY <1>1, <2>3 DEF Numbers
      <4>5. PICK n \in Nat : n = g[(s \ {c}) \ {y}]
        BY <4>4
      <4>6. g[s \ {c}] = f[y] + n /\ g[s \ {y}] = f[c] + n
        BY <4>1, <4>2, <4>3, <4>5
      <4>7. g[s] = f[c] + (f[y] + n) /\ f[y] + g[s \ {y}] = f[y] + (f[c] + n)
        BY <2>3, <4>6
      <4>. QED
        BY <4>4, <4>7
    <3>. QED
      BY <3>1, <3>2
  <2>. QED
    BY <1>1, <2>4
<1>. HIDE DEF T
<1>4. SUBSET S \subseteq T
  BY <1>2, <1>3, AllSubsets DEF Numbers
<1>5. S \in SUBSET S
  OBVIOUS
<1>. QED
  BY <1>4, <1>5 DEF T

LEMMA SumPart ==
  ASSUME NEW f, NEW S, Numbers(f, S), NEW s \in SUBSET S
  PROVE  /\ Numbers(f, s) /\ SumFunctionOnSet(f, s) \in Nat
         /\ \A x \in s : /\ f[x] \in Nat /\ SumFunctionOnSet(f, s \ {x}) \in Nat
                         /\ SumFunctionOnSet(f, s) = f[x] + SumFunctionOnSet(f, s \ {x})
<1>1. Numbers(f, s)
  BY FS_Subset DEF Numbers
<1>2. ASSUME NEW x \in s PROVE Numbers(f, s \ {x})
  BY FS_Subset DEF Numbers
<1>3. \A x \in s : f[x] \in Nat
  BY DEF Numbers
<1>. QED
  BY <1>1, <1>2, <1>3, SumType, SumRemove

LEMMA SumSame ==
  ASSUME NEW f, NEW g, NEW S, Numbers(f, S), \A x \in S : f[x] = g[x]
  PROVE  SumFunctionOnSet(f, S) = SumFunctionOnSet(g, S)
<1> DEFINE T == {s \in SUBSET S : SumFunctionOnSet(f, s) = SumFunctionOnSet(g, s)}
<1>1. {} \in T
  BY SumNothing
<1>2. Numbers(g, S)
  BY DEF Numbers
<1>3. ASSUME NEW s \in SUBSET S, s # {}, \A x \in s : s \ {x} \in T PROVE s \in T
  <2>1. PICK x \in s : TRUE
    BY <1>3
  <2>2. SumFunctionOnSet(f, s) = f[x] + SumFunctionOnSet(f, s \ {x})
    BY SumPart
  <2>3. SumFunctionOnSet(g, s) = g[x] + SumFunctionOnSet(g, s \ {x})
    BY <1>2, SumPart
  <2>. QED
    BY <1>3, <2>2, <2>3
<1>. HIDE DEF T
<1>4. SUBSET S \subseteq T
  BY <1>1, <1>3, AllSubsets DEF Numbers
<1>. QED
  BY <1>4 DEF T

LEMMA SumAdds ==
  ASSUME NEW f, NEW g, NEW h, NEW S, Numbers(f, S), Numbers(g, S), \A x \in S : h[x] = f[x] + g[x]
  PROVE  /\ Numbers(h, S)
         /\ SumFunctionOnSet(h, S) = SumFunctionOnSet(f, S) + SumFunctionOnSet(g, S)
<1> DEFINE T == {s \in SUBSET S :
                   SumFunctionOnSet(h, s) = SumFunctionOnSet(f, s) + SumFunctionOnSet(g, s)}
<1>1. {} \in T
  BY SumNothing
<1>2. Numbers(h, S)
  BY DEF Numbers
<1>3. ASSUME NEW s \in SUBSET S, s # {}, \A x \in s : s \ {x} \in T PROVE s \in T
  <2>1. PICK x \in s : TRUE
    BY <1>3
  <2>2. PICK F, F1, G, G1 \in Nat :
           /\ F = SumFunctionOnSet(f, s) /\ F1 = SumFunctionOnSet(f, s \ {x}) /\ F = f[x] + F1
           /\ G = SumFunctionOnSet(g, s) /\ G1 = SumFunctionOnSet(g, s \ {x}) /\ G = g[x] + G1
    BY SumPart
  <2>3. SumFunctionOnSet(h, s) = h[x] + SumFunctionOnSet(h, s \ {x})
    BY <1>2, SumPart
  <2>4. SumFunctionOnSet(h, s \ {x}) = F1 + G1
    BY <1>3, <2>2
  <2>5. h[x] = f[x] + g[x] /\ f[x] \in Nat /\ g[x] \in Nat
    BY DEF Numbers
  <2>6. SumFunctionOnSet(h, s) = F + G
    BY <2>2, <2>3, <2>4, <2>5
  <2>. QED
    BY <2>2, <2>6
<1>. HIDE DEF T
<1>4. SUBSET S \subseteq T
  BY <1>1, <1>3, AllSubsets DEF Numbers
<1>. QED
  BY <1>2, <1>4 DEF T

LEMMA SumUnion ==
  ASSUME NEW f, NEW S, NEW R, Numbers(f, S), Numbers(f, R), S \cap R = {}
  PROVE  /\ Numbers(f, S \cup R)
         /\ SumFunctionOnSet(f, S \cup R) = SumFunctionOnSet(f, S) + SumFunctionOnSet(f, R)
<1> DEFINE T == {s \in SUBSET R :
                   SumFunctionOnSet(f, S \cup s) = SumFunctionOnSet(f, S) + SumFunctionOnSet(f, s)}
<1>1. SumFunctionOnSet(f, S) \in Nat
  BY SumType
<1>2. {} \in T
  BY <1>1, SumNothing
<1>3. Numbers(f, S \cup R)
  BY FS_Union DEF Numbers
<1>4. ASSUME NEW s \in SUBSET R, s # {}, \A x \in s : s \ {x} \in T PROVE s \in T
  <2>1. PICK x \in s : TRUE
    BY <1>4
  <2>2. /\ SumFunctionOnSet(f, s) = f[x] + SumFunctionOnSet(f, s \ {x})
        /\ f[x] \in Nat /\ SumFunctionOnSet(f, s \ {x}) \in Nat
    BY SumPart
  <2>3. SumFunctionOnSet(f, S \cup s) = f[x] + SumFunctionOnSet(f, (S \cup s) \ {x})
    <3>1. S \cup s \in SUBSET (S \cup R) /\ x \in S \cup s
      OBVIOUS
    <3>. QED
      BY <1>3, <3>1, SumPart
  <2>4. (S \cup s) \ {x} = S \cup (s \ {x})
    OBVIOUS
  <2>5. SumFunctionOnSet(f, S \cup (s \ {x})) = SumFunctionOnSet(f, S) + SumFunctionOnSet(f, s \ {x})
    BY <1>4
  <2>6. SumFunctionOnSet(f, S \cup s) = f[x] + (SumFunctionOnSet(f, S) + SumFunctionOnSet(f, s \ {x}))
    BY <2>3, <2>4, <2>5
  <2>7. SumFunctionOnSet(f, S \cup s) = SumFunctionOnSet(f, S) + SumFunctionOnSet(f, s)
    BY <1>1, <2>2, <2>6
  <2>. QED
    BY <2>7
<1>. HIDE DEF T
<1>5. SUBSET R \subseteq T
  BY <1>2, <1>4, AllSubsets DEF Numbers
<1>. QED
  BY <1>3, <1>5 DEF T

LEMMA SumNoNumbers ==
  ASSUME NEW f, NEW S, IsFiniteSet(S), \A x \in S : f[x] = 0
  PROVE  SumFunctionOnSet(f, S) = 0
<1> DEFINE T == {s \in SUBSET S : SumFunctionOnSet(f, s) = 0}
<1>1. {} \in T
  BY SumNothing
<1>2. Numbers(f, S)
  BY DEF Numbers
<1>3. ASSUME NEW s \in SUBSET S, s # {}, \A x \in s : s \ {x} \in T PROVE s \in T
  <2>1. PICK x \in s : TRUE
    BY <1>3
  <2>2. SumFunctionOnSet(f, s) = f[x] + SumFunctionOnSet(f, s \ {x})
    BY <1>2, SumPart
  <2>. QED
    BY <1>3, <2>2
<1>. HIDE DEF T
<1>4. SUBSET S \subseteq T
  BY <1>1, <1>3, AllSubsets
<1>. QED
  BY <1>4 DEF T

\* More numbers have no smaller sum, and zeros do not count.
LEMMA SumOfMore ==
  ASSUME NEW f, NEW S, NEW R, Numbers(f, R), S \subseteq R
  PROVE  /\ SumFunctionOnSet(f, S) <= SumFunctionOnSet(f, R)
         /\ (\A x \in R \ S : f[x] = 0) => SumFunctionOnSet(f, S) = SumFunctionOnSet(f, R)
<1>1. Numbers(f, S) /\ Numbers(f, R \ S)
  BY SumPart
<1>2. SumFunctionOnSet(f, S) \in Nat /\ SumFunctionOnSet(f, R \ S) \in Nat
  BY <1>1, SumType
<1>3. S \cup (R \ S) = R /\ S \cap (R \ S) = {}
  OBVIOUS
<1>4. SumFunctionOnSet(f, R) = SumFunctionOnSet(f, S) + SumFunctionOnSet(f, R \ S)
  <2> DEFINE Q == R \ S
  <2>. HIDE DEF Q
  <2>1. SumFunctionOnSet(f, S \cup Q) = SumFunctionOnSet(f, S) + SumFunctionOnSet(f, Q)
    BY <1>1, <1>3, SumUnion DEF Q
  <2>. QED
    BY <1>3, <2>1 DEF Q
<1>5. (\A x \in R \ S : f[x] = 0) => SumFunctionOnSet(f, R \ S) = 0
  BY <1>1, SumNoNumbers DEF Numbers
<1>. QED
  BY <1>2, <1>4, <1>5

\* The same numbers under other names.
LEMMA SumRenamed ==
  ASSUME NEW f, NEW g, NEW S, NEW b, Numbers(f, S), \A x \in S : f[x] = g[b[x]],
         \A x, y \in S : b[x] = b[y] => x = y
  PROVE  SumFunctionOnSet(f, S) = SumFunctionOnSet(g, {b[x] : x \in S})
<1> DEFINE Named(s) == {b[x] : x \in s}
           T == {s \in SUBSET S : SumFunctionOnSet(f, s) = SumFunctionOnSet(g, Named(s))}
<1>1. {} \in T
  <2>1. Named({}) = {}
    OBVIOUS
  <2>. QED
    BY <2>1, SumNothing
<1>2. Numbers(g, Named(S))
  <2>1. [x \in S |-> b[x]] \in Surjection(S, Named(S))
    BY DEF Surjection
  <2>2. IsFiniteSet(Named(S))
    BY <2>1, FS_Surjection DEF Numbers
  <2>. QED
    BY <2>2 DEF Numbers
<1>3. ASSUME NEW s \in SUBSET S, s # {}, \A x \in s : s \ {x} \in T PROVE s \in T
  <2>1. PICK x \in s : TRUE
    BY <1>3
  <2>2. SumFunctionOnSet(f, s) = f[x] + SumFunctionOnSet(f, s \ {x})
    BY SumPart
  <2>3. Named(s) \in SUBSET Named(S) /\ b[x] \in Named(s) /\ Named(s) \ {b[x]} = Named(s \ {x})
    OBVIOUS
  <2>. HIDE DEF Named
  <2>4. SumFunctionOnSet(g, Named(s)) = g[b[x]] + SumFunctionOnSet(g, Named(s \ {x}))
    <3>1. PICK R, t, v : R = Named(S) /\ t = Named(s) /\ v = b[x]
      OBVIOUS
    <3>2. Numbers(g, R) /\ t \in SUBSET R /\ v \in t
      BY <1>2, <2>3, <3>1
    <3>3. SumFunctionOnSet(g, t) = g[v] + SumFunctionOnSet(g, t \ {v})
      BY <3>2, SumPart
    <3>. QED
      BY <2>3, <3>1, <3>3
  <2>. QED
    BY <1>3, <2>2, <2>4
<1>. HIDE DEF T
<1>4. SUBSET S \subseteq T
  BY <1>1, <1>3, AllSubsets DEF Numbers
<1>. QED
  BY <1>4 DEF T

\* The sum of a table is the sum of its rows and the sum of its columns.
Row(F, B, x) == [y \in B |-> F[<<x, y>>]]
Column(F, A, y) == [x \in A |-> F[<<x, y>>]]

IsTable(F, A, B, rows, columns) ==
  /\ IsFiniteSet(A) /\ IsFiniteSet(B) /\ F \in [A \X B -> Nat]
  /\ \A x \in A : rows[x] = SumFunctionOnSet(Row(F, B, x), B)
  /\ \A y \in B : columns[y] = SumFunctionOnSet(Column(F, A, y), A)

LEMMA SumOfTable ==
  ASSUME NEW F, NEW A, NEW B, NEW rows, NEW columns, IsTable(F, A, B, rows, columns)
  PROVE  SumFunctionOnSet(rows, A) = SumFunctionOnSet(columns, B)
<1> DEFINE row(x) == Row(F, B, x)
           column(y) == Column(F, A, y)
           part(s) == [y \in B |-> SumFunctionOnSet(column(y), s)]
           T == {s \in SUBSET A : SumFunctionOnSet(rows, s) = SumFunctionOnSet(part(s), B)}
<1>0. IsFiniteSet(A) /\ IsFiniteSet(B) /\ F \in [A \X B -> Nat]
  BY DEF IsTable
<1>1. \A x \in A : Numbers(row(x), B)
  BY <1>0 DEF Numbers, Row
<1>2. \A y \in B : Numbers(column(y), A)
  BY <1>0 DEF Numbers, Column
<1>3. \A x \in A, y \in B : row(x)[y] = F[<<x, y>>] /\ column(y)[x] = F[<<x, y>>]
  BY DEF Row, Column
<1>4. \A x \in A : rows[x] = SumFunctionOnSet(row(x), B)
  BY DEF IsTable
<1>5. \A y \in B : columns[y] = SumFunctionOnSet(column(y), A)
  BY DEF IsTable
<1>. HIDE DEF row, column
<1>6. Numbers(rows, A)
  BY <1>0, <1>1, <1>4, SumType DEF Numbers
<1>7. \A s \in SUBSET A : Numbers(part(s), B)
  BY <1>0, <1>2, SumPart DEF Numbers
<1>8. {} \in T
  <2>1. \A y \in B : part({})[y] = 0
    BY SumNothing
  <2>2. SumFunctionOnSet(part({}), B) = 0
    <3>. HIDE DEF part
    <3>. QED
      BY <1>0, <2>1, SumNoNumbers
  <2>. QED
    BY <2>2, SumNothing
<1>9. ASSUME NEW s \in SUBSET A, s # {}, \A x \in s : s \ {x} \in T PROVE s \in T
  <2>1. PICK x \in s : TRUE
    BY <1>9
  <2>2. SumFunctionOnSet(rows, s) = rows[x] + SumFunctionOnSet(rows, s \ {x})
    BY <1>6, SumPart
  <2>3. SumFunctionOnSet(rows, s \ {x}) = SumFunctionOnSet(part(s \ {x}), B)
    BY <1>9
  <2>4. ASSUME NEW y \in B PROVE part(s)[y] = row(x)[y] + part(s \ {x})[y]
    <3>1. SumFunctionOnSet(column(y), s) = column(y)[x] + SumFunctionOnSet(column(y), s \ {x})
      BY <1>2, SumPart
    <3>. QED
      BY <1>3, <3>1
  <2>5. Numbers(part(s \ {x}), B) /\ Numbers(row(x), B)
    BY <1>1, <1>7
  <2>6. SumFunctionOnSet(part(s), B) = SumFunctionOnSet(row(x), B) + SumFunctionOnSet(part(s \ {x}), B)
    <3> DEFINE p == part(s)
               q == part(s \ {x})
               r == row(x)
    <3>1. Numbers(q, B) /\ Numbers(r, B) /\ \A y \in B : p[y] = r[y] + q[y]
      BY <2>4, <2>5
    <3>. HIDE DEF p, q, r
    <3>2. SumFunctionOnSet(p, B) = SumFunctionOnSet(r, B) + SumFunctionOnSet(q, B)
      BY <3>1, SumAdds
    <3>. QED
      BY <3>2 DEF p, q, r
  <2>. QED
    BY <1>4, <2>2, <2>3, <2>6
<1>. HIDE DEF T
<1>10. SUBSET A \subseteq T
  BY <1>0, <1>8, <1>9, AllSubsets
<1>11. SumFunctionOnSet(rows, A) = SumFunctionOnSet(part(A), B)
  BY <1>10 DEF T
<1>12. \A y \in B : part(A)[y] = columns[y]
  BY <1>5
<1>13. Numbers(part(A), B)
  BY <1>7
<1>. HIDE DEF part
<1>. QED
  BY <1>11, <1>12, <1>13, SumSame

--------------------------------------------------------------------------------
\* Folds and enumerations of sequences.

\* What FoldLeft goes through, for a sequence of n elements.
FoldsDown(h, n, F, base) ==
  h = [s \in SUBSET (1 .. n) |-> IF s = {} THEN base ELSE F[<<h[s \ {Max(s)}], Max(s)>>]]

\* Such a function exists, with its values where those of the step are.
LEMMA FoldsDownExists ==
  ASSUME NEW A, NEW base \in A, NEW n \in Nat, NEW F \in [A \X (1 .. n) -> A]
  PROVE  \E h \in [SUBSET (1 .. n) -> A] : FoldsDown(h, n, F, base)
<1> DEFINE V == [SUBSET (1 .. n) -> A]
           next(i, k) == [s \in SUBSET (1 .. n) |-> IF i \in s THEN F[<<k[s], i>>] ELSE k[s]]
           step == [p \in Nat \X V |-> next(p[1], p[2])]
           first == [s \in SUBSET (1 .. n) |-> base]
<1>1. ASSUME NEW i \in Nat, NEW k \in V PROVE next(i, k) \in V
  OBVIOUS
<1>2. \A i \in Nat, k \in V, s \in SUBSET (1 .. n) :
        (i \in s => next(i, k)[s] = F[<<k[s], i>>]) /\ (i \notin s => next(i, k)[s] = k[s])
  OBVIOUS
<1>. HIDE DEF next
<1>3. step \in [Nat \X V -> V] /\ first \in V
  BY <1>1
<1>4. \A i \in Nat, k \in V : step[<<i, k>>] = next(i, k)
  OBVIOUS
<1>5. \A s \in SUBSET (1 .. n) : first[s] = base
  OBVIOUS
<1>. HIDE DEF step, first, V
<1>6. PICK K \in [0 .. n -> V] : IsIteration(K, n, first, step)
  BY <1>3, IterationExists
<1>7. /\ K[0] = first
      /\ \A i \in 1 .. n : K[i - 1] \in V /\ K[i] = next(i, K[i - 1])
  <2>1. K[0] = first
    BY <1>6 DEF IsIteration
  <2>2. ASSUME NEW i \in 1 .. n PROVE K[i - 1] \in V /\ K[i] = next(i, K[i - 1])
    <3>1. i \in 0 .. n /\ i - 1 \in 0 .. n /\ i # 0 /\ i \in Nat
      OBVIOUS
    <3>2. K[i - 1] \in V
      BY <1>6, <3>1
    <3>3. K[i] = step[<<i, K[i - 1]>>]
      BY <1>6, <3>1, Zenon DEF IsIteration
    <3>. QED
      BY <1>4, <3>1, <3>2, <3>3
  <2>. QED
    BY <2>1, <2>2
<1>8. \A i \in 1 .. n, s \in SUBSET (1 .. n) : K[i][s] = IF i \in s THEN F[<<K[i - 1][s], i>>] ELSE K[i - 1][s]
  <2>1. ASSUME NEW i \in 1 .. n, NEW s \in SUBSET (1 .. n)
        PROVE  K[i][s] = IF i \in s THEN F[<<K[i - 1][s], i>>] ELSE K[i - 1][s]
    <3>1. PICK k \in V : k = K[i - 1] /\ K[i] = next(i, k)
      BY <1>7
    <3>2. i \in Nat
      OBVIOUS
    <3>3. (i \in s => next(i, k)[s] = F[<<k[s], i>>]) /\ (i \notin s => next(i, k)[s] = k[s])
      BY <1>2, <3>2, Zenon
    <3>. QED
      BY <3>1, <3>3
  <2>. QED
    BY <2>1
<1>9. K[n] \in V
  BY <1>6
<1>10. K[n][{}] = base
  <2> DEFINE T == {i \in Nat : i <= n => K[i][{}] = base}
  <2>1. {} \in SUBSET (1 .. n)
    OBVIOUS
  <2>2. 0 \in T
    BY <1>5, <1>7, <2>1
  <2>3. ASSUME NEW i \in Nat, i \in T PROVE i + 1 \in T
    <3>1. CASE i + 1 <= n
      <4>1. i + 1 \in 1 .. n /\ (i + 1) - 1 = i /\ K[i][{}] = base
        BY <2>3, <3>1
      <4>2. K[i + 1][{}] = K[(i + 1) - 1][{}]
        BY <1>8, <2>1, <4>1
      <4>. QED
        BY <4>1, <4>2
    <3>. QED
      BY <3>1
  <2>. HIDE DEF T
  <2>4. n \in T
    BY <2>2, <2>3, AllNumbers
  <2>. QED
    BY <2>4 DEF T
<1>11. ASSUME NEW s \in SUBSET (1 .. n), s # {}
       PROVE  K[n][s] = F[<<K[n][s \ {Max(s)}], Max(s)>>]
  <2>1. s \in SUBSET (0 .. n)
    OBVIOUS
  <2>2. Max(s) \in s /\ \A y \in s : Max(s) >= y
    BY <1>11, <2>1, LargestNumber
  <2>3. PICK m \in 1 .. n, r \in SUBSET (1 .. n) : m = Max(s) /\ r = s \ {m}
    BY <2>2
  <2>4. /\ m \in s /\ m \notin r
        /\ \A i \in 1 .. n : (i \in s <=> i \in r \/ i = m) /\ (i > m => i \notin s /\ i \notin r)
    BY <2>2, <2>3
  <2> DEFINE T == {i \in Nat : i <= n => /\ i < m => K[i][s] = K[i][r]
                                         /\ i >= m => K[i][s] = F[<<K[i][r], m>>]}
  <2>5. 0 \in T
    BY <1>5, <1>7
  <2>6. ASSUME NEW i \in Nat, i \in T PROVE i + 1 \in T
    <3>1. SUFFICES ASSUME i + 1 <= n
                   PROVE  /\ i + 1 < m => K[i + 1][s] = K[i + 1][r]
                          /\ i + 1 >= m => K[i + 1][s] = F[<<K[i + 1][r], m>>]
      OBVIOUS
    <3>2. PICK j \in 1 .. n : j = i + 1 /\ j - 1 = i /\ i <= n
      BY <3>1
    <3>3. /\ K[j][s] = IF j \in s THEN F[<<K[i][s], j>>] ELSE K[i][s]
          /\ K[j][r] = IF j \in r THEN F[<<K[i][r], j>>] ELSE K[i][r]
      BY <1>8, <3>2
    <3>4. /\ i < m => K[i][s] = K[i][r]
          /\ i >= m => K[i][s] = F[<<K[i][r], m>>]
      BY <2>6, <3>2
    <3>5. j < m => K[j][s] = K[j][r]
      <4>1. ASSUME j < m PROVE K[j][s] = K[j][r]
        <5>1. i < m /\ (j \in s <=> j \in r)
          BY <2>4, <3>2, <4>1
        <5>. QED
          BY <3>3, <3>4, <5>1
      <4>. QED
        BY <4>1
    <3>6. j = m => K[j][s] = F[<<K[j][r], m>>]
      <4>1. ASSUME j = m PROVE K[j][s] = F[<<K[j][r], m>>]
        <5>1. i < m /\ j \in s /\ j \notin r
          BY <2>4, <3>2, <4>1
        <5>. QED
          BY <3>3, <3>4, <4>1, <5>1
      <4>. QED
        BY <4>1
    <3>7. j > m => K[j][s] = F[<<K[j][r], m>>]
      <4>1. ASSUME j > m PROVE K[j][s] = F[<<K[j][r], m>>]
        <5>1. i >= m /\ j \notin s /\ j \notin r
          BY <2>4, <3>2, <4>1
        <5>. QED
          BY <3>3, <3>4, <5>1
      <4>. QED
        BY <4>1
    <3>8. j < m \/ j = m \/ j > m
      BY <3>2
    <3>. QED
      BY <3>2, <3>5, <3>6, <3>7, <3>8
  <2>. HIDE DEF T
  <2>7. n \in T
    BY <2>5, <2>6, AllNumbers
  <2>8. K[n][s] = F[<<K[n][r], m>>]
    BY <2>3, <2>7 DEF T
  <2>. QED
    BY <2>3, <2>8
<1>12. PICK h : h = K[n]
  OBVIOUS
<1>13. h \in [SUBSET (1 .. n) -> A]
  BY <1>9, <1>12 DEF V
<1>14. \A s \in SUBSET (1 .. n) : h[s] = IF s = {} THEN base ELSE F[<<h[s \ {Max(s)}], Max(s)>>]
  BY <1>10, <1>11, <1>12
<1>15. h = [s \in SUBSET (1 .. n) |-> h[s]]
  BY <1>13
<1>16. FoldsDown(h, n, F, base)
  BY <1>14, <1>15, Zenon DEF FoldsDown
<1>. QED
  BY <1>13, <1>16

\* A fold goes through its prefixes.
LEMMA PrefixLast ==
  ASSUME NEW n \in Nat, NEW i \in 1 .. n
  PROVE  /\ 1 .. i \in SUBSET (1 .. n) /\ 1 .. i # {}
         /\ Max(1 .. i) = i /\ (1 .. i) \ {i} = 1 .. i - 1
<1>1. PICK s : s = 1 .. i
  OBVIOUS
<1>2. i \in Nat /\ i \in 1 .. i /\ i <= n
  OBVIOUS
<1>3. \A y \in 1 .. i : y \in 1 .. n /\ y \in 0 .. n /\ y <= i /\ y \in Nat
  BY <1>2
<1>4. s \in SUBSET (1 .. n) /\ s # {} /\ s \in SUBSET (0 .. n) /\ i \in s /\ \A y \in s : y <= i /\ y \in Nat
  BY <1>1, <1>2, <1>3
<1>5. PICK m : m = Max(s)
  OBVIOUS
<1>6. m \in s /\ m >= i
  BY <1>4, <1>5, LargestNumber
<1>7. m <= i /\ m \in Nat
  BY <1>4, <1>6
<1>8. m = i
  BY <1>2, <1>6, <1>7
<1>9. (1 .. i) \ {i} = 1 .. i - 1
  BY <1>2
<1>. QED
  BY <1>1, <1>4, <1>5, <1>8, <1>9

\* The elements of a sequence with one more, and whether they are distinct.
LEMMA RangeOfAppend ==
  ASSUME NEW X, NEW s \in Seq(X), NEW e \in X
  PROVE  /\ Range(Append(s, e)) = Range(s) \cup {e}
         /\ IsInjective(Append(s, e)) <=> IsInjective(s) /\ e \notin Range(s)
<1>1. PICK n \in Nat, r \in Seq(X) : /\ r = Append(s, e) /\ n = Len(s) /\ DOMAIN s = 1 .. n /\ DOMAIN r = 1 .. n + 1
                          /\ r[n + 1] = e /\ \A i \in 1 .. n : r[i] = s[i]
  <2>1. /\ Append(s, e) \in Seq(X) /\ Len(Append(s, e)) = Len(s) + 1 /\ Append(s, e)[Len(s) + 1] = e
        /\ \A i \in 1 .. Len(s) : Append(s, e)[i] = s[i]
    BY AppendProperties
  <2>2. PICK r : r = Append(s, e)
    OBVIOUS
  <2>3. PICK n \in Nat : n = Len(s)
    BY LenProperties
  <2>4. r \in Seq(X) /\ DOMAIN s = 1 .. n /\ DOMAIN r = 1 .. n + 1 /\ r[n + 1] = e /\ \A i \in 1 .. n : r[i] = s[i]
    BY <2>1, <2>2, <2>3, LenProperties
  <2>. QED
    BY <2>2, <2>3, <2>4
<1>2. \A i \in 1 .. n + 1 : i \in 1 .. n \/ i = n + 1
  OBVIOUS
<1>3. \A i \in 1 .. n : i \in 1 .. n + 1 /\ i # n + 1
  OBVIOUS
<1>4. n + 1 \in 1 .. n + 1
  OBVIOUS
<1>5. PICK m : m = n + 1
  OBVIOUS
<1>6. PICK D, E : D = 1 .. n /\ E = 1 .. m
  OBVIOUS
<1>7. /\ DOMAIN s = D /\ DOMAIN r = E /\ r[m] = e /\ m \in E /\ m \notin D
      /\ \A i \in D : r[i] = s[i] /\ i \in E
      /\ \A i \in E : i \in D \/ i = m
  BY <1>1, <1>2, <1>3, <1>4, <1>5, <1>6
<1>8. Range(r) = Range(s) \cup {e}
  BY <1>7 DEF Range
<1>9. IsInjective(r) => IsInjective(s) /\ e \notin Range(s)
  BY <1>7 DEF IsInjective, Range
<1>10. IsInjective(s) /\ e \notin Range(s) => IsInjective(r)
  BY <1>7 DEF IsInjective, Range
<1>. QED
  BY <1>1, <1>8, <1>9, <1>10

\* The empty sequence has no elements.
LEMMA RangeOfNothing == Range(<<>>) = {} /\ IsInjective(<<>>)
BY DEF Range, IsInjective

\* What is selected are the elements in the set, each as often as before.
LEMMA SelectedRange ==
  ASSUME NEW X, NEW S, NEW s \in Seq(X)
  PROVE  /\ Selected(s, S) \in Seq(X)
         /\ Range(Selected(s, S)) = Range(s) \cap S
         /\ IsInjective(s) => IsInjective(Selected(s, S))
<1> DEFINE T == {u \in Seq(X) : /\ Selected(u, S) \in Seq(X)
                                /\ Range(Selected(u, S)) = Range(u) \cap S
                                /\ IsInjective(u) => IsInjective(Selected(u, S))}
<1>1. <<>> \in T
  BY SelectedEmpty, RangeOfNothing, EmptySeq
<1>2. ASSUME NEW u \in Seq(X), u \in T, NEW e \in X PROVE Append(u, e) \in T
  <2>1. PICK w, r : w = Selected(u, S) /\ r = Append(u, e)
    OBVIOUS
  <2>2. r \in Seq(X) /\ w \in Seq(X) /\ Selected(r, S) = IF e \in S THEN Append(w, e) ELSE w
    BY <2>1, SelectedAppend, AppendProperties
  <2>3. Range(r) = Range(u) \cup {e} /\ (IsInjective(r) <=> IsInjective(u) /\ e \notin Range(u))
    BY <2>1, RangeOfAppend
  <2>4. Range(w) = Range(u) \cap S /\ (IsInjective(u) => IsInjective(w))
    BY <1>2, <2>1
  <2>5. CASE e \in S
    <3>1. PICK z : z = Append(w, e) /\ z = Selected(r, S)
      BY <2>2, <2>5
    <3>2. Range(z) = Range(w) \cup {e} /\ (IsInjective(z) <=> IsInjective(w) /\ e \notin Range(w))
      <4>1. w \in Seq(X)
        BY <2>2
      <4>2. /\ Range(Append(w, e)) = Range(w) \cup {e}
            /\ (IsInjective(Append(w, e)) <=> IsInjective(w) /\ e \notin Range(w))
        BY <4>1, RangeOfAppend
      <4>. QED
        BY <3>1, <4>2
    <3>3. Range(z) = Range(r) \cap S /\ (IsInjective(r) => IsInjective(z))
      BY <2>3, <2>4, <2>5, <3>2
    <3>4. z \in Seq(X)
      BY <2>2, <3>1, AppendProperties
    <3>. QED
      BY <2>1, <2>2, <3>1, <3>3, <3>4
  <2>6. CASE e \notin S
    <3>1. w = Selected(r, S)
      BY <2>2, <2>6
    <3>2. Range(w) = Range(r) \cap S /\ (IsInjective(r) => IsInjective(w))
      BY <2>3, <2>4, <2>6
    <3>. QED
      BY <2>1, <2>2, <3>1, <3>2
  <2>. QED
    BY <2>5, <2>6
<1>. HIDE DEF T
<1>3. Seq(X) \subseteq T
  BY <1>1, <1>2, AllSequences
<1>. QED
  BY <1>3 DEF T

\* An enumeration of a finite set.
LEMMA SetToSeqsRange ==
  ASSUME NEW S, IsFiniteSet(S), NEW s \in SetToSeqs(S)
  PROVE  s \in Seq(S) /\ IsInjective(s) /\ Range(s) = S
<1>1. PICK n \in Nat : n = Cardinality(S)
  BY FS_CardinalityType
<1>2. s \in [1 .. n -> S] /\ \A i, j \in 1 .. n : i # j => s[i] # s[j]
  BY <1>1 DEF SetToSeqs
<1>3. s \in Injection(1 .. n, S)
  BY <1>2 DEF Injection, IsInjective
<1>4. Cardinality(1 .. n) = n
  <2>1. 1 \in Int /\ n \in Int
    OBVIOUS
  <2>2. Cardinality(1 .. n) = IF 1 > n THEN 0 ELSE n - 1 + 1
    BY <2>1, FS_Interval
  <2>. QED
    BY <2>2
<1>5. s \in Surjection(1 .. n, S)
  BY <1>1, <1>3, <1>4, FS_Injection
<1>6. Range(s) = S
  BY <1>2, <1>5 DEF Surjection, Range
<1>7. s \in Seq(S)
  BY <1>2, SeqDef
<1>. QED
  BY <1>2, <1>6, <1>7 DEF IsInjective
=============================================================================
