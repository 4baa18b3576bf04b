---------------------------- MODULE BrowserProofs ----------------------------
(***************************************************************************)
(* Theorems about the views of module Browser.                             *)
(***************************************************************************)
EXTENDS Browser, Lemmas

--------------------------------------------------------------------------------
\* Sorting: a finite set in the order of pairs that put any two of it one way.

IsOrder(order, S) ==
  /\ \A a, b \in S : a # b => (<<a, b>> \in order <=> <<b, a>> \notin order)
  /\ \A a, b, c \in S :
       a # b /\ b # c /\ a # c /\ <<a, b>> \in order /\ <<b, c>> \in order => <<a, c>> \in order

InOrder(s, order) == \A i, j \in DOMAIN s : i < j => <<s[i], s[j]>> \in order

\* An element that no other follows.
IsLast(m, order, S) == m \in S /\ \A a \in S \ {m} : <<a, m>> \in order

LEMMA LastExists ==
  ASSUME NEW order, NEW S, IsFiniteSet(S), IsOrder(order, S), S # {}
  PROVE  \E m \in S : IsLast(m, order, S)
<1> DEFINE T == {s \in SUBSET S : s # {} => \E m \in s : IsLast(m, order, s)}
<1>1. {} \in T
  OBVIOUS
<1>2. ASSUME NEW s \in SUBSET S, s # {}, \A x \in s : s \ {x} \in T
      PROVE  s \in T
  <2>1. PICK x \in s : TRUE
    BY <1>2
  <2>2. CASE s \ {x} = {}
    <3>1. IsLast(x, order, s)
      BY <2>2 DEF IsLast
    <3>. QED
      BY <3>1
  <2>3. CASE s \ {x} # {}
    <3>1. PICK l \in s \ {x} : IsLast(l, order, s \ {x})
      BY <1>2, <2>3
    <3>2. CASE <<l, x>> \in order
      <4>1. ASSUME NEW a \in s \ {x} PROVE <<a, x>> \in order
        <5>1. a = l \/ <<a, l>> \in order
          BY <3>1 DEF IsLast
        <5>2. a # x /\ l # x /\ a \in S /\ l \in S /\ x \in S
          OBVIOUS
        <5>. QED
          BY <3>2, <5>1, <5>2 DEF IsOrder
      <4>2. IsLast(x, order, s)
        BY <4>1 DEF IsLast
      <4>. QED
        BY <4>2
    <3>3. CASE <<l, x>> \notin order
      <4>1. <<x, l>> \in order
        BY <3>3 DEF IsOrder
      <4>2. IsLast(l, order, s)
        BY <3>1, <4>1 DEF IsLast
      <4>. QED
        BY <4>2
    <3>. QED
      BY <3>2, <3>3
  <2>. QED
    BY <2>2, <2>3
<1>. HIDE DEF T
<1>3. SUBSET S \subseteq T
  BY <1>1, <1>2, AllSubsets
<1>. QED
  BY <1>3 DEF T

LEMMA SetToSeqsAppend ==
  ASSUME NEW S, IsFiniteSet(S), NEW m \in S, NEW q \in SetToSeqs(S \ {m})
  PROVE  /\ Append(q, m) \in SetToSeqs(S)
         /\ Len(q) \in Nat /\ DOMAIN q = 1 .. Len(q)
         /\ DOMAIN Append(q, m) = 1 .. Len(q) + 1
         /\ \A i \in DOMAIN q : Append(q, m)[i] = q[i]
         /\ Append(q, m)[Len(q) + 1] = m
<1> DEFINE s == S \ {m}
           n == Cardinality(s)
           r == Append(q, m)
<1>1. IsFiniteSet(s) /\ n \in Nat /\ Cardinality(S) \in Nat /\ Cardinality(S) = n + 1
  <2>1. IsFiniteSet(s) /\ n = Cardinality(S) - 1
    BY FS_RemoveElement
  <2>2. n \in Nat /\ Cardinality(S) \in Nat
    BY <2>1, FS_CardinalityType
  <2>. QED
    BY <2>1, <2>2
<1>2. q \in [1 .. n -> s] /\ \A i, j \in 1 .. n : i # j => q[i] # q[j]
  BY DEF SetToSeqs
<1>3. q \in Seq(S) /\ Len(q) = n
  <2>1. q \in Seq(s) /\ s \subseteq S
    BY <1>1, <1>2, SeqDef
  <2>. QED
    BY <1>1, <1>2, <2>1, LenProperties
<1>. HIDE DEF s, n
<1>4. /\ r \in Seq(S) /\ Len(r) = n + 1
      /\ \A i \in 1 .. n : r[i] = q[i]
      /\ r[n + 1] = m
  <2>1. /\ r \in Seq(S) /\ Len(r) = Len(q) + 1
        /\ \A i \in 1 .. Len(q) : r[i] = q[i]
        /\ r[Len(q) + 1] = m
    BY <1>3, AppendProperties
  <2>. QED
    BY <1>3, <2>1
<1>5. r \in [1 .. n + 1 -> S]
  BY <1>4, LenProperties
<1>. HIDE DEF r
<1>6. ASSUME NEW i \in 1 .. n + 1, NEW j \in 1 .. n + 1, i # j
      PROVE  r[i] # r[j]
  <2>1. CASE i \in 1 .. n /\ j \in 1 .. n
    BY <1>2, <1>4, <1>6, <2>1
  <2>2. CASE i \in 1 .. n /\ j = n + 1
    BY <1>2, <1>4, <2>2 DEF s
  <2>3. CASE i = n + 1 /\ j \in 1 .. n
    BY <1>2, <1>4, <2>3 DEF s
  <2>. QED
    BY <1>1, <1>6, <2>1, <2>2, <2>3
<1>7. r \in SetToSeqs(S)
  BY <1>1, <1>5, <1>6 DEF SetToSeqs, n
<1>8. DOMAIN q = 1 .. n /\ DOMAIN r = 1 .. n + 1
  BY <1>2, <1>5
<1>. QED
  BY <1>1, <1>3, <1>4, <1>7, <1>8 DEF r

LEMMA SortedExists ==
  ASSUME NEW order, NEW S, IsFiniteSet(S), IsOrder(order, S)
  PROVE  \E q \in SetToSeqs(S) : InOrder(q, order)
<1> DEFINE T == {s \in SUBSET S : \E q \in SetToSeqs(s) : InOrder(q, order)}
<1>1. {} \in T
  <2>1. DOMAIN <<>> = {} /\ <<>> \in [{} -> {}]
    BY EmptyQueue
  <2>2. Cardinality({}) = 0 /\ 1 .. 0 = {}
    BY FS_EmptySet
  <2>3. <<>> \in SetToSeqs({})
    BY <2>1, <2>2 DEF SetToSeqs
  <2>4. InOrder(<<>>, order)
    BY <2>1 DEF InOrder
  <2>. QED
    BY <2>3, <2>4
<1>2. ASSUME NEW s \in SUBSET S, s # {}, \A x \in s : s \ {x} \in T
      PROVE  s \in T
  <2>1. IsFiniteSet(s) /\ IsOrder(order, s)
    BY FS_Subset DEF IsOrder
  <2>2. PICK m \in s : IsLast(m, order, s)
    BY <1>2, <2>1, LastExists
  <2>3. PICK q \in SetToSeqs(s \ {m}) : InOrder(q, order)
    BY <1>2
  <2> DEFINE r == Append(q, m)
  <2>4. /\ r \in SetToSeqs(s)
        /\ Len(q) \in Nat /\ DOMAIN q = 1 .. Len(q) /\ DOMAIN r = 1 .. Len(q) + 1
        /\ \A i \in DOMAIN q : r[i] = q[i]
        /\ r[Len(q) + 1] = m
    BY <2>1, SetToSeqsAppend
  <2>5. \A i \in DOMAIN q : q[i] \in s \ {m}
    BY DEF SetToSeqs
  <2>. HIDE DEF r
  <2>6. ASSUME NEW i \in DOMAIN r, NEW j \in DOMAIN r, i < j
        PROVE  <<r[i], r[j]>> \in order
    <3>1. CASE j \in DOMAIN q
      <4>1. i \in DOMAIN q
        BY <2>4, <2>6, <3>1
      <4>2. <<q[i], q[j]>> \in order
        BY <2>3, <2>6, <3>1, <4>1 DEF InOrder
      <4>. QED
        BY <2>4, <3>1, <4>1, <4>2
    <3>2. CASE j \notin DOMAIN q
      <4>1. j = Len(q) + 1 /\ i \in DOMAIN q
        BY <2>4, <2>6, <3>2
      <4>2. <<q[i], m>> \in order
        BY <2>2, <2>5, <4>1 DEF IsLast
      <4>. QED
        BY <2>4, <4>1, <4>2
    <3>. QED
      BY <3>1, <3>2
  <2>7. InOrder(r, order)
    BY <2>6 DEF InOrder
  <2>. QED
    BY <2>4, <2>7
<1>. HIDE DEF T
<1>3. SUBSET S \subseteq T
  BY <1>1, <1>2, AllSubsets
<1>. QED
  BY <1>3 DEF T

\* A list without repetition, of what is in the set and nothing else.
Lists(s, S) == s \in Seq(S) /\ IsInjective(s) /\ Range(s) = S

LEMMA SortedLists ==
  ASSUME NEW order, NEW S, IsFiniteSet(S), IsOrder(order, S)
  PROVE  Lists(Sorted(S, order), S)
<1>1. PICK q \in SetToSeqs(S) : InOrder(q, order)
  BY SortedExists
<1>2. Sorted(S, order) \in SetToSeqs(S)
  BY <1>1 DEF Sorted, InOrder
<1>. QED
  BY <1>2, SetToSeqsRange DEF Lists

\* The two orders of module Browser: by names, and by a measure with names as ties.
LEMMA RankOrder ==
  ASSUME NEW S, NEW order, NEW g \in [S -> Nat], \A a, b \in S : g[a] = g[b] => a = b,
         NEW d \in BOOLEAN,
         \A a, b \in S : <<a, b>> \in order <=> ((g[a] < g[b]) # d)
  PROVE  IsOrder(order, S)
<1>1. CASE d = TRUE
  <2>1. \A a, b \in S : <<a, b>> \in order <=> ~ (g[a] < g[b])
    BY <1>1
  <2>. QED
    BY <2>1 DEF IsOrder
<1>2. CASE d = FALSE
  <2>1. ASSUME NEW a \in S, NEW b \in S
        PROVE  <<a, b>> \in order <=> g[a] < g[b]
    <3>1. CASE g[a] < g[b]
      BY <1>2, <3>1
    <3>2. CASE ~ (g[a] < g[b])
      BY <1>2, <3>2
    <3>. QED
      BY <3>1, <3>2
  <2>. QED
    BY <2>1 DEF IsOrder
<1>. QED
  BY <1>1, <1>2

LEMMA MeasureOrder ==
  ASSUME NEW S, NEW order, NEW f \in [S -> Nat],
         NEW g \in [S -> Nat], \A a, b \in S : g[a] = g[b] => a = b,
         NEW d \in BOOLEAN,
         \A a, b \in S : <<a, b>> \in order <=> Precedes(f[a], f[b], d, g[a] < g[b])
  PROVE  IsOrder(order, S)
<1>1. CASE d = TRUE
  <2>1. \A a, b \in S : <<a, b>> \in order <=>
                           (f[a] = f[b] /\ g[a] < g[b]) \/ (f[a] # f[b] /\ ~ (f[a] < f[b]))
    BY <1>1 DEF Precedes
  <2>. QED
    BY <2>1 DEF IsOrder
<1>2. CASE d = FALSE
  <2>1. ASSUME NEW a \in S, NEW b \in S
        PROVE  <<a, b>> \in order <=>
                 (f[a] = f[b] /\ g[a] < g[b]) \/ (f[a] # f[b] /\ f[a] < f[b])
    <3>1. CASE f[a] = f[b]
      BY <3>1 DEF Precedes
    <3>2. CASE f[a] # f[b] /\ f[a] < f[b]
      BY <1>2, <3>2 DEF Precedes
    <3>3. CASE f[a] # f[b] /\ ~ (f[a] < f[b])
      BY <1>2, <3>3 DEF Precedes
    <3>. QED
      BY <3>1, <3>2, <3>3
  <2>. QED
    BY <2>1 DEF IsOrder
<1>. QED
  BY <1>1, <1>2

--------------------------------------------------------------------------------
\* The nodes, each of which comes with the prefixes of its path.

Names == DOMAIN NameRank

LEMMA PathFacts ==
  ASSUME NEW node \in Nodes
  PROVE  /\ node \in Seq(Names) /\ node # <<>>
         /\ Len(node) \in Nat \ {0} /\ DOMAIN node = 1 .. Len(node)
<1>1. node \in Seq(Names) /\ node # <<>>
  BY BrowserAssumption DEF Names, Root
<1>. QED
  BY <1>1, EmptySeq, LenProperties

LEMMA PrefixFacts ==
  ASSUME NEW X, NEW seq \in Seq(X), NEW i \in 0 .. Len(seq)
  PROVE  /\ SubSeq(seq, 1, i) \in Seq(X) /\ Len(SubSeq(seq, 1, i)) = i
         /\ DOMAIN SubSeq(seq, 1, i) = 1 .. i
         /\ \A j \in 1 .. i : SubSeq(seq, 1, i)[j] = seq[j]
<1>1. Len(seq) \in Nat
  BY LenProperties
<1>2. 1 .. i \subseteq 1 .. Len(seq)
  BY <1>1
<1>3. \A j \in 1 .. i : seq[j] \in X
  BY <1>2, LenProperties
<1> DEFINE r == SubSeq(seq, 1, i)
<1>4. /\ r \in Seq(X)
      /\ Len(r) = IF 1 <= i THEN i - 1 + 1 ELSE 0
      /\ \A j \in 1 .. i - 1 + 1 : r[j] = seq[1 + j - 1]
  BY <1>1, <1>3, SubSeqProperties
<1>. HIDE DEF r
<1>5. Len(r) = i
  BY <1>1, <1>4
<1>6. DOMAIN r = 1 .. i
  BY <1>4, <1>5, LenProperties
<1>7. \A j \in 1 .. i : r[j] = seq[j]
  BY <1>1, <1>4
<1>. QED
  BY <1>4, <1>5, <1>6, <1>7 DEF r

LEMMA PrefixOfPrefix ==
  ASSUME NEW X, NEW seq \in Seq(X), NEW i \in 0 .. Len(seq), NEW j \in 0 .. i
  PROVE  SubSeq(SubSeq(seq, 1, i), 1, j) = SubSeq(seq, 1, j)
<1> DEFINE p == SubSeq(seq, 1, i)
           q == SubSeq(seq, 1, j)
           r == SubSeq(p, 1, j)
<1>1. Len(seq) \in Nat /\ j \in 0 .. Len(seq) /\ i \in Nat /\ j \in Nat
  BY LenProperties
<1>2. /\ p \in Seq(X) /\ Len(p) = i /\ DOMAIN p = 1 .. i
      /\ \A k \in 1 .. i : p[k] = seq[k]
  BY PrefixFacts
<1>3. /\ q \in Seq(X) /\ Len(q) = j
      /\ \A k \in 1 .. j : q[k] = seq[k]
  BY <1>1, PrefixFacts
<1>. HIDE DEF p, q
<1>4. \A k \in 1 .. j : p[k] \in X
  BY <1>1, <1>2, LenProperties
<1>5. /\ r \in Seq(X)
      /\ Len(r) = IF 1 <= j THEN j - 1 + 1 ELSE 0
      /\ \A k \in 1 .. j - 1 + 1 : r[k] = p[1 + k - 1]
  BY <1>1, <1>2, <1>4, SubSeqProperties
<1>. HIDE DEF r
<1>6. Len(r) = j /\ \A k \in 1 .. j : r[k] = seq[k]
  BY <1>1, <1>2, <1>5
<1>7. r = q
  BY <1>3, <1>5, <1>6, SeqEqual
<1>. QED
  BY <1>7 DEF p, q, r

LEMMA ParentOfPrefix ==
  ASSUME NEW node \in Nodes, NEW i \in 1 .. Len(node)
  PROVE  /\ SubSeq(node, 1, i) \in Nodes
         /\ Parent(SubSeq(node, 1, i)) = SubSeq(node, 1, i - 1)
         /\ SubSeq(node, 1, i - 1) \in Places
<1>1. node \in Seq(Names) /\ Len(node) \in Nat /\ i \in 0 .. Len(node) /\ i - 1 \in 0 .. Len(node)
      /\ i - 1 \in 0 .. i
  BY PathFacts
<1>2. Len(SubSeq(node, 1, i)) = i
  BY <1>1, PrefixFacts
<1>3. Parent(SubSeq(node, 1, i)) = SubSeq(node, 1, i - 1)
  BY <1>1, <1>2, PrefixOfPrefix DEF Parent, Front
<1>4. SubSeq(node, 1, i) \in Nodes
  BY BrowserAssumption
<1>5. CASE i = 1
  <2>1. i - 1 < 1 /\ i - 1 \in Int
    BY <1>5
  <2>2. SubSeq(node, 1, i - 1) = <<>>
    BY <2>1, SubSeqEmpty
  <2>. QED
    BY <1>3, <1>4, <2>2 DEF Places, Root
<1>6. CASE i # 1
  <2>1. i - 1 \in 1 .. Len(node)
    BY <1>1, <1>6
  <2>2. SubSeq(node, 1, i - 1) \in Nodes
    BY <2>1, BrowserAssumption
  <2>. QED
    BY <1>3, <1>4, <2>2 DEF Places
<1>. QED
  BY <1>5, <1>6

LEMMA NodeFacts ==
  ASSUME NEW node \in Nodes
  PROVE  /\ node \in Seq(Names) /\ Len(node) \in Nat \ {0} /\ DOMAIN node = 1 .. Len(node)
         /\ Parent(node) \in Places /\ Parent(node) \in Seq(Names)
         /\ Len(Parent(node)) = Len(node) - 1
         /\ \A j \in 1 .. Len(node) - 1 : Parent(node)[j] = node[j]
         /\ Last(node) \in Names /\ Last(node) = node[Len(node)]
<1>1. node \in Seq(Names) /\ Len(node) \in Nat \ {0} /\ DOMAIN node = 1 .. Len(node)
  BY PathFacts
<1>2. Len(node) \in 1 .. Len(node) /\ Len(node) - 1 \in 0 .. Len(node)
  BY <1>1
<1>3. SubSeq(node, 1, Len(node)) = node
  BY <1>1, SubSeqFull
<1>4. Parent(node) = SubSeq(node, 1, Len(node) - 1) /\ Parent(node) \in Places
  BY <1>2, <1>3, ParentOfPrefix
<1>5. /\ Parent(node) \in Seq(Names) /\ Len(Parent(node)) = Len(node) - 1
      /\ \A j \in 1 .. Len(node) - 1 : Parent(node)[j] = node[j]
  BY <1>1, <1>2, <1>4, PrefixFacts
<1>6. node[Len(node)] \in Names
  BY <1>1, <1>2, LenProperties
<1>. QED
  BY <1>1, <1>4, <1>5, <1>6 DEF Last

LEMMA SiblingNames ==
  ASSUME NEW a \in Nodes, NEW b \in Nodes, Parent(a) = Parent(b), Last(a) = Last(b)
  PROVE  a = b
<1>1. /\ a \in Seq(Names) /\ Len(a) \in Nat \ {0} /\ Len(Parent(a)) = Len(a) - 1
      /\ \A j \in 1 .. Len(a) - 1 : Parent(a)[j] = a[j]
      /\ Last(a) = a[Len(a)]
  BY NodeFacts
<1>2. /\ b \in Seq(Names) /\ Len(b) \in Nat \ {0} /\ Len(Parent(b)) = Len(b) - 1
      /\ \A j \in 1 .. Len(b) - 1 : Parent(b)[j] = b[j]
      /\ Last(b) = b[Len(b)]
  BY NodeFacts
<1>3. Len(a) = Len(b)
  BY <1>1, <1>2
<1>4. ASSUME NEW j \in 1 .. Len(a) PROVE a[j] = b[j]
  <2>1. CASE j = Len(a)
    BY <1>1, <1>2, <1>3, <2>1
  <2>2. CASE j # Len(a)
    <3>1. j \in 1 .. Len(a) - 1 /\ j \in 1 .. Len(b) - 1
      BY <1>1, <1>3, <2>2
    <3>. QED
      BY <1>1, <1>2, <3>1
  <2>. QED
    BY <2>1, <2>2
<1>. QED
  BY <1>1, <1>2, <1>3, <1>4, SeqEqual

LEMMA NodesFinite == IsFiniteSet(Nodes) /\ Cardinality(Nodes) \in Nat
BY BrowserAssumption, FS_CardinalityType

--------------------------------------------------------------------------------
\* Lists that are put together.

LEMMA ConcatInjective ==
  ASSUME NEW X, NEW s \in Seq(X), NEW t \in Seq(X), IsInjective(s), IsInjective(t),
         Range(s) \cap Range(t) = {}
  PROVE  /\ s \o t \in Seq(X) /\ IsInjective(s \o t)
         /\ Range(s \o t) = Range(s) \cup Range(t)
<1>1. PICK r : r = s \o t
  OBVIOUS
<1>2. PICK m \in Nat : m = Len(s)
  BY LenProperties
<1>3. PICK n \in Nat : n = Len(t)
  BY LenProperties
<1>4. DOMAIN s = 1 .. m /\ DOMAIN t = 1 .. n
  BY <1>2, <1>3, LenProperties
<1>5. /\ r \in Seq(X) /\ DOMAIN r = 1 .. m + n
      /\ \A i \in 1 .. m + n : r[i] = IF i <= m THEN s[i] ELSE t[i - m]
  BY <1>1, <1>2, <1>3, ConcatProperties, LenProperties
<1>6. /\ \A i \in 1 .. m + n : i <= m => i \in DOMAIN s /\ r[i] = s[i]
      /\ \A i \in 1 .. m + n : ~ (i <= m) => i - m \in DOMAIN t /\ r[i] = t[i - m]
  BY <1>4, <1>5
<1>7. ASSUME NEW i \in DOMAIN r, NEW j \in DOMAIN r, r[i] = r[j]
      PROVE  i = j
  <2>1. CASE i <= m /\ j <= m
    BY <1>5, <1>6, <1>7, <2>1 DEF IsInjective
  <2>2. CASE ~ (i <= m) /\ ~ (j <= m)
    <3>1. i - m = j - m
      BY <1>5, <1>6, <1>7, <2>2 DEF IsInjective
    <3>. QED
      BY <1>5, <3>1
  <2>3. CASE i <= m /\ ~ (j <= m)
    <3>1. r[i] \in Range(s) /\ r[j] \in Range(t)
      BY <1>5, <1>6, <2>3 DEF Range
    <3>. QED
      BY <1>7, <3>1
  <2>4. CASE ~ (i <= m) /\ j <= m
    <3>1. r[i] \in Range(t) /\ r[j] \in Range(s)
      BY <1>5, <1>6, <2>4 DEF Range
    <3>. QED
      BY <1>7, <3>1
  <2>. QED
    BY <2>1, <2>2, <2>3, <2>4
<1>8. IsInjective(r)
  BY <1>7 DEF IsInjective
<1>. QED
  BY <1>1, <1>5, <1>8, RangeConcatenation

\* Parts that have no element twice, and no two of which have one in common.
IsBlocks(c) ==
  /\ \A i \in DOMAIN c : IsInjective(c[i])
  /\ \A i, j \in DOMAIN c : i # j => Range(c[i]) \cap Range(c[j]) = {}

OfBlocks(c) == UNION {Range(c[i]) : i \in DOMAIN c}

LEMMA FlattenBlocks ==
  ASSUME NEW X, NEW c \in Seq(Seq(X)), IsBlocks(c)
  PROVE  Lists(FlattenSeq(c), OfBlocks(c)) /\ FlattenSeq(c) \in Seq(X)
<1> DEFINE good(d) == /\ FlattenSeq(d) \in Seq(X) /\ IsInjective(FlattenSeq(d))
                      /\ Range(FlattenSeq(d)) = OfBlocks(d)
           T == {d \in Seq(Seq(X)) : IsBlocks(d) => good(d)}
<1>1. <<>> \in T
  <2>1. DOMAIN <<>> = {} /\ <<>> \in Seq(X) /\ <<>> \in Seq(Seq(X))
    BY EmptyQueue
  <2>2. OfBlocks(<<>>) = {}
    BY <2>1 DEF OfBlocks
  <2>3. good(<<>>)
    BY <2>1, <2>2, FlattenEmpty, RangeOfNothing
  <2>. QED
    BY <2>1, <2>3
<1>2. ASSUME NEW d \in Seq(Seq(X)), d \in T, NEW b \in Seq(X)
      PROVE  Append(d, b) \in T
  <2>1. PICK e : e = Append(d, b)
    OBVIOUS
  <2>2. PICK n \in Nat : n = Len(d)
    BY LenProperties
  <2>3. /\ e \in Seq(Seq(X)) /\ DOMAIN d = 1 .. n /\ DOMAIN e = 1 .. n + 1
        /\ \A i \in 1 .. n : e[i] = d[i]
        /\ e[n + 1] = b
    BY <2>1, <2>2, AppendProperties, LenProperties
  <2>4. /\ DOMAIN e = DOMAIN d \cup {n + 1} /\ n + 1 \notin DOMAIN d
        /\ \A i \in DOMAIN d : e[i] = d[i]
    BY <2>2, <2>3, SMTT(40)
  <2>5. ASSUME IsBlocks(e) PROVE good(e)
    <3>1. IsBlocks(d)
      BY <2>4, <2>5 DEF IsBlocks
    <3>2. good(d)
      BY <1>2, <3>1
    <3>3. IsInjective(b)
      BY <2>3, <2>4, <2>5 DEF IsBlocks
    <3>4. \A i \in DOMAIN d : Range(d[i]) \cap Range(b) = {}
      BY <2>3, <2>4, <2>5 DEF IsBlocks
    <3>5. OfBlocks(d) \cap Range(b) = {}
      BY <3>4 DEF OfBlocks
    <3>6. OfBlocks(e) = OfBlocks(d) \cup Range(b)
      BY <2>3, <2>4 DEF OfBlocks
    <3>7. FlattenSeq(e) = FlattenSeq(d) \o b
      BY <2>1, FlattenAppend
    <3>. QED
      BY <3>2, <3>3, <3>5, <3>6, <3>7, ConcatInjective
  <2>. QED
    BY <2>1, <2>3, <2>5
<1>. HIDE DEF T
<1>3. Seq(Seq(X)) \subseteq T
  BY <1>1, <1>2, AllSequences
<1>4. good(c)
  BY <1>3 DEF T
<1>5. FlattenSeq(c) \in Seq(OfBlocks(c))
  BY <1>4, SeqOfRange
<1>. QED
  BY <1>4, <1>5 DEF Lists

LEMMA ListLength ==
  ASSUME NEW S, IsFiniteSet(S), NEW s, Lists(s, S)
  PROVE  Len(s) \in Nat /\ DOMAIN s = 1 .. Len(s) /\ Len(s) <= Cardinality(S)
<1>1. Len(s) \in Nat /\ DOMAIN s = 1 .. Len(s)
  BY LenProperties DEF Lists
<1>2. s \in [1 .. Len(s) -> S]
  BY <1>1, LenProperties DEF Lists
<1>3. s \in Injection(1 .. Len(s), S)
  BY <1>1, <1>2 DEF Lists, Injection, IsInjective
<1>4. Cardinality(1 .. Len(s)) <= Cardinality(S)
  BY <1>3, FS_Injection
<1>5. Cardinality(1 .. Len(s)) = Len(s)
  <2>1. 1 \in Int /\ Len(s) \in Int
    BY <1>1
  <2>2. Cardinality(1 .. Len(s)) = IF 1 > Len(s) THEN 0 ELSE Len(s) - 1 + 1
    BY <2>1, FS_Interval
  <2>. QED
    BY <1>1, <2>2
<1>. QED
  BY <1>1, <1>4, <1>5

--------------------------------------------------------------------------------
\* What is listed, and that it is listed once.

Stores == [recorded : [Nodes -> Nat], byProcess : [Nodes -> [Pids -> Nat]]]

LEMMA BelowFinite == ASSUME NEW node PROVE Below(node) \subseteq Nodes /\ IsFiniteSet(Below(node))
<1>1. Below(node) \subseteq Nodes
  BY DEF Below
<1>. QED
  BY <1>1, BrowserAssumption, FS_Subset

LEMMA StatsType ==
  ASSUME NEW s \in Stores, NEW filter
  PROVE  /\ \A node \in Nodes : OwnStats(s, node, filter) \in Nat
         /\ \A place : FilteredStats(s, place, filter) \in Nat
<1>1. ASSUME NEW node \in Nodes PROVE OwnStats(s, node, filter) \in Nat
  <2> DEFINE S == {pid \in Pids : MatchesActivity(filter, pid)}
  <2>1. IsFiniteSet(S)
    BY BrowserAssumption, FS_Subset
  <2>2. \A pid \in S : s.byProcess[node][pid] \in Nat
    BY DEF Stores
  <2>3. Numbers(s.byProcess[node], S)
    BY <2>1, <2>2 DEF Numbers
  <2>. QED
    BY <2>3, SumType DEF OwnStats
<1>2. ASSUME NEW place PROVE FilteredStats(s, place, filter) \in Nat
  <2>1. AggregateStats(s, place) \in Nat
    <3>1. Numbers(s.recorded, Below(place))
      BY BelowFinite DEF Numbers, Stores
    <3>. QED
      BY <3>1, SumType DEF AggregateStats
  <2>2. SumFunctionOnSet([path \in Nodes |-> OwnStats(s, path, filter)], Below(place)) \in Nat
    <3>1. Numbers([path \in Nodes |-> OwnStats(s, path, filter)], Below(place))
      BY <1>1, BelowFinite DEF Numbers
    <3>. QED
      BY <3>1, SumType
  <2>. QED
    BY <2>1, <2>2 DEF FilteredStats
<1>. QED
  BY <1>1, <1>2

LEMMA ProcessStatsType ==
  ASSUME NEW s \in Stores, NEW pid \in Pids
  PROVE  ProcessStats(s, pid) \in Nat
<1>1. Numbers([file \in Nodes |-> s.byProcess[file][pid]], Nodes)
  BY BrowserAssumption DEF Numbers, Stores
<1>. QED
  BY <1>1, SumType DEF ProcessStats

LEMMA ChildrenFacts ==
  ASSUME NEW s, NEW dir, NEW filter
  PROVE  /\ Children(s, dir, filter) \subseteq Nodes /\ IsFiniteSet(Children(s, dir, filter))
         /\ \A node \in Children(s, dir, filter) : Parent(node) = dir
<1>1. /\ Children(s, dir, filter) \subseteq Nodes
      /\ \A node \in Children(s, dir, filter) : Parent(node) = dir
  BY DEF Children
<1>. QED
  BY <1>1, NodesFinite, FS_Subset

LEMMA RowOrders ==
  ASSUME NEW s \in Stores, NEW nodes \in SUBSET Nodes, NEW dir,
         \A node \in nodes : Parent(node) = dir,
         NEW sortBy, NEW d \in BOOLEAN, NEW filter
  PROVE  IsOrder(RowOrder(s, nodes, sortBy, d, filter), nodes)
<1> DEFINE f == [node \in nodes |-> FilteredStats(s, node, filter)]
           g == [node \in nodes |-> NameRank[Last(node)]]
           order == RowOrder(s, nodes, sortBy, d, filter)
<1>1. f \in [nodes -> Nat]
  BY StatsType
<1>2. g \in [nodes -> Nat]
  BY NodeFacts, BrowserAssumption DEF Names
<1>3. ASSUME NEW a \in nodes, NEW b \in nodes, g[a] = g[b] PROVE a = b
  <2>1. Last(a) \in Names /\ Last(b) \in Names /\ NameRank[Last(a)] = NameRank[Last(b)]
    BY <1>3, NodeFacts
  <2>2. Last(a) = Last(b)
    BY <2>1, BrowserAssumption DEF Names, IsInjective
  <2>. QED
    BY <2>2, SiblingNames
<1>4. CASE sortBy = "Name"
  <2>1. \A a, b \in nodes : <<a, b>> \in order <=> ((g[a] < g[b]) # d)
    BY <1>4 DEF RowOrder
  <2>. HIDE DEF g, order
  <2>2. IsOrder(order, nodes)
    BY <1>2, <1>3, <2>1, RankOrder
  <2>. QED
    BY <2>2 DEF order
<1>5. CASE sortBy # "Name"
  <2>1. \A a, b \in nodes : <<a, b>> \in order <=> Precedes(f[a], f[b], d, g[a] < g[b])
    BY <1>5 DEF RowOrder
  <2>. HIDE DEF f, g, order
  <2>2. IsOrder(order, nodes)
    BY <1>1, <1>2, <1>3, <2>1, MeasureOrder
  <2>. QED
    BY <2>2 DEF order
<1>. QED
  BY <1>4, <1>5

LEMMA SortedChildrenList ==
  ASSUME NEW s \in Stores, NEW v \in ViewStates, NEW dir
  PROVE  Lists(SortedChildren(s, v, dir), Children(s, dir, v.filter))
<1> DEFINE C == Children(s, dir, v.filter)
<1>1. v.sortDesc \in BOOLEAN
  BY DEF ViewStates
<1>2. C \in SUBSET Nodes /\ IsFiniteSet(C) /\ \A node \in C : Parent(node) = dir
  BY ChildrenFacts
<1>. HIDE DEF C
<1>3. IsOrder(RowOrder(s, C, v.sortBy, v.sortDesc, v.filter), C)
  BY <1>1, <1>2, RowOrders
<1>4. Lists(Sorted(C, RowOrder(s, C, v.sortBy, v.sortDesc, v.filter)), C)
  BY <1>2, <1>3, SortedLists
<1>. QED
  BY <1>4 DEF SortedChildren, C

VisiblePids(s, v) == {pid \in Pids : ProcessStats(s, pid) > 0 /\ MatchesActivity(v.filter, pid)}

LEMMA VisibleProcessesList ==
  ASSUME NEW s \in Stores, NEW v \in ViewStates
  PROVE  Lists(VisibleProcesses(s, v), VisiblePids(s, v))
<1> DEFINE P == VisiblePids(s, v)
           f == [pid \in P |-> ProcessStats(s, pid)]
           g == [pid \in P |-> pid]
           d == v.processSortDesc
           order == ProcessOrder(s, P, v.processSort, d)
<1>1. d \in BOOLEAN
  BY DEF ViewStates
<1>2. P \subseteq Pids /\ IsFiniteSet(P)
  <2>1. P \subseteq Pids
    BY DEF VisiblePids
  <2>. QED
    BY <2>1, BrowserAssumption, FS_Subset
<1>. HIDE DEF P
<1>3. f \in [P -> Nat]
  BY <1>2, ProcessStatsType
<1>4. g \in [P -> Nat] /\ \A a, b \in P : g[a] = g[b] => a = b
  BY <1>2, BrowserAssumption
<1>5. ASSUME v.processSort = "Pid" PROVE IsOrder(order, P)
  <2>1. \A a, b \in P : <<a, b>> \in order <=> ((g[a] < g[b]) # d)
    BY <1>5 DEF ProcessOrder
  <2>. HIDE DEF g, order, d
  <2>2. IsOrder(order, P)
    BY <1>1, <1>4, <2>1, RankOrder
  <2>. QED
    BY <2>2
<1>6. ASSUME v.processSort # "Pid" PROVE IsOrder(order, P)
  <2>1. \A a, b \in P : <<a, b>> \in order <=> Precedes(f[a], f[b], d, g[a] < g[b])
    BY <1>6 DEF ProcessOrder
  <2>. HIDE DEF f, g, order, d
  <2>2. IsOrder(order, P)
    BY <1>1, <1>3, <1>4, <2>1, MeasureOrder
  <2>. QED
    BY <2>2
<1>7. IsOrder(order, P)
  BY <1>5, <1>6
<1>. HIDE DEF order
<1>8. Lists(Sorted(P, order), P)
  BY <1>2, <1>7, SortedLists
<1>9. VisibleProcesses(s, v) = Sorted(P, order)
  BY DEF VisibleProcesses, P, order, VisiblePids
<1>. QED
  BY <1>8, <1>9 DEF P

--------------------------------------------------------------------------------
\* The lines of the tree.

Block(lines, node, expanded) ==
  <<node>> \o (IF node \in expanded THEN lines[node] ELSE <<>>)

Blocks(lines, nodes, expanded) == [i \in DOMAIN nodes |-> Block(lines, nodes[i], expanded)]

\* The lines of every directory, as TreeLines finds them.
IsLines(lines, children, expanded) ==
  lines = [dir \in Places |-> FlattenSeq(Blocks(lines, children[dir], expanded))]

\* The listed children of every directory.
IsTree(children) ==
  \A dir \in Places :
    /\ children[dir] \in Seq(Nodes) /\ IsInjective(children[dir])
    /\ \A node \in Range(children[dir]) : Parent(node) = dir

\* No directory is deeper than h.
Bounds(h) == \A dir \in Places : Len(dir) < h

LEMMA NumbersBounded ==
  ASSUME NEW S \in SUBSET Nat, IsFiniteSet(S)
  PROVE  \E n \in Nat : \A m \in S : m <= n
<1> DEFINE T == {s \in SUBSET S : \E n \in Nat : \A m \in s : m <= n}
<1>1. {} \in T
  OBVIOUS
<1>2. ASSUME NEW s \in SUBSET S, s # {}, \A x \in s : s \ {x} \in T
      PROVE  s \in T
  <2>1. PICK x \in s : TRUE
    BY <1>2
  <2>2. PICK n \in Nat : \A m \in s \ {x} : m <= n
    BY <1>2
  <2>3. n + x \in Nat /\ \A m \in s : m <= n + x
    BY <2>2
  <2>. QED
    BY <2>3
<1>. HIDE DEF T
<1>3. SUBSET S \subseteq T
  BY <1>1, <1>2, AllSubsets
<1>. QED
  BY <1>3 DEF T

LEMMA DepthBounded == \E h \in Nat : Bounds(h)
<1> DEFINE f == [node \in Nodes |-> Len(node)]
           S == {f[node] : node \in Nodes}
<1>1. IsFiniteSet(S)
  BY NodesFinite, FiniteImage
<1>2. S \in SUBSET Nat
  BY NodeFacts
<1>3. PICK n \in Nat : \A m \in S : m <= n
  BY <1>1, <1>2, NumbersBounded
<1>4. ASSUME NEW dir \in Places PROVE Len(dir) < n + 1
  <2>1. CASE dir = Root
    BY <2>1 DEF Root
  <2>2. CASE dir # Root
    <3>1. dir \in Nodes
      BY <2>2 DEF Places
    <3>2. f[dir] \in S /\ f[dir] = Len(dir) /\ Len(dir) \in Nat
      BY <3>1, NodeFacts
    <3>. QED
      BY <1>3, <3>2
  <2>. QED
    BY <2>1, <2>2
<1>. QED
  BY <1>4 DEF Bounds

LEMMA DirFacts == ASSUME NEW dir \in Places PROVE dir \in Seq(Names) /\ Len(dir) \in Nat
<1>1. CASE dir = Root
  BY <1>1, EmptySeq DEF Root
<1>2. CASE dir # Root
  BY <1>2, NodeFacts DEF Places
<1>. QED
  BY <1>1, <1>2

\* Lines that are right at every directory of at least some depth.
LinesTo(lines, n, h, children, expanded) ==
  /\ lines = [dir \in Places |-> lines[dir]]
  /\ \A dir \in Places :
       Len(dir) + n >= h => lines[dir] = FlattenSeq(Blocks(lines, children[dir], expanded))

LEMMA LinesExist ==
  ASSUME NEW children, IsTree(children), NEW expanded
  PROVE  \E lines : IsLines(lines, children, expanded)
<1>1. PICK h \in Nat : Bounds(h)
  BY DepthBounded
<1> DEFINE T == {n \in Nat : \E lines : LinesTo(lines, n, h, children, expanded)}
<1>2. 0 \in T
  <2> DEFINE lines == [dir \in Places |-> <<>>]
  <2>1. \A dir \in Places : ~ (Len(dir) + 0 >= h)
    BY <1>1, DirFacts DEF Bounds
  <2>2. LinesTo(lines, 0, h, children, expanded)
    BY <2>1 DEF LinesTo
  <2>. QED
    BY <2>2
<1>3. ASSUME NEW n \in Nat, n \in T PROVE n + 1 \in T
  <2>1. PICK f : LinesTo(f, n, h, children, expanded)
    BY <1>3
  <2> DEFINE g == [dir \in Places |-> FlattenSeq(Blocks(f, children[dir], expanded))]
  <2>2. ASSUME NEW dir \in Places, Len(dir) + (n + 1) >= h
        PROVE  Blocks(g, children[dir], expanded) = Blocks(f, children[dir], expanded)
    <3>1. ASSUME NEW i \in DOMAIN children[dir]
          PROVE  Block(g, children[dir][i], expanded) = Block(f, children[dir][i], expanded)
      <4>1. PICK node : node = children[dir][i]
        OBVIOUS
      <4>2. node \in Range(children[dir]) /\ children[dir] \in Seq(Nodes)
        BY <4>1 DEF Range, IsTree
      <4>3. Parent(node) = dir /\ node \in Nodes
        BY <4>2, RangeOfSeq DEF IsTree
      <4>4. Len(node) + n >= h
        BY <2>2, <4>3, NodeFacts, DirFacts
      <4>5. CASE node \in expanded
        <5>1. f[node] = g[node]
          BY <2>1, <4>3, <4>4 DEF LinesTo, Places
        <5>. HIDE DEF g
        <5>. QED
          BY <4>1, <5>1 DEF Block
      <4>6. CASE node \notin expanded
        BY <4>1, <4>6 DEF Block
      <4>. QED
        BY <4>5, <4>6
    <3>. QED
      BY <3>1 DEF Blocks
  <2>3. g = [dir \in Places |-> g[dir]]
    OBVIOUS
  <2>4. \A dir \in Places : g[dir] = FlattenSeq(Blocks(f, children[dir], expanded))
    OBVIOUS
  <2>. HIDE DEF g
  <2>5. LinesTo(g, n + 1, h, children, expanded)
    BY <2>2, <2>3, <2>4 DEF LinesTo
  <2>. QED
    BY <2>5
<1>. HIDE DEF T
<1>4. h \in T
  BY <1>2, <1>3, AllNumbers
<1>5. PICK lines : LinesTo(lines, h, h, children, expanded)
  BY <1>4 DEF T
<1>6. \A dir \in Places : Len(dir) + h >= h
  BY DirFacts
<1>7. \A dir \in Places : lines[dir] = FlattenSeq(Blocks(lines, children[dir], expanded))
  BY <1>5, <1>6 DEF LinesTo
<1>8. lines = [dir \in Places |-> lines[dir]]
  BY <1>5 DEF LinesTo
<1>9. IsLines(lines, children, expanded)
  BY <1>7, <1>8 DEF IsLines
<1>. QED
  BY <1>9

LEMMA LinesOfUnfolds ==
  ASSUME NEW children, IsTree(children), NEW expanded
  PROVE  \E lines : /\ IsLines(lines, children, expanded)
                    /\ LinesOf(children, expanded) = lines[Root]
<1> DEFINE lines == CHOOSE f : IsLines(f, children, expanded)
<1>1. IsLines(lines, children, expanded)
  BY LinesExist
<1>2. LinesOf(children, expanded) = lines[Root]
  BY DEF LinesOf, IsLines, Blocks, Block
<1>. QED
  BY <1>1, <1>2

Within(x, dir) == Len(dir) <= Len(x) /\ SubSeq(x, 1, Len(dir)) = dir

LEMMA WithinItself == ASSUME NEW node \in Nodes PROVE Within(node, node)
BY NodeFacts, SubSeqFull DEF Within

LEMMA WithinParent ==
  ASSUME NEW x \in Nodes, NEW node \in Nodes, Within(x, node)
  PROVE  /\ Within(x, Parent(node)) /\ Len(Parent(node)) < Len(x)
         /\ Len(node) = Len(Parent(node)) + 1
<1>1. /\ x \in Seq(Names) /\ Len(x) \in Nat /\ Len(node) \in Nat \ {0}
      /\ Len(Parent(node)) = Len(node) - 1
  BY NodeFacts
<1>2. Len(node) \in 0 .. Len(x) /\ Len(node) - 1 \in 0 .. Len(node) /\ SubSeq(x, 1, Len(node)) = node
  BY <1>1 DEF Within
<1>3. SubSeq(node, 1, Len(node) - 1) = SubSeq(x, 1, Len(node) - 1)
  BY <1>1, <1>2, PrefixOfPrefix
<1>4. SubSeq(x, 1, Len(Parent(node))) = Parent(node)
  BY <1>1, <1>3 DEF Parent, Front
<1>. QED
  BY <1>1, <1>2, <1>4 DEF Within

\* Lines that list, once each, nodes below a directory with what is above them.
IsListing(q, dir) ==
  /\ q \in Seq(Nodes) /\ IsInjective(q)
  /\ \A x \in Range(q) : /\ Within(x, dir) /\ Len(dir) < Len(x)
                         /\ Parent(x) = dir \/ Parent(x) \in Range(q)

LEMMA BlockListing ==
  ASSUME NEW lines, NEW expanded, NEW node \in Nodes,
         node \in expanded => IsListing(lines[node], node)
  PROVE  /\ Block(lines, node, expanded) \in Seq(Nodes)
         /\ IsInjective(Block(lines, node, expanded))
         /\ \A x \in Range(Block(lines, node, expanded)) :
              Within(x, node) /\ (x = node \/ Parent(x) \in Range(Block(lines, node, expanded)))
<1>1. PICK q : q = IF node \in expanded THEN lines[node] ELSE <<>>
  OBVIOUS
<1>2. IsListing(q, node)
  <2>1. CASE node \in expanded
    BY <1>1, <2>1
  <2>2. CASE node \notin expanded
    BY <1>1, <2>2, EmptySeq, RangeOfNothing DEF IsListing
  <2>. QED
    BY <2>1, <2>2
<1>3. PICK b : b = <<node>> \o q
  OBVIOUS
<1>4. <<node>> \in Seq(Nodes) /\ IsInjective(<<node>>) /\ Range(<<node>>) = {node}
  BY DEF IsInjective, Range
<1>5. node \notin Range(q)
  <2>1. Len(node) \in Nat
    BY NodeFacts
  <2>. QED
    BY <1>2, <2>1 DEF IsListing
<1>6. b \in Seq(Nodes) /\ IsInjective(b) /\ Range(b) = {node} \cup Range(q)
  <2>1. PICK s : s = <<node>>
    OBVIOUS
  <2>2. s \in Seq(Nodes) /\ IsInjective(s) /\ Range(s) = {node}
    BY <1>4, <2>1
  <2>3. q \in Seq(Nodes) /\ IsInjective(q) /\ Range(s) \cap Range(q) = {}
    BY <1>2, <1>5, <2>2 DEF IsListing
  <2>4. b = s \o q
    BY <1>3, <2>1
  <2>. QED
    BY <2>2, <2>3, <2>4, ConcatInjective
<1>7. ASSUME NEW x \in Range(b)
      PROVE  Within(x, node) /\ (x = node \/ Parent(x) \in Range(b))
  BY <1>2, <1>6, WithinItself DEF IsListing
<1>. QED
  BY <1>1, <1>3, <1>6, <1>7 DEF Block

LEMMA FlattenListing ==
  ASSUME NEW lines, NEW expanded, NEW dir \in Places, NEW nodes \in Seq(Nodes), IsInjective(nodes),
         \A node \in Range(nodes) : Parent(node) = dir,
         \A node \in Range(nodes) \cap expanded : IsListing(lines[node], node)
  PROVE  IsListing(FlattenSeq(Blocks(lines, nodes, expanded)), dir)
<1>1. PICK c : c = Blocks(lines, nodes, expanded)
  OBVIOUS
<1>2. /\ DOMAIN c = DOMAIN nodes /\ c = [i \in DOMAIN nodes |-> c[i]]
      /\ \A i \in DOMAIN nodes : c[i] = Block(lines, nodes[i], expanded)
  BY <1>1 DEF Blocks
<1>3. Len(nodes) \in Nat /\ DOMAIN nodes = 1 .. Len(nodes)
  BY LenProperties
<1>4. ASSUME NEW i \in DOMAIN nodes
      PROVE  /\ nodes[i] \in Nodes /\ nodes[i] \in Range(nodes) /\ Parent(nodes[i]) = dir
             /\ c[i] \in Seq(Nodes) /\ IsInjective(c[i])
             /\ \A x \in Range(c[i]) :
                  Within(x, nodes[i]) /\ (x = nodes[i] \/ Parent(x) \in Range(c[i]))
  <2>1. PICK node : node = nodes[i]
    OBVIOUS
  <2>2. node \in Nodes /\ node \in Range(nodes)
    BY <1>3, <2>1, LenProperties DEF Range
  <2>3. node \in expanded => IsListing(lines[node], node)
    BY <2>2
  <2>4. c[i] = Block(lines, node, expanded)
    BY <1>2, <2>1
  <2>. QED
    BY <2>1, <2>2, <2>3, <2>4, BlockListing
<1>5. c \in Seq(Seq(Nodes))
  <2>1. c \in [1 .. Len(nodes) -> Seq(Nodes)]
    BY <1>2, <1>3, <1>4
  <2>. QED
    BY <1>3, <2>1, SeqDef
<1>6. ASSUME NEW i \in DOMAIN c, NEW j \in DOMAIN c, i # j
      PROVE  Range(c[i]) \cap Range(c[j]) = {}
  <2>1. SUFFICES ASSUME NEW x \in Range(c[i]), x \in Range(c[j]) PROVE FALSE
    OBVIOUS
  <2>2. Within(x, nodes[i]) /\ Within(x, nodes[j])
    BY <1>2, <1>4, <2>1
  <2>3. Len(nodes[i]) = Len(nodes[j])
    <3>1. ASSUME NEW node \in Nodes, Parent(node) = dir PROVE Len(node) = Len(dir) + 1
      BY <3>1, NodeFacts, DirFacts
    <3>. QED
      BY <1>2, <1>4, <3>1
  <2>4. nodes[i] = nodes[j]
    BY <2>2, <2>3 DEF Within
  <2>. QED
    BY <1>2, <1>6, <2>4 DEF IsInjective
<1>7. IsBlocks(c)
  BY <1>2, <1>4, <1>6 DEF IsBlocks
<1>8. PICK q : q = FlattenSeq(c)
  OBVIOUS
<1>9. q \in Seq(Nodes) /\ IsInjective(q) /\ Range(q) = OfBlocks(c)
  BY <1>5, <1>7, <1>8, FlattenBlocks DEF Lists
<1>10. ASSUME NEW x \in Range(q)
       PROVE  /\ Within(x, dir) /\ Len(dir) < Len(x)
              /\ Parent(x) = dir \/ Parent(x) \in Range(q)
  <2>1. PICK i \in DOMAIN c : x \in Range(c[i])
    BY <1>9 DEF OfBlocks
  <2>2. x \in Nodes
    BY <1>9, RangeOfSeq
  <2>3. /\ nodes[i] \in Nodes /\ Parent(nodes[i]) = dir /\ Within(x, nodes[i])
        /\ x = nodes[i] \/ Parent(x) \in Range(c[i])
    BY <1>2, <1>4, <2>1
  <2>4. Within(x, dir) /\ Len(dir) < Len(x)
    BY <2>2, <2>3, WithinParent
  <2>5. Range(c[i]) \subseteq Range(q)
    BY <1>9 DEF OfBlocks
  <2>. QED
    BY <2>3, <2>4, <2>5
<1>. QED
  BY <1>1, <1>8, <1>9, <1>10 DEF IsListing

LEMMA LinesListing ==
  ASSUME NEW children, IsTree(children), NEW expanded, NEW lines, IsLines(lines, children, expanded)
  PROVE  \A dir \in Places : IsListing(lines[dir], dir)
<1>1. PICK h \in Nat : Bounds(h)
  BY DepthBounded
<1> DEFINE T == {n \in Nat : \A dir \in Places : Len(dir) + n >= h => IsListing(lines[dir], dir)}
<1>2. 0 \in T
  BY <1>1, DirFacts DEF Bounds
<1>3. ASSUME NEW n \in Nat, n \in T PROVE n + 1 \in T
  <2>1. ASSUME NEW dir \in Places, Len(dir) + (n + 1) >= h PROVE IsListing(lines[dir], dir)
    <3>1. PICK nodes : nodes = children[dir]
      OBVIOUS
    <3>2. /\ nodes \in Seq(Nodes) /\ IsInjective(nodes)
          /\ \A node \in Range(nodes) : Parent(node) = dir
      BY <3>1 DEF IsTree
    <3>3. ASSUME NEW node \in Range(nodes) \cap expanded
          PROVE  IsListing(lines[node], node)
      <4>1. node \in Nodes /\ Parent(node) = dir
        BY <3>2, RangeOfSeq
      <4>2. Len(node) + n >= h
        BY <2>1, <4>1, NodeFacts, DirFacts
      <4>. QED
        BY <1>3, <4>1, <4>2 DEF Places
    <3>4. lines[dir] = FlattenSeq(Blocks(lines, nodes, expanded))
      BY <3>1 DEF IsLines
    <3>. QED
      BY <3>2, <3>3, <3>4, FlattenListing
  <2>. QED
    BY <2>1
<1>. HIDE DEF T
<1>4. h \in T
  BY <1>2, <1>3, AllNumbers
<1>5. \A dir \in Places : Len(dir) + h >= h
  BY DirFacts
<1>. QED
  BY <1>4, <1>5 DEF T

LEMMA TreeLinesListing ==
  ASSUME NEW s \in Stores, NEW v \in ViewStates
  PROVE  IsListing(TreeLines(s, v), Root)
<1> DEFINE children == [dir \in Places |-> SortedChildren(s, v, dir)]
<1>1. ASSUME NEW dir \in Places
      PROVE  /\ children[dir] \in Seq(Nodes) /\ IsInjective(children[dir])
             /\ \A node \in Range(children[dir]) : Parent(node) = dir
  <2>1. PICK q : q = SortedChildren(s, v, dir)
    OBVIOUS
  <2>2. Lists(q, Children(s, dir, v.filter))
    BY <2>1, SortedChildrenList
  <2>3. q \in Seq(Nodes) /\ IsInjective(q) /\ \A node \in Range(q) : Parent(node) = dir
    BY <2>2, ChildrenFacts, SeqMonotonic DEF Lists
  <2>. QED
    BY <2>1, <2>3
<1>. HIDE DEF children
<1>2. IsTree(children)
  BY <1>1 DEF IsTree
<1>3. Root \in Places
  BY DEF Places
<1>4. PICK lines : IsLines(lines, children, v.expanded)
                   /\ LinesOf(children, v.expanded) = lines[Root]
  BY <1>2, LinesOfUnfolds
<1>5. IsListing(LinesOf(children, v.expanded), Root)
  BY <1>2, <1>3, <1>4, LinesListing
<1>. QED
  BY <1>5 DEF TreeLines, children

\* The rows of either view are a list of nodes, once each; those of the tree with
\* the directories they are in.
LEMMA RowsFacts ==
  ASSUME NEW s \in Stores, NEW v \in ViewStates
  PROVE  /\ Rows(s, v) \in Seq(Nodes) /\ IsInjective(Rows(s, v))
         /\ Len(Rows(s, v)) \in 0 .. Cardinality(Nodes)
         /\ DOMAIN Rows(s, v) = 1 .. Len(Rows(s, v))
         /\ v.mode = "Tree" =>
              \A x \in Range(Rows(s, v)) : Parent(x) = Root \/ Parent(x) \in Range(Rows(s, v))
<1>1. PICK q : q = Rows(s, v)
  OBVIOUS
<1>2. q \in Seq(Nodes) /\ IsInjective(q)
  <2>1. CASE v.mode = "Flat"
    <3>1. Lists(q, Children(s, v.cwd, v.filter))
      BY <1>1, <2>1, SortedChildrenList DEF Rows
    <3>. QED
      BY <3>1, ChildrenFacts, SeqMonotonic DEF Lists
  <2>2. CASE v.mode # "Flat"
    BY <1>1, <2>2, TreeLinesListing DEF Rows, IsListing
  <2>. QED
    BY <2>1, <2>2
<1>3. v.mode = "Tree" => \A x \in Range(q) : Parent(x) = Root \/ Parent(x) \in Range(q)
  BY <1>1, TreeLinesListing DEF Rows, IsListing
<1>4. Len(q) \in Nat /\ DOMAIN q = 1 .. Len(q) /\ Len(q) <= Cardinality(Nodes)
  <2>1. Range(q) \in SUBSET Nodes
    BY <1>2, RangeOfSeq
  <2>2. IsFiniteSet(Range(q)) /\ Cardinality(Range(q)) <= Cardinality(Nodes)
    BY <2>1, NodesFinite, FS_Subset
  <2>3. Cardinality(Range(q)) \in Nat /\ Cardinality(Nodes) \in Nat
    BY <2>2, NodesFinite, FS_CardinalityType
  <2>4. Lists(q, Range(q))
    BY <1>2, SeqOfRange DEF Lists
  <2>5. Len(q) \in Nat /\ DOMAIN q = 1 .. Len(q) /\ Len(q) <= Cardinality(Range(q))
    BY <2>2, <2>4, ListLength
  <2>. QED
    BY <2>2, <2>3, <2>5
<1>5. Len(q) \in 0 .. Cardinality(Nodes)
  BY <1>4, NodesFinite
<1>. QED
  BY <1>1, <1>2, <1>3, <1>4, <1>5

\* What the rows show does not depend on the cursors, the panes or the editor.
SameListing(v, w) ==
  /\ v.mode = w.mode /\ v.cwd = w.cwd /\ v.expanded = w.expanded
  /\ v.sortBy = w.sortBy /\ v.sortDesc = w.sortDesc /\ v.filter = w.filter

LEMMA RowsSame ==
  ASSUME NEW s, NEW v, NEW w, SameListing(v, w)
  PROVE  Rows(s, v) = Rows(s, w)
<1>1. \A dir : SortedChildren(s, v, dir) = SortedChildren(s, w, dir)
  BY DEF SameListing, SortedChildren
<1>2. TreeLines(s, v) = TreeLines(s, w)
  BY <1>1 DEF SameListing, TreeLines
<1>. QED
  BY <1>1, <1>2 DEF SameListing, Rows

LEMMA PidsFacts ==
  ASSUME NEW s \in Stores, NEW v \in ViewStates
  PROVE  /\ VisibleProcesses(s, v) \in Seq(Pids)
         /\ Len(VisibleProcesses(s, v)) \in 0 .. Cardinality(Pids)
         /\ DOMAIN VisibleProcesses(s, v) = 1 .. Len(VisibleProcesses(s, v))
<1> DEFINE P == VisiblePids(s, v)
           q == VisibleProcesses(s, v)
<1>1. P \in SUBSET Pids
  BY DEF VisiblePids
<1>2. Lists(q, P)
  BY VisibleProcessesList
<1>3. IsFiniteSet(P) /\ Cardinality(P) <= Cardinality(Pids)
  BY <1>1, BrowserAssumption, FS_Subset
<1>4. Cardinality(P) \in Nat /\ Cardinality(Pids) \in Nat
  BY <1>3, BrowserAssumption, FS_CardinalityType
<1>. HIDE DEF P, q
<1>5. Len(q) \in Nat /\ DOMAIN q = 1 .. Len(q) /\ Len(q) <= Cardinality(P)
  BY <1>2, <1>3, ListLength
<1>6. q \in Seq(Pids)
  BY <1>1, <1>2, SeqMonotonic DEF Lists
<1>. QED
  BY <1>3, <1>4, <1>5, <1>6 DEF q

--------------------------------------------------------------------------------
\* Cursors.

\* A list of members of a set, with an index from zero for its length.
IsList(rows, S, n) == /\ rows \in Seq(S) /\ Len(rows) \in 0 .. n
                      /\ DOMAIN rows = 1 .. Len(rows) /\ n \in Nat

LEMMA AtFacts ==
  ASSUME NEW S, NEW n, NEW rows, IsList(rows, S, n), NEW cursor \in Nat
  PROVE  /\ At(rows, cursor) \in S \cup {None}
         /\ At(rows, cursor) # None => At(rows, cursor) \in Range(rows)
<1>1. CASE cursor < Len(rows)
  <2>1. cursor + 1 \in DOMAIN rows
    BY <1>1 DEF IsList
  <2>2. rows[cursor + 1] \in S /\ rows[cursor + 1] \in Range(rows)
    BY <2>1, LenProperties DEF Range, IsList
  <2>. QED
    BY <1>1, <2>2 DEF At
<1>2. CASE ~ (cursor < Len(rows))
  BY <1>2 DEF At
<1>. QED
  BY <1>1, <1>2

LEMMA IndexFacts ==
  ASSUME NEW S, NEW n, NEW rows, IsList(rows, S, n), NEW row \in Range(rows)
  PROVE  /\ IndexIn(rows, row) \in 0 .. n /\ IndexIn(rows, row) \in Nat
         /\ At(rows, IndexIn(rows, row)) = row
<1> DEFINE k == CHOOSE i \in DOMAIN rows : rows[i] = row
<1>1. k \in DOMAIN rows /\ rows[k] = row
  BY DEF Range
<1>2. IndexIn(rows, row) = k - 1
  BY DEF IndexIn
<1>. HIDE DEF k
<1>3. k \in Nat /\ k >= 1 /\ k <= Len(rows) /\ Len(rows) <= n /\ Len(rows) \in Nat /\ n \in Nat
  BY <1>1 DEF IsList
<1>4. k - 1 \in 0 .. n /\ k - 1 \in Nat /\ k - 1 < Len(rows) /\ (k - 1) + 1 = k
  BY <1>3
<1>. QED
  BY <1>1, <1>2, <1>4 DEF At

LEMMA AtMostFacts ==
  ASSUME NEW S, NEW n, NEW rows, IsList(rows, S, n), rows # <<>>, NEW cursor \in Nat
  PROVE  /\ AtMost(cursor, rows) \in 0 .. n /\ AtMost(cursor, rows) < Len(rows)
         /\ rows[AtMost(cursor, rows) + 1] \in S
         /\ rows[AtMost(cursor, rows) + 1] \in Range(rows)
         /\ At(rows, AtMost(cursor, rows)) = rows[AtMost(cursor, rows) + 1]
<1>1. Len(rows) \in Nat \ {0} /\ Len(rows) <= n /\ n \in Nat /\ DOMAIN rows = 1 .. Len(rows)
  BY EmptySeq DEF IsList
<1>2. PICK k : k = AtMost(cursor, rows)
  OBVIOUS
<1>3. k \in 0 .. n /\ k < Len(rows) /\ k + 1 \in 1 .. Len(rows)
  <2>1. CASE cursor < Len(rows)
    BY <1>1, <1>2, <2>1 DEF AtMost
  <2>2. CASE ~ (cursor < Len(rows))
    BY <1>1, <1>2, <2>2 DEF AtMost
  <2>. QED
    BY <2>1, <2>2
<1>4. rows[k + 1] \in S /\ rows[k + 1] \in Range(rows)
  BY <1>1, <1>3, LenProperties DEF Range, IsList
<1>. QED
  BY <1>2, <1>3, <1>4 DEF At

LEMMA MoveFacts ==
  ASSUME NEW S, NEW n, NEW rows, IsList(rows, S, n), NEW cursor \in 0 .. n, NEW key \in Moves
  PROVE  Move(key, cursor, rows) \in 0 .. n
<1> DEFINE last == IF rows = <<>> THEN 0 ELSE Len(rows) - 1
<1>1. Len(rows) \in Nat /\ Len(rows) <= n /\ n \in Nat /\ (rows # <<>> => Len(rows) # 0)
  BY EmptySeq DEF IsList
<1>2. last \in 0 .. n
  BY <1>1
<1>3. PageHeight \in Nat \ {0}
  BY BrowserAssumption
<1>4. Move(key, cursor, rows) =
        CASE key = "Up" -> IF cursor > 0 THEN cursor - 1 ELSE 0
          [] key = "Down" -> IF cursor < last THEN cursor + 1 ELSE cursor
          [] key = "Home" -> 0
          [] key = "End" -> last
          [] key = "PageUp" -> IF cursor > PageHeight THEN cursor - PageHeight ELSE 0
          [] key = "PageDown" -> Min({cursor + PageHeight, last})
  BY DEF Move
<1>. HIDE DEF last
<1>5. Min({cursor + PageHeight, last}) \in 0 .. n
  <2>1. \E x \in {cursor + PageHeight, last} : \A y \in {cursor + PageHeight, last} : x <= y
    <3>1. CASE cursor + PageHeight <= last
      BY <1>1, <1>2, <1>3, <3>1
    <3>2. CASE ~ (cursor + PageHeight <= last)
      BY <1>1, <1>2, <1>3, <3>2
    <3>. QED
      BY <3>1, <3>2
  <2>2. PICK m : m = Min({cursor + PageHeight, last})
    OBVIOUS
  <2>3. m \in {cursor + PageHeight, last} /\ \A y \in {cursor + PageHeight, last} : m <= y
    BY <2>1, <2>2 DEF Min
  <2>4. m \in Nat /\ m <= last
    BY <1>1, <1>2, <1>3, <2>3
  <2>. QED
    BY <1>1, <1>2, <2>2, <2>4
<1>. QED
  BY <1>1, <1>2, <1>3, <1>4, <1>5 DEF Moves

--------------------------------------------------------------------------------
\* Views stay well formed.

IsView(v) ==
  /\ v \in ViewStates
  /\ v.focus = "Processes" => v.showProcesses
  /\ v.filterError => v.filterInput = Unparsable

RowList(rows) == IsList(rows, Nodes, Cardinality(Nodes))
PidList(pids) == IsList(pids, Pids, Cardinality(Pids))

LEMMA ListsOfView ==
  ASSUME NEW s \in Stores, NEW v \in ViewStates
  PROVE  RowList(Rows(s, v)) /\ PidList(VisibleProcesses(s, v))
<1>1. RowList(Rows(s, v))
  BY RowsFacts, NodesFinite DEF RowList, IsList
<1>2. Cardinality(Pids) \in Nat
  BY BrowserAssumption, FS_CardinalityType
<1>3. PidList(VisibleProcesses(s, v))
  BY <1>2, PidsFacts DEF PidList, IsList
<1>. QED
  BY <1>1, <1>3

\* A reconciled selection is the row under the cursor, and the chosen file while
\* that one is listed.
LEMMA ReconcileFilesFacts ==
  ASSUME NEW s \in Stores, NEW v, IsView(v), NEW path,
         NEW r, r = ReconcileFiles(s, v, path)
  PROVE  /\ IsView(r.view) /\ SameListing(r.view, v) /\ Rows(s, r.view) = Rows(s, v)
         /\ r.selected \in Nodes \cup {None}
         /\ At(Rows(s, r.view), r.view.cursor) = r.selected
         /\ path \in Range(Rows(s, v)) => r.selected = path
<1>1. PICK rows : rows = Rows(s, v)
  OBVIOUS
<1>2. RowList(rows) /\ v \in ViewStates
  BY <1>1, ListsOfView DEF IsView
<1>3. v.cursor \in Nat /\ 0 \in 0 .. Cardinality(Nodes)
  BY <1>2, NodesFinite DEF ViewStates
<1>4. ASSUME NEW c \in 0 .. Cardinality(Nodes), NEW path2, r = [view |-> [v EXCEPT !.cursor = c], selected |-> path2]
      PROVE  /\ IsView(r.view) /\ SameListing(r.view, v) /\ Rows(s, r.view) = rows
             /\ r.view.cursor = c /\ r.selected = path2
  <2>1. PICK w : w = [v EXCEPT !.cursor = c]
    OBVIOUS
  <2>2. IsView(w) /\ SameListing(w, v) /\ w.cursor = c
    BY <1>2, <2>1 DEF IsView, ViewStates, SameListing
  <2>3. r.view = w /\ r.selected = path2
    BY <1>4, <2>1
  <2>. QED
    BY <1>1, <2>2, <2>3, RowsSame
<1>5. CASE path \in Range(rows)
  <2>1. r = [view |-> [v EXCEPT !.cursor = IndexIn(rows, path)], selected |-> path]
    BY <1>1, <1>5 DEF ReconcileFiles
  <2>2. IndexIn(rows, path) \in 0 .. Cardinality(Nodes) /\ At(rows, IndexIn(rows, path)) = path
    BY <1>2, <1>5, IndexFacts DEF RowList
  <2>3. path \in Nodes
    BY <1>2, <1>5, RangeOfSeq DEF RowList, IsList
  <2>. QED
    BY <1>1, <1>4, <2>1, <2>2, <2>3
<1>6. CASE path \notin Range(rows) /\ rows = <<>>
  <2>1. r = [view |-> [v EXCEPT !.cursor = 0], selected |-> None]
    BY <1>1, <1>6 DEF ReconcileFiles, ReconcileFilesByPlace
  <2>2. At(rows, 0) = None
    BY <1>6 DEF At
  <2>. QED
    BY <1>1, <1>3, <1>4, <1>6, <2>1, <2>2
<1>7. CASE path \notin Range(rows) /\ rows # <<>>
  <2>1. PICK c : c = AtMost(v.cursor, rows)
    OBVIOUS
  <2>2. r = [view |-> [v EXCEPT !.cursor = c], selected |-> rows[c + 1]]
    BY <1>1, <1>7, <2>1 DEF ReconcileFiles, ReconcileFilesByPlace
  <2>3. c \in 0 .. Cardinality(Nodes) /\ rows[c + 1] \in Nodes /\ At(rows, c) = rows[c + 1]
    BY <1>2, <1>3, <1>7, <2>1, AtMostFacts DEF RowList
  <2>. QED
    BY <1>1, <1>4, <1>7, <2>2, <2>3
<1>. QED
  BY <1>5, <1>6, <1>7

\* A reconciled process list has its cursor on the selected process while that one
\* is listed, and changes no more.
LEMMA ReconcileProcessesFacts ==
  ASSUME NEW v, IsView(v), NEW pids, PidList(pids), NEW w, w = ReconcileProcesses(v, pids)
  PROVE  /\ IsView(w) /\ SameListing(w, v)
         /\ w.cursor = v.cursor /\ w.filterInput = v.filterInput /\ w.showHelp = v.showHelp
         /\ w.focus = v.focus
         /\ v.selectedProcess \in Range(pids) => At(pids, w.processCursor) = v.selectedProcess
<1>1. v \in ViewStates /\ v.processCursor \in Nat /\ 0 \in 0 .. Cardinality(Pids)
  BY BrowserAssumption, FS_CardinalityType DEF IsView, ViewStates
<1>2. CASE v.selectedProcess \in Range(pids)
  <2>1. PICK c : c = IndexIn(pids, v.selectedProcess)
    OBVIOUS
  <2>2. w = [v EXCEPT !.processCursor = c]
    BY <1>2, <2>1 DEF ReconcileProcesses
  <2>3. c \in 0 .. Cardinality(Pids) /\ At(pids, c) = v.selectedProcess
    BY <1>2, <2>1, IndexFacts DEF PidList
  <2>. QED
    BY <1>1, <2>2, <2>3 DEF IsView, ViewStates, SameListing
<1>3. CASE v.selectedProcess \notin Range(pids) /\ pids = <<>>
  <2>1. w = [v EXCEPT !.processCursor = 0, !.selectedProcess = None]
    BY <1>3 DEF ReconcileProcesses, ReconcileProcessesByPlace
  <2>. QED
    BY <1>1, <1>3, <2>1 DEF IsView, ViewStates, SameListing
<1>4. CASE v.selectedProcess \notin Range(pids) /\ pids # <<>>
  <2>1. PICK c : c = AtMost(v.processCursor, pids)
    OBVIOUS
  <2>2. PICK pid : pid = pids[c + 1]
    OBVIOUS
  <2>3. w = [v EXCEPT !.processCursor = c, !.selectedProcess = pid]
    BY <1>4, <2>1, <2>2 DEF ReconcileProcesses, ReconcileProcessesByPlace
  <2>4. c \in 0 .. Cardinality(Pids) /\ pid \in Pids
    BY <1>1, <1>4, <2>1, <2>2, AtMostFacts DEF PidList
  <2>. QED
    BY <1>1, <1>4, <2>3, <2>4 DEF IsView, ViewStates, SameListing
<1>. QED
  BY <1>2, <1>3, <1>4

LEMMA EscapeView == ASSUME NEW v, IsView(v) PROVE IsView(Escape(v))
<1>1. 0 \in 0 .. Cardinality(Nodes) /\ NoFilter \in Texts \ {Unparsable}
  BY NodesFinite DEF NoFilter, Texts, Unparsable
<1>2. CASE v.filterInput # None
  BY <1>2 DEF IsView, ViewStates, Escape
<1>3. CASE v.filterInput = None /\ v.focus = "Processes"
  BY <1>3 DEF IsView, ViewStates, Escape
<1>4. CASE v.filterInput = None /\ v.focus # "Processes"
  <2>1. PICK f : f = NoFilter
    OBVIOUS
  <2>2. Escape(v) = [v EXCEPT !.filter = f, !.filterError = FALSE, !.cursor = 0]
    BY <1>4, <2>1 DEF Escape
  <2>. QED
    BY <1>1, <2>1, <2>2 DEF IsView, ViewStates
<1>. QED
  BY <1>2, <1>3, <1>4

LEMMA EditFilterView ==
  ASSUME NEW v, IsView(v), v.filterInput # None, NEW key, NEW text \in Texts
  PROVE  IsView(EditFilter(key, text, v))
<1>1. 0 \in 0 .. Cardinality(Nodes)
  BY NodesFinite
<1>2. CASE key = "Enter" /\ v.filterInput = Unparsable
  <2>1. EditFilter(key, text, v) = [v EXCEPT !.filterError = TRUE]
    BY <1>2 DEF EditFilter, Characters
  <2>. QED
    BY <1>2, <2>1 DEF IsView, ViewStates
<1>3. CASE key = "Enter" /\ v.filterInput # Unparsable
  <2>1. PICK f : f = v.filterInput
    OBVIOUS
  <2>2. EditFilter(key, text, v) =
          [v EXCEPT !.filter = f, !.filterInput = None, !.filterError = FALSE, !.cursor = 0]
    BY <1>3, <2>1 DEF EditFilter, Characters
  <2>3. f \in Texts \ {Unparsable}
    BY <1>3, <2>1 DEF IsView, ViewStates
  <2>4. v \in ViewStates
    BY DEF IsView
  <2>5. [v EXCEPT !.filter = f, !.filterInput = None, !.filterError = FALSE, !.cursor = 0]
          \in ViewStates
    BY <1>1, <2>3, <2>4 DEF ViewStates
  <2>6. EditFilter(key, text, v) \in ViewStates
    BY <2>2, <2>5
  <2>7. PICK w : w = EditFilter(key, text, v)
    OBVIOUS
  <2>8. w.focus = v.focus /\ w.showProcesses = v.showProcesses /\ w.filterError = FALSE
    BY <2>2, <2>4, <2>7 DEF ViewStates
  <2>. QED
    BY <2>6, <2>7, <2>8 DEF IsView
<1>4. CASE key # "Enter" /\ key \in Characters \cup {"Backspace"}
  <2>1. EditFilter(key, text, v) = [v EXCEPT !.filterInput = text, !.filterError = FALSE]
    BY <1>4 DEF EditFilter
  <2>. QED
    BY <2>1 DEF IsView, ViewStates
<1>5. CASE key # "Enter" /\ key \notin Characters \cup {"Backspace"}
  BY <1>5 DEF EditFilter
<1>. QED
  BY <1>2, <1>3, <1>4, <1>5

LEMMA PaneViews ==
  ASSUME NEW v, IsView(v)
  PROVE  /\ IsView(OpenEditor(v)) /\ IsView(HidePane(v)) /\ IsView(ToggleProcesses(v))
         /\ IsView([v EXCEPT !.showHelp = TRUE]) /\ IsView([v EXCEPT !.showHelp = FALSE])
         /\ OpenEditor(v).filter = v.filter /\ HidePane(v).filter = v.filter
<1>1. IsView(OpenEditor(v)) /\ OpenEditor(v).filter = v.filter
  <2>1. PICK f : f = v.filter
    OBVIOUS
  <2>2. OpenEditor(v) = [v EXCEPT !.filterInput = f, !.filterError = FALSE]
    BY <2>1 DEF OpenEditor
  <2>. QED
    BY <2>1, <2>2 DEF IsView, ViewStates
<1>2. IsView(HidePane(v)) /\ HidePane(v).filter = v.filter
  BY DEF IsView, ViewStates, HidePane
<1>3. IsView(ToggleProcesses(v))
  <2>1. CASE v.showProcesses
    BY <1>2, <2>1 DEF ToggleProcesses
  <2>2. CASE ~ v.showProcesses
    BY <2>2 DEF IsView, ViewStates, ToggleProcesses
  <2>. QED
    BY <2>1, <2>2
<1>4. IsView([v EXCEPT !.showHelp = TRUE]) /\ IsView([v EXCEPT !.showHelp = FALSE])
  BY DEF IsView, ViewStates
<1>. QED
  BY <1>1, <1>2, <1>3, <1>4

\* A key in the process pane changes the filter to the process under the cursor, or
\* not at all.
LEMMA ProcessPaneView ==
  ASSUME NEW v, IsView(v), NEW pids, PidList(pids), NEW key
  PROVE  /\ IsView(InProcessPane(key, v, pids))
         /\ InProcessPane(key, v, pids).filter \in {v.filter, <<At(pids, v.processCursor)>>}
<1>1. 0 \in 0 .. Cardinality(Nodes)
  BY NodesFinite
<1>2. v \in ViewStates /\ v.processCursor \in 0 .. Cardinality(Pids) /\ v.processCursor \in Nat
  BY DEF IsView, ViewStates
<1>3. PICK w : w = InProcessPane(key, v, pids)
  OBVIOUS
<1>4. CASE key \in Moves
  <2>1. PICK c : c = Move(key, v.processCursor, pids)
    OBVIOUS
  <2>2. w = [v EXCEPT !.processCursor = c]
    BY <1>3, <1>4, <2>1 DEF InProcessPane, Moves
  <2>3. c \in 0 .. Cardinality(Pids)
    BY <1>2, <1>4, <2>1, MoveFacts DEF PidList
  <2>. QED
    BY <1>3, <2>2, <2>3 DEF IsView, ViewStates
<1>5. CASE key = "Enter" /\ At(pids, v.processCursor) # None
  <2>1. PICK f : f = <<At(pids, v.processCursor)>>
    OBVIOUS
  <2>2. w = [v EXCEPT !.filter = f, !.cursor = 0, !.focus = "Files"]
    BY <1>3, <1>5, <2>1 DEF InProcessPane, Moves
  <2>3. At(pids, v.processCursor) \in Pids
    BY <1>2, <1>5, AtFacts DEF PidList
  <2>4. f \in Texts \ {Unparsable}
    BY <2>1, <2>3, BrowserAssumption DEF Texts, Unparsable
  <2>5. IsView(w) /\ w.filter = f
    BY <1>1, <2>2, <2>4 DEF IsView, ViewStates
  <2>. QED
    BY <1>3, <2>1, <2>5
<1>6. CASE key = "P"
  <2>1. w = [v EXCEPT !.focus = "Files"]
    BY <1>3, <1>6 DEF InProcessPane, Moves
  <2>. QED
    BY <1>3, <2>1 DEF IsView, ViewStates
<1>7. CASE key = "p"
  <2>1. w = HidePane(v)
    BY <1>3, <1>7 DEF InProcessPane, Moves
  <2>. QED
    BY <1>3, <2>1, PaneViews
<1>8. CASE key = "s"
  <2>1. PICK x \in {"TotalBytes", "Pid"} : x = IF v.processSort = "Pid" THEN "TotalBytes" ELSE "Pid"
    OBVIOUS
  <2>2. w = [v EXCEPT !.processSort = x]
    BY <1>3, <1>8, <2>1 DEF InProcessPane, Moves
  <2>. QED
    BY <1>3, <2>2 DEF IsView, ViewStates
<1>9. CASE key = "S"
  <2>1. PICK x \in BOOLEAN : x = ~ v.processSortDesc
    OBVIOUS
  <2>2. w = [v EXCEPT !.processSortDesc = x]
    BY <1>3, <1>9, <2>1 DEF InProcessPane, Moves
  <2>. QED
    BY <1>3, <2>2 DEF IsView, ViewStates
<1>10. CASE key = "/"
  <2>1. w = OpenEditor(v)
    BY <1>3, <1>10 DEF InProcessPane, Moves
  <2>. QED
    BY <1>3, <2>1, PaneViews
<1>11. CASE key = "?"
  <2>1. w = [v EXCEPT !.showHelp = TRUE]
    BY <1>3, <1>11 DEF InProcessPane, Moves
  <2>2. w.filter = v.filter
    BY <1>2, <2>1 DEF ViewStates
  <2>. QED
    BY <1>3, <2>1, <2>2, PaneViews
<1>12. CASE /\ key \notin Moves \cup {"P", "p", "s", "S", "/", "?"}
            /\ ~ (key = "Enter" /\ At(pids, v.processCursor) # None)
  <2>1. w = v
    BY <1>3, <1>12 DEF InProcessPane
  <2>. QED
    BY <1>3, <2>1
<1>. QED
  BY <1>4, <1>5, <1>6, <1>7, <1>8, <1>9, <1>10, <1>11, <1>12

LEMMA ProcessKeyView ==
  ASSUME NEW v, IsView(v), NEW pids, PidList(pids), NEW key
  PROVE  /\ IsView(HandleProcessKey(key, v, pids))
         /\ HandleProcessKey(key, v, pids).filter \in {v.filter, <<At(pids, v.processCursor)>>}
<1>1. PICK after : after = InProcessPane(key, v, pids)
  OBVIOUS
<1>2. IsView(after) /\ after.filter \in {v.filter, <<At(pids, v.processCursor)>>}
  BY <1>1, ProcessPaneView
<1>3. PICK pid : pid = At(pids, after.processCursor)
  OBVIOUS
<1>4. after.processCursor \in Nat
  BY <1>2 DEF IsView, ViewStates
<1>5. pid \in Pids \cup {None}
  BY <1>3, <1>4, AtFacts DEF PidList
<1>6. HandleProcessKey(key, v, pids) = [after EXCEPT !.selectedProcess = pid]
  BY <1>1, <1>3 DEF HandleProcessKey
<1>. QED
  BY <1>2, <1>5, <1>6 DEF IsView, ViewStates

\* Each line of the tree has the directory that it is in above it, unless that is
\* the root.
IsClosed(rows) == \A x \in Range(rows) : Parent(x) = Root \/ Parent(x) \in Range(rows)

LEMMA LineViews ==
  ASSUME NEW v, IsView(v), NEW rows, RowList(rows), IsClosed(rows), NEW line \in Range(rows),
         NEW dirs
  PROVE  IsView(ToggleLine(v, line, dirs)) /\ IsView(LeaveLine(v, rows, line, dirs))
<1>1. ASSUME NEW e \in SUBSET Nodes PROVE IsView([v EXCEPT !.expanded = e])
  BY DEF IsView, ViewStates
<1>2. v.expanded \in SUBSET Nodes /\ line \in Nodes
  BY RangeOfSeq DEF IsView, ViewStates, RowList, IsList
<1>3. IsView(ToggleLine(v, line, dirs))
  <2>1. CASE line \notin dirs
    BY <2>1 DEF ToggleLine
  <2>2. CASE line \in dirs
    <3>1. PICK e : e = IF line \in v.expanded THEN v.expanded \ {line} ELSE v.expanded \cup {line}
      OBVIOUS
    <3>2. e \in SUBSET Nodes
      BY <1>2, <3>1
    <3>3. ToggleLine(v, line, dirs) = [v EXCEPT !.expanded = e]
      BY <2>2, <3>1 DEF ToggleLine
    <3>. QED
      BY <1>1, <3>2, <3>3
  <2>. QED
    BY <2>1, <2>2
<1>4. IsView(LeaveLine(v, rows, line, dirs))
  <2>1. CASE line \in dirs \cap v.expanded
    <3>1. PICK e : e = v.expanded \ {line}
      OBVIOUS
    <3>2. LeaveLine(v, rows, line, dirs) = [v EXCEPT !.expanded = e]
      BY <2>1, <3>1 DEF LeaveLine
    <3>. QED
      BY <1>1, <1>2, <3>1, <3>2
  <2>2. CASE line \notin dirs \cap v.expanded /\ Parent(line) # Root
    <3>1. PICK c : c = IndexIn(rows, Parent(line))
      OBVIOUS
    <3>2. Parent(line) \in Range(rows)
      BY <2>2 DEF IsClosed
    <3>3. c \in 0 .. Cardinality(Nodes)
      BY <3>1, <3>2, IndexFacts DEF RowList
    <3>4. LeaveLine(v, rows, line, dirs) = [v EXCEPT !.cursor = c]
      BY <2>2, <3>1 DEF LeaveLine
    <3>. QED
      BY <3>3, <3>4 DEF IsView, ViewStates
  <2>3. CASE line \notin dirs \cap v.expanded /\ Parent(line) = Root
    BY <2>3 DEF LeaveLine
  <2>. QED
    BY <2>1, <2>2, <2>3
<1>. QED
  BY <1>3, <1>4

LEMMA FileKeyView ==
  ASSUME NEW v, IsView(v), NEW rows, RowList(rows), v.mode = "Tree" => IsClosed(rows),
         NEW dirs, NEW pids, PidList(pids),
         NEW key \in FileNavigation \cup (Characters \ {"q", "r"})
  PROVE  IsView(HandleFileKey(key, v, rows, dirs, pids))
<1>1. 0 \in 0 .. Cardinality(Nodes) /\ v.cursor \in 0 .. Cardinality(Nodes) /\ v.cursor \in Nat
      /\ v.mode \in {"Flat", "Tree"}
  BY NodesFinite DEF IsView, ViewStates
<1>2. PICK line : line = At(rows, v.cursor)
  OBVIOUS
<1>3. line # None => line \in Range(rows)
  BY <1>1, <1>2, AtFacts DEF RowList
<1>4. PICK w : w = HandleFileKey(key, v, rows, dirs, pids)
  OBVIOUS
<1>5. CASE key \in Moves
  <2>1. PICK c : c = Move(key, v.cursor, rows)
    OBVIOUS
  <2>2. w = [v EXCEPT !.cursor = c]
    BY <1>4, <1>5, <2>1 DEF HandleFileKey, Moves, Enterings
  <2>3. c \in 0 .. Cardinality(Nodes)
    BY <1>1, <1>5, <2>1, MoveFacts DEF RowList
  <2>. QED
    BY <1>4, <2>2, <2>3 DEF IsView, ViewStates
<1>6. CASE key \in Enterings
  <2>1. w = IF v.mode = "Tree" /\ line # None THEN ToggleLine(v, line, dirs) ELSE v
    BY <1>2, <1>4, <1>6 DEF HandleFileKey, Moves, Enterings
  <2>. QED
    BY <1>3, <1>4, <2>1, LineViews
<1>7. CASE key \in {"Left", "Backspace"}
  <2>1. w = IF v.mode = "Flat" THEN GoUp(v)
            ELSE IF line # None THEN LeaveLine(v, rows, line, dirs) ELSE v
    BY <1>2, <1>4, <1>7 DEF HandleFileKey, Moves, Enterings
  <2>2. IsView(GoUp(v))
    <3>1. CASE v.cwd = Root
      BY <3>1 DEF GoUp
    <3>2. CASE v.cwd # Root
      <4>1. PICK dir : dir = Parent(v.cwd)
        OBVIOUS
      <4>2. v.cwd \in Nodes
        BY <3>2 DEF IsView, ViewStates, Places
      <4>3. dir \in Places
        BY <4>1, <4>2, NodeFacts
      <4>4. GoUp(v) = [v EXCEPT !.cwd = dir, !.cursor = 0]
        BY <3>2, <4>1 DEF GoUp
      <4>. QED
        BY <1>1, <4>3, <4>4 DEF IsView, ViewStates
    <3>. QED
      BY <3>1, <3>2
  <2>. QED
    BY <1>1, <1>3, <1>4, <2>1, <2>2, LineViews
<1>8. CASE key = "s"
  <2>1. PICK x \in {"TotalBytes", "Name"} : x = IF v.sortBy = "Name" THEN "TotalBytes" ELSE "Name"
    OBVIOUS
  <2>2. w = [v EXCEPT !.sortBy = x]
    BY <1>4, <1>8, <2>1 DEF HandleFileKey, Moves, Enterings
  <2>. QED
    BY <1>4, <2>2 DEF IsView, ViewStates
<1>9. CASE key = "S"
  <2>1. PICK x \in BOOLEAN : x = ~ v.sortDesc
    OBVIOUS
  <2>2. w = [v EXCEPT !.sortDesc = x]
    BY <1>4, <1>9, <2>1 DEF HandleFileKey, Moves, Enterings
  <2>. QED
    BY <1>4, <2>2 DEF IsView, ViewStates
<1>10. CASE key = "/"
  <2>1. w = OpenEditor(v)
    BY <1>4, <1>10 DEF HandleFileKey, Moves, Enterings
  <2>. QED
    BY <1>4, <2>1, PaneViews
<1>11. CASE key = "p"
  <2>1. w = ToggleProcesses(v)
    BY <1>4, <1>11 DEF HandleFileKey, Moves, Enterings
  <2>. QED
    BY <1>4, <2>1, PaneViews
<1>12. CASE key = "P"
  <2>1. PICK x : x = [v EXCEPT !.showProcesses = TRUE, !.focus = "Processes"]
    OBVIOUS
  <2>2. IsView(x)
    BY <2>1 DEF IsView, ViewStates
  <2>3. w = ReconcileProcesses(x, pids)
    BY <1>4, <1>12, <2>1 DEF HandleFileKey, Moves, Enterings
  <2>. QED
    BY <1>4, <2>2, <2>3, ReconcileProcessesFacts
<1>13. CASE key = "?"
  <2>1. w = [v EXCEPT !.showHelp = TRUE]
    BY <1>4, <1>13 DEF HandleFileKey, Moves, Enterings
  <2>. QED
    BY <1>4, <2>1, PaneViews
<1>. QED
  BY <1>5, <1>6, <1>7, <1>8, <1>9, <1>10, <1>11, <1>12, <1>13
     DEF FileNavigation, Characters, Moves, Enterings

LEMMA KeyView ==
  ASSUME NEW v, IsView(v), NEW rows, RowList(rows), v.mode = "Tree" => IsClosed(rows),
         NEW dirs, NEW pids, PidList(pids), NEW key \in Keys, NEW text \in Texts
  PROVE  /\ IsView(HandleKey(key, text, v, rows, dirs, pids))
         /\ v.focus = "Processes" /\ v.filterInput = None =>
              HandleKey(key, text, v, rows, dirs, pids).filter
                \in {v.filter, <<At(pids, v.processCursor)>>}
<1>1. PICK w : w = HandleKey(key, text, v, rows, dirs, pids)
  OBVIOUS
<1>2. v \in ViewStates
  BY DEF IsView
<1>3. CASE v.showHelp
  <2>1. w = [v EXCEPT !.showHelp = FALSE]
    BY <1>1, <1>3 DEF HandleKey
  <2>2. w.filter = v.filter
    BY <1>2, <2>1 DEF ViewStates
  <2>. QED
    BY <1>1, <2>1, <2>2, PaneViews
<1>4. CASE ~ v.showHelp /\ key \in {"q", "r"}
  <2>1. w = v
    BY <1>1, <1>4 DEF HandleKey
  <2>. QED
    BY <1>1, <2>1
<1>5. CASE ~ v.showHelp /\ key = "Tab"
  <2>1. PICK m \in {"Flat", "Tree"} : m = IF v.mode = "Flat" THEN "Tree" ELSE "Flat"
    OBVIOUS
  <2>2. w = [v EXCEPT !.mode = m, !.cursor = 0]
    BY <1>1, <1>5, <2>1 DEF HandleKey, SwitchMode
  <2>3. 0 \in 0 .. Cardinality(Nodes)
    BY NodesFinite
  <2>4. IsView(w) /\ w.filter = v.filter
    BY <2>2, <2>3 DEF IsView, ViewStates
  <2>. QED
    BY <1>1, <2>4
<1>6. CASE ~ v.showHelp /\ key = "Esc"
  <2>1. w = Escape(v)
    BY <1>1, <1>6 DEF HandleKey
  <2>2. v.focus = "Processes" /\ v.filterInput = None => w.filter = v.filter
    BY <1>2, <2>1 DEF Escape, ViewStates
  <2>. QED
    BY <1>1, <2>1, <2>2, EscapeView
<1>7. CASE ~ v.showHelp /\ key \notin {"q", "r", "Tab", "Esc"}
  <2>1. w = IF v.filterInput # None THEN EditFilter(key, text, v)
            ELSE IF v.focus = "Processes" THEN HandleProcessKey(key, v, pids)
            ELSE HandleFileKey(key, v, rows, dirs, pids)
    BY <1>1, <1>7 DEF HandleKey
  <2>2. key \in FileNavigation \cup (Characters \ {"q", "r"})
    BY <1>7, KeysAssumption
  <2>3. CASE v.filterInput # None
    BY <1>1, <2>1, <2>3, EditFilterView
  <2>4. CASE v.filterInput = None /\ v.focus = "Processes"
    BY <1>1, <2>1, <2>4, ProcessKeyView
  <2>5. CASE v.filterInput = None /\ v.focus # "Processes"
    BY <1>1, <2>1, <2>2, <2>5, FileKeyView
  <2>. QED
    BY <2>3, <2>4, <2>5
<1>. QED
  BY <1>3, <1>4, <1>5, <1>6, <1>7

--------------------------------------------------------------------------------
\* What is recorded.

\* The first two conjuncts of TypeOK.
IsStore(s) ==
  /\ s \in [recorded : [Nodes -> 0 .. MaxRecords], byProcess : [Nodes -> [Pids -> Nat]]]
  /\ \A file \in Nodes, pid \in Pids : s.byProcess[file][pid] <= s.recorded[file]

LEMMA StoreType == ASSUME NEW s, IsStore(s) PROVE s \in Stores
BY BrowserAssumption DEF IsStore, Stores

LEMMA NothingRecordedStore == IsStore(NothingRecorded)
BY BrowserAssumption DEF IsStore, NothingRecorded

LEMMA BelowRoot == Below(Root) = Nodes
<1>1. ASSUME NEW file \in Nodes PROVE IsPrefix(Root, file)
  <2>1. Len(Root) = 0 /\ Len(file) \in Nat
    BY EmptySeq, PathFacts DEF Root
  <2>2. SubSeq(Root, 1, 0) = <<>> /\ SubSeq(file, 1, 0) = <<>>
    BY SubSeqEmpty
  <2>. QED
    BY <2>1, <2>2 DEF IsPrefix
<1>. QED
  BY <1>1 DEF Below

LEMMA RecordedBelowTotal ==
  ASSUME NEW s \in Stores, NEW file \in Nodes
  PROVE  s.recorded[file] <= FilteredStats(s, Root, NoFilter)
<1>1. Numbers(s.recorded, Nodes)
  BY BrowserAssumption DEF Numbers, Stores
<1>2. /\ SumFunctionOnSet(s.recorded, Nodes \ {file}) \in Nat /\ s.recorded[file] \in Nat
      /\ SumFunctionOnSet(s.recorded, Nodes)
           = s.recorded[file] + SumFunctionOnSet(s.recorded, Nodes \ {file})
  BY <1>1, SumPart
<1>3. FilteredStats(s, Root, NoFilter) = SumFunctionOnSet(s.recorded, Nodes)
  BY BelowRoot DEF FilteredStats, AggregateStats
<1>. QED
  BY <1>2, <1>3

LEMMA RecordStore ==
  ASSUME NEW s, IsStore(s), FilteredStats(s, Root, NoFilter) < MaxRecords,
         NEW file \in Nodes, NEW pid \in Pids,
         NEW t, t = [s EXCEPT !.recorded[file] = @ + 1, !.byProcess[file][pid] = @ + 1]
  PROVE  IsStore(t)
<1>1. s \in Stores /\ MaxRecords \in Nat
  BY StoreType, BrowserAssumption
<1>2. s.recorded[file] <= FilteredStats(s, Root, NoFilter) /\ FilteredStats(s, Root, NoFilter) \in Nat
  BY <1>1, RecordedBelowTotal, StatsType
<1>3. PICK r : r = s.recorded
  OBVIOUS
<1>4. PICK b : b = s.byProcess
  OBVIOUS
<1>5. /\ r \in [Nodes -> 0 .. MaxRecords] /\ b \in [Nodes -> [Pids -> Nat]]
      /\ \A f \in Nodes, p \in Pids : b[f][p] <= r[f]
  BY <1>3, <1>4 DEF IsStore
<1>6. PICK q : q = [r EXCEPT ![file] = r[file] + 1]
  OBVIOUS
<1>7. PICK c : c = [b EXCEPT ![file] = [b[file] EXCEPT ![pid] = b[file][pid] + 1]]
  OBVIOUS
<1>8. t.recorded = q /\ t.byProcess = c /\ t = [recorded |-> q, byProcess |-> c]
  BY <1>1, <1>3, <1>4, <1>6, <1>7 DEF Stores
<1>9. r[file] + 1 \in 0 .. MaxRecords
  BY <1>1, <1>2, <1>3, <1>5
<1>10. q \in [Nodes -> 0 .. MaxRecords]
  BY <1>5, <1>6, <1>9
<1>11. [b[file] EXCEPT ![pid] = b[file][pid] + 1] \in [Pids -> Nat]
  BY <1>5
<1>12. c \in [Nodes -> [Pids -> Nat]]
  BY <1>5, <1>7, <1>11
<1>13. ASSUME NEW f \in Nodes, NEW p \in Pids PROVE c[f][p] <= q[f]
  <2>1. CASE f # file
    BY <1>5, <1>6, <1>7, <2>1
  <2>2. CASE f = file /\ p # pid
    BY <1>5, <1>6, <1>7, <2>2
  <2>3. CASE f = file /\ p = pid
    BY <1>5, <1>6, <1>7, <2>3
  <2>. QED
    BY <2>1, <2>2, <2>3
<1>. QED
  BY <1>8, <1>10, <1>12, <1>13 DEF IsStore

LEMMA RemoveStore ==
  ASSUME NEW s, IsStore(s), NEW pid \in Pids,
         NEW t, t = [s EXCEPT !.byProcess = [file \in Nodes |-> [@[file] EXCEPT ![pid] = 0]]]
  PROVE  IsStore(t)
<1>1. PICK r : r = s.recorded
  OBVIOUS
<1>2. PICK b : b = s.byProcess
  OBVIOUS
<1>3. /\ r \in [Nodes -> 0 .. MaxRecords] /\ b \in [Nodes -> [Pids -> Nat]]
      /\ \A f \in Nodes, p \in Pids : b[f][p] <= r[f]
  BY <1>1, <1>2 DEF IsStore
<1>4. PICK c : c = [file \in Nodes |-> [b[file] EXCEPT ![pid] = 0]]
  OBVIOUS
<1>5. t = [s EXCEPT !.byProcess = c]
  BY <1>2, <1>4
<1>6. t.recorded = r /\ t.byProcess = c /\ t = [recorded |-> r, byProcess |-> c]
  BY <1>1, <1>5 DEF IsStore
<1>7. c \in [Nodes -> [Pids -> Nat]]
  BY <1>3, <1>4
<1>8. ASSUME NEW f \in Nodes, NEW p \in Pids PROVE c[f][p] <= r[f]
  <2>1. c[f][p] = b[f][p] \/ c[f][p] = 0
    BY <1>3, <1>4
  <2>2. r[f] \in 0 .. MaxRecords
    BY <1>3
  <2>. QED
    BY <1>3, <2>1, <2>2
<1>. QED
  BY <1>3, <1>6, <1>7, <1>8 DEF IsStore

--------------------------------------------------------------------------------
\* The type invariant.

\* TypeOK, by what the lemmas speak of.
LEMMA TypeParts ==
  TypeOK <=> /\ IsStore(store) /\ IsView(view)
             /\ ui \in {"draw", "poll", "update", "processes", "ended"}
             /\ selected \in Nodes \cup {None}
             /\ kept \in Nodes \cup {None}
             /\ pending \in KeyEffects \cup {None}
             /\ (pending # None) = (ui \in {"update", "processes"})
             /\ presses \in 0 .. MaxKeys
BY DEF TypeOK, IsStore, IsView

LEMMA TypeInit == Init => TypeOK
<1>1. SUFFICES ASSUME Init PROVE TypeOK
  OBVIOUS
<1>2. IsStore(store)
  BY <1>1, NothingRecordedStore DEF Init
<1>3. IsView(view)
  <2>1. 0 \in 0 .. Cardinality(Nodes) /\ 0 \in 0 .. Cardinality(Pids)
    BY NodesFinite, BrowserAssumption, FS_CardinalityType
  <2>2. Root \in Places /\ NoFilter \in Texts \ {Unparsable}
    BY DEF Places, Texts, NoFilter, Unparsable
  <2>. QED
    BY <1>1, <2>1, <2>2 DEF Init, NewViewState, IsView, ViewStates
<1>. QED
  BY <1>1, <1>2, <1>3, TypeParts, BrowserAssumption DEF Init

\* What Follow keeps is what was kept, as long as it is listed.
LEMMA FollowFacts ==
  ASSUME TypeOK, Follow
  PROVE  /\ kept' \in Nodes \cup {None}
         /\ kept' # None => kept' = kept /\ kept' \in Range(Rows(store', view'))
<1>1. CASE kept # None /\ kept \in Range(Rows(store', view'))
  BY <1>1 DEF Follow, TypeOK
<1>2. CASE ~ (kept # None /\ kept \in Range(Rows(store', view')))
  BY <1>2 DEF Follow
<1>. QED
  BY <1>1, <1>2

LEMMA DrillFacts ==
  ASSUME TypeOK, NEW key \in Keys, DrillIn(key)
  PROVE  /\ IsView(view') /\ view'.filter = view.filter
         /\ selected' \in Nodes \cup {None} /\ kept' \in Nodes \cup {None}
         /\ \/ /\ kept' = selected'
               /\ kept' # None => kept' \in Range(Rows(store, view'))
            \/ UNCHANGED <<view, selected, kept>>
<1>1. PICK row : row = At(Rows(store, view), view.cursor)
  OBVIOUS
<1>2. PICK inside : inside = [view EXCEPT !.cwd = row, !.cursor = 0]
  OBVIOUS
<1>3. store \in Stores /\ IsView(view)
  BY TypeParts, StoreType
<1>4. CASE row # None /\ IsDir(store, row)
  <2>1. IsView(inside) /\ inside.filter = view.filter
    <3>1. 0 \in 0 .. Cardinality(Nodes)
      BY NodesFinite
    <3>2. RowList(Rows(store, view)) /\ view.cursor \in Nat
      BY <1>3, ListsOfView DEF IsView, ViewStates
    <3>3. row \in Nodes
      BY <1>1, <1>4, <3>2, AtFacts DEF RowList
    <3>4. row \in Places
      BY <3>3 DEF Places
    <3>. QED
      BY <1>2, <1>3, <3>1, <3>4 DEF IsView, ViewStates
  <2>2. RowList(Rows(store, inside))
    BY <1>3, <2>1, ListsOfView DEF IsView
  <2>3. view' = inside /\ selected' = At(Rows(store, inside), 0) /\ kept' = selected'
    BY <1>1, <1>2, <1>4 DEF DrillIn
  <2>4. PICK first : first = At(Rows(store, inside), 0)
    OBVIOUS
  <2>5. /\ first \in Nodes \cup {None}
        /\ first # None => first \in Range(Rows(store, inside))
    BY <2>2, <2>4, AtFacts DEF RowList
  <2>. QED
    BY <2>1, <2>3, <2>4, <2>5
<1>5. CASE ~(row # None /\ IsDir(store, row))
  <2>1. UNCHANGED <<view, selected, kept>>
    BY <1>1, <1>5 DEF DrillIn
  <2>. QED
    BY <1>3, <2>1 DEF TypeOK
<1>. QED
  BY <1>4, <1>5

\* The view that a key leaves.
LEMMA PressFacts ==
  ASSUME TypeOK, PressKey
  PROVE  /\ IsView(view') /\ pending' \in KeyEffects
         /\ (/\ view.focus = "Processes" /\ view.filterInput = None
             /\ view'.filter # view.filter
             /\ view.selectedProcess \in Range(VisibleProcesses(store, view)))
              => view'.filter = <<view.selectedProcess>>
<1>1. PICK rows : rows = Rows(store, view)
  OBVIOUS
<1>2. PICK pids : pids = VisibleProcesses(store, view)
  OBVIOUS
<1>3. PICK before : before = ReconcileProcesses(view, pids)
  OBVIOUS
<1>4. PICK key \in Keys : \E text \in Edits :
        /\ view' = HandleKey(key, text, before, rows, Directories(store), pids)
        /\ pending' = [navigates |-> /\ view.focus = "Files" /\ view.filterInput = None
                                     /\ key \in FileNavigation,
                       switches |-> view'.mode # view.mode,
                       resets |-> key = "r" /\ ~view.showHelp,
                       quits |-> key = "q" /\ ~view.showHelp]
  BY <1>1, <1>2, <1>3 DEF PressKey
<1>5. PICK text \in Edits : view' = HandleKey(key, text, before, rows, Directories(store), pids)
  BY <1>4
<1>6. store \in Stores /\ IsView(view) /\ view \in ViewStates
  BY TypeParts, StoreType DEF IsView
<1>7. RowList(rows) /\ PidList(pids)
  BY <1>1, <1>2, <1>6, ListsOfView
<1>8. /\ IsView(before) /\ SameListing(before, view)
      /\ before.filterInput = view.filterInput /\ before.focus = view.focus
      /\ view.selectedProcess \in Range(pids) => At(pids, before.processCursor) = view.selectedProcess
  BY <1>3, <1>6, <1>7, ReconcileProcessesFacts
<1>9. before.mode = view.mode /\ before.filter = view.filter
  BY <1>8 DEF SameListing
<1>10. before.mode = "Tree" => IsClosed(rows)
  BY <1>1, <1>6, <1>9, RowsFacts DEF IsClosed
<1>11. text \in Texts
  BY <1>5 DEF Edits, Texts
<1>12. /\ IsView(view')
       /\ view.focus = "Processes" /\ view.filterInput = None =>
            view'.filter \in {view.filter, <<At(pids, before.processCursor)>>}
  BY <1>5, <1>7, <1>8, <1>9, <1>10, <1>11, KeyView
<1>13. pending' \in KeyEffects
  BY <1>4 DEF KeyEffects
<1>. QED
  BY <1>2, <1>8, <1>12, <1>13

LEMMA TypePartsNext ==
  /\ IsStore(store') /\ IsView(view')
  /\ ui' \in {"draw", "poll", "update", "processes", "ended"}
  /\ selected' \in Nodes \cup {None}
  /\ kept' \in Nodes \cup {None}
  /\ pending' \in KeyEffects \cup {None}
  /\ (pending' # None) = (ui' \in {"update", "processes"})
  /\ presses' \in 0 .. MaxKeys
  => TypeOK'
BY DEF TypeOK, IsStore, IsView

LEMMA TypeStep == TypeOK /\ [Next]_vars => TypeOK'
<1>1. SUFFICES ASSUME TypeOK, [Next]_vars PROVE TypeOK'
  OBVIOUS
<1>2. /\ IsStore(store) /\ IsView(view) /\ store \in Stores
      /\ ui \in {"draw", "poll", "update", "processes", "ended"}
      /\ selected \in Nodes \cup {None} /\ kept \in Nodes \cup {None}
      /\ pending \in KeyEffects \cup {None}
      /\ (pending # None) = (ui \in {"update", "processes"})
      /\ presses \in 0 .. MaxKeys /\ MaxKeys \in Nat
  BY <1>1, TypeParts, StoreType, BrowserAssumption
<1>3. ASSUME NEW file \in Nodes, NEW pid \in Pids, Record(file, pid) PROVE TypeOK'
  <2>1. IsStore(store')
    BY <1>2, <1>3, RecordStore DEF Record
  <2>2. kept' \in Nodes \cup {None}
    BY <1>1, <1>3, FollowFacts DEF Record
  <2>. QED
    BY <1>2, <1>3, <2>1, <2>2, TypePartsNext DEF Record, uiVars
<1>4. ASSUME NEW pid \in Pids, RemoveProcess(pid) PROVE TypeOK'
  <2>1. IsStore(store')
    BY <1>2, <1>4, RemoveStore DEF RemoveProcess
  <2>2. kept' \in Nodes \cup {None}
    BY <1>1, <1>4, FollowFacts DEF RemoveProcess
  <2>. QED
    BY <1>2, <1>4, <2>1, <2>2, TypePartsNext DEF RemoveProcess, uiVars
<1>5. CASE ObserveShutdown
  BY <1>2, <1>5, TypePartsNext DEF ObserveShutdown
<1>6. CASE Draw
  <2>1. PICK r : r = ReconcileFiles(store, view, selected)
    OBVIOUS
  <2>2. view' = r.view /\ selected' = r.selected
    BY <1>6, <2>1 DEF Draw
  <2>3. IsView(view') /\ selected' \in Nodes \cup {None}
    BY <1>2, <2>1, <2>2, ReconcileFilesFacts
  <2>. QED
    BY <1>2, <1>6, <2>3, TypePartsNext DEF Draw
<1>7. CASE Timeout
  BY <1>2, <1>7, TypePartsNext DEF Timeout
<1>8. ASSUME NEW key \in Keys, DrillIn(key) PROVE TypeOK'
  <2>1. IsView(view') /\ selected' \in Nodes \cup {None} /\ kept' \in Nodes \cup {None}
    BY <1>1, <1>8, DrillFacts
  <2>2. presses' \in 0 .. MaxKeys
    BY <1>2, <1>8 DEF DrillIn
  <2>. QED
    BY <1>2, <1>8, <2>1, <2>2, TypePartsNext DEF DrillIn
<1>9. CASE PressKey
  <2>1. IsView(view') /\ pending' \in KeyEffects
    BY <1>1, <1>9, PressFacts
  <2>2. pending' # None
    BY <2>1, BrowserAssumption
  <2>3. kept' \in Nodes \cup {None}
    BY <1>1, <1>9, FollowFacts DEF PressKey
  <2>4. presses' \in 0 .. MaxKeys
    BY <1>2, <1>9 DEF PressKey
  <2>. QED
    BY <1>2, <1>9, <2>1, <2>2, <2>3, <2>4, TypePartsNext DEF PressKey
<1>10. CASE ResetCounters
  <2>1. IsView(view')
    <3>1. view' = [view EXCEPT !.cursor = 0] /\ 0 \in 0 .. Cardinality(Nodes)
      BY <1>10, NodesFinite DEF ResetCounters
    <3>. QED
      BY <1>2, <3>1 DEF IsView, ViewStates
  <2>2. IsStore(store')
    BY <1>10, NothingRecordedStore DEF ResetCounters
  <2>. QED
    BY <1>2, <1>10, <2>1, <2>2, TypePartsNext DEF ResetCounters
<1>11. CASE SelectAtCursor
  <2>1. RowList(Rows(store, view)) /\ view.cursor \in Nat
    BY <1>2, ListsOfView DEF IsView, ViewStates
  <2>2. selected' \in Nodes \cup {None}
    BY <1>11, <2>1, AtFacts DEF SelectAtCursor, RowList
  <2>. QED
    BY <1>2, <1>11, <2>2, TypePartsNext DEF SelectAtCursor
<1>12. CASE KeepSelection
  <2>1. PICK r : r = ReconcileFiles(store, view, IF pending.switches THEN None ELSE selected)
    OBVIOUS
  <2>2. view' = r.view /\ selected' = r.selected
    BY <1>12, <2>1 DEF KeepSelection
  <2>3. IsView(view') /\ selected' \in Nodes \cup {None}
    BY <1>2, <2>1, <2>2, ReconcileFilesFacts
  <2>4. kept' \in Nodes \cup {None}
    BY <1>2, <1>12 DEF KeepSelection
  <2>. QED
    BY <1>2, <1>12, <2>3, <2>4, TypePartsNext DEF KeepSelection
<1>13. CASE UpdateProcesses
  <2>1. PidList(VisibleProcesses(store, view))
    BY <1>2, ListsOfView DEF IsView
  <2>2. IsView(view')
    BY <1>2, <1>13, <2>1, ReconcileProcessesFacts DEF UpdateProcesses
  <2>3. pending' = None /\ ui' \in {"ended", "draw"}
    BY <1>13 DEF UpdateProcesses
  <2>. QED
    BY <1>2, <1>13, <2>2, <2>3, TypePartsNext DEF UpdateProcesses
<1>14. CASE UNCHANGED vars
  BY <1>2, <1>14, TypePartsNext DEF vars, uiVars
<1>. QED
  BY <1>1, <1>3, <1>4, <1>5, <1>6, <1>7, <1>8, <1>9, <1>10, <1>11, <1>12, <1>13, <1>14 DEF Next

\* The state of the loop is of its type throughout: the focus stays on a pane that
\* shows, cursors on rows there can be, and a key in hand until it is dealt with
\* (run_with_shutdown, ViewState).
THEOREM TypeCorrect == Spec => []TypeOK
BY TypeInit, TypeStep, PTL DEF Spec

--------------------------------------------------------------------------------
\* The selection follows the file.

\* The file the user chose is the selected one in every state of the loop, not only
\* where a key is awaited, and it is listed.
Followed == kept # None => selected = kept /\ kept \in Range(Rows(store, view))

LEMMA FollowedStep == TypeOK /\ Followed /\ [Next]_vars => Followed'
<1>1. SUFFICES ASSUME TypeOK, Followed, [Next]_vars
               PROVE  kept' # None => selected' = kept' /\ kept' \in Range(Rows(store', view'))
  BY DEF Followed
<1>2. IsView(view) /\ store \in Stores
  BY <1>1, TypeParts, StoreType
<1>3. ASSUME NEW file \in Nodes, NEW pid \in Pids, Record(file, pid)
      PROVE  kept' # None => selected' = kept' /\ kept' \in Range(Rows(store', view'))
  <2>1. Follow /\ selected' = selected
    BY <1>3 DEF Record, uiVars
  <2>. QED
    BY <1>1, <2>1, FollowFacts DEF Followed
<1>4. ASSUME NEW pid \in Pids, RemoveProcess(pid)
      PROVE  kept' # None => selected' = kept' /\ kept' \in Range(Rows(store', view'))
  <2>1. Follow /\ selected' = selected
    BY <1>4 DEF RemoveProcess, uiVars
  <2>. QED
    BY <1>1, <2>1, FollowFacts DEF Followed
<1>5. CASE ObserveShutdown
  BY <1>1, <1>5 DEF ObserveShutdown, Followed
<1>6. CASE Draw
  <2>1. PICK r : r = ReconcileFiles(store, view, selected)
    OBVIOUS
  <2>2. view' = r.view /\ selected' = r.selected /\ store' = store /\ kept' = kept
    BY <1>6, <2>1 DEF Draw
  <2>3. /\ Rows(store, r.view) = Rows(store, view)
        /\ selected \in Range(Rows(store, view)) => r.selected = selected
    BY <1>2, <2>1, ReconcileFilesFacts
  <2>. QED
    BY <1>1, <2>2, <2>3 DEF Followed
<1>7. CASE Timeout
  BY <1>1, <1>7 DEF Timeout, Followed
<1>8. ASSUME NEW key \in Keys, DrillIn(key)
      PROVE  kept' # None => selected' = kept' /\ kept' \in Range(Rows(store', view'))
  <2>1. store' = store
    BY <1>8 DEF DrillIn
  <2>2. \/ /\ kept' = selected'
           /\ kept' # None => kept' \in Range(Rows(store, view'))
        \/ UNCHANGED <<view, selected, kept>>
    BY <1>1, <1>8, DrillFacts
  <2>. QED
    BY <1>1, <2>1, <2>2 DEF Followed
<1>9. CASE PressKey
  <2>1. Follow /\ selected' = selected
    BY <1>9 DEF PressKey
  <2>. QED
    BY <1>1, <2>1, FollowFacts DEF Followed
<1>10. CASE ResetCounters
  BY <1>10 DEF ResetCounters
<1>11. CASE SelectAtCursor
  <2>1. RowList(Rows(store, view)) /\ view.cursor \in Nat
    BY <1>2, ListsOfView DEF IsView, ViewStates
  <2>2. selected' = At(Rows(store, view), view.cursor) /\ kept' = selected'
        /\ store' = store /\ view' = view
    BY <1>11 DEF SelectAtCursor
  <2>3. selected' # None => selected' \in Range(Rows(store, view))
    BY <2>1, <2>2, AtFacts DEF RowList
  <2>. QED
    BY <2>2, <2>3
<1>12. CASE KeepSelection
  <2>1. CASE pending.switches
    BY <1>12, <2>1 DEF KeepSelection
  <2>2. CASE ~ pending.switches
    <3>1. PICK r : r = ReconcileFiles(store, view, selected)
      OBVIOUS
    <3>2. view' = r.view /\ selected' = r.selected /\ store' = store /\ kept' = kept
      BY <1>12, <2>2, <3>1 DEF KeepSelection
    <3>3. /\ Rows(store, r.view) = Rows(store, view)
          /\ selected \in Range(Rows(store, view)) => r.selected = selected
      BY <1>2, <3>1, ReconcileFilesFacts
    <3>. QED
      BY <1>1, <3>2, <3>3 DEF Followed
  <2>. QED
    BY <2>1, <2>2
<1>13. CASE UpdateProcesses
  <2>1. PidList(VisibleProcesses(store, view))
    BY <1>2, ListsOfView DEF IsView
  <2>2. SameListing(view', view)
    BY <1>2, <1>13, <2>1, ReconcileProcessesFacts DEF UpdateProcesses
  <2>3. Rows(store, view') = Rows(store, view)
    BY <2>2, RowsSame
  <2>. QED
    BY <1>1, <1>13, <2>3 DEF UpdateProcesses, Followed
<1>14. CASE UNCHANGED vars
  BY <1>1, <1>14 DEF vars, uiVars, Followed
<1>. QED
  BY <1>1, <1>3, <1>4, <1>5, <1>6, <1>7, <1>8, <1>9, <1>10, <1>11, <1>12, <1>13, <1>14 DEF Next

\* Neither recording, nor forgetting, nor a key that re-sorts, filters or covers the
\* list moves the selection from the file that the user went to, while it is listed
\* (reconcile_file_selection, called before every render).
THEOREM SelectionFollows == Spec => []SelectionFollowsFile
<1>1. Init => Followed
  BY DEF Init, Followed
<1>2. Followed => SelectionFollowsFile
  BY DEF Followed, SelectionFollowsFile
<1>. QED
  BY <1>1, <1>2, TypeInit, TypeStep, FollowedStep, PTL DEF Spec

--------------------------------------------------------------------------------
\* What a frame highlights, and what Enter filters.

\* Whatever list a frame shows, the row it highlights is the selected one, or there
\* is no row (FlatView and TreeView, drawn after reconcile_file_selection).
THEOREM HighlightIsSelection == Spec => FileHighlightIsSelection
<1>1. TypeOK /\ [Next]_vars =>
        [ui = "draw" /\ ui' = "poll" => At(Rows(store', view'), view'.cursor) = selected']_vars
  <2>1. SUFFICES ASSUME TypeOK, [Next]_vars, ui = "draw", ui' = "poll"
                 PROVE  At(Rows(store', view'), view'.cursor) = selected'
    OBVIOUS
  <2>2. Draw
    <3>1. ui' # ui
      BY <2>1
    <3>. QED
      BY <2>1, <3>1
         DEF Next, vars, uiVars, Record, RemoveProcess, ObserveShutdown, Timeout, DrillIn, PressKey,
             ResetCounters, SelectAtCursor, KeepSelection, UpdateProcesses
  <2>3. PICK r : r = ReconcileFiles(store, view, selected)
    OBVIOUS
  <2>4. view' = r.view /\ selected' = r.selected /\ store' = store
    BY <2>2, <2>3 DEF Draw
  <2>5. IsView(view) /\ store \in Stores
    BY <2>1, TypeParts, StoreType
  <2>6. At(Rows(store, r.view), r.view.cursor) = r.selected
    BY <2>3, <2>5, ReconcileFilesFacts
  <2>. QED
    BY <2>4, <2>6
<1>. QED
  BY <1>1, TypeInit, TypeStep, PTL DEF Spec, FileHighlightIsSelection

\* Enter in the process pane filters the process that is selected, although the list
\* may have been re-sorted since it was drawn, as long as that one is listed
\* (handle_process_key after reconcile_process_selection).
THEOREM EnterFilters == Spec => EnterFiltersSelectedProcess
<1>1. TypeOK /\ [Next]_vars =>
        [(/\ ui = "poll" /\ view.focus = "Processes" /\ view.filterInput = None
          /\ view'.filter # view.filter
          /\ view.selectedProcess \in Range(VisibleProcesses(store, view)))
           => view'.filter = <<view.selectedProcess>>]_vars
  <2>1. SUFFICES ASSUME TypeOK, [Next]_vars, ui = "poll",
                        view.focus = "Processes", view.filterInput = None,
                        view'.filter # view.filter,
                        view.selectedProcess \in Range(VisibleProcesses(store, view))
                 PROVE  view'.filter = <<view.selectedProcess>>
    OBVIOUS
  <2>2. ASSUME NEW key \in Keys, DrillIn(key) PROVE FALSE
    BY <2>1, <2>2, DrillFacts
  <2>3. PressKey
    <3>1. view' # view
      BY <2>1
    <3>. QED
      BY <2>1, <2>2, <3>1
         DEF Next, vars, uiVars, Record, RemoveProcess, ObserveShutdown, Timeout, Draw,
             ResetCounters, SelectAtCursor, KeepSelection, UpdateProcesses
  <2>. QED
    BY <2>1, <2>3, PressFacts
<1>. QED
  BY <1>1, TypeInit, TypeStep, PTL DEF Spec, EnterFiltersSelectedProcess

--------------------------------------------------------------------------------
\* Filters.

\* What matches a filter counts in the node that has it, and in every one above.
LEMMA MatchCounts ==
  ASSUME NEW s \in Stores, NEW path \in Nodes, NEW pid \in Pids, NEW filter,
         MatchesActivity(filter, pid), s.byProcess[path][pid] > 0, filter # NoFilter,
         NEW node, path \in Below(node)
  PROVE  FilteredStats(s, node, filter) > 0
<1> DEFINE P == {p \in Pids : MatchesActivity(filter, p)}
           own == [n \in Nodes |-> OwnStats(s, n, filter)]
<1>1. PICK b \in [Pids -> Nat] : b = s.byProcess[path]
  BY DEF Stores
<1>2. Numbers(b, P) /\ pid \in P
  <2>1. IsFiniteSet(P)
    BY BrowserAssumption, FS_Subset
  <2>. QED
    BY <1>1, <2>1 DEF Numbers
<1>. HIDE DEF P
<1>3. SumFunctionOnSet(b, P) > 0
  <2>1. /\ b[pid] \in Nat /\ SumFunctionOnSet(b, P \ {pid}) \in Nat
        /\ SumFunctionOnSet(b, P) = b[pid] + SumFunctionOnSet(b, P \ {pid})
    BY <1>2, SumPart
  <2>. QED
    BY <1>1, <2>1
<1>4. OwnStats(s, path, filter) > 0
  BY <1>1, <1>3 DEF OwnStats, P
<1>5. Numbers(own, Below(node)) /\ own[path] > 0
  BY <1>4, BelowFinite, StatsType DEF Numbers
<1>. HIDE DEF own
<1>6. /\ own[path] \in Nat /\ SumFunctionOnSet(own, Below(node) \ {path}) \in Nat
      /\ SumFunctionOnSet(own, Below(node)) = own[path] + SumFunctionOnSet(own, Below(node) \ {path})
  BY <1>5, SumPart
<1>7. SumFunctionOnSet(own, Below(node)) > 0
  BY <1>5, <1>6
<1>. QED
  BY <1>7 DEF FilteredStats, own

\* Whatever paths are recorded, files, directories that are opened, and paths that
\* become directories later: activity that matches the filter is reached from the
\* root through rows that are listed, and on the way through rows of directories
\* only.  filtered_stats of filter.rs leaves out no node on the way to a match.
THEOREM FilterHidesNothing == Spec => []FilterHidesNoMatch
<1>1. TypeOK => FilterHidesNoMatch
  <2>1. SUFFICES ASSUME TypeOK, NEW path \in Nodes, NEW pid \in Pids,
                        store.byProcess[path][pid] > 0, MatchesActivity(view.filter, pid),
                        NEW i \in 1 .. Len(path)
                 PROVE  /\ SubSeq(path, 1, i)
                             \in Children(store, SubSeq(path, 1, i - 1), view.filter)
                        /\ i < Len(path) => IsDir(store, SubSeq(path, 1, i))
    BY DEF FilterHidesNoMatch
  <2>2. PICK node : node = SubSeq(path, 1, i)
    OBVIOUS
  <2>3. node \in Nodes /\ Parent(node) = SubSeq(path, 1, i - 1)
    BY <2>2, ParentOfPrefix
  <2>4. path \in Below(node) /\ (i < Len(path) => path # node)
    <3>1. path \in Seq(Names) /\ Len(path) \in Nat /\ i \in 0 .. Len(path) /\ i \in 0 .. i
      BY PathFacts
    <3>2. Len(node) = i
      BY <2>2, <3>1, PrefixFacts
    <3>3. SubSeq(node, 1, i) = SubSeq(path, 1, i)
      BY <2>2, <3>1, PrefixOfPrefix
    <3>. QED
      BY <3>1, <3>2, <3>3 DEF Below, IsPrefix
  <2>5. store \in Stores /\ IsStore(store)
    BY <2>1, TypeParts, StoreType
  <2>6. store.recorded[path] > 0
    <3>1. /\ store.byProcess[path][pid] <= store.recorded[path]
          /\ store.byProcess[path][pid] \in Nat /\ store.recorded[path] \in Nat
      BY <2>5 DEF IsStore, Stores
    <3>. QED
      BY <2>1, <3>1
  <2>7. Exists(store, node)
    BY <2>4, <2>6 DEF Exists
  <2>8. view.filter = NoFilter \/ FilteredStats(store, node, view.filter) > 0
    BY <2>1, <2>4, <2>5, MatchCounts
  <2>9. i < Len(path) => IsDir(store, node)
    BY <2>4, <2>6 DEF IsDir
  <2>. QED
    BY <2>2, <2>3, <2>7, <2>8, <2>9 DEF Children
<1>. QED
  BY <1>1, TypeInit, TypeStep, PTL DEF Spec
=============================================================================
