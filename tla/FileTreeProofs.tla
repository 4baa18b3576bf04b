--------------------------- MODULE FileTreeProofs ---------------------------
(***************************************************************************)
(* Proofs about FileTree, for any processes, paths, deltas and counter     *)
(* width.                                                                  *)
(***************************************************************************)
EXTENDS FileTree, Lemmas, TLAPS

--------------------------------------------------------------------------------
\* Facts about walks, statistics and breakdowns.

\* The walk to a leaf starts at the root and ends at the leaf.
LEMMA WalkEnds ==
  ASSUME NEW leaf \in Seq(STRING)
  PROVE  Root \in WalkTo(leaf) /\ leaf \in WalkTo(leaf)
<1>1. 0 \in 0 .. Len(leaf) /\ Len(leaf) \in 0 .. Len(leaf)
  BY LenProperties
<1>2. Root = SubSeq(leaf, 1, 0)
  BY SubSeqEmpty DEF Root
<1>3. leaf = SubSeq(leaf, 1, Len(leaf))
  BY SubSeqFull
<1>. QED
  BY <1>1, <1>2, <1>3 DEF WalkTo

\* A step on a walk other than the root comes right after its parent, which
\* is on the same walk and before the leaf.
LEMMA ParentOnWalk ==
  ASSUME NEW leaf \in Seq(STRING), NEW n \in WalkTo(leaf), n # Root
  PROVE  Parent(n) \in WalkTo(leaf) /\ Parent(n) # leaf
<1>1. PICK i \in 0 .. Len(leaf) : n = SubSeq(leaf, 1, i)
  BY DEF WalkTo
<1>2. Len(leaf) \in Nat /\ \A k \in 1 .. Len(leaf) : leaf[k] \in STRING
  BY LenProperties
<1>3. i # 0
  BY <1>1, SubSeqEmpty DEF Root
<1>4. i \in 1 .. Len(leaf) /\ i - 1 \in 0 .. Len(leaf)
  BY <1>2, <1>3
<1>5. Len(n) = i
  BY <1>1, <1>2, <1>4, SubSeqProperties
<1>6. Parent(n) = SubSeq(leaf, 1, i - 1)
  <2>1. CASE i = 1
    <3>1. Parent(n) = Root
      BY <1>5, <2>1, SubSeqEmpty DEF Parent, Root
    <3>. QED
      BY <2>1, <3>1, SubSeqEmpty DEF Root
  <2>2. CASE i # 1
    <3>1. 1 \in 1 .. (i - 1 + 1) /\ i - 1 \in 1 .. (i - 1 + 1) /\ 1 \in 1 .. Len(leaf)
      BY <1>2, <1>4, <2>2
    <3>2. SubSeq(SubSeq(leaf, 1, i), 1, i - 1) = SubSeq(leaf, 1 + 1 - 1, 1 + (i - 1) - 1)
      BY <1>4, <3>1, SubSeqOfSubSeq
    <3>. QED
      BY <1>1, <1>4, <1>5, <3>2 DEF Parent
  <2>. QED
    BY <2>1, <2>2
<1>7. Len(Parent(n)) = i - 1
  BY <1>2, <1>4, <1>6, SubSeqProperties
<1>8. Parent(n) # leaf
  BY <1>2, <1>4, <1>7
<1>. QED
  BY <1>4, <1>6, <1>8 DEF WalkTo

\* What a path names below the root: a leaf, and every step to it is a node.
LEMMA LeafFacts ==
  ASSUME NEW path \in Paths, Components[path] # Root
  PROVE  /\ Components[path] \in Seq(STRING)
         /\ Components[path] \in Leaves
         /\ Components[path] \in Nodes
         /\ WalkTo(Components[path]) \subseteq Nodes
         /\ Components[path] \in WalkTo(Components[path])
BY FileTreeAssumption, WalkEnds DEF Leaves, Nodes

LEMMA AccumulateType ==
  ASSUME NEW s \in NodeStats, NEW d \in NodeStats
  PROVE  Accumulate(s, d) \in NodeStats
BY CounterMaxAssumption
   DEF NodeStats, Counter, Accumulate, SaturatingAdd, Larger

LEMMA NoStatsType == NoStats \in NodeStats
BY CounterMaxAssumption DEF NodeStats, Counter, NoStats

LEMMA AddBreakdownType ==
  ASSUME NEW b \in Breakdown, NEW pid \in Pids, NEW d \in NodeStats
  PROVE  /\ AddBreakdown(b, pid, d) \in Breakdown
         /\ DOMAIN AddBreakdown(b, pid, d) = DOMAIN b \cup {pid}
<1>1. PICK who \in SUBSET Pids : b \in [who -> NodeStats]
  BY DEF Breakdown
<1>2. AddBreakdown(b, pid, d) \in [who \cup {pid} -> NodeStats]
  BY <1>1, AccumulateType DEF AddBreakdown
<1>. QED
  BY <1>1, <1>2 DEF Breakdown

LEMMA DropBreakdownType ==
  ASSUME NEW b \in Breakdown, NEW pid \in Pids
  PROVE  /\ Restrict(b, DOMAIN b \ {pid}) \in Breakdown
         /\ DOMAIN Restrict(b, DOMAIN b \ {pid}) = DOMAIN b \ {pid}
<1>1. PICK who \in SUBSET Pids : b \in [who -> NodeStats]
  BY DEF Breakdown
<1>2. Restrict(b, DOMAIN b \ {pid}) \in [who \ {pid} -> NodeStats]
  BY <1>1 DEF Restrict
<1>. QED
  BY <1>1, <1>2 DEF Breakdown

LEMMA EmptyBreakdown == <<>> \in Breakdown /\ DOMAIN <<>> = {}
<1>1. <<>> \in [{} -> NodeStats]
  OBVIOUS
<1>. QED
  BY <1>1 DEF Breakdown

--------------------------------------------------------------------------------
\* Type correctness.

\* The statistics and breakdowns always have the types of their fields, the
\* index refers only to known processes and paths, and no path string is kept
\* with a count that is not a natural number.
THEOREM TypeCorrect == Spec => []TypeOK
<1>1. Init => TypeOK
  <2>. SUFFICES ASSUME Init PROVE TypeOK
    OBVIOUS
  <2>1. Root \in Nodes
    BY DEF Nodes
  <2>2. /\ isDir \in [Nodes -> BOOLEAN]
        /\ stats \in [Nodes -> NodeStats]
        /\ aggStats \in [Nodes -> NodeStats]
        /\ perProcess \in [Nodes -> Breakdown]
    BY NoStatsType, EmptyBreakdown DEF Init, OnlyRootIsDir, Unrecorded, NoBreakdowns
  <2>3. DOMAIN activePaths = {} /\ DOMAIN pathsByProcess = {}
    BY DEF Init
  <2>4. /\ activePaths \in [DOMAIN activePaths -> Nat]
        /\ pathsByProcess \in [DOMAIN pathsByProcess -> SUBSET Paths]
    BY DEF Init
  <2>. QED
    BY <2>1, <2>2, <2>3, <2>4 DEF Init, TypeOK
<1>2. TypeOK /\ [Next]_vars => TypeOK'
  <2>. SUFFICES ASSUME TypeOK, [Next]_vars PROVE TypeOK'
    OBVIOUS
  <2>1. ASSUME NEW path \in Paths, NEW pid \in Pids, NEW delta \in Deltas,
               RecordStats(path, pid, delta)
        PROVE  TypeOK'
    <3>. DEFINE leaf == Components[path]
    <3>1. leaf # Root /\ delta \in NodeStats
      BY <2>1, FileTreeAssumption DEF RecordStats
    <3>2. leaf \in Nodes /\ WalkTo(leaf) \subseteq Nodes
      BY <3>1, LeafFacts
    <3>3. nodes' \subseteq Nodes /\ isDir' \in [Nodes -> BOOLEAN]
      BY <2>1, <3>2 DEF TypeOK, RecordStats, MarkDirectories
    <3>4. aggStats' \in [Nodes -> NodeStats]
      BY <2>1, <3>1, AccumulateType DEF TypeOK, RecordStats
    <3>5. stats' \in [Nodes -> NodeStats]
      BY <2>1, <3>1, <3>2, AccumulateType DEF TypeOK, RecordStats
    <3>6. AddBreakdown(perProcess[leaf], pid, delta) \in Breakdown
      BY <3>1, <3>2, AddBreakdownType DEF TypeOK
    <3>7. perProcess' \in [Nodes -> Breakdown]
      BY <2>1, <3>2, <3>6 DEF TypeOK, RecordStats
    <3>8. CASE AddToIndex(path, pid)
      <4>1. /\ DOMAIN activePaths' \subseteq Paths
            /\ activePaths' \in [DOMAIN activePaths' -> Nat]
        BY <3>8 DEF TypeOK, AddToIndex
      <4>2. /\ DOMAIN pathsByProcess' \subseteq Pids
            /\ pathsByProcess' \in [DOMAIN pathsByProcess' -> SUBSET Paths]
        BY <3>8 DEF TypeOK, AddToIndex, IndexedPaths
      <4>. QED
        BY <3>3, <3>4, <3>5, <3>7, <4>1, <4>2 DEF TypeOK
    <3>9. CASE UNCHANGED indexVars
      BY <3>3, <3>4, <3>5, <3>7, <3>9 DEF TypeOK, indexVars
    <3>. QED
      BY <2>1, <3>8, <3>9 DEF RecordStats, IndexActivity
  <2>2. ASSUME NEW pid \in Pids, RemoveProcess(pid)
        PROVE  TypeOK'
    <3>1. \A n \in Nodes : Restrict(perProcess[n], DOMAIN perProcess[n] \ {pid}) \in Breakdown
      BY DropBreakdownType DEF TypeOK
    <3>2. perProcess' \in [Nodes -> Breakdown]
      BY <2>2, <3>1 DEF TypeOK, RemoveProcess
    <3>3. /\ DOMAIN pathsByProcess' \subseteq Pids
          /\ pathsByProcess' \in [DOMAIN pathsByProcess' -> SUBSET Paths]
      BY <2>2 DEF TypeOK, RemoveProcess, Restrict
    <3>4. /\ DOMAIN activePaths' \subseteq Paths
          /\ activePaths' \in [DOMAIN activePaths' -> Nat]
      BY <2>2 DEF TypeOK, RemoveProcess, Dereference
    <3>. QED
      BY <2>2, <3>2, <3>3, <3>4 DEF TypeOK, RemoveProcess
  <2>3. CASE Reset
    <3>1. Root \in Nodes
      BY DEF Nodes
    <3>2. /\ isDir' \in [Nodes -> BOOLEAN]
          /\ stats' \in [Nodes -> NodeStats]
          /\ aggStats' \in [Nodes -> NodeStats]
          /\ perProcess' \in [Nodes -> Breakdown]
      BY <2>3, NoStatsType, EmptyBreakdown
         DEF Reset, OnlyRootIsDir, Unrecorded, NoBreakdowns
    <3>3. DOMAIN activePaths' = {} /\ DOMAIN pathsByProcess' = {}
      BY <2>3 DEF Reset
    <3>4. /\ activePaths' \in [DOMAIN activePaths' -> Nat]
          /\ pathsByProcess' \in [DOMAIN pathsByProcess' -> SUBSET Paths]
      BY <2>3 DEF Reset
    <3>. QED
      BY <2>3, <3>1, <3>2, <3>3, <3>4 DEF Reset, TypeOK
  <2>4. CASE UNCHANGED vars
    BY <2>4 DEF TypeOK, vars
  <2>. QED
    BY <2>1, <2>2, <2>3, <2>4 DEF Next
<1>. QED
  BY <1>1, <1>2, PTL DEF Spec

--------------------------------------------------------------------------------
\* The index of process activity.

\* How one record changes the breakdowns: only the leaf's, and only by making
\* sure that the process is in it.
LEMMA RecordBreakdowns ==
  ASSUME TypeOK, NEW path \in Paths, NEW pid \in Pids, NEW delta \in Deltas,
         RecordStats(path, pid, delta)
  PROVE  /\ Components[path] \in Leaves
         /\ Components[path] \in nodes'
         /\ nodes \subseteq nodes'
         /\ DOMAIN perProcess'[Components[path]] =
              DOMAIN perProcess[Components[path]] \cup {pid}
         /\ \A n \in Nodes \ {Components[path]} : perProcess'[n] = perProcess[n]
<1>. DEFINE leaf == Components[path]
<1>1. leaf # Root /\ delta \in NodeStats
  BY FileTreeAssumption DEF RecordStats
<1>2. leaf \in Leaves /\ leaf \in Nodes /\ leaf \in WalkTo(leaf)
  BY <1>1, LeafFacts
<1>3. perProcess[leaf] \in Breakdown /\ perProcess \in [Nodes -> Breakdown]
  BY <1>2 DEF TypeOK
<1>4. DOMAIN AddBreakdown(perProcess[leaf], pid, delta) = DOMAIN perProcess[leaf] \cup {pid}
  BY <1>1, <1>3, AddBreakdownType
<1>. QED
  BY <1>2, <1>3, <1>4 DEF RecordStats

\* A process that was not yet active at a leaf is indexed under none of the
\* strings that name the leaf.
LEMMA UnindexedBefore ==
  ASSUME IndexMatchesBreakdown, NEW path \in Paths, NEW pid \in Pids,
         pid \notin DOMAIN perProcess[Components[path]]
  PROVE  \A q \in IndexedPaths(pid) : Components[q] # Components[path]
BY DEF IndexMatchesBreakdown, IndexSound, IndexedPaths

LEMMA RecordKeepsIndex ==
  ASSUME TypeOK, IndexMatchesBreakdown,
         NEW path \in Paths, NEW pid \in Pids, NEW delta \in Deltas,
         RecordStats(path, pid, delta)
  PROVE  IndexMatchesBreakdown'
<1>. DEFINE leaf == Components[path]
<1>1. /\ leaf \in Leaves /\ leaf \in nodes' /\ nodes \subseteq nodes'
      /\ DOMAIN perProcess'[leaf] = DOMAIN perProcess[leaf] \cup {pid}
      /\ \A n \in Nodes \ {leaf} : perProcess'[n] = perProcess[n]
  BY RecordBreakdowns
<1>2. leaf \in Nodes /\ nodes \subseteq Nodes
  BY LeafFacts DEF TypeOK, RecordStats
<1>3. CASE pid \in DOMAIN perProcess[leaf]
  <2>1. UNCHANGED indexVars
    BY <1>3 DEF RecordStats, IndexActivity
  <2>2. \A n \in Nodes : DOMAIN perProcess'[n] = DOMAIN perProcess[n]
    BY <1>1, <1>3
  <2>3. IndexSound'
    BY <1>1, <1>2, <2>1, <2>2 DEF IndexMatchesBreakdown, IndexSound, indexVars
  <2>4. IndexComplete'
    BY <2>1, <2>2 DEF IndexMatchesBreakdown, IndexComplete, IndexedPaths, indexVars
  <2>5. IndexUnique'
    BY <2>1 DEF IndexMatchesBreakdown, IndexUnique, indexVars
  <2>. QED
    BY <2>3, <2>4, <2>5 DEF IndexMatchesBreakdown
<1>4. CASE pid \notin DOMAIN perProcess[leaf]
  <2>1. AddToIndex(path, pid)
    BY <1>4 DEF RecordStats, IndexActivity
  <2>2. \A q \in IndexedPaths(pid) : Components[q] # leaf
    BY <1>4, UnindexedBefore
  <2>3. /\ DOMAIN pathsByProcess' = DOMAIN pathsByProcess \cup {pid}
        /\ pathsByProcess'[pid] = IndexedPaths(pid) \cup {path}
        /\ \A p \in DOMAIN pathsByProcess \ {pid} : pathsByProcess'[p] = pathsByProcess[p]
    BY <2>1 DEF AddToIndex
  <2>4. IndexSound'
    <3>. SUFFICES ASSUME NEW p \in DOMAIN pathsByProcess', NEW q \in pathsByProcess'[p]
                  PROVE  /\ Components[q] \in Leaves \cap nodes'
                         /\ p \in DOMAIN perProcess'[Components[q]]
      BY DEF IndexSound
    <3>1. CASE p = pid /\ q = path
      BY <1>1, <3>1
    <3>2. CASE ~(p = pid /\ q = path)
      <4>1. p \in DOMAIN pathsByProcess /\ q \in pathsByProcess[p]
        BY <2>3, <3>2 DEF IndexedPaths
      <4>2. Components[q] \in Leaves \cap nodes /\ p \in DOMAIN perProcess[Components[q]]
        BY <4>1 DEF IndexMatchesBreakdown, IndexSound
      <4>. QED
        BY <1>1, <1>2, <4>2
    <3>. QED
      BY <3>1, <3>2
  <2>5. IndexComplete'
    <3>. SUFFICES ASSUME NEW n \in Nodes, NEW p \in DOMAIN perProcess'[n]
                  PROVE  \E q \in IndexedPaths(p)' : Components[q] = n
      BY DEF IndexComplete
    <3>1. CASE n = leaf /\ p = pid
      BY <2>3, <3>1 DEF IndexedPaths
    <3>2. CASE ~(n = leaf /\ p = pid)
      <4>1. p \in DOMAIN perProcess[n]
        BY <1>1, <3>2
      <4>2. PICK q \in IndexedPaths(p) : Components[q] = n
        BY <4>1 DEF IndexMatchesBreakdown, IndexComplete
      <4>3. q \in IndexedPaths(p)'
        BY <2>3, <4>2 DEF IndexedPaths
      <4>. QED
        BY <4>2, <4>3
    <3>. QED
      BY <3>1, <3>2
  <2>6. IndexUnique'
    <3>. SUFFICES ASSUME NEW p \in DOMAIN pathsByProcess',
                         NEW q \in pathsByProcess'[p], NEW r \in pathsByProcess'[p],
                         Components[q] = Components[r]
                  PROVE  q = r
      BY DEF IndexUnique
    <3>1. CASE p # pid
      BY <2>3, <3>1 DEF IndexMatchesBreakdown, IndexUnique
    <3>2. CASE p = pid
      BY <2>2, <2>3, <3>2 DEF IndexMatchesBreakdown, IndexUnique, IndexedPaths
    <3>. QED
      BY <3>1, <3>2
  <2>. QED
    BY <2>4, <2>5, <2>6 DEF IndexMatchesBreakdown
<1>. QED
  BY <1>3, <1>4

\* What remove_process finds through the index is everywhere the process was.
LEMMA RemovedEverywhere ==
  ASSUME TypeOK, IndexMatchesBreakdown, NEW pid \in Pids, RemoveProcess(pid)
  PROVE  \A n \in Nodes : DOMAIN perProcess'[n] = DOMAIN perProcess[n] \ {pid}
                        /\ perProcess'[n] = Restrict(perProcess[n], DOMAIN perProcess[n] \ {pid})
<1>. SUFFICES ASSUME NEW n \in Nodes
              PROVE  /\ DOMAIN perProcess'[n] = DOMAIN perProcess[n] \ {pid}
                     /\ perProcess'[n] = Restrict(perProcess[n], DOMAIN perProcess[n] \ {pid})
  OBVIOUS
<1>. DEFINE found == {Components[path] : path \in pathsByProcess[pid]} \cap nodes
<1>1. /\ perProcess[n] \in Breakdown
      /\ DOMAIN Restrict(perProcess[n], DOMAIN perProcess[n] \ {pid}) = DOMAIN perProcess[n] \ {pid}
  BY DropBreakdownType DEF TypeOK
<1>2. perProcess'[n] = IF n \in found
                       THEN Restrict(perProcess[n], DOMAIN perProcess[n] \ {pid})
                       ELSE perProcess[n]
  BY DEF RemoveProcess
<1>3. CASE n \in found
  BY <1>1, <1>2, <1>3
<1>4. CASE n \notin found
  <2>1. pid \notin DOMAIN perProcess[n]
    <3>. SUFFICES ASSUME pid \in DOMAIN perProcess[n] PROVE FALSE
      OBVIOUS
    <3>1. PICK path \in IndexedPaths(pid) : Components[path] = n
      BY DEF IndexMatchesBreakdown, IndexComplete
    <3>2. path \in pathsByProcess[pid] /\ pid \in DOMAIN pathsByProcess
      BY <3>1 DEF IndexedPaths
    <3>3. n \in nodes
      BY <3>1, <3>2 DEF IndexMatchesBreakdown, IndexSound
    <3>. QED
      BY <1>4, <3>1, <3>2, <3>3
  <2>2. perProcess[n] = Restrict(perProcess[n], DOMAIN perProcess[n] \ {pid})
    <3>1. PICK who \in SUBSET Pids : perProcess[n] \in [who -> NodeStats]
      BY <1>1 DEF Breakdown
    <3>. QED
      BY <2>1, <3>1 DEF Restrict
  <2>. QED
    BY <1>2, <1>4, <2>1, <2>2
<1>. QED
  BY <1>3, <1>4

LEMMA RemoveKeepsIndex ==
  ASSUME TypeOK, IndexMatchesBreakdown, NEW pid \in Pids, RemoveProcess(pid)
  PROVE  IndexMatchesBreakdown'
<1>1. /\ DOMAIN pathsByProcess' = DOMAIN pathsByProcess \ {pid}
      /\ \A p \in DOMAIN pathsByProcess \ {pid} : pathsByProcess'[p] = pathsByProcess[p]
      /\ nodes' = nodes
  BY DEF RemoveProcess, Restrict
<1>2. \A n \in Nodes : DOMAIN perProcess'[n] = DOMAIN perProcess[n] \ {pid}
  BY RemovedEverywhere
<1>3. IndexSound'
  BY <1>1, <1>2 DEF IndexMatchesBreakdown, IndexSound, TypeOK
<1>4. IndexComplete'
  <2>. SUFFICES ASSUME NEW n \in Nodes, NEW p \in DOMAIN perProcess'[n]
                PROVE  \E q \in IndexedPaths(p)' : Components[q] = n
    BY DEF IndexComplete
  <2>1. p \in DOMAIN perProcess[n] /\ p # pid
    BY <1>2
  <2>2. PICK q \in IndexedPaths(p) : Components[q] = n
    BY <2>1 DEF IndexMatchesBreakdown, IndexComplete
  <2>3. q \in IndexedPaths(p)'
    BY <1>1, <2>1, <2>2 DEF IndexedPaths
  <2>. QED
    BY <2>2, <2>3
<1>5. IndexUnique'
  BY <1>1 DEF IndexMatchesBreakdown, IndexUnique
<1>. QED
  BY <1>3, <1>4, <1>5 DEF IndexMatchesBreakdown

LEMMA ResetKeepsIndex == Reset => IndexMatchesBreakdown'
<1>. SUFFICES ASSUME Reset PROVE IndexMatchesBreakdown'
  OBVIOUS
<1>1. DOMAIN pathsByProcess' = {} /\ \A n \in Nodes : DOMAIN perProcess'[n] = {}
  BY DEF Reset, NoBreakdowns
<1>. QED
  BY <1>1 DEF IndexMatchesBreakdown, IndexSound, IndexComplete, IndexUnique

\* per_process and its reverse index never disagree, so ending a process
\* leaves nothing of it behind for a later process with the same pid.
THEOREM IndexAgrees == Spec => []IndexMatchesBreakdown
<1>1. Init => IndexMatchesBreakdown
  <2>. SUFFICES ASSUME Init PROVE IndexMatchesBreakdown
    OBVIOUS
  <2>1. DOMAIN pathsByProcess = {} /\ \A n \in Nodes : DOMAIN perProcess[n] = {}
    BY DEF Init, NoBreakdowns
  <2>. QED
    BY <2>1 DEF IndexMatchesBreakdown, IndexSound, IndexComplete, IndexUnique
<1>2. TypeOK /\ IndexMatchesBreakdown /\ [Next]_vars => IndexMatchesBreakdown'
  <2>. SUFFICES ASSUME TypeOK, IndexMatchesBreakdown, [Next]_vars
                PROVE  IndexMatchesBreakdown'
    OBVIOUS
  <2>1. CASE UNCHANGED vars
    BY <2>1 DEF IndexMatchesBreakdown, IndexSound, IndexComplete, IndexUnique, IndexedPaths, vars
  <2>. QED
    BY <2>1, RecordKeepsIndex, RemoveKeepsIndex, ResetKeepsIndex DEF Next
<1>. QED
  BY <1>1, <1>2, TypeCorrect, PTL DEF Spec

--------------------------------------------------------------------------------
\* Reference counts of path strings.

Holders(path) == {pid \in Pids : path \in IndexedPaths(pid)}

LEMMA HoldersFinite ==
  ASSUME NEW path
  PROVE  IsFiniteSet(Holders(path)) /\ Cardinality(Holders(path)) \in Nat
<1>1. Holders(path) \in SUBSET Pids
  BY DEF Holders
<1>. QED
  BY <1>1, FileTreeAssumption, FS_Subset, FS_CardinalityType

\* ReferencesCounted, in terms of Holders.
LEMMA ReferencesByHolders ==
  ReferencesCounted <=>
    \A path \in Paths :
      /\ path \in DOMAIN activePaths => activePaths[path] = Cardinality(Holders(path))
      /\ path \notin DOMAIN activePaths => Holders(path) = {}
BY DEF ReferencesCounted, Holders

LEMMA RecordKeepsReferences ==
  ASSUME TypeOK, IndexMatchesBreakdown, ReferencesCounted,
         NEW path \in Paths, NEW pid \in Pids, NEW delta \in Deltas,
         RecordStats(path, pid, delta)
  PROVE  ReferencesCounted'
<1>1. CASE pid \in DOMAIN perProcess[Components[path]]
  BY <1>1 DEF RecordStats, IndexActivity, indexVars, ReferencesCounted, IndexedPaths
<1>2. CASE pid \notin DOMAIN perProcess[Components[path]]
  <2>1. AddToIndex(path, pid)
    BY <1>2 DEF RecordStats, IndexActivity
  <2>2. pid \notin Holders(path)
    BY <1>2, UnindexedBefore DEF Holders
  <2>3. \A p \in Pids : IndexedPaths(p)' = IF p = pid THEN IndexedPaths(p) \cup {path}
                                           ELSE IndexedPaths(p)
    BY <2>1 DEF AddToIndex, IndexedPaths
  <2>4. Holders(path)' = Holders(path) \cup {pid}
    BY <2>3 DEF Holders
  <2>5. \A q \in Paths \ {path} : Holders(q)' = Holders(q)
    BY <2>3 DEF Holders
  <2>6. Cardinality(Holders(path)') = Cardinality(Holders(path)) + 1
    BY <2>2, <2>4, HoldersFinite, FS_AddElement
  <2>7. /\ DOMAIN activePaths' = DOMAIN activePaths \cup {path}
        /\ \A q \in DOMAIN activePaths \ {path} : activePaths'[q] = activePaths[q]
        /\ activePaths'[path] = IF path \in DOMAIN activePaths THEN activePaths[path] + 1 ELSE 1
    BY <2>1 DEF AddToIndex
  <2>8. /\ path \in DOMAIN activePaths => activePaths[path] = Cardinality(Holders(path))
        /\ path \notin DOMAIN activePaths => Cardinality(Holders(path)) = 0
    BY ReferencesByHolders, FS_EmptySet
  <2>9. activePaths'[path] = Cardinality(Holders(path)')
    BY <2>6, <2>7, <2>8, HoldersFinite
  <2>10. \A q \in Paths :
          /\ q \in DOMAIN activePaths' => activePaths'[q] = Cardinality(Holders(q)')
          /\ q \notin DOMAIN activePaths' => Holders(q)' = {}
    <3>. SUFFICES ASSUME NEW q \in Paths
                  PROVE  /\ q \in DOMAIN activePaths' => activePaths'[q] = Cardinality(Holders(q)')
                         /\ q \notin DOMAIN activePaths' => Holders(q)' = {}
      OBVIOUS
    <3>1. CASE q = path
      BY <2>7, <2>9, <3>1
    <3>2. CASE q # path
      BY <2>5, <2>7, <3>2, ReferencesByHolders
    <3>. QED
      BY <3>1, <3>2
  <2>. QED
    BY <2>10 DEF ReferencesCounted, Holders
<1>. QED
  BY <1>1, <1>2

LEMMA RemoveKeepsReferences ==
  ASSUME TypeOK, ReferencesCounted, NEW pid \in Pids, RemoveProcess(pid)
  PROVE  ReferencesCounted'
<1>. DEFINE paths == pathsByProcess[pid]
<1>1. pid \in DOMAIN pathsByProcess /\ IndexedPaths(pid) = paths
  BY DEF RemoveProcess, IndexedPaths
<1>2. \A p \in Pids : IndexedPaths(p)' = IF p = pid THEN {} ELSE IndexedPaths(p)
  BY DEF RemoveProcess, Restrict, IndexedPaths
<1>3. \A q \in Paths : Holders(q)' = Holders(q) \ {pid}
  BY <1>2 DEF Holders
<1>4. /\ DOMAIN activePaths' = {q \in DOMAIN activePaths : q \in paths => activePaths[q] > 1}
      /\ \A q \in DOMAIN activePaths' :
           activePaths'[q] = IF q \in paths THEN activePaths[q] - 1 ELSE activePaths[q]
  BY DEF RemoveProcess, Dereference
<1>5. \A q \in Paths :
        /\ q \in DOMAIN activePaths' => activePaths'[q] = Cardinality(Holders(q)')
        /\ q \notin DOMAIN activePaths' => Holders(q)' = {}
  <2>. SUFFICES ASSUME NEW q \in Paths
                PROVE  /\ q \in DOMAIN activePaths' => activePaths'[q] = Cardinality(Holders(q)')
                       /\ q \notin DOMAIN activePaths' => Holders(q)' = {}
    OBVIOUS
  <2>1. /\ q \in DOMAIN activePaths => activePaths[q] = Cardinality(Holders(q))
        /\ q \notin DOMAIN activePaths => Holders(q) = {}
    BY ReferencesByHolders
  <2>2. /\ IsFiniteSet(Holders(q)) /\ Cardinality(Holders(q)) \in Nat
        /\ IsFiniteSet(Holders(q)') /\ Cardinality(Holders(q)') \in Nat
    <3>1. IsFiniteSet(Holders(q)) /\ Cardinality(Holders(q)) \in Nat
      BY HoldersFinite
    <3>2. IsFiniteSet(Holders(q) \ {pid})
      BY <3>1, FS_RemoveElement
    <3>. QED
      BY <1>3, <3>1, <3>2, FS_CardinalityType
  <2>3. CASE q \in paths
    <3>1. pid \in Holders(q)
      BY <1>1, <2>3 DEF Holders
    <3>2. q \in DOMAIN activePaths
      BY <2>1, <3>1
    <3>3. Cardinality(Holders(q)') = activePaths[q] - 1
      BY <1>3, <2>1, <2>2, <3>1, <3>2, FS_RemoveElement
    <3>4. CASE activePaths[q] > 1
      BY <1>4, <2>3, <3>2, <3>3, <3>4
    <3>5. CASE ~(activePaths[q] > 1)
      <4>1. Cardinality(Holders(q)') = 0
        BY <2>1, <2>2, <3>2, <3>3, <3>5
      <4>2. Holders(q)' = {}
        BY <2>2, <4>1, FS_EmptySet
      <4>. QED
        BY <1>4, <2>3, <3>5, <4>2
    <3>. QED
      BY <3>4, <3>5
  <2>4. CASE q \notin paths
    <3>1. pid \notin Holders(q)
      BY <1>1, <2>4 DEF Holders
    <3>2. Holders(q)' = Holders(q)
      BY <1>3, <3>1
    <3>. QED
      BY <1>4, <2>1, <2>4, <3>2
  <2>. QED
    BY <2>3, <2>4
<1>. QED
  BY <1>5 DEF ReferencesCounted, Holders

\* Every path string is kept exactly as long as a process refers to it.
THEOREM ReferencesAreCounted == Spec => []ReferencesCounted
<1>1. Init => ReferencesCounted
  <2>. SUFFICES ASSUME Init PROVE ReferencesCounted
    OBVIOUS
  <2>1. DOMAIN pathsByProcess = {} /\ DOMAIN activePaths = {}
    BY DEF Init
  <2>. QED
    BY <2>1 DEF ReferencesCounted, IndexedPaths
<1>2. TypeOK /\ IndexMatchesBreakdown /\ ReferencesCounted /\ [Next]_vars => ReferencesCounted'
  <2>. SUFFICES ASSUME TypeOK, IndexMatchesBreakdown, ReferencesCounted, [Next]_vars
                PROVE  ReferencesCounted'
    OBVIOUS
  <2>1. CASE UNCHANGED vars
    BY <2>1 DEF ReferencesCounted, IndexedPaths, vars
  <2>2. CASE Reset
    <3>1. DOMAIN pathsByProcess' = {} /\ DOMAIN activePaths' = {}
      BY <2>2 DEF Reset
    <3>. QED
      BY <3>1 DEF ReferencesCounted, IndexedPaths
  <2>. QED
    BY <2>1, <2>2, RecordKeepsReferences, RemoveKeepsReferences DEF Next
<1>. QED
  BY <1>1, <1>2, TypeCorrect, IndexAgrees, PTL DEF Spec

--------------------------------------------------------------------------------
\* The shape of the tree.

\* The ancestors of every node exist and are directories, in whatever order
\* files and the files below them are first recorded.
THEOREM TreeStaysClosed == Spec => []TreeIsClosed
<1>1. Init => TreeIsClosed
  BY DEF Init, TreeIsClosed
<1>2. TypeOK /\ TreeIsClosed /\ [Next]_vars => TreeIsClosed'
  <2>. SUFFICES ASSUME TypeOK, TreeIsClosed, [Next]_vars PROVE TreeIsClosed'
    OBVIOUS
  <2>1. ASSUME NEW path \in Paths, NEW pid \in Pids, NEW delta \in Deltas,
               RecordStats(path, pid, delta)
        PROVE  TreeIsClosed'
    <3>. DEFINE leaf == Components[path]
    <3>1. leaf \in Seq(STRING) /\ WalkTo(leaf) \subseteq Nodes
      BY <2>1, LeafFacts DEF RecordStats
    <3>2. /\ nodes' = nodes \cup WalkTo(leaf)
          /\ isDir' = [n \in Nodes |-> isDir[n] \/ n \in WalkTo(leaf) \ {leaf}]
      BY <2>1 DEF RecordStats, MarkDirectories
    <3>. SUFFICES ASSUME NEW n \in nodes', n # Root
                  PROVE  Parent(n) \in nodes' /\ isDir'[Parent(n)]
      BY DEF TreeIsClosed
    <3>3. CASE n \in WalkTo(leaf)
      <4>1. Parent(n) \in WalkTo(leaf) /\ Parent(n) # leaf
        BY <3>1, <3>3, ParentOnWalk
      <4>. QED
        BY <3>1, <3>2, <4>1
    <3>4. CASE n \in nodes
      <4>1. Parent(n) \in nodes /\ isDir[Parent(n)]
        BY <3>4 DEF TreeIsClosed
      <4>2. Parent(n) \in Nodes
        BY <4>1 DEF TypeOK
      <4>. QED
        BY <3>2, <4>1, <4>2
    <3>. QED
      BY <3>2, <3>3, <3>4
  <2>2. ASSUME NEW pid \in Pids, RemoveProcess(pid)
        PROVE  TreeIsClosed'
    BY <2>2 DEF RemoveProcess, TreeIsClosed
  <2>3. CASE Reset
    BY <2>3 DEF Reset, TreeIsClosed
  <2>4. CASE UNCHANGED vars
    BY <2>4 DEF TreeIsClosed, vars
  <2>. QED
    BY <2>1, <2>2, <2>3, <2>4 DEF Next
<1>. QED
  BY <1>1, <1>2, TypeCorrect, PTL DEF Spec

--------------------------------------------------------------------------------
\* What a set of nodes adds up to: the fold of AggregatesMatchSubtree has a closed
\* form, the saturated sum of the totals and the largest peak, so the order in which
\* the nodes are visited does not matter.

\* The totals of all nodes, and the peaks of some.
TotalsOf(s) == [m \in Nodes |-> s[m].total]

PeaksOf(s, S) == {s[m].peak : m \in S} \cup {0}

Saturated(n) == IF n > CounterMax THEN CounterMax ELSE n

\* What the nodes of S have in all.
Gathered(s, S) ==
  [total |-> Saturated(SumFunctionOnSet(TotalsOf(s), S)), peak |-> Max(PeaksOf(s, S))]

\* Both parts are within the counters.
LEMMA GatheredParts ==
  ASSUME NEW s \in [Nodes -> NodeStats], NEW S \in SUBSET Nodes, IsFiniteSet(S)
  PROVE  /\ Numbers(TotalsOf(s), S) /\ SumFunctionOnSet(TotalsOf(s), S) \in Nat
         /\ PeaksOf(s, S) \in SUBSET Counter
         /\ Max(PeaksOf(s, S)) \in PeaksOf(s, S)
         /\ \A p \in PeaksOf(s, S) : Max(PeaksOf(s, S)) >= p
         /\ Gathered(s, S) \in NodeStats
<1>1. \A m \in Nodes : s[m].total \in Counter /\ s[m].peak \in Counter
  BY DEF NodeStats
<1>2. CounterMax \in Nat /\ Counter = 0 .. CounterMax
  BY CounterMaxAssumption DEF Counter
<1>3. PICK f, P : f = TotalsOf(s) /\ P = PeaksOf(s, S)
  OBVIOUS
<1>4. Numbers(f, S)
  BY <1>1, <1>2, <1>3 DEF Numbers, TotalsOf
<1>5. SumFunctionOnSet(f, S) \in Nat
  BY <1>4, SumType
<1>6. P \in SUBSET Counter /\ P # {}
  BY <1>1, <1>2, <1>3 DEF PeaksOf
<1>7. Max(P) \in P /\ \A p \in P : Max(P) >= p
  BY <1>2, <1>6, LargestNumber
<1>8. Gathered(s, S) = [total |-> Saturated(SumFunctionOnSet(f, S)), peak |-> Max(P)]
  BY <1>3 DEF Gathered
<1>9. Saturated(SumFunctionOnSet(f, S)) \in Counter
  BY <1>2, <1>5 DEF Saturated
<1>10. Gathered(s, S) \in NodeStats
  BY <1>6, <1>7, <1>8, <1>9 DEF NodeStats
<1>. QED
  BY <1>3, <1>4, <1>5, <1>6, <1>7, <1>10

LEMMA GatheredNothing == ASSUME NEW s PROVE Gathered(s, {}) = NoStats
<1>1. PeaksOf(s, {}) = {0}
  BY DEF PeaksOf
<1>2. Max({0}) = 0
  BY DEF Max
<1>3. Saturated(0) = 0
  BY CounterMaxAssumption DEF Saturated
<1>. QED
  BY <1>1, <1>2, <1>3, SumNothing DEF Gathered, NoStats

\* What S has is what any one node of it has and what the others have.
LEMMA GatheredApart ==
  ASSUME NEW s \in [Nodes -> NodeStats], NEW S \in SUBSET Nodes, IsFiniteSet(S), NEW x \in S
  PROVE  Gathered(s, S) = Accumulate(s[x], Gathered(s, S \ {x}))
<1>1. PICK R : R = S \ {x}
  OBVIOUS
<1>2. R \in SUBSET Nodes /\ IsFiniteSet(R)
  BY <1>1, FS_Subset
<1>3. PICK f, P, Q : f = TotalsOf(s) /\ P = PeaksOf(s, S) /\ Q = PeaksOf(s, R)
  OBVIOUS
<1>4. s[x] \in NodeStats
  OBVIOUS
<1>5. PICK t, p \in Nat : t = s[x].total /\ p = s[x].peak
  BY <1>4, CounterMaxAssumption DEF NodeStats, Counter
<1>6. P = Q \cup {p}
  BY <1>1, <1>3, <1>5 DEF PeaksOf
<1>7. PICK a, b \in Nat : a = Max(P) /\ b = Max(Q)
  BY <1>2, <1>3, GatheredParts, CounterMaxAssumption DEF Counter
<1>8. a = Larger(p, b)
  <2>1. a \in P /\ b \in Q /\ a >= p /\ a >= b /\ \A q \in Q : b >= q
    BY <1>2, <1>3, <1>6, <1>7, GatheredParts
  <2>2. a = p \/ b >= a
    BY <1>6, <2>1
  <2>. QED
    BY <1>5, <1>7, <2>1, <2>2 DEF Larger
<1>9. PICK v \in Nat : v = SumFunctionOnSet(f, R)
  BY <1>2, <1>3, GatheredParts
<1>10. SumFunctionOnSet(f, S) = t + v
  <2>1. Numbers(f, S) /\ f[x] = t
    BY <1>3, <1>5, GatheredParts DEF TotalsOf
  <2>2. SumFunctionOnSet(f, S) = f[x] + SumFunctionOnSet(f, S \ {x})
    BY <2>1, SumRemove
  <2>. QED
    BY <1>1, <1>9, <2>1, <2>2
<1>11. Saturated(t + v) = SaturatingAdd(t, Saturated(v))
  BY <1>5, <1>9, CounterMaxAssumption DEF Saturated, SaturatingAdd
<1>12. /\ Gathered(s, S) = [total |-> Saturated(t + v), peak |-> a]
       /\ Gathered(s, R) = [total |-> Saturated(v), peak |-> b]
  BY <1>3, <1>7, <1>9, <1>10 DEF Gathered
<1>13. Accumulate(s[x], Gathered(s, R)) = [total |-> SaturatingAdd(t, Saturated(v)), peak |-> Larger(p, b)]
  BY <1>5, <1>12 DEF Accumulate
<1>. QED
  BY <1>1, <1>8, <1>11, <1>12, <1>13

\* The fold of AggregatesMatchSubtree has that value.
LEMMA FoldGathers ==
  ASSUME NEW s \in [Nodes -> NodeStats], NEW D \in SUBSET Nodes, IsFiniteSet(D)
  PROVE  MapThenFoldSet(Accumulate, NoStats, LAMBDA m : s[m], LAMBDA S : CHOOSE m \in S : TRUE, D)
           = Gathered(s, D)
<1> DEFINE IsFold(g) == g = [S \in SUBSET D |-> IF S = {} THEN NoStats
                                                ELSE Accumulate(s[Chosen(S)], g[S \ {Chosen(S)}])]
           g == CHOOSE g : IsFold(g)
           h == [S \in SUBSET D |-> Gathered(s, S)]
<1>1. MapThenFoldSet(Accumulate, NoStats, LAMBDA m : s[m], LAMBDA S : CHOOSE m \in S : TRUE, D) = g[D]
  BY DEF MapThenFoldSet, Chosen
<1>2. \A S \in SUBSET D : h[S] = Gathered(s, S)
  OBVIOUS
<1>3. ASSUME NEW S, S # {} PROVE Chosen(S) \in S
  BY <1>3 DEF Chosen
<1>4. IsFold(h)
  <2>1. ASSUME NEW S \in SUBSET D, S # {}
        PROVE  h[S] = Accumulate(s[Chosen(S)], h[S \ {Chosen(S)}])
    <3>1. PICK x : x = Chosen(S)
      OBVIOUS
    <3>2. x \in S /\ S \in SUBSET Nodes /\ IsFiniteSet(S)
      BY <1>3, <2>1, <3>1, FS_Subset
    <3>3. Gathered(s, S) = Accumulate(s[x], Gathered(s, S \ {x}))
      BY <3>2, GatheredApart
    <3>4. h[S] = Gathered(s, S) /\ h[S \ {x}] = Gathered(s, S \ {x})
      BY <1>2
    <3>. QED
      BY <3>1, <3>3, <3>4
  <2>2. h[{}] = NoStats
    BY <1>2, GatheredNothing
  <2>3. h = [S \in SUBSET D |-> h[S]]
    OBVIOUS
  <2>. HIDE DEF h
  <2>. QED
    BY <2>1, <2>2, <2>3
<1>. HIDE DEF h
<1>5. IsFold(g)
  <2>. HIDE DEF IsFold
  <2>. QED
    BY <1>4
<1>. HIDE DEF g
<1> DEFINE T == {S \in SUBSET D : g[S] = h[S]}
<1>6. {} \in T
  BY <1>4, <1>5
<1>7. ASSUME NEW S \in SUBSET D, S # {}, \A x \in S : S \ {x} \in T PROVE S \in T
  <2>1. PICK x : x = Chosen(S)
    OBVIOUS
  <2>2. x \in S
    BY <1>3, <1>7, <2>1
  <2>3. /\ g[S] = Accumulate(s[x], g[S \ {x}])
        /\ h[S] = Accumulate(s[x], h[S \ {x}])
    BY <1>4, <1>5, <1>7, <2>1
  <2>. QED
    BY <1>7, <2>2, <2>3
<1>. HIDE DEF T
<1>8. SUBSET D \subseteq T
  BY <1>6, <1>7, AllSubsets
<1>9. D \in SUBSET D
  OBVIOUS
<1>10. g[D] = h[D]
  BY <1>8, <1>9 DEF T
<1>. QED
  BY <1>1, <1>2, <1>9, <1>10

\* It depends on the statistics of the nodes of S only.
LEMMA GatheredSame ==
  ASSUME NEW s \in [Nodes -> NodeStats], NEW t \in [Nodes -> NodeStats],
         NEW S \in SUBSET Nodes, IsFiniteSet(S), \A m \in S : s[m] = t[m]
  PROVE  Gathered(s, S) = Gathered(t, S)
<1>1. PICK f, g : f = TotalsOf(s) /\ g = TotalsOf(t)
  OBVIOUS
<1>2. Numbers(f, S) /\ \A m \in S : f[m] = g[m]
  BY <1>1, GatheredParts DEF TotalsOf
<1>3. SumFunctionOnSet(f, S) = SumFunctionOnSet(g, S)
  BY <1>2, SumSame
<1>4. PeaksOf(s, S) = PeaksOf(t, S)
  BY DEF PeaksOf
<1>. QED
  BY <1>1, <1>3, <1>4 DEF Gathered

\* Nodes without statistics add nothing.
LEMMA GatheredMore ==
  ASSUME NEW s \in [Nodes -> NodeStats], NEW R \in SUBSET Nodes, IsFiniteSet(R),
         NEW S \in SUBSET R, \A m \in R \ S : s[m] = NoStats
  PROVE  Gathered(s, S) = Gathered(s, R)
<1>1. PICK f : f = TotalsOf(s)
  OBVIOUS
<1>2. \A m \in R \ S : s[m].total = 0 /\ s[m].peak = 0
  BY DEF NoStats
<1>3. Numbers(f, R) /\ \A m \in R \ S : f[m] = 0
  BY <1>1, <1>2, GatheredParts DEF TotalsOf
<1>4. SumFunctionOnSet(f, S) = SumFunctionOnSet(f, R)
  BY <1>3, SumOfMore
<1>5. PeaksOf(s, S) = PeaksOf(s, R)
  BY <1>2 DEF PeaksOf
<1>. QED
  BY <1>1, <1>4, <1>5 DEF Gathered

\* A record at one node of S adds to what S has.
LEMMA GatheredRecord ==
  ASSUME NEW s \in [Nodes -> NodeStats], NEW S \in SUBSET Nodes, IsFiniteSet(S), NEW x \in S,
         NEW delta \in NodeStats, NEW t, t = [s EXCEPT ![x] = Accumulate(s[x], delta)]
  PROVE  Gathered(t, S) = Accumulate(Gathered(s, S), delta)
<1>1. t \in [Nodes -> NodeStats] /\ t[x] = Accumulate(s[x], delta)
  BY AccumulateType
<1>2. PICK R : R = S \ {x}
  OBVIOUS
<1>3. R \in SUBSET Nodes /\ IsFiniteSet(R) /\ \A m \in R : t[m] = s[m]
  BY <1>2, FS_Subset
<1>4. Gathered(t, R) = Gathered(s, R)
  BY <1>1, <1>3, GatheredSame, ZenonT(100)
<1>5. /\ Gathered(t, S) = Accumulate(t[x], Gathered(t, R))
      /\ Gathered(s, S) = Accumulate(s[x], Gathered(s, R))
  <2>1. Gathered(s, S) = Accumulate(s[x], Gathered(s, S \ {x}))
    BY GatheredApart
  <2>2. t \in [Nodes -> NodeStats]
    BY <1>1
  <2>3. Gathered(t, S) = Accumulate(t[x], Gathered(t, S \ {x}))
    BY <2>2, GatheredApart
  <2>. QED
    BY <1>2, <2>1, <2>3
<1>6. PICK a, b \in NodeStats : a = s[x] /\ b = Gathered(s, R)
  BY <1>3, GatheredParts
<1>7. Accumulate(Accumulate(a, delta), b) = Accumulate(Accumulate(a, b), delta)
  <2>1. \A n, m, k \in Nat :
          /\ SaturatingAdd(SaturatingAdd(n, m), k) = SaturatingAdd(SaturatingAdd(n, k), m)
          /\ Larger(Larger(n, m), k) = Larger(Larger(n, k), m)
    BY CounterMaxAssumption DEF SaturatingAdd, Larger
  <2>2. /\ a.total \in Nat /\ b.total \in Nat /\ delta.total \in Nat
        /\ a.peak \in Nat /\ b.peak \in Nat /\ delta.peak \in Nat
    BY CounterMaxAssumption DEF NodeStats, Counter
  <2>. QED
    BY <2>1, <2>2 DEF Accumulate
<1>. QED
  BY <1>1, <1>4, <1>5, <1>6, <1>7

--------------------------------------------------------------------------------
\* Walks are closed and finite.

LEMMA WalkOfStep ==
  ASSUME NEW leaf \in Seq(STRING), NEW m \in WalkTo(leaf)
  PROVE  m \in Seq(STRING) /\ WalkTo(m) \subseteq WalkTo(leaf)
<1>1. PICK i \in 0 .. Len(leaf) : m = SubSeq(leaf, 1, i)
  BY DEF WalkTo
<1>2. Len(leaf) \in Nat /\ \A k \in 1 .. Len(leaf) : leaf[k] \in STRING
  BY LenProperties
<1>3. m \in Seq(STRING) /\ Len(m) = i
  <2>1. \A k \in 1 .. i : leaf[k] \in STRING
    BY <1>2
  <2>2. 1 \in Int /\ i \in Int
    BY <1>2
  <2>. QED
    BY <1>1, <1>2, <2>1, <2>2, SubSeqProperties
<1>4. ASSUME NEW j \in 0 .. i PROVE SubSeq(m, 1, j) \in WalkTo(leaf)
  <2>1. CASE j = 0
    <3>1. SubSeq(m, 1, j) = Root
      BY <2>1, SubSeqEmpty DEF Root
    <3>. QED
      BY <3>1, WalkEnds
  <2>2. CASE j # 0
    <3>1. i \in 1 .. Len(leaf) /\ 1 \in 1 .. Len(leaf) /\ 1 \in 1 .. (i - 1 + 1) /\ j \in 1 .. (i - 1 + 1)
      BY <1>2, <2>2
    <3>2. SubSeq(SubSeq(leaf, 1, i), 1, j) = SubSeq(leaf, 1 + 1 - 1, 1 + j - 1)
      BY <3>1, SubSeqOfSubSeq
    <3>3. SubSeq(m, 1, j) = SubSeq(leaf, 1, j) /\ j \in 0 .. Len(leaf)
      BY <1>1, <1>2, <3>2
    <3>. QED
      BY <3>3 DEF WalkTo
  <2>. QED
    BY <2>1, <2>2
<1>. QED
  BY <1>3, <1>4 DEF WalkTo

LEMMA WalkIsFinite == ASSUME NEW leaf \in Seq(STRING) PROVE IsFiniteSet(WalkTo(leaf))
<1>1. Len(leaf) \in Nat
  BY LenProperties
<1>2. IsFiniteSet(0 .. Len(leaf))
  BY <1>1, FS_Interval
<1>3. PICK f : f = [i \in 0 .. Len(leaf) |-> SubSeq(leaf, 1, i)]
  OBVIOUS
<1>4. WalkTo(leaf) = {f[i] : i \in 0 .. Len(leaf)}
  BY <1>3 DEF WalkTo
<1>. QED
  BY <1>2, <1>4, FiniteImage

\* The nodes of N at or below n.
Below(N, n) == {m \in N : n \in WalkTo(m)}

\* The inductive invariant of the aggregates.  The walk to a node that exists
\* exists, and nothing is recorded where no node exists; the aggregate is what the
\* nodes below have in all, also for a node that does not exist yet: a record may
\* create it.
AggInv ==
  /\ TypeOK
  /\ IsFiniteSet(nodes)
  /\ \A m \in nodes : WalkTo(m) \subseteq nodes
  /\ \A m \in Nodes \ nodes : stats[m] = NoStats
  /\ \A n \in Nodes : aggStats[n] = Gathered(stats, Below(nodes, n))

\* Nodes are sequences, and hold their walks.
LEMMA NodesAreWalks ==
  /\ \A path \in Paths : Components[path] # Root => WalkTo(Components[path]) \subseteq Nodes
  /\ Nodes \in SUBSET Seq(STRING)
  /\ Root \in Nodes /\ WalkTo(Root) = {Root}
<1>1. Root \in Seq(STRING) /\ Len(Root) = 0
  BY EmptySeq DEF Root
<1>2. WalkTo(Root) = {Root}
  <2>1. \A i \in 0 .. 0 : SubSeq(Root, 1, i) = Root
    BY SubSeqEmpty DEF Root
  <2>2. 0 \in 0 .. 0
    OBVIOUS
  <2>. QED
    BY <1>1, <2>1, <2>2 DEF WalkTo
<1>3. \A leaf \in Leaves : leaf \in Seq(STRING)
  BY FileTreeAssumption DEF Leaves
<1>4. \A leaf \in Leaves : WalkTo(leaf) \subseteq Seq(STRING)
  BY <1>3, WalkOfStep
<1>5. Nodes \in SUBSET Seq(STRING)
  BY <1>1, <1>4 DEF Nodes
<1>. QED
  BY <1>2, <1>5, LeafFacts DEF Nodes

\* A tree with only its root, at the start and after a reset.
LEMMA FreshTree ==
  ASSUME nodes = {Root}, stats = Unrecorded, aggStats = Unrecorded, TypeOK
  PROVE  AggInv
<1>1. IsFiniteSet(nodes)
  BY FS_Singleton
<1>2. \A m \in nodes : WalkTo(m) \subseteq nodes
  BY NodesAreWalks
<1>3. ASSUME NEW n \in Nodes PROVE aggStats[n] = Gathered(stats, Below(nodes, n))
  <2>1. PICK D : D = Below(nodes, n)
    OBVIOUS
  <2>2. D \in SUBSET nodes /\ IsFiniteSet(D) /\ D \in SUBSET Nodes
    BY <1>1, <2>1, FS_Subset, NodesAreWalks DEF Below
  <2>3. {} \in SUBSET D /\ stats \in [Nodes -> NodeStats] /\ \A m \in D \ {} : stats[m] = NoStats
    BY <2>2 DEF Unrecorded, TypeOK
  <2>4. Gathered(stats, {}) = Gathered(stats, D)
    BY <2>2, <2>3, GatheredMore
  <2>. QED
    BY <2>1, <2>4, GatheredNothing DEF Unrecorded
<1>. QED
  BY <1>1, <1>2, <1>3 DEF AggInv, Unrecorded

FreshState == nodes = {Root} /\ stats = Unrecorded /\ aggStats = Unrecorded /\ TypeOK

LEMMA FreshNextTree == FreshState' => AggInv'
<1>1. FreshState => AggInv
  BY FreshTree DEF FreshState
<1>. QED
  BY <1>1, PTL

\* A record adds to exactly the nodes that have its leaf below them.
LEMMA RecordKeepsAggregates ==
  ASSUME AggInv, NEW path \in Paths, NEW pid \in Pids, NEW delta \in Deltas,
         RecordStats(path, pid, delta), TypeOK'
  PROVE  AggInv'
<1>1. PICK leaf : leaf = Components[path]
  OBVIOUS
<1>2. /\ leaf # Root /\ delta \in NodeStats
      /\ nodes' = nodes \cup WalkTo(leaf)
      /\ aggStats' = [n \in Nodes |-> IF n \in WalkTo(leaf) THEN Accumulate(aggStats[n], delta)
                                                             ELSE aggStats[n]]
      /\ stats' = [stats EXCEPT ![leaf] = Accumulate(stats[leaf], delta)]
  BY <1>1, FileTreeAssumption DEF RecordStats, AggregatedBy
<1>3. leaf \in Seq(STRING) /\ leaf \in Nodes /\ leaf \in WalkTo(leaf) /\ WalkTo(leaf) \subseteq Nodes
  BY <1>1, <1>2, LeafFacts
<1>4. /\ nodes \subseteq Nodes /\ stats \in [Nodes -> NodeStats] /\ stats' \in [Nodes -> NodeStats]
      /\ IsFiniteSet(nodes) /\ \A m \in nodes : WalkTo(m) \subseteq nodes
      /\ \A m \in Nodes \ nodes : stats[m] = NoStats
      /\ \A n \in Nodes : aggStats[n] = Gathered(stats, Below(nodes, n))
  BY DEF AggInv, TypeOK
<1>5. PICK N, s, t : N = nodes \cup WalkTo(leaf) /\ s = stats /\ t = stats'
  OBVIOUS
<1>6. IsFiniteSet(N) /\ N \in SUBSET Nodes
  BY <1>3, <1>4, <1>5, WalkIsFinite, FS_Union
<1>7. ASSUME NEW m \in N PROVE WalkTo(m) \subseteq N
  <2>1. CASE m \in nodes
    BY <1>4, <1>5, <2>1
  <2>2. CASE m \in WalkTo(leaf)
    BY <1>3, <1>5, <2>2, WalkOfStep
  <2>. QED
    BY <1>5, <2>1, <2>2
<1>8. \A m \in Nodes \ N : t[m] = NoStats
  BY <1>2, <1>3, <1>4, <1>5
<1>9. ASSUME NEW n \in Nodes PROVE aggStats'[n] = Gathered(t, Below(N, n))
  <2>1. PICK C, D : C = Below(nodes, n) /\ D = Below(N, n)
    OBVIOUS
  <2>2. D \in SUBSET N /\ C \in SUBSET D /\ D \in SUBSET Nodes /\ IsFiniteSet(D)
    BY <1>5, <1>6, <2>1, FS_Subset DEF Below
  <2>3. \A m \in D \ C : s[m] = NoStats
    BY <1>4, <1>5, <2>1, <2>2 DEF Below
  <2>4. Gathered(s, C) = Gathered(s, D)
    BY <1>4, <1>5, <2>2, <2>3, GatheredMore
  <2>5. aggStats[n] = Gathered(s, D)
    BY <1>4, <1>5, <2>1, <2>4
  <2>6. CASE n \in WalkTo(leaf)
    <3>1. leaf \in D
      BY <1>3, <1>5, <2>1, <2>6 DEF Below
    <3>2. Gathered(t, D) = Accumulate(Gathered(s, D), delta)
      <4>1. /\ s \in [Nodes -> NodeStats] /\ D \in SUBSET Nodes /\ IsFiniteSet(D)
            /\ leaf \in D /\ delta \in NodeStats
            /\ t = [s EXCEPT ![leaf] = Accumulate(s[leaf], delta)]
        BY <1>2, <1>4, <1>5, <2>2, <3>1
      <4>. QED
        BY <4>1, GatheredRecord
    <3>3. aggStats'[n] = Accumulate(aggStats[n], delta)
      BY <1>2, <2>6
    <3>. QED
      BY <2>1, <2>5, <3>2, <3>3
  <2>7. CASE n \notin WalkTo(leaf)
    <3>1. leaf \notin D
      BY <2>1, <2>7 DEF Below
    <3>2. \A m \in D : s[m] = t[m]
      BY <1>2, <1>4, <1>5, <2>2, <3>1
    <3>3. Gathered(s, D) = Gathered(t, D)
      BY <1>4, <1>5, <2>2, <3>2, GatheredSame
    <3>4. aggStats'[n] = aggStats[n]
      BY <1>2, <2>7
    <3>. QED
      BY <2>1, <2>5, <3>3, <3>4
  <2>. QED
    BY <2>6, <2>7
<1>10. nodes' = N /\ stats' = t
  BY <1>2, <1>5
<1>. QED
  BY <1>6, <1>7, <1>8, <1>9, <1>10 DEF AggInv

\* agg_stats never drifts from the tree: whatever is recorded in whatever order,
\* ended or reset, and with counters that saturate, the aggregate that record_stats
\* keeps up along the walk is what a scan of the subtree would recompute.
THEOREM AggregatesAreTrue == Spec => []AggregatesMatchSubtree
<1>1. Init /\ TypeOK => AggInv
  BY FreshTree DEF Init
<1>2. AggInv /\ TypeOK' /\ [Next]_vars => AggInv'
  <2>. SUFFICES ASSUME AggInv, TypeOK', [Next]_vars PROVE AggInv'
    OBVIOUS
  <2>1. CASE Reset
    <3>1. nodes' = {Root} /\ stats' = Unrecorded /\ aggStats' = Unrecorded
      BY <2>1 DEF Reset
    <3>2. FreshState'
      BY <3>1 DEF FreshState, Unrecorded
    <3>. QED
      BY <3>2, FreshNextTree
  <2>2. ASSUME NEW pid \in Pids, RemoveProcess(pid) PROVE AggInv'
    BY <2>2 DEF RemoveProcess, AggInv
  <2>3. CASE UNCHANGED vars
    BY <2>3 DEF vars, AggInv
  <2>. QED
    BY <2>1, <2>2, <2>3, RecordKeepsAggregates DEF Next
<1>3. AggInv => AggregatesMatchSubtree
  <2>. SUFFICES ASSUME AggInv, NEW n \in nodes
                PROVE  LET below == {m \in nodes : n \in WalkTo(m)}
                       IN  aggStats[n] = MapThenFoldSet(Accumulate, NoStats, LAMBDA m : stats[m],
                                                        LAMBDA S : CHOOSE m \in S : TRUE, below)
    BY DEF AggregatesMatchSubtree
  <2>1. PICK D, s : D = Below(nodes, n) /\ s = stats
    OBVIOUS
  <2>2. D \in SUBSET Nodes /\ IsFiniteSet(D) /\ s \in [Nodes -> NodeStats] /\ n \in Nodes
    <3>1. D \in SUBSET nodes
      BY <2>1 DEF Below
    <3>. QED
      BY <2>1, <3>1, FS_Subset DEF AggInv, TypeOK
  <2>3. MapThenFoldSet(Accumulate, NoStats, LAMBDA m : s[m], LAMBDA S : CHOOSE m \in S : TRUE, D)
          = Gathered(s, D)
    BY <2>2, FoldGathers
  <2>4. aggStats[n] = Gathered(s, D)
    BY <2>1, <2>2 DEF AggInv
  <2>. QED
    BY <2>1, <2>3, <2>4 DEF Below
<1>. QED
  BY <1>1, <1>2, <1>3, TypeCorrect, PTL DEF Spec

--------------------------------------------------------------------------------
\* The tree implements the ledger.

LEMMA LeavesAreNodes == Leaves \subseteq Nodes
BY LeafFacts DEF Leaves

LEMMA RecordIsLedgerRecord ==
  ASSUME TypeOK, NEW path \in Paths, NEW pid \in Pids, NEW delta \in Deltas,
         RecordStats(path, pid, delta)
  PROVE  Ledger!Record(Components[path], pid, delta)
<1>. DEFINE leaf == Components[path]
<1>1. leaf \in Leaves /\ leaf \in Nodes
  BY LeafFacts DEF RecordStats
<1>2. \A l \in Leaves :
        /\ stats'[l] = IF l = leaf THEN Accumulate(stats[l], delta) ELSE stats[l]
        /\ perProcess'[l] = IF l = leaf THEN AddBreakdown(perProcess[l], pid, delta)
                                        ELSE perProcess[l]
  BY <1>1, LeavesAreNodes DEF RecordStats, TypeOK
<1>3. \A s : Ledger!Accumulate(s, delta) = Accumulate(s, delta)
  BY DEF Ledger!Accumulate, Accumulate, Ledger!SaturatingAdd, SaturatingAdd, Ledger!Larger, Larger
<1>4. Ledger!AddShare(perProcess[leaf], pid, delta) = AddBreakdown(perProcess[leaf], pid, delta)
  BY <1>3, Zenon DEF Ledger!AddShare, AddBreakdown
<1>5. [l \in Leaves |-> stats'[l]] =
        [[l \in Leaves |-> stats[l]] EXCEPT ![leaf] = Ledger!Accumulate(@, delta)]
  BY <1>1, <1>2, <1>3
<1>6. [l \in Leaves |-> perProcess'[l]] =
        [[l \in Leaves |-> perProcess[l]] EXCEPT ![leaf] = Ledger!AddShare(@, pid, delta)]
  BY <1>1, <1>2, <1>4
<1>. QED
  BY <1>5, <1>6, Zenon DEF Ledger!Record

\* Recording a path, ending a process through the reverse index and resetting
\* are the ledger's operations: the index is invisible, and what it removes is
\* what a scan of every leaf would.
THEOREM ImplementsLedger == Spec => LedgerSpec
<1>1. Init => Ledger!Init
  BY LeavesAreNodes DEF Init, Ledger!Init, Unrecorded, NoBreakdowns, NoStats, Ledger!NoStats
<1>2. TypeOK /\ IndexMatchesBreakdown /\ [Next]_vars => [Ledger!Next]_(Ledger!vars)
  <2>. SUFFICES ASSUME TypeOK, IndexMatchesBreakdown, [Next]_vars
                PROVE  [Ledger!Next]_(Ledger!vars)
    OBVIOUS
  <2>1. ASSUME NEW path \in Paths, NEW pid \in Pids, NEW delta \in Deltas,
               RecordStats(path, pid, delta)
        PROVE  Ledger!Next
    <3>1. Components[path] \in Leaves
      BY <2>1, LeafFacts DEF RecordStats
    <3>. QED
      BY <2>1, <3>1, RecordIsLedgerRecord DEF Ledger!Next
  <2>2. ASSUME NEW pid \in Pids, RemoveProcess(pid)
        PROVE  Ledger!Next
    <3>1. \A l \in Leaves :
            perProcess'[l] = Restrict(perProcess[l], DOMAIN perProcess[l] \ {pid})
      BY <2>2, RemovedEverywhere, LeavesAreNodes
    <3>2. \A l \in Leaves : perProcess'[l] = Ledger!DropShare(perProcess[l], pid)
      BY <3>1, Zenon DEF Ledger!DropShare, Restrict
    <3>3. [l \in Leaves |-> perProcess'[l]] =
            [l \in Leaves |-> Ledger!DropShare([k \in Leaves |-> perProcess[k]][l], pid)]
      BY <3>2
    <3>4. stats' = stats
      BY <2>2 DEF RemoveProcess
    <3>5. Ledger!EndProcess(pid)
      BY <3>3, <3>4, Zenon DEF Ledger!EndProcess
    <3>. QED
      BY <3>5 DEF Ledger!Next
  <2>3. CASE Reset
    <3>1. Ledger!Reset
      BY <2>3, LeavesAreNodes
         DEF Reset, Ledger!Reset, Unrecorded, NoBreakdowns, NoStats, Ledger!NoStats
    <3>. QED
      BY <3>1 DEF Ledger!Next
  <2>4. CASE UNCHANGED vars
    BY <2>4 DEF vars, Ledger!vars
  <2>. QED
    BY <2>1, <2>2, <2>3, <2>4 DEF Next
<1>. QED
  BY <1>1, <1>2, TypeCorrect, IndexAgrees, PTL DEF Spec, LedgerSpec, Ledger!Spec
=============================================================================
