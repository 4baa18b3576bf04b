---------------------------- MODULE IngestProofs ----------------------------
(***************************************************************************)
(* Proofs about Ingest, for any events, descriptors, paths and bounds: the *)
(* index of the pending groups and the groups themselves stay in step; with *)
(* the pending groups counted as recorded, batched ingestion goes through the *)
(* accounts of PerEventIngest; and the process table, the tree and the rate *)
(* tracker agree.                                                          *)
(***************************************************************************)
EXTENDS Ingest, Lemmas, TLAPS

Slots == Groups \cup {Taken}

\* The strengthening of IndexedGroupsAreActive that a step preserves.
IndexInv == groups \in Seq(Slots) /\ IndexedGroupsAreActive

LEMMA GroupsAreNotTaken == \A g \in Groups : g # Taken
BY DEF Groups, Taken

LEMMA AddOpsType ==
  ASSUME NEW s \in OpStats, NEW d \in OpStats
  PROVE  AddOps(s, d) \in OpStats
BY CounterMaxAssumption DEF OpStats, AddOps, SaturatingAdd, Larger, Counter, CounterMaxAssumption

--------------------------------------------------------------------------------
\* A new group gets the next place, and a known one is added to where it is.
LEMMA CombineKeepsIndex ==
  ASSUME IndexInv, NEW e \in Events, IsIo(e), e.result > 0, Combine(e)
  PROVE  IndexInv'
<1> DEFINE key == [pid |-> e.pid, fd |-> e.fd, op |-> e.kind]
           one == [ops |-> 1, bytes |-> e.result, peak |-> e.latency]
           new == [pid |-> e.pid, fd |-> e.fd, op |-> e.kind, stats |-> one]
<1>1. /\ e.pid \in Pids /\ e.fd \in Nat /\ e.kind \in {"Read", "Write"}
      /\ one \in OpStats
  <2>1. /\ e.kind \in {"Read", "Write"}
        /\ <<e.pid, e.fd>> \in Descriptors
        /\ e.result \in Counter /\ e.latency \in Counter
    BY IoEventAssumption DEF IoEventAssumption, IsIo
  <2>2. <<e.pid, e.fd>> \in Pids \X Nat
    BY <2>1, AppStateAssumption DEF AppStateAssumption
  <2>3. 1 \in Counter
    BY CounterMaxAssumption DEF CounterMaxAssumption, Counter
  <2>. QED
    BY <2>1, <2>2, <2>3 DEF OpStats
<1>2. new \in Groups /\ Key(new) = key
  BY <1>1 DEF Groups, Key
<1>3. Len(groups) \in Nat /\ DOMAIN groups = 1 .. Len(groups)
      /\ \A i \in DOMAIN groups : groups[i] \in Slots
  BY LenProperties DEF IndexInv
<1>4. CASE key \in DOMAIN positions
  <2> DEFINE p == positions[key]
             g == groups[p]
  <2>1. p \in DOMAIN groups /\ g # Taken /\ Key(g) = key /\ g \in Groups
    BY <1>3, <1>4 DEF IndexInv, IndexedGroupsAreActive, Slots
  <2>2. groups' = [groups EXCEPT ![p] = [g EXCEPT !.stats = AddOps(g.stats, one)]]
        /\ UNCHANGED positions
    BY <1>4 DEF Combine
  <2> DEFINE h == [g EXCEPT !.stats = AddOps(g.stats, one)]
  <2>3. h \in Groups /\ Key(h) = key
    <3>1. AddOps(g.stats, one) \in OpStats
      BY <1>1, <2>1, AddOpsType DEF Groups
    <3>. HIDE DEF one
    <3>. QED
      BY <2>1, <3>1 DEF Groups, Key
  <2>. HIDE DEF h
  <2>4. groups' \in Seq(Slots) /\ DOMAIN groups' = DOMAIN groups
        /\ \A i \in DOMAIN groups : groups'[i] = IF i = p THEN h ELSE groups[i]
    <3>1. groups' = [groups EXCEPT ![p] = h]
      BY <2>2 DEF h
    <3>. QED
      BY <3>1, <1>3, <2>1, <2>3, ExceptSeq DEF IndexInv, Slots
  <2>5. h # Taken
    BY <2>3, GroupsAreNotTaken
  <2>. HIDE DEF p, key
  <2>. QED
    BY <2>1, <2>2, <2>3, <2>4, <2>5, <1>4 DEF IndexInv, IndexedGroupsAreActive, p
<1>5. CASE key \notin DOMAIN positions
  <2>1. /\ groups' = Append(groups, new)
        /\ positions' = [k \in DOMAIN positions \cup {key} |->
                           IF k = key THEN Len(groups) + 1 ELSE positions[k]]
    BY <1>5 DEF Combine
  <2>. HIDE DEF new, key
  <2>2. new \in Slots /\ new # Taken
    BY <1>2, GroupsAreNotTaken DEF Slots
  <2>3. /\ groups' \in Seq(Slots)
        /\ Len(groups') = Len(groups) + 1
        /\ \A i \in 1 .. Len(groups) : groups'[i] = groups[i]
        /\ groups'[Len(groups) + 1] = new
    BY <2>1, <2>2, AppendProperties DEF IndexInv
  <2>4. DOMAIN groups' = 1 .. Len(groups) + 1
    BY <2>3, LenProperties
  <2>5. ASSUME NEW k \in DOMAIN positions'
        PROVE  /\ positions'[k] \in DOMAIN groups'
               /\ groups'[positions'[k]] # Taken
               /\ Key(groups'[positions'[k]]) = k
    <3>1. CASE k = key
      BY <1>2, <1>3, <2>1, <2>2, <2>3, <2>4, <3>1
    <3>2. CASE k # key
      <4>1. k \in DOMAIN positions /\ positions'[k] = positions[k]
        BY <2>1, <3>2
      <4>2. positions[k] \in 1 .. Len(groups) /\ groups[positions[k]] # Taken
            /\ Key(groups[positions[k]]) = k
        BY <4>1, <1>3 DEF IndexInv, IndexedGroupsAreActive
      <4>. QED
        BY <1>3, <2>3, <2>4, <4>1, <4>2
    <3>. QED
      BY <3>1, <3>2
  <2>6. ASSUME NEW i \in DOMAIN groups', groups'[i] # Taken
        PROVE  Key(groups'[i]) \in DOMAIN positions' /\ positions'[Key(groups'[i])] = i
    <3>1. CASE i = Len(groups) + 1
      BY <1>2, <2>1, <2>3, <3>1
    <3>2. CASE i # Len(groups) + 1
      <4>1. i \in 1 .. Len(groups) /\ groups'[i] = groups[i]
        BY <1>3, <2>3, <2>4, <3>2
      <4>2. Key(groups[i]) \in DOMAIN positions /\ positions[Key(groups[i])] = i
        BY <1>3, <2>6, <4>1 DEF IndexInv, IndexedGroupsAreActive
      <4>3. Key(groups[i]) # key
        BY <1>5, <4>2
      <4>. QED
        BY <2>1, <4>1, <4>2, <4>3
    <3>. QED
      BY <3>1, <3>2
  <2>. QED
    BY <2>3, <2>5, <2>6 DEF IndexInv, IndexedGroupsAreActive
<1>. QED
  BY <1>4, <1>5

\* Taking groups out removes them from the index and touches no other.
LEMMA TakeKeepsIndex ==
  ASSUME IndexInv, NEW keys, Take(keys)
  PROVE  IndexInv'
<1> DEFINE gone == Range(keys)
           slots == {positions[k] : k \in gone \cap DOMAIN positions}
<1>1. /\ groups' = [i \in DOMAIN groups |-> IF i \in slots THEN Taken ELSE groups[i]]
      /\ positions' = Restrict(positions, DOMAIN positions \ gone)
  BY DEF Take
<1>2. Len(groups) \in Nat /\ DOMAIN groups = 1 .. Len(groups)
      /\ \A i \in DOMAIN groups : groups[i] \in Slots
  BY LenProperties DEF IndexInv
<1>. HIDE DEF gone
<1>3. groups' \in Seq(Slots) /\ DOMAIN groups' = DOMAIN groups
  <2>1. \A i \in 1 .. Len(groups) : groups'[i] \in Slots
    BY <1>1, <1>2 DEF Slots
  <2>2. groups' = [i \in 1 .. Len(groups) |-> groups'[i]]
    BY <1>1, <1>2
  <2>. QED
    BY <1>2, <2>1, <2>2, IsASeq
<1>4. DOMAIN positions' = DOMAIN positions \ gone
      /\ \A k \in DOMAIN positions' : positions'[k] = positions[k]
  BY <1>1 DEF Restrict
<1>5. ASSUME NEW k \in DOMAIN positions'
      PROVE  /\ positions'[k] \in DOMAIN groups'
             /\ groups'[positions'[k]] # Taken
             /\ Key(groups'[positions'[k]]) = k
  <2>1. /\ positions'[k] = positions[k] /\ positions[k] \in DOMAIN groups
        /\ groups[positions[k]] # Taken /\ Key(groups[positions[k]]) = k
        /\ k \notin gone
    BY <1>4 DEF IndexInv, IndexedGroupsAreActive
  <2>2. positions[k] \notin slots
    <3>1. SUFFICES ASSUME NEW j \in gone \cap DOMAIN positions, positions[j] = positions[k]
                   PROVE FALSE
      OBVIOUS
    <3>2. Key(groups[positions[j]]) = j
      BY DEF IndexInv, IndexedGroupsAreActive
    <3>. QED
      BY <2>1, <3>1, <3>2
  <2>. QED
    BY <1>1, <2>1, <2>2
<1>6. ASSUME NEW i \in DOMAIN groups', groups'[i] # Taken
      PROVE  Key(groups'[i]) \in DOMAIN positions' /\ positions'[Key(groups'[i])] = i
  <2>1. i \in DOMAIN groups /\ i \notin slots /\ groups'[i] = groups[i]
    BY <1>1, <1>6
  <2>2. Key(groups[i]) \in DOMAIN positions /\ positions[Key(groups[i])] = i
    BY <1>6, <2>1 DEF IndexInv, IndexedGroupsAreActive
  <2>3. Key(groups[i]) \notin gone
    BY <2>1, <2>2
  <2>. QED
    BY <1>4, <2>1, <2>2, <2>3
<1>. QED
  BY <1>3, <1>5, <1>6 DEF IndexInv, IndexedGroupsAreActive

--------------------------------------------------------------------------------

LEMMA EmptyIndex ==
  ASSUME groups = <<>>, positions = <<>>
  PROVE  IndexInv
BY EmptySeq DEF IndexInv, IndexedGroupsAreActive

LEMMA IndexInvStep == IndexInv /\ [Next]_vars => IndexInv'
<1>. SUFFICES ASSUME IndexInv, [Next]_vars PROVE IndexInv'
  OBVIOUS
<1>1. ASSUME UNCHANGED <<groups, positions>> PROVE IndexInv'
  BY <1>1 DEF IndexInv, IndexedGroupsAreActive, Taken, Key
<1>2. ASSUME NEW e \in Events, IngestIo(e) PROVE IndexInv'
  <2>1. CASE e.result > 0
    BY <1>2, <2>1, CombineKeepsIndex DEF IngestIo
  <2>2. CASE ~(e.result > 0)
    BY <1>1, <1>2, <2>2 DEF IngestIo
  <2>. QED
    BY <2>1, <2>2
<1>3. ASSUME NEW e \in Events, IngestLifecycle(e) PROVE IndexInv'
  <2>1. PICK keys \in Barriers(e) : Take(keys)
    BY <1>3 DEF IngestLifecycle
  <2>. QED
    BY <2>1, TakeKeepsIndex
<1>4. CASE FinishBatch
  <2>1. groups' = <<>> /\ positions' = <<>>
    BY <1>4 DEF FinishBatch
  <2>. QED
    BY <2>1, EmptySeq DEF IndexInv, IndexedGroupsAreActive
<1>5. CASE UNCHANGED vars
  BY <1>1, <1>5 DEF vars
<1>6. ASSUME NEW size \in 1 .. MaxEvents, BeginBatch(size) PROVE IndexInv'
  BY <1>1, <1>6 DEF BeginBatch
<1>7. ASSUME NEW total \in dropTotal .. MaxDrops, UpdateDropTotal(total) PROVE IndexInv'
  BY <1>1, <1>7 DEF UpdateDropTotal
<1>8. CASE Reset
  BY <1>1, <1>8 DEF Reset
<1>9. ASSUME NEW d \in Descriptors, NEW target \in ProcTargets[d], Rebind(d, target)
      PROVE IndexInv'
  BY <1>1, <1>9 DEF Rebind
<1>. QED
  BY <1>2, <1>3, <1>4, <1>5, <1>6, <1>7, <1>8, <1>9 DEF Next

\* The expectations in accumulate_io_group and flush_io_key hold ("indexed I/O
\* group must remain active"), and no pending group is out of the index's reach,
\* whatever batch arrives.
THEOREM IndexedGroupsStayActive == Spec => []IndexedGroupsAreActive
<1>1. Init => IndexInv
  BY EmptyIndex DEF Init
<1>2. IndexInv /\ [Next]_vars => IndexInv'
  BY IndexInvStep
<1>3. IndexInv => IndexedGroupsAreActive
  BY DEF IndexInv
<1>. QED
  BY <1>1, <1>2, <1>3, PTL DEF Spec

--------------------------------------------------------------------------------
\* The accounts and their parts.

\* The contents that the descriptor cache can have.
Caches == UNION {[D -> Paths] : D \in SUBSET Descriptors}

\* The types of the accounts.
AppStates ==
  [fdCache : Caches,
   totals : [Paths \X Ops -> OpStats],
   shares : [Pids \X Paths \X Ops -> OpStats],
   rows : [Pids -> [Ops -> OpStats]],
   rated : [Paths -> Counter],
   failures : Counter, ignored : Counter, failed : Counter, empty : Counter]

\* RecordOp and RecordRate as conditional updates of one part each, the condition
\* being that the operation is tracked.
AddAt(t, yes, k, s) == IF yes THEN [t EXCEPT ![k] = AddOps(t[k], s)] ELSE t

AddRow(rows, yes, pid, op, s) ==
  IF yes THEN [rows EXCEPT ![pid] = [rows[pid] EXCEPT ![op] = AddOps(rows[pid][op], s)]] ELSE rows

AddRate(rated, yes, path, n) == IF yes THEN [rated EXCEPT ![path] = SaturatingAdd(rated[path], n)] ELSE rated

\* The cache after a resolution to r: nothing is remembered of a non-file.
Put(c, d, r) == IF r = Ignored THEN c ELSE [x \in DOMAIN c \cup {d} |-> IF x = d THEN r ELSE c[x]]

\* What resolve_fd_path answers for d.
Resolved(a, v, d) == IF d \in DOMAIN a.fdCache THEN a.fdCache[d] ELSE v[d]

\* Whether an operation on what a descriptor resolves to is recorded.
Tracked(r) == r # Ignored /\ r \notin Excluded

\* A counter that goes up by d if yes holds.
Up(n, yes, d) == IF yes THEN SaturatingAdd(n, d) ELSE n

\* An account from its parts.
Form(c, t, s, r, q, f, i, l, e) ==
  [fdCache |-> c, totals |-> t, shares |-> s, rows |-> r, rated |-> q,
   failures |-> f, ignored |-> i, failed |-> l, empty |-> e]

\* An account is made of its parts, and they have their types.
LEMMA Parts ==
  ASSUME NEW a \in AppStates
  PROVE  /\ a = Form(a.fdCache, a.totals, a.shares, a.rows, a.rated, a.failures, a.ignored, a.failed, a.empty)
         /\ a.fdCache \in Caches /\ a.totals \in [Paths \X Ops -> OpStats]
         /\ a.shares \in [Pids \X Paths \X Ops -> OpStats] /\ a.rows \in [Pids -> [Ops -> OpStats]]
         /\ a.rated \in [Paths -> Counter] /\ a.failures \in Counter /\ a.ignored \in Counter
         /\ a.failed \in Counter /\ a.empty \in Counter
BY DEF AppStates, Form

\* Parts of the right types make an account.
LEMMA Whole ==
  ASSUME NEW c \in Caches, NEW t \in [Paths \X Ops -> OpStats], NEW s \in [Pids \X Paths \X Ops -> OpStats],
         NEW r \in [Pids -> [Ops -> OpStats]], NEW q \in [Paths -> Counter],
         NEW f \in Counter, NEW i \in Counter, NEW l \in Counter, NEW e \in Counter
  PROVE  Form(c, t, s, r, q, f, i, l, e) \in AppStates
BY DEF AppStates, Form

\* FdPathCache::store changes the cache only.
LEMMA StoreForm ==
  ASSUME NEW a \in AppStates, NEW pid, NEW fd, NEW path, path # Ignored
  PROVE  Store(a, pid, fd, path) =
           Form(Put(a.fdCache, <<pid, fd>>, path), a.totals, a.shares, a.rows, a.rated,
                a.failures, a.ignored, a.failed, a.empty)
BY DEF AppStates, Form, Store, Put

\* CountFailure changes attribution_failures only.
LEMMA FailureForm ==
  ASSUME NEW a \in AppStates
  PROVE  CountFailure(a) =
           Form(a.fdCache, a.totals, a.shares, a.rows, a.rated,
                SaturatingAdd(a.failures, 1), a.ignored, a.failed, a.empty)
BY DEF AppStates, Form, CountFailure

\* RecordOp changes the tree's totals and shares and the process's row only.
LEMMA RecordForm ==
  ASSUME NEW a \in AppStates, NEW pid \in Pids, NEW path \in Paths, NEW op \in Ops, NEW delta \in OpStats
  PROVE  RecordOp(a, pid, path, op, delta) =
           Form(a.fdCache, AddAt(a.totals, TRUE, <<path, op>>, delta),
                AddAt(a.shares, TRUE, <<pid, path, op>>, delta),
                AddRow(a.rows, TRUE, pid, op, delta), a.rated, a.failures, a.ignored, a.failed, a.empty)
<1>1. PICK t, s, r : /\ t = AddAt(a.totals, TRUE, <<path, op>>, delta)
                     /\ s = AddAt(a.shares, TRUE, <<pid, path, op>>, delta)
                     /\ r = AddRow(a.rows, TRUE, pid, op, delta)
  OBVIOUS
<1>2. RecordOp(a, pid, path, op, delta) = [a EXCEPT !.totals = t, !.shares = s, !.rows = r]
  <2>1. PICK t0, s0, r0 : t0 = a.totals /\ s0 = a.shares /\ r0 = a.rows
    OBVIOUS
  <2>2. t = [t0 EXCEPT ![<<path, op>>] = AddOps(t0[<<path, op>>], delta)]
    BY <1>1, <2>1 DEF AddAt
  <2>3. s = [s0 EXCEPT ![<<pid, path, op>>] = AddOps(s0[<<pid, path, op>>], delta)]
    BY <1>1, <2>1 DEF AddAt
  <2>4. r = [r0 EXCEPT ![pid] = [r0[pid] EXCEPT ![op] = AddOps(r0[pid][op], delta)]]
    BY <1>1, <2>1 DEF AddRow
  <2>5. RecordOp(a, pid, path, op, delta) =
          [a EXCEPT !.totals = [t0 EXCEPT ![<<path, op>>] = AddOps(t0[<<path, op>>], delta)],
                    !.shares = [s0 EXCEPT ![<<pid, path, op>>] = AddOps(s0[<<pid, path, op>>], delta)],
                    !.rows = [r0 EXCEPT ![pid] = [r0[pid] EXCEPT ![op] = AddOps(r0[pid][op], delta)]]]
    BY <2>1 DEF RecordOp
  <2>. QED
    BY <2>2, <2>3, <2>4, <2>5
<1>3. [a EXCEPT !.totals = t, !.shares = s, !.rows = r] =
        Form(a.fdCache, t, s, r, a.rated, a.failures, a.ignored, a.failed, a.empty)
  <2>1. PICK b : b = [a EXCEPT !.totals = t]
    OBVIOUS
  <2>2. PICK c : c = [b EXCEPT !.shares = s]
    OBVIOUS
  <2>3. PICK d : d = [c EXCEPT !.rows = r]
    OBVIOUS
  <2>4. [a EXCEPT !.totals = t, !.shares = s, !.rows = r] = d
    BY <2>1, <2>2, <2>3
  <2>5. d = Form(a.fdCache, t, s, r, a.rated, a.failures, a.ignored, a.failed, a.empty)
    BY <2>1, <2>2, <2>3 DEF AppStates, Form
  <2>. QED
    BY <2>4, <2>5
<1>. QED
  BY <1>1, <1>2, <1>3

\* CountIgnored changes ignored_non_file_events only.
LEMMA IgnoredForm ==
  ASSUME NEW a \in AppStates, NEW n
  PROVE  CountIgnored(a, n) =
           Form(a.fdCache, a.totals, a.shares, a.rows, a.rated, a.failures,
                SaturatingAdd(a.ignored, n), a.failed, a.empty)
BY DEF AppStates, Form, CountIgnored

\* Forget changes the cache only.
LEMMA ForgetForm ==
  ASSUME NEW a \in AppStates, NEW D
  PROVE  Forget(a, D) =
           Form(Restrict(a.fdCache, DOMAIN a.fdCache \ D), a.totals, a.shares, a.rows, a.rated,
                a.failures, a.ignored, a.failed, a.empty)
BY DEF AppStates, Form, Forget

\* RecordRate changes the rate tracker only.
LEMMA RateForm ==
  ASSUME NEW a \in AppStates, NEW path \in Paths, NEW n
  PROVE  RecordRate(a, path, n) =
           Form(a.fdCache, a.totals, a.shares, a.rows, AddRate(a.rated, TRUE, path, n),
                a.failures, a.ignored, a.failed, a.empty)
<1>1. RecordRate(a, path, n) = [a EXCEPT !.rated = [a.rated EXCEPT ![path] = SaturatingAdd(a.rated[path], n)]]
  BY DEF RecordRate
<1>2. PICK q : q = AddRate(a.rated, TRUE, path, n)
  OBVIOUS
<1>3. [a EXCEPT !.rated = q] = Form(a.fdCache, a.totals, a.shares, a.rows, q,
                                    a.failures, a.ignored, a.failed, a.empty)
  BY DEF AppStates, Form
<1>. QED
  BY <1>1, <1>2, <1>3 DEF AddRate

\* The counters are numbers, and a saturating addition stays in their width.
LEMMA CounterSums ==
  /\ 0 \in Counter /\ 1 \in Counter /\ Counter \subseteq Nat
  /\ \A n \in Counter, m \in Nat : SaturatingAdd(n, m) \in Counter
BY CounterMaxAssumption DEF Counter, SaturatingAdd

\* The type of an entry that is added to.
LEMMA AddAtType ==
  ASSUME NEW K, NEW t \in [K -> OpStats], NEW yes, NEW k, NEW s \in OpStats
  PROVE  AddAt(t, yes, k, s) \in [K -> OpStats]
<1>1. CASE k \in K
  <2>1. AddOps(t[k], s) \in OpStats
    BY <1>1, AddOpsType
  <2>. QED
    BY <2>1 DEF AddAt
<1>2. CASE k \notin K
  BY <1>2 DEF AddAt
<1>. QED
  BY <1>1, <1>2

\* The type of a row that is added to.
LEMMA AddRowType ==
  ASSUME NEW rows \in [Pids -> [Ops -> OpStats]], NEW yes, NEW pid \in Pids, NEW op \in Ops, NEW s \in OpStats
  PROVE  AddRow(rows, yes, pid, op, s) \in [Pids -> [Ops -> OpStats]]
<1>1. AddOps(rows[pid][op], s) \in OpStats
  BY AddOpsType
<1>2. [rows[pid] EXCEPT ![op] = AddOps(rows[pid][op], s)] \in [Ops -> OpStats]
  BY <1>1
<1>. QED
  BY <1>2 DEF AddRow

\* The type of a rate that is added to.
LEMMA AddRateType ==
  ASSUME NEW rated \in [Paths -> Counter], NEW yes, NEW path \in Paths, NEW n \in Nat
  PROVE  AddRate(rated, yes, path, n) \in [Paths -> Counter]
<1>1. SaturatingAdd(rated[path], n) \in Counter
  BY CounterSums
<1>. QED
  BY <1>1 DEF AddRate

\* The cache keeps its type, and putting what is there already changes nothing.
LEMMA PutType ==
  ASSUME NEW c \in Caches, NEW d \in Descriptors, NEW r \in Resolutions
  PROVE  /\ Put(c, d, r) \in Caches
         /\ d \in DOMAIN c /\ c[d] = r => Put(c, d, r) = c
<1>1. PICK D \in SUBSET Descriptors : c \in [D -> Paths]
  BY DEF Caches
<1>2. CASE r = Ignored
  BY <1>2, AppStateAssumption DEF Put, Caches
<1>3. CASE r # Ignored
  <2>1. Put(c, d, r) = [x \in D \cup {d} |-> IF x = d THEN r ELSE c[x]]
    BY <1>1, <1>3 DEF Put
  <2>2. Put(c, d, r) \in [D \cup {d} -> Paths]
    BY <1>1, <1>3, <2>1 DEF Resolutions
  <2>3. Put(c, d, r) \in Caches
    BY <2>2 DEF Caches
  <2>. QED
    BY <1>1, <1>3, <2>1, <2>3
<1>. QED
  BY <1>2, <1>3

\* The cache maps descriptors to paths.
LEMMA CacheParts ==
  ASSUME NEW c \in Caches
  PROVE  DOMAIN c \subseteq Descriptors /\ \A d \in DOMAIN c : c[d] \in Paths /\ c[d] # Ignored
BY AppStateAssumption DEF Caches

\* A group that accumulate_io_group may have built.
Pending == {g \in Groups : <<g.pid, g.fd>> \in Descriptors /\ g.stats.ops >= 1}

\* The parts of a pending group.
LEMMA PendingParts ==
  ASSUME NEW g \in Pending
  PROVE  /\ <<g.pid, g.fd>> \in Descriptors /\ g.pid \in Pids /\ g.op \in {"Read", "Write"} /\ g.op \in Ops
         /\ g.stats \in OpStats /\ g.stats.ops \in Counter /\ g.stats.ops >= 1 /\ g.stats.bytes \in Counter
         /\ g # Taken
BY GroupsAreNotTaken DEF Pending, Groups, OpStats, Ops

\* The descriptor of a group.
Desc(g) == <<g.pid, g.fd>>

\* What a descriptor resolves to, from the cache or from /proc.
LEMMA ResolvedType ==
  ASSUME NEW a \in AppStates, NEW v \in ProcViews, NEW d \in Descriptors
  PROVE  /\ Resolved(a, v, d) \in Resolutions /\ v[d] \in Resolutions
         /\ d \in DOMAIN a.fdCache => Resolved(a, v, d) = a.fdCache[d] /\ Resolved(a, v, d) # Ignored
         /\ d \notin DOMAIN a.fdCache => Resolved(a, v, d) = v[d]
<1>1. v[d] \in Resolutions
  BY DEF ProcViews
<1>2. a.fdCache \in Caches
  BY Parts
<1>. QED
  BY <1>1, <1>2, CacheParts DEF Resolved, Resolutions

\* Whether resolving d is counted as a failure.
Fails(a, v, d) == d \notin DOMAIN a.fdCache /\ v[d] = Unresolved

\* What RecordGroup makes of each part.
RecordedForm(a, v, g) ==
  LET d == <<g.pid, g.fd>>
      r == Resolved(a, v, d)
      yes == Tracked(r)
  IN  Form(Put(a.fdCache, d, r),
           AddAt(a.totals, yes, <<r, g.op>>, g.stats),
           AddAt(a.shares, yes, <<g.pid, r, g.op>>, g.stats),
           AddRow(a.rows, yes, g.pid, g.op, g.stats),
           AddRate(a.rated, yes, r, g.stats.bytes),
           Up(a.failures, Fails(a, v, d), 1),
           Up(a.ignored, r = Ignored, g.stats.ops),
           a.failed, a.empty)

\* What AfterResolve makes of each part.
ResolvedForm(a, v, d) ==
  LET r == Resolved(a, v, d)
  IN  Form(Put(a.fdCache, d, r), a.totals, a.shares, a.rows, a.rated,
           Up(a.failures, Fails(a, v, d), 1), Up(a.ignored, r = Ignored, 1), a.failed, a.empty)

\* AfterResolve in that form.
LEMMA AfterResolveForm ==
  ASSUME NEW a \in AppStates, NEW v \in ProcViews, NEW d \in Descriptors, NEW pid, NEW fd, d = <<pid, fd>>
  PROVE  AfterResolve(a, v, pid, fd) = ResolvedForm(a, v, d) /\ ResolvedForm(a, v, d) \in AppStates
<1>1. PICK r : r = Resolved(a, v, d)
  OBVIOUS
<1>2. /\ r \in Resolutions /\ v[d] \in Resolutions
      /\ d \in DOMAIN a.fdCache => r = a.fdCache[d] /\ r # Ignored
      /\ d \notin DOMAIN a.fdCache => r = v[d]
  BY <1>1, ResolvedType
<1>3. a.fdCache \in Caches /\ a.failures \in Counter /\ a.ignored \in Counter
  BY Parts
<1>4. Put(a.fdCache, d, r) \in Caches /\ (d \in DOMAIN a.fdCache => Put(a.fdCache, d, r) = a.fdCache)
  <2>1. PICK c \in Caches : c = a.fdCache
    BY <1>3
  <2>2. Put(c, d, r) \in Caches /\ (d \in DOMAIN c /\ c[d] = r => Put(c, d, r) = c)
    BY <1>2, PutType
  <2>. QED
    BY <1>2, <2>1, <2>2
<1>5. ResolvedForm(a, v, d) = Form(Put(a.fdCache, d, r), a.totals, a.shares, a.rows, a.rated,
           Up(a.failures, Fails(a, v, d), 1), Up(a.ignored, r = Ignored, 1), a.failed, a.empty)
  BY <1>1 DEF ResolvedForm
<1>6. ResolvedForm(a, v, d) \in AppStates
  <2>1. Up(a.failures, Fails(a, v, d), 1) \in Counter /\ Up(a.ignored, r = Ignored, 1) \in Counter
    BY <1>3, CounterSums DEF Up
  <2>2. PICK c \in Caches, f, i \in Counter :
          c = Put(a.fdCache, d, r) /\ f = Up(a.failures, Fails(a, v, d), 1) /\ i = Up(a.ignored, r = Ignored, 1)
    BY <1>4, <2>1
  <2>3. Form(c, a.totals, a.shares, a.rows, a.rated, f, i, a.failed, a.empty) \in AppStates
    BY DEF AppStates, Form
  <2>. QED
    BY <1>5, <2>2, <2>3
<1>7. CASE d \in DOMAIN a.fdCache
  <2>1. AfterResolve(a, v, pid, fd) = a
    BY <1>7 DEF AfterResolve
  <2>2. ~Fails(a, v, d) /\ r # Ignored
    BY <1>2, <1>7 DEF Fails
  <2>. QED
    BY <1>4, <1>5, <1>6, <1>7, <2>1, <2>2, Parts DEF Up
<1>8. CASE d \notin DOMAIN a.fdCache /\ r = Ignored
  <2>1. AfterResolve(a, v, pid, fd) = CountIgnored(a, 1)
    BY <1>2, <1>8 DEF AfterResolve
  <2>2. ~Fails(a, v, d)
    BY <1>2, <1>8, AppStateAssumption DEF Fails
  <2>3. Put(a.fdCache, d, r) = a.fdCache
    BY <1>8 DEF Put
  <2>. QED
    BY <1>5, <1>6, <1>8, <2>1, <2>2, <2>3, IgnoredForm DEF Up
<1>9. CASE d \notin DOMAIN a.fdCache /\ r # Ignored
  <2>1. PICK b : b = IF r = Unresolved THEN CountFailure(a) ELSE a
    OBVIOUS
  <2>2. AfterResolve(a, v, pid, fd) = Store(b, pid, fd, r)
    BY <1>2, <1>9, <2>1 DEF AfterResolve
  <2>3. b = Form(a.fdCache, a.totals, a.shares, a.rows, a.rated,
                 Up(a.failures, Fails(a, v, d), 1), a.ignored, a.failed, a.empty)
    BY <1>2, <1>9, <2>1, FailureForm, Parts DEF Up, Fails
  <2>4. b \in AppStates
    <3>1. Up(a.failures, Fails(a, v, d), 1) \in Counter
      BY <1>3, CounterSums DEF Up
    <3>. QED
      BY <2>3, <3>1, Parts, Whole
  <2>5. Store(b, pid, fd, r) =
           Form(Put(b.fdCache, d, r), b.totals, b.shares, b.rows, b.rated, b.failures, b.ignored, b.failed, b.empty)
    BY <1>9, <2>4, StoreForm
  <2>6. /\ b.fdCache = a.fdCache /\ b.totals = a.totals /\ b.shares = a.shares /\ b.rows = a.rows
        /\ b.rated = a.rated
        /\ b.failures = Up(a.failures, Fails(a, v, d), 1) /\ b.ignored = a.ignored /\ b.failed = a.failed
        /\ b.empty = a.empty
    BY <2>3 DEF Form
  <2>. QED
    BY <1>5, <1>6, <1>9, <2>2, <2>5, <2>6 DEF Up
<1>. QED
  BY <1>7, <1>8, <1>9

--------------------------------------------------------------------------------
\* Recording a group, part by part.

\* The form of a recorded group is an account.
LEMMA RecordedType ==
  ASSUME NEW a \in AppStates, NEW v \in ProcViews, NEW g \in Pending
  PROVE  RecordedForm(a, v, g) \in AppStates
<1>1. PICK d \in Descriptors, r \in Resolutions : d = <<g.pid, g.fd>> /\ r = Resolved(a, v, d)
  BY PendingParts, ResolvedType
<1>2. PICK yes : yes = Tracked(r)
  OBVIOUS
<1>3. yes => r \in Paths
  BY <1>2 DEF Tracked, Resolutions
<1>4. PICK c, t, s, w, q, f, i : /\ c = Put(a.fdCache, d, r)
                                 /\ t = AddAt(a.totals, yes, <<r, g.op>>, g.stats)
                                 /\ s = AddAt(a.shares, yes, <<g.pid, r, g.op>>, g.stats)
                                 /\ w = AddRow(a.rows, yes, g.pid, g.op, g.stats)
                                 /\ q = AddRate(a.rated, yes, r, g.stats.bytes)
                                 /\ f = Up(a.failures, Fails(a, v, d), 1)
                                 /\ i = Up(a.ignored, r = Ignored, g.stats.ops)
  OBVIOUS
<1>5. RecordedForm(a, v, g) = Form(c, t, s, w, q, f, i, a.failed, a.empty)
  BY <1>1, <1>2, <1>4 DEF RecordedForm
<1>6. c \in Caches
  <2>1. PICK k \in Caches : k = a.fdCache
    BY Parts
  <2>. QED
    BY <1>4, <2>1, PutType
<1>7. t \in [Paths \X Ops -> OpStats]
  BY <1>4, Parts, PendingParts, AddAtType
<1>8. s \in [Pids \X Paths \X Ops -> OpStats]
  BY <1>4, Parts, PendingParts, AddAtType
<1>9. w \in [Pids -> [Ops -> OpStats]]
  BY <1>4, Parts, PendingParts, AddRowType
<1>10. q \in [Paths -> Counter]
  <2>1. PICK p \in [Paths -> Counter], n \in Nat : p = a.rated /\ n = g.stats.bytes
    BY Parts, PendingParts, CounterSums
  <2>2. CASE yes
    BY <1>3, <1>4, <2>1, <2>2, AddRateType
  <2>3. CASE ~yes
    BY <1>4, <2>1, <2>3 DEF AddRate
  <2>. QED
    BY <2>2, <2>3
<1>11. f \in Counter /\ i \in Counter
  <2>1. a.failures \in Counter /\ a.ignored \in Counter /\ g.stats.ops \in Nat
    BY Parts, PendingParts, CounterSums
  <2>. QED
    BY <1>4, <2>1, CounterSums DEF Up
<1>12. PICK l, e \in Counter : l = a.failed /\ e = a.empty
  BY Parts
<1>13. Form(c, t, s, w, q, f, i, l, e) \in AppStates
  BY <1>6, <1>7, <1>8, <1>9, <1>10, <1>11, Whole
<1>. QED
  BY <1>5, <1>12, <1>13

\* RecordGroup in that form: record_io_group counts an ignored group's
\* operations one by one, those after the first by themselves.
LEMMA RecordGroupForm ==
  ASSUME NEW a \in AppStates, NEW v \in ProcViews, NEW g \in Pending
  PROVE  RecordGroup(a, v, g) = RecordedForm(a, v, g)
<1>1. PICK d \in Descriptors, r \in Resolutions : d = <<g.pid, g.fd>> /\ r = Resolved(a, v, d)
  BY PendingParts, ResolvedType
<1>2. PICK b : b = AfterResolve(a, v, g.pid, g.fd)
  OBVIOUS
<1>3. b = ResolvedForm(a, v, d) /\ b \in AppStates
  BY <1>1, <1>2, AfterResolveForm
<1>4. b = Form(Put(a.fdCache, d, r), a.totals, a.shares, a.rows, a.rated,
               Up(a.failures, Fails(a, v, d), 1), Up(a.ignored, r = Ignored, 1), a.failed, a.empty)
  BY <1>1, <1>3 DEF ResolvedForm
<1>5. /\ b.fdCache = Put(a.fdCache, d, r) /\ b.totals = a.totals /\ b.shares = a.shares
      /\ b.rows = a.rows /\ b.rated = a.rated
      /\ b.failures = Up(a.failures, Fails(a, v, d), 1) /\ b.ignored = Up(a.ignored, r = Ignored, 1)
      /\ b.failed = a.failed /\ b.empty = a.empty
  BY <1>4 DEF Form
<1>6. NotAFile(a, v, g.pid, g.fd) <=> r = Ignored
  <2>1. /\ d \in DOMAIN a.fdCache => r # Ignored
        /\ d \notin DOMAIN a.fdCache => r = v[d]
    BY <1>1, ResolvedType
  <2>. QED
    BY <1>1, <2>1 DEF NotAFile
<1>7. RecordedForm(a, v, g) =
        Form(Put(a.fdCache, d, r),
           AddAt(a.totals, Tracked(r), <<r, g.op>>, g.stats),
           AddAt(a.shares, Tracked(r), <<g.pid, r, g.op>>, g.stats),
           AddRow(a.rows, Tracked(r), g.pid, g.op, g.stats),
           AddRate(a.rated, Tracked(r), r, g.stats.bytes),
           Up(a.failures, Fails(a, v, d), 1),
           Up(a.ignored, r = Ignored, g.stats.ops),
           a.failed, a.empty)
  BY <1>1 DEF RecordedForm
<1>8. RecordGroup(a, v, g) =
        IF r = Ignored THEN CountIgnored(b, g.stats.ops - 1)
        ELSE IF b.fdCache[d] \in Excluded THEN b
        ELSE RecordRate(RecordOp(b, g.pid, b.fdCache[d], g.op, g.stats), b.fdCache[d], g.stats.bytes)
  BY <1>1, <1>2, <1>6 DEF RecordGroup
<1>9. CASE r = Ignored
  <2>1. ~Tracked(r)
    BY <1>9 DEF Tracked
  <2>2. SaturatingAdd(SaturatingAdd(a.ignored, 1), g.stats.ops - 1) = SaturatingAdd(a.ignored, g.stats.ops)
    <3>1. PICK m, n \in Counter : m = a.ignored /\ n = g.stats.ops /\ n >= 1
      BY Parts, PendingParts
    <3>2. SaturatingAdd(SaturatingAdd(m, 1), n - 1) = SaturatingAdd(m, n)
      BY <3>1, CounterMaxAssumption DEF Counter, SaturatingAdd
    <3>. QED
      BY <3>1, <3>2
  <2>3. RecordGroup(a, v, g) =
          Form(b.fdCache, b.totals, b.shares, b.rows, b.rated, b.failures,
               SaturatingAdd(b.ignored, g.stats.ops - 1), b.failed, b.empty)
    BY <1>3, <1>8, <1>9, IgnoredForm
  <2>4. SaturatingAdd(b.ignored, g.stats.ops - 1) = Up(a.ignored, r = Ignored, g.stats.ops)
    BY <1>5, <1>9, <2>2 DEF Up
  <2>. QED
    BY <1>5, <1>7, <2>1, <2>3, <2>4 DEF AddAt, AddRow, AddRate
<1>10. CASE r # Ignored
  <2>1. r \in Paths /\ b.fdCache[d] = r
    <3>1. PICK c \in Caches : c = a.fdCache
      BY Parts
    <3>2. Put(c, d, r)[d] = r
      BY <1>10 DEF Put
    <3>. QED
      BY <1>5, <1>10, <3>1, <3>2 DEF Resolutions
  <2>2. CASE r \in Excluded
    <3>1. RecordGroup(a, v, g) = b /\ ~Tracked(r)
      BY <1>8, <1>10, <2>1, <2>2 DEF Tracked
    <3>. QED
      BY <1>4, <1>7, <1>10, <3>1 DEF AddAt, AddRow, AddRate, Up
  <2>3. CASE r \notin Excluded
    <3>1. Tracked(r)
      BY <1>10, <2>3 DEF Tracked
    <3>2. PICK o : o = RecordOp(b, g.pid, r, g.op, g.stats)
      OBVIOUS
    <3>3. RecordGroup(a, v, g) = RecordRate(o, r, g.stats.bytes)
      BY <1>8, <1>10, <2>1, <2>3, <3>2
    <3>4. PICK t, s, w : /\ t = AddAt(b.totals, TRUE, <<r, g.op>>, g.stats)
                         /\ s = AddAt(b.shares, TRUE, <<g.pid, r, g.op>>, g.stats)
                         /\ w = AddRow(b.rows, TRUE, g.pid, g.op, g.stats)
      OBVIOUS
    <3>5. o = Form(b.fdCache, t, s, w, b.rated, b.failures, b.ignored, b.failed, b.empty)
      BY <1>3, <2>1, <3>2, <3>4, PendingParts, RecordForm, ZenonT(150)
    <3>6. o \in AppStates
      <4>1. t \in [Paths \X Ops -> OpStats]
        BY <1>3, <3>4, Parts, PendingParts, AddAtType
      <4>2. s \in [Pids \X Paths \X Ops -> OpStats]
        BY <1>3, <3>4, Parts, PendingParts, AddAtType
      <4>3. w \in [Pids -> [Ops -> OpStats]]
        BY <1>3, <3>4, Parts, PendingParts, AddRowType
      <4>4. b.fdCache \in Caches /\ b.rated \in [Paths -> Counter] /\ b.failures \in Counter
            /\ b.ignored \in Counter /\ b.failed \in Counter /\ b.empty \in Counter
        BY <1>3, Parts
      <4>. QED
        BY <3>5, <4>1, <4>2, <4>3, <4>4, Whole
    <3>7. RecordRate(o, r, g.stats.bytes) =
            Form(o.fdCache, o.totals, o.shares, o.rows, AddRate(o.rated, TRUE, r, g.stats.bytes),
                 o.failures, o.ignored, o.failed, o.empty)
      BY <2>1, <3>6, RateForm
    <3>8. /\ o.fdCache = b.fdCache /\ o.totals = t /\ o.shares = s /\ o.rows = w /\ o.rated = b.rated
          /\ o.failures = b.failures /\ o.ignored = b.ignored /\ o.failed = b.failed /\ o.empty = b.empty
      BY <3>5 DEF Form
    <3>9. RecordGroup(a, v, g) =
            Form(b.fdCache, t, s, w, AddRate(b.rated, TRUE, r, g.stats.bytes),
                 b.failures, b.ignored, b.failed, b.empty)
      BY <3>3, <3>7, <3>8
    <3>10. b.ignored = a.ignored
      BY <1>5, <1>10 DEF Up
    <3>. QED
      BY <1>5, <1>7, <1>10, <3>1, <3>4, <3>9, <3>10 DEF AddAt, AddRow, AddRate, Up
  <2>. QED
    BY <2>2, <2>3
<1>. QED
  BY <1>9, <1>10

--------------------------------------------------------------------------------
\* The order of additions does not matter.

\* Saturating sums and maxima neither depend on the order nor on the grouping.
LEMMA SaturatingSwap ==
  ASSUME NEW n \in Nat, NEW m \in Nat, NEW k \in Nat
  PROVE  /\ SaturatingAdd(SaturatingAdd(n, m), k) = SaturatingAdd(SaturatingAdd(n, k), m)
         /\ SaturatingAdd(SaturatingAdd(n, m), k) = SaturatingAdd(n, SaturatingAdd(m, k))
         /\ Larger(Larger(n, m), k) = Larger(Larger(n, k), m)
         /\ Larger(Larger(n, m), k) = Larger(n, Larger(m, k))
BY CounterMaxAssumption DEF SaturatingAdd, Larger

\* Nor do sums of statistics.
LEMMA AddOpsSwap ==
  ASSUME NEW s \in OpStats, NEW x \in OpStats, NEW y \in OpStats
  PROVE  /\ AddOps(AddOps(s, x), y) = AddOps(AddOps(s, y), x)
         /\ AddOps(AddOps(s, x), y) = AddOps(s, AddOps(x, y))
<1>1. /\ s.ops \in Nat /\ s.bytes \in Nat /\ s.peak \in Nat
      /\ x.ops \in Nat /\ x.bytes \in Nat /\ x.peak \in Nat
      /\ y.ops \in Nat /\ y.bytes \in Nat /\ y.peak \in Nat
  BY CounterSums DEF OpStats
<1>. QED
  BY <1>1, SaturatingSwap DEF AddOps

\* Two additions to a table can be swapped.
LEMMA AddAtSwap ==
  ASSUME NEW K, NEW t \in [K -> OpStats], NEW p, NEW q, NEW k \in K, NEW l \in K,
         NEW x \in OpStats, NEW y \in OpStats
  PROVE  AddAt(AddAt(t, p, k, x), q, l, y) = AddAt(AddAt(t, q, l, y), p, k, x)
<1>1. CASE p /\ q /\ k = l
  <2>1. AddOps(AddOps(t[k], x), y) = AddOps(AddOps(t[k], y), x)
    BY AddOpsSwap
  <2>. QED
    BY <1>1, <2>1 DEF AddAt
<1>2. CASE p /\ q /\ k # l
  BY <1>2 DEF AddAt
<1>3. CASE ~p \/ ~q
  BY <1>3 DEF AddAt
<1>. QED
  BY <1>1, <1>2, <1>3

\* Two additions at one place are one addition of the sum.
LEMMA AddAtMerge ==
  ASSUME NEW K, NEW t \in [K -> OpStats], NEW p, NEW k,
         NEW x \in OpStats, NEW y \in OpStats, p => k \in K
  PROVE  AddAt(AddAt(t, p, k, x), p, k, y) = AddAt(t, p, k, AddOps(x, y))
<1>1. CASE p
  <2>1. AddOps(AddOps(t[k], x), y) = AddOps(t[k], AddOps(x, y))
    BY <1>1, AddOpsSwap
  <2>. QED
    BY <1>1, <2>1 DEF AddAt
<1>2. CASE ~p
  BY <1>2 DEF AddAt
<1>. QED
  BY <1>1, <1>2

\* Two additions to the process table can be swapped.
LEMMA AddRowSwap ==
  ASSUME NEW w \in [Pids -> [Ops -> OpStats]], NEW p, NEW q, NEW k \in Pids, NEW l \in Pids,
         NEW o \in Ops, NEW u \in Ops, NEW x \in OpStats, NEW y \in OpStats
  PROVE  AddRow(AddRow(w, p, k, o, x), q, l, u, y) = AddRow(AddRow(w, q, l, u, y), p, k, o, x)
<1>1. CASE p /\ q /\ k = l
  <2>1. PICK t \in [Ops -> OpStats] : t = w[k]
    OBVIOUS
  <2>2. AddAt(AddAt(t, TRUE, o, x), TRUE, u, y) = AddAt(AddAt(t, TRUE, u, y), TRUE, o, x)
    <3>1. PICK yes : yes = TRUE
      OBVIOUS
    <3>2. AddAt(AddAt(t, yes, o, x), yes, u, y) = AddAt(AddAt(t, yes, u, y), yes, o, x)
      BY AddAtSwap
    <3>. QED
      BY <3>1, <3>2
  <2>3. /\ AddRow(w, p, k, o, x) = [w EXCEPT ![k] = AddAt(t, TRUE, o, x)]
        /\ AddRow(w, q, l, u, y) = [w EXCEPT ![k] = AddAt(t, TRUE, u, y)]
    BY <1>1, <2>1 DEF AddRow, AddAt
  <2>4. PICK w1, w2, t1, t2 : /\ w1 = [w EXCEPT ![k] = t1] /\ w2 = [w EXCEPT ![k] = t2]
                              /\ t1 = AddAt(t, TRUE, o, x) /\ t2 = AddAt(t, TRUE, u, y)
    OBVIOUS
  <2>5. AddRow(w1, q, l, u, y) = [w1 EXCEPT ![k] = AddAt(t1, TRUE, u, y)]
    BY <1>1, <2>4 DEF AddRow, AddAt
  <2>6. AddRow(w2, p, k, o, x) = [w2 EXCEPT ![k] = AddAt(t2, TRUE, o, x)]
    BY <1>1, <2>4 DEF AddRow, AddAt
  <2>7. PICK z : z = AddAt(t1, TRUE, u, y) /\ z = AddAt(t2, TRUE, o, x)
    BY <2>2, <2>4
  <2>8. [w1 EXCEPT ![k] = z] = [w2 EXCEPT ![k] = z]
    BY <2>4
  <2>. QED
    BY <2>3, <2>4, <2>5, <2>6, <2>7, <2>8
<1>2. CASE p /\ q /\ k # l
  BY <1>2 DEF AddRow
<1>3. CASE ~p \/ ~q
  BY <1>3 DEF AddRow
<1>. QED
  BY <1>1, <1>2, <1>3

\* Two additions to one row are one addition of the sum.
LEMMA AddRowMerge ==
  ASSUME NEW w \in [Pids -> [Ops -> OpStats]], NEW p, NEW k \in Pids, NEW o \in Ops,
         NEW x \in OpStats, NEW y \in OpStats
  PROVE  AddRow(AddRow(w, p, k, o, x), p, k, o, y) = AddRow(w, p, k, o, AddOps(x, y))
<1>1. CASE p
  <2>1. PICK s \in OpStats : s = w[k][o]
    OBVIOUS
  <2>2. AddOps(AddOps(s, x), y) = AddOps(s, AddOps(x, y))
    BY AddOpsSwap
  <2>3. PICK w1 : w1 = AddRow(w, p, k, o, x)
    OBVIOUS
  <2>4. w1 = [w EXCEPT ![k] = [w[k] EXCEPT ![o] = AddOps(s, x)]]
    BY <1>1, <2>1, <2>3 DEF AddRow
  <2>5. w1[k] = [w[k] EXCEPT ![o] = AddOps(s, x)] /\ w1[k][o] = AddOps(s, x)
    BY <2>4
  <2>6. AddRow(w1, p, k, o, y) = [w1 EXCEPT ![k] = [w1[k] EXCEPT ![o] = AddOps(AddOps(s, x), y)]]
    BY <1>1, <2>5 DEF AddRow
  <2>7. AddRow(w, p, k, o, AddOps(x, y)) = [w EXCEPT ![k] = [w[k] EXCEPT ![o] = AddOps(s, AddOps(x, y))]]
    BY <1>1, <2>1 DEF AddRow
  <2>8. PICK z, r : z = AddOps(s, AddOps(x, y)) /\ r = w[k]
    OBVIOUS
  <2>9. [w1[k] EXCEPT ![o] = z] = [r EXCEPT ![o] = z]
    BY <2>5, <2>8
  <2>10. [w1 EXCEPT ![k] = [r EXCEPT ![o] = z]] = [w EXCEPT ![k] = [r EXCEPT ![o] = z]]
    BY <2>4
  <2>. QED
    BY <2>2, <2>3, <2>6, <2>7, <2>8, <2>9, <2>10
<1>2. CASE ~p
  BY <1>2 DEF AddRow
<1>. QED
  BY <1>1, <1>2

\* Two additions to the rate tracker can be swapped.
LEMMA AddRateSwap ==
  ASSUME NEW t \in [Paths -> Counter], NEW p, NEW q, NEW k, NEW l,
         NEW x \in Counter, NEW y \in Counter
  PROVE  AddRate(AddRate(t, p, k, x), q, l, y) = AddRate(AddRate(t, q, l, y), p, k, x)
<1>1. CASE p /\ q /\ k = l /\ k \in Paths
  <2>1. PICK n \in Nat : n = t[k]
    BY <1>1, CounterSums
  <2>2. SaturatingAdd(SaturatingAdd(n, x), y) = SaturatingAdd(SaturatingAdd(n, y), x)
    BY CounterSums, SaturatingSwap
  <2>. QED
    BY <1>1, <2>1, <2>2 DEF AddRate
<1>2. CASE p /\ q /\ k # l /\ k \in Paths /\ l \in Paths
  BY <1>2 DEF AddRate
<1>3. CASE ~p \/ ~q
  BY <1>3 DEF AddRate
<1>4. CASE p /\ q /\ (k \notin Paths \/ l \notin Paths)
  BY <1>4 DEF AddRate
<1>. QED
  BY <1>1, <1>2, <1>3, <1>4

\* Two additions of one path's bytes are one addition of the sum.
LEMMA AddRateMerge ==
  ASSUME NEW t \in [Paths -> Counter], NEW p, NEW k, NEW x \in Counter, NEW y \in Counter
  PROVE  AddRate(AddRate(t, p, k, x), p, k, y) = AddRate(t, p, k, SaturatingAdd(x, y))
<1>1. CASE p /\ k \in Paths
  <2>1. PICK n \in Nat : n = t[k]
    BY <1>1, CounterSums
  <2>2. SaturatingAdd(SaturatingAdd(n, x), y) = SaturatingAdd(n, SaturatingAdd(x, y))
    BY CounterSums, SaturatingSwap
  <2>. QED
    BY <1>1, <2>1, <2>2 DEF AddRate
<1>2. CASE ~p
  BY <1>2 DEF AddRate
<1>3. CASE p /\ k \notin Paths
  BY <1>3 DEF AddRate
<1>. QED
  BY <1>1, <1>2, <1>3

\* Two increments of a counter can be swapped, or merged.
LEMMA UpSwap ==
  ASSUME NEW n \in Nat, NEW p, NEW q, NEW x \in Nat, NEW y \in Nat
  PROVE  /\ Up(Up(n, p, x), q, y) = Up(Up(n, q, y), p, x)
         /\ Up(Up(n, p, x), p, y) = Up(n, p, SaturatingAdd(x, y))
BY SaturatingSwap DEF Up

\* Two resolutions can be remembered in either order.
LEMMA PutSwap ==
  ASSUME NEW c, NEW d, NEW e, NEW r, NEW s, d = e => r = s
  PROVE  Put(Put(c, d, r), e, s) = Put(Put(c, e, s), d, r)
<1>1. CASE r = Ignored \/ s = Ignored
  BY <1>1 DEF Put
<1>2. CASE r # Ignored /\ s # Ignored
  <2>1. Put(c, d, r) = [x \in DOMAIN c \cup {d} |-> IF x = d THEN r ELSE c[x]]
    BY <1>2 DEF Put
  <2>2. Put(c, e, s) = [x \in DOMAIN c \cup {e} |-> IF x = e THEN s ELSE c[x]]
    BY <1>2 DEF Put
  <2>3. PICK a, b : a = Put(c, d, r) /\ b = Put(c, e, s)
    OBVIOUS
  <2>4. Put(a, e, s) = [x \in DOMAIN a \cup {e} |-> IF x = e THEN s ELSE a[x]]
    BY <1>2 DEF Put
  <2>5. Put(b, d, r) = [x \in DOMAIN b \cup {d} |-> IF x = d THEN r ELSE b[x]]
    BY <1>2 DEF Put
  <2>6. DOMAIN a \cup {e} = DOMAIN b \cup {d}
    BY <2>1, <2>2, <2>3
  <2>7. ASSUME NEW x \in DOMAIN a \cup {e}
        PROVE  (IF x = e THEN s ELSE a[x]) = (IF x = d THEN r ELSE b[x])
    BY <2>1, <2>2, <2>3
  <2>. QED
    BY <2>3, <2>4, <2>5, <2>6, <2>7
<1>. QED
  BY <1>1, <1>2

\* A resolution is remembered once.
LEMMA PutTwice == ASSUME NEW c, NEW d, NEW r PROVE Put(Put(c, d, r), d, r) = Put(c, d, r)
BY DEF Put

--------------------------------------------------------------------------------
\* Groups commute, and groups of one key add up.

\* A lookup changes nothing of what a descriptor resolves to.
LEMMA ResolvedStays ==
  ASSUME NEW a \in AppStates, NEW b \in AppStates, NEW v \in ProcViews,
         NEW d \in Descriptors, NEW e \in Descriptors,
         b.fdCache = Put(a.fdCache, e, Resolved(a, v, e))
  PROVE  /\ Resolved(b, v, d) = Resolved(a, v, d)
         /\ Fails(b, v, d) <=> Fails(a, v, d) /\ d # e
<1>1. PICK c \in Caches, r \in Resolutions : c = a.fdCache /\ r = Resolved(a, v, e)
  BY Parts, ResolvedType
<1>2. b.fdCache = Put(c, e, r)
  BY <1>1
<1>3. /\ e \in DOMAIN c => r = c[e] /\ r # Ignored
      /\ e \notin DOMAIN c => r = v[e]
  BY <1>1, ResolvedType
<1>4. CASE r = Ignored
  <2>1. b.fdCache = c
    BY <1>2, <1>4 DEF Put
  <2>2. v[e] = Ignored
    BY <1>3, <1>4
  <2>. QED
    BY <1>1, <2>1, <2>2, AppStateAssumption DEF Resolved, Fails
<1>5. CASE r # Ignored
  <2>1. /\ DOMAIN Put(c, e, r) = DOMAIN c \cup {e} /\ Put(c, e, r)[e] = r
        /\ \A x \in DOMAIN c \ {e} : Put(c, e, r)[x] = c[x]
    BY <1>5 DEF Put
  <2>2. Resolved(b, v, d) = Resolved(a, v, d)
    BY <1>1, <1>2, <1>3, <2>1 DEF Resolved
  <2>3. Fails(b, v, d) <=> Fails(a, v, d) /\ d # e
    BY <1>1, <1>2, <2>1 DEF Fails
  <2>. QED
    BY <2>2, <2>3
<1>. QED
  BY <1>4, <1>5

\* z is b with g recorded, where the descriptor of g is d and resolves to r.
Recorded(b, z, g, d, r, fails) ==
  /\ z.fdCache = Put(b.fdCache, d, r)
  /\ z.totals = AddAt(b.totals, Tracked(r), <<r, g.op>>, g.stats)
  /\ z.shares = AddAt(b.shares, Tracked(r), <<g.pid, r, g.op>>, g.stats)
  /\ z.rows = AddRow(b.rows, Tracked(r), g.pid, g.op, g.stats)
  /\ z.rated = AddRate(b.rated, Tracked(r), r, g.stats.bytes)
  /\ z.failures = Up(b.failures, fails, 1)
  /\ z.ignored = Up(b.ignored, r = Ignored, g.stats.ops)
  /\ z.failed = b.failed /\ z.empty = b.empty

\* The parts of an account after a group was recorded.
LEMMA RecordedParts ==
  ASSUME NEW a \in AppStates, NEW v \in ProcViews, NEW g \in Pending,
         NEW b, b = RecordGroup(a, v, g),
         NEW d \in Descriptors, d = <<g.pid, g.fd>>, NEW r \in Resolutions, r = Resolved(a, v, d)
  PROVE  /\ b \in AppStates
         /\ Recorded(a, b, g, d, r, Fails(a, v, d))
<1>1. b = RecordedForm(a, v, g) /\ b \in AppStates
  BY RecordGroupForm, RecordedType
<1>2. b = Form(Put(a.fdCache, d, r),
           AddAt(a.totals, Tracked(r), <<r, g.op>>, g.stats),
           AddAt(a.shares, Tracked(r), <<g.pid, r, g.op>>, g.stats),
           AddRow(a.rows, Tracked(r), g.pid, g.op, g.stats),
           AddRate(a.rated, Tracked(r), r, g.stats.bytes),
           Up(a.failures, Fails(a, v, d), 1),
           Up(a.ignored, r = Ignored, g.stats.ops),
           a.failed, a.empty)
  BY <1>1 DEF RecordedForm
<1>. QED
  BY <1>1, <1>2 DEF Recorded, Form

\* States are equal whose parts are.
LEMMA SameParts ==
  ASSUME NEW a \in AppStates, NEW b \in AppStates,
         a.fdCache = b.fdCache, a.totals = b.totals, a.shares = b.shares, a.rows = b.rows,
         a.rated = b.rated, a.failures = b.failures, a.ignored = b.ignored,
         a.failed = b.failed, a.empty = b.empty
  PROVE  a = b
BY Parts

\* Groups are recorded with the same outcome in either order.
LEMMA RecordSwap ==
  ASSUME NEW a \in AppStates, NEW v \in ProcViews, NEW g \in Pending, NEW h \in Pending
  PROVE  RecordGroup(RecordGroup(a, v, g), v, h) = RecordGroup(RecordGroup(a, v, h), v, g)
<1>1. PICK d \in Descriptors, e \in Descriptors : d = <<g.pid, g.fd>> /\ e = <<h.pid, h.fd>>
  BY PendingParts
<1>2. PICK r \in Resolutions, s \in Resolutions : r = Resolved(a, v, d) /\ s = Resolved(a, v, e)
  BY ResolvedType
<1>3. PICK b, c, x, y : /\ b = RecordGroup(a, v, g) /\ c = RecordGroup(a, v, h)
                        /\ x = RecordGroup(b, v, h) /\ y = RecordGroup(c, v, g)
  OBVIOUS
<1>4. /\ b \in AppStates
      /\ Recorded(a, b, g, d, r, Fails(a, v, d))
  BY <1>1, <1>2, <1>3, RecordedParts
<1>5. /\ c \in AppStates
      /\ Recorded(a, c, h, e, s, Fails(a, v, e))
  BY <1>1, <1>2, <1>3, RecordedParts
<1>6. /\ s = Resolved(b, v, e) /\ (Fails(b, v, e) <=> Fails(a, v, e) /\ e # d)
      /\ r = Resolved(c, v, d) /\ (Fails(c, v, d) <=> Fails(a, v, d) /\ d # e)
  BY <1>2, <1>4, <1>5, ResolvedStays DEF Recorded
<1>7. /\ x \in AppStates
      /\ Recorded(b, x, h, e, s, Fails(b, v, e))
  BY <1>1, <1>3, <1>4, <1>6, RecordedParts
<1>8. /\ y \in AppStates
      /\ Recorded(c, y, g, d, r, Fails(c, v, d))
  BY <1>1, <1>3, <1>5, <1>6, RecordedParts
<1>9. PICK p, q : p = Tracked(r) /\ q = Tracked(s)
  OBVIOUS
<1>10. (p => r \in Paths) /\ (q => s \in Paths) /\ (d = e => r = s)
  BY <1>2, <1>9 DEF Tracked, Resolutions
<1>11. x.fdCache = y.fdCache
  <2>1. Put(Put(a.fdCache, d, r), e, s) = Put(Put(a.fdCache, e, s), d, r)
    BY <1>10, PutSwap
  <2>. QED
    BY <1>4, <1>5, <1>7, <1>8, <2>1 DEF Recorded
<1>12. x.totals = y.totals
  <2>1. PICK K, t, k, l : /\ K = Paths \X Ops /\ t \in [K -> OpStats] /\ t = a.totals /\ k = <<r, g.op>>
                          /\ l = <<s, h.op>>
    BY Parts
  <2>2. (p => k \in K) /\ (q => l \in K)
    BY <1>10, <2>1, PendingParts
  <2>3. AddAt(AddAt(t, p, k, g.stats), q, l, h.stats) = AddAt(AddAt(t, q, l, h.stats), p, k, g.stats)
    <3>1. CASE p /\ q
      <4>1. PICK m, n \in OpStats : m = g.stats /\ n = h.stats
        BY PendingParts
      <4>2. AddAt(AddAt(t, p, k, m), q, l, n) = AddAt(AddAt(t, q, l, n), p, k, m)
        <5>1. t \in [K -> OpStats] /\ k \in K /\ l \in K
          BY <2>1, <2>2, <3>1
        <5>. QED
          BY <5>1, AddAtSwap
      <4>. QED
        BY <4>1, <4>2
    <3>2. CASE ~p \/ ~q
      BY <3>2 DEF AddAt
    <3>. QED
      BY <3>1, <3>2
  <2>. QED
    BY <1>4, <1>5, <1>7, <1>8, <1>9, <2>1, <2>3 DEF Recorded
<1>13. x.shares = y.shares
  <2>1. PICK K, t, k, l : /\ K = Pids \X Paths \X Ops /\ t \in [K -> OpStats] /\ t = a.shares
                          /\ k = <<g.pid, r, g.op>> /\ l = <<h.pid, s, h.op>>
    BY Parts
  <2>2. (p => k \in K) /\ (q => l \in K)
    BY <1>10, <2>1, PendingParts
  <2>3. AddAt(AddAt(t, p, k, g.stats), q, l, h.stats) = AddAt(AddAt(t, q, l, h.stats), p, k, g.stats)
    <3>1. CASE p /\ q
      <4>1. PICK m, n \in OpStats : m = g.stats /\ n = h.stats
        BY PendingParts
      <4>2. AddAt(AddAt(t, p, k, m), q, l, n) = AddAt(AddAt(t, q, l, n), p, k, m)
        <5>1. t \in [K -> OpStats] /\ k \in K /\ l \in K
          BY <2>1, <2>2, <3>1
        <5>. QED
          BY <5>1, AddAtSwap
      <4>. QED
        BY <4>1, <4>2
    <3>2. CASE ~p \/ ~q
      BY <3>2 DEF AddAt
    <3>. QED
      BY <3>1, <3>2
  <2>. QED
    BY <1>4, <1>5, <1>7, <1>8, <1>9, <2>1, <2>3 DEF Recorded
<1>14. x.rows = y.rows
  <2>1. PICK t \in [Pids -> [Ops -> OpStats]] : t = a.rows
    BY Parts
  <2>2. AddRow(AddRow(t, p, g.pid, g.op, g.stats), q, h.pid, h.op, h.stats) =
          AddRow(AddRow(t, q, h.pid, h.op, h.stats), p, g.pid, g.op, g.stats)
    <3>1. PICK m, n \in OpStats, i, j \in Pids, o, u \in Ops :
            m = g.stats /\ n = h.stats /\ i = g.pid /\ j = h.pid /\ o = g.op /\ u = h.op
      BY PendingParts
    <3>2. AddRow(AddRow(t, p, i, o, m), q, j, u, n) = AddRow(AddRow(t, q, j, u, n), p, i, o, m)
      BY AddRowSwap
    <3>. QED
      BY <3>1, <3>2
  <2>. QED
    BY <1>4, <1>5, <1>7, <1>8, <1>9, <2>1, <2>2 DEF Recorded
<1>15. x.rated = y.rated
  <2>1. PICK t \in [Paths -> Counter], m, n \in Counter : t = a.rated /\ m = g.stats.bytes /\ n = h.stats.bytes
    BY Parts, PendingParts
  <2>2. AddRate(AddRate(t, p, r, m), q, s, n) = AddRate(AddRate(t, q, s, n), p, r, m)
    BY AddRateSwap
  <2>. QED
    BY <1>4, <1>5, <1>7, <1>8, <1>9, <2>1, <2>2 DEF Recorded
<1>16. x.failures = y.failures
  <2>0. PICK j, k : j = Fails(a, v, d) /\ k = Fails(a, v, e)
    OBVIOUS
  <2>1. PICK n \in Nat : n = a.failures /\ j = Fails(a, v, d) /\ k = Fails(a, v, e)
    BY <2>0, Parts, CounterSums
  <2>2. CASE d = e
    BY <1>4, <1>5, <1>6, <1>7, <1>8, <2>2 DEF Up, Recorded
  <2>3. CASE d # e
    <3>1. x.failures = Up(Up(n, j, 1), k, 1) /\ y.failures = Up(Up(n, k, 1), j, 1)
      BY <1>4, <1>5, <1>6, <1>7, <1>8, <2>1, <2>3 DEF Up, Recorded
    <3>. QED
      BY <3>1, UpSwap
  <2>. QED
    BY <2>2, <2>3
<1>17. x.ignored = y.ignored
  <2>0. PICK j, k : j = (r = Ignored) /\ k = (s = Ignored)
    OBVIOUS
  <2>1. PICK n \in Nat, m \in Nat, o \in Nat :
          /\ n = a.ignored /\ j = (r = Ignored) /\ k = (s = Ignored) /\ m = g.stats.ops /\ o = h.stats.ops
    BY <2>0, Parts, PendingParts, CounterSums
  <2>2. Up(Up(n, j, m), k, o) = Up(Up(n, k, o), j, m)
    BY UpSwap
  <2>. QED
    BY <1>4, <1>5, <1>7, <1>8, <2>1, <2>2 DEF Recorded
<1>18. x.failed = y.failed /\ x.empty = y.empty
  BY <1>4, <1>5, <1>7, <1>8 DEF Recorded
<1>19. x = y
  BY <1>7, <1>8, <1>11, <1>12, <1>13, <1>14, <1>15, <1>16, <1>17, <1>18, SameParts
<1>. QED
  BY <1>3, <1>19

\* Two groups of one key, combined, are a group.
LEMMA MergedGroup ==
  ASSUME NEW g \in Pending, NEW h \in Pending
  PROVE  [g EXCEPT !.stats = AddOps(g.stats, h.stats)] \in Pending
<1>1. PICK m, n \in OpStats : m = g.stats /\ n = h.stats
  BY PendingParts
<1>2. AddOps(m, n) \in OpStats
  BY AddOpsType
<1>3. PICK k : k = AddOps(m, n)
  OBVIOUS
<1>4. k \in OpStats /\ k.ops >= 1
  <2>1. PICK i, j \in Nat : i = m.ops /\ j = n.ops /\ i >= 1
    BY <1>1, PendingParts, CounterSums
  <2>2. SaturatingAdd(i, j) >= 1
    BY <2>1, CounterMaxAssumption DEF SaturatingAdd
  <2>. QED
    BY <1>2, <1>3, <2>1, <2>2 DEF AddOps
<1>. QED
  BY <1>1, <1>3, <1>4 DEF Pending, Groups

\* Combining two groups of one key and recording the sum is recording both: no
\* byte, operation, latency, failure or ignored event is gained or lost.
LEMMA RecordMerge ==
  ASSUME NEW a \in AppStates, NEW v \in ProcViews, NEW g \in Pending, NEW h \in Pending,
         g.pid = h.pid, g.fd = h.fd, g.op = h.op,
         NEW m, m = [g EXCEPT !.stats = AddOps(g.stats, h.stats)]
  PROVE  RecordGroup(RecordGroup(a, v, g), v, h) = RecordGroup(a, v, m)
<1>1. PICK d \in Descriptors, r \in Resolutions :
        /\ d = <<g.pid, g.fd>> /\ d = <<h.pid, h.fd>> /\ r = Resolved(a, v, d)
  BY PendingParts, ResolvedType
<1>2. /\ m \in Pending /\ d = <<m.pid, m.fd>> /\ m.pid = g.pid /\ m.op = g.op
      /\ m.stats = AddOps(g.stats, h.stats)
  <2>1. m \in Pending
    BY MergedGroup
  <2>. QED
    BY <1>1, <2>1 DEF Pending, Groups
<1>3. PICK b, x, y : b = RecordGroup(a, v, g) /\ x = RecordGroup(b, v, h) /\ y = RecordGroup(a, v, m)
  OBVIOUS
<1>4. /\ b \in AppStates
      /\ Recorded(a, b, g, d, r, Fails(a, v, d))
  BY <1>1, <1>3, RecordedParts
<1>5. r = Resolved(b, v, d) /\ ~Fails(b, v, d)
  BY <1>1, <1>4, ResolvedStays DEF Recorded
<1>6. /\ x \in AppStates
      /\ Recorded(b, x, h, d, r, Fails(b, v, d))
  BY <1>1, <1>3, <1>4, <1>5, RecordedParts
<1>7. /\ y \in AppStates
      /\ Recorded(a, y, m, d, r, Fails(a, v, d))
  <2>1. PICK k \in Pending : k = m
    BY <1>2
  <2>2. d = <<k.pid, k.fd>> /\ y = RecordGroup(a, v, k)
    BY <1>2, <1>3, <2>1
  <2>3. /\ y \in AppStates
      /\ Recorded(a, y, k, d, r, Fails(a, v, d))
    BY <1>1, <2>2, RecordedParts
  <2>. QED
    BY <2>1, <2>3
<1>8. PICK p, i, j, u, o : /\ p = Tracked(r) /\ i = g.stats /\ j = h.stats /\ u = g.pid /\ o = g.op
                          /\ i \in OpStats /\ j \in OpStats /\ u \in Pids /\ o \in Ops
                          /\ u = h.pid /\ o = h.op
  BY PendingParts
<1>9. p => r \in Paths
  BY <1>8 DEF Tracked, Resolutions
<1>10. x.fdCache = y.fdCache
  BY <1>4, <1>6, <1>7, PutTwice DEF Recorded
<1>11. x.totals = y.totals
  <2>1. PICK K, t, k : K = Paths \X Ops /\ t \in [K -> OpStats] /\ t = a.totals /\ k = <<r, o>>
    BY Parts
  <2>2. t \in [K -> OpStats] /\ (p => k \in K)
    BY <1>8, <1>9, <2>1 DEF Recorded
  <2>3. AddAt(AddAt(t, p, k, i), p, k, j) = AddAt(t, p, k, AddOps(i, j))
    BY <1>8, <2>2, AddAtMerge DEF Recorded
  <2>. QED
    BY <1>2, <1>4, <1>6, <1>7, <1>8, <2>1, <2>3 DEF Recorded
<1>12. x.shares = y.shares
  <2>1. PICK K, t, k : K = Pids \X Paths \X Ops /\ t \in [K -> OpStats] /\ t = a.shares /\ k = <<u, r, o>>
    BY Parts
  <2>2. t \in [K -> OpStats] /\ (p => k \in K)
    BY <1>8, <1>9, <2>1 DEF Recorded
  <2>3. AddAt(AddAt(t, p, k, i), p, k, j) = AddAt(t, p, k, AddOps(i, j))
    BY <1>8, <2>2, AddAtMerge DEF Recorded
  <2>. QED
    BY <1>2, <1>4, <1>6, <1>7, <1>8, <2>1, <2>3 DEF Recorded
<1>13. x.rows = y.rows
  <2>1. PICK t \in [Pids -> [Ops -> OpStats]] : t = a.rows
    BY Parts
  <2>2. AddRow(AddRow(t, p, u, o, i), p, u, o, j) = AddRow(t, p, u, o, AddOps(i, j))
    BY <1>8, AddRowMerge DEF Recorded
  <2>. QED
    BY <1>2, <1>4, <1>6, <1>7, <1>8, <2>1, <2>2 DEF Recorded
<1>14. x.rated = y.rated
  <2>1. PICK t \in [Paths -> Counter], k, n \in Counter : t = a.rated /\ k = i.bytes /\ n = j.bytes
    BY <1>8, Parts, PendingParts DEF Recorded
  <2>2. AddRate(AddRate(t, p, r, k), p, r, n) = AddRate(t, p, r, SaturatingAdd(k, n))
    BY AddRateMerge
  <2>3. m.stats.bytes = SaturatingAdd(k, n)
    BY <1>2, <1>8, <2>1 DEF AddOps
  <2>. QED
    BY <1>4, <1>6, <1>7, <1>8, <2>1, <2>2, <2>3 DEF Recorded
<1>15. x.failures = y.failures
  BY <1>4, <1>5, <1>6, <1>7 DEF Up, Recorded
<1>16. x.ignored = y.ignored
  <2>1. PICK n \in Nat, k \in Nat, l \in Nat : n = a.ignored /\ k = i.ops /\ l = j.ops
    BY <1>8, Parts, PendingParts, CounterSums DEF Recorded
  <2>2. m.stats.ops = SaturatingAdd(k, l)
    BY <1>2, <1>8, <2>1 DEF AddOps
  <2>3. SaturatingAdd(SaturatingAdd(n, k), l) = SaturatingAdd(n, SaturatingAdd(k, l))
    BY SaturatingSwap
  <2>. QED
    BY <1>4, <1>6, <1>7, <1>8, <2>1, <2>2, <2>3 DEF Up, Recorded
<1>17. x.failed = y.failed /\ x.empty = y.empty
  BY <1>4, <1>6, <1>7 DEF Recorded
<1>18. x = y
  BY <1>6, <1>7, <1>10, <1>11, <1>12, <1>13, <1>14, <1>15, <1>16, <1>17, SameParts
<1>. QED
  BY <1>3, <1>18

--------------------------------------------------------------------------------
\* What happens to other descriptors, and what is only counted, commutes with the
\* recording of a group.

\* An account with a group recorded is an account.
LEMMA RecordedState ==
  ASSUME NEW a \in AppStates, NEW v \in ProcViews, NEW g \in Pending
  PROVE  RecordGroup(a, v, g) \in AppStates
BY RecordGroupForm, RecordedType

\* d is known alike, or unknown alike.
SameAt(a, b, d) ==
  /\ d \in DOMAIN a.fdCache <=> d \in DOMAIN b.fdCache
  /\ d \in DOMAIN b.fdCache => a.fdCache[d] = b.fdCache[d]

\* An account b that differs from a in parts that g does not meet still differs
\* in them alone after g is recorded in both.
LEMMA Carried ==
  ASSUME NEW a \in AppStates, NEW b \in AppStates, NEW z \in AppStates, NEW v \in ProcViews, NEW g \in Pending,
         NEW c, c = RecordGroup(a, v, g), SameAt(a, b, Desc(g)),
         \A r \in Resolutions, f \in BOOLEAN : Recorded(a, c, g, Desc(g), r, f) => Recorded(b, z, g, Desc(g), r, f)
  PROVE  z = RecordGroup(b, v, g)
<1>1. PICK d \in Descriptors, r \in Resolutions : d = <<g.pid, g.fd>> /\ d = Desc(g) /\ r = Resolved(a, v, d)
  BY PendingParts, ResolvedType DEF Desc
<1>2. PICK f \in BOOLEAN : f = Fails(a, v, d)
  BY DEF Fails
<1>3. r = Resolved(b, v, d) /\ f = Fails(b, v, d)
  BY <1>1, <1>2 DEF SameAt, Resolved, Fails
<1>4. Recorded(a, c, g, d, r, f)
  BY <1>1, <1>2, RecordedParts
<1>5. Recorded(b, z, g, d, r, f)
  BY <1>1, <1>4
<1>6. PICK y : y = RecordGroup(b, v, g)
  OBVIOUS
<1>7. y \in AppStates /\ Recorded(b, y, g, d, r, f)
  BY <1>1, <1>3, <1>6, RecordedParts
<1>8. y = z
  BY <1>5, <1>7, SameParts DEF Recorded
<1>. QED
  BY <1>6, <1>8

\* The event counters keep their types.
LEMMA FailureType ==
  ASSUME NEW a \in AppStates
  PROVE  /\ CountFailure(a) \in AppStates
         /\ \A n \in Nat : CountIgnored(a, n) \in AppStates
         /\ \A n : CountOutcome(a, n) \in AppStates
<1>1. /\ a.failures \in Counter /\ a.ignored \in Counter /\ a.failed \in Counter /\ a.empty \in Counter
  BY Parts
<1>2. SaturatingAdd(a.failures, 1) \in Counter /\ SaturatingAdd(a.failed, 1) \in Counter
      /\ SaturatingAdd(a.empty, 1) \in Counter /\ \A n \in Nat : SaturatingAdd(a.ignored, n) \in Counter
  BY <1>1, CounterSums
<1>3. CountFailure(a) \in AppStates
  BY <1>2 DEF CountFailure, AppStates
<1>4. \A n \in Nat : CountIgnored(a, n) \in AppStates
  BY <1>2 DEF CountIgnored, AppStates
<1>5. [a EXCEPT !.failed = SaturatingAdd(@, 1)] \in AppStates
      /\ [a EXCEPT !.empty = SaturatingAdd(@, 1)] \in AppStates
  BY <1>2 DEF AppStates
<1>. QED
  BY <1>3, <1>4, <1>5 DEF CountOutcome

\* CountOutcome changes failed_io_events and zero_byte_io_events only.
LEMMA OutcomeParts ==
  ASSUME NEW a \in AppStates, NEW n
  PROVE  LET b == CountOutcome(a, n)
         IN  /\ b.fdCache = a.fdCache /\ b.totals = a.totals /\ b.shares = a.shares /\ b.rows = a.rows
             /\ b.rated = a.rated /\ b.failures = a.failures /\ b.ignored = a.ignored
             /\ b.failed = (IF n < 0 THEN SaturatingAdd(a.failed, 1) ELSE a.failed)
             /\ b.empty = (IF ~(n < 0) /\ n = 0 THEN SaturatingAdd(a.empty, 1) ELSE a.empty)
BY DEF CountOutcome, AppStates

\* Counting an outcome can be done before a pending group is recorded, or after.
LEMMA OutcomeCarried ==
  ASSUME NEW a \in AppStates, NEW v \in ProcViews, NEW g \in Pending, NEW n
  PROVE  CountOutcome(RecordGroup(a, v, g), n) = RecordGroup(CountOutcome(a, n), v, g)
<1>1. PICK b, c, z : b = CountOutcome(a, n) /\ c = RecordGroup(a, v, g) /\ z = CountOutcome(c, n)
  OBVIOUS
<1>2. b \in AppStates /\ c \in AppStates /\ z \in AppStates
  BY <1>1, RecordedState, FailureType
<1>3. SameAt(a, b, Desc(g))
  BY <1>1, OutcomeParts DEF SameAt
<1>4. ASSUME NEW r \in Resolutions, NEW f \in BOOLEAN, Recorded(a, c, g, Desc(g), r, f)
      PROVE  Recorded(b, z, g, Desc(g), r, f)
  BY <1>1, <1>2, <1>4, OutcomeParts DEF Recorded
<1>. QED
  BY <1>1, <1>2, <1>3, <1>4, Carried

\* So can counting a failed attribution,
LEMMA FailureCarried ==
  ASSUME NEW a \in AppStates, NEW v \in ProcViews, NEW g \in Pending
  PROVE  CountFailure(RecordGroup(a, v, g)) = RecordGroup(CountFailure(a), v, g)
<1>1. PICK b, c, z : b = CountFailure(a) /\ c = RecordGroup(a, v, g) /\ z = CountFailure(c)
  OBVIOUS
<1>2. b \in AppStates /\ c \in AppStates /\ z \in AppStates
  BY <1>1, RecordedState, FailureType
<1>3. /\ b = Form(a.fdCache, a.totals, a.shares, a.rows, a.rated,
                  SaturatingAdd(a.failures, 1), a.ignored, a.failed, a.empty)
      /\ z = Form(c.fdCache, c.totals, c.shares, c.rows, c.rated,
                  SaturatingAdd(c.failures, 1), c.ignored, c.failed, c.empty)
  BY <1>1, <1>2, FailureForm
<1>4. SameAt(a, b, Desc(g))
  BY <1>3 DEF SameAt, Form
<1>5. ASSUME NEW r \in Resolutions, NEW f \in BOOLEAN, Recorded(a, c, g, Desc(g), r, f)
      PROVE  Recorded(b, z, g, Desc(g), r, f)
  <2>1. PICK n \in Nat : n = a.failures
    BY Parts, CounterSums
  <2>2. Up(Up(n, f, 1), TRUE, 1) = Up(Up(n, TRUE, 1), f, 1)
    BY SaturatingSwap DEF Up
  <2>3. z.failures = Up(b.failures, f, 1)
    BY <1>3, <1>5, <2>1, <2>2 DEF Recorded, Up, Form
  <2>. QED
    BY <1>3, <1>5, <2>3 DEF Recorded, Form
<1>. QED
  BY <1>1, <1>2, <1>4, <1>5, Carried

\* or ignored events,
LEMMA IgnoredCarried ==
  ASSUME NEW a \in AppStates, NEW v \in ProcViews, NEW g \in Pending, NEW k \in Nat
  PROVE  CountIgnored(RecordGroup(a, v, g), k) = RecordGroup(CountIgnored(a, k), v, g)
<1>1. PICK b, c, z : b = CountIgnored(a, k) /\ c = RecordGroup(a, v, g) /\ z = CountIgnored(c, k)
  OBVIOUS
<1>2. b \in AppStates /\ c \in AppStates /\ z \in AppStates
  BY <1>1, RecordedState, FailureType
<1>3. /\ b = Form(a.fdCache, a.totals, a.shares, a.rows, a.rated, a.failures,
                  SaturatingAdd(a.ignored, k), a.failed, a.empty)
      /\ z = Form(c.fdCache, c.totals, c.shares, c.rows, c.rated, c.failures,
                  SaturatingAdd(c.ignored, k), c.failed, c.empty)
  BY <1>1, <1>2, IgnoredForm
<1>4. SameAt(a, b, Desc(g))
  BY <1>3 DEF SameAt, Form
<1>5. ASSUME NEW r \in Resolutions, NEW f \in BOOLEAN, Recorded(a, c, g, Desc(g), r, f)
      PROVE  Recorded(b, z, g, Desc(g), r, f)
  <2>1. PICK n \in Nat, o \in Nat : n = a.ignored /\ o = g.stats.ops
    BY Parts, PendingParts, CounterSums
  <2>2. SaturatingAdd(Up(n, r = Ignored, o), k) = Up(SaturatingAdd(n, k), r = Ignored, o)
    BY SaturatingSwap DEF Up
  <2>3. z.ignored = Up(b.ignored, r = Ignored, g.stats.ops)
    BY <1>3, <1>5, <2>1, <2>2 DEF Recorded, Form
  <2>. QED
    BY <1>3, <1>5, <2>3 DEF Recorded, Form
<1>. QED
  BY <1>1, <1>2, <1>4, <1>5, Carried

\* The type of the cache after FdPathCache::store.
LEMMA StoreType ==
  ASSUME NEW a \in AppStates, NEW pid, NEW fd, <<pid, fd>> \in Descriptors, NEW path \in Paths
  PROVE  Store(a, pid, fd, path) \in AppStates
<1>1. PICK d \in Descriptors, c \in Caches : d = <<pid, fd>> /\ c = a.fdCache
  BY Parts
<1>2. path # Ignored /\ path \in Resolutions
  BY AppStateAssumption DEF Resolutions
<1>3. PICK k : k = Put(c, d, path)
  OBVIOUS
<1>4. k \in Caches
  BY <1>2, <1>3, PutType
<1>5. Store(a, pid, fd, path) = [a EXCEPT !.fdCache = k]
  BY <1>1, <1>2, <1>3 DEF Store, Put
<1>. QED
  BY <1>4, <1>5 DEF AppStates

\* or remembering another descriptor,
LEMMA StoreCarried ==
  ASSUME NEW a \in AppStates, NEW v \in ProcViews, NEW g \in Pending,
         NEW pid, NEW fd, <<pid, fd>> \in Descriptors, NEW path \in Paths, <<pid, fd>> # Desc(g)
  PROVE  Store(RecordGroup(a, v, g), pid, fd, path) = RecordGroup(Store(a, pid, fd, path), v, g)
<1>1. PICK b, c, z : b = Store(a, pid, fd, path) /\ c = RecordGroup(a, v, g) /\ z = Store(c, pid, fd, path)
  OBVIOUS
<1>2. b \in AppStates /\ c \in AppStates /\ z \in AppStates
  BY <1>1, RecordedState, StoreType
<1>3. PICK e : e = <<pid, fd>>
  OBVIOUS
<1>4. path # Ignored
  BY AppStateAssumption
<1>5. /\ b = Form(Put(a.fdCache, e, path), a.totals, a.shares, a.rows, a.rated,
                  a.failures, a.ignored, a.failed, a.empty)
      /\ z = Form(Put(c.fdCache, e, path), c.totals, c.shares, c.rows, c.rated,
                  c.failures, c.ignored, c.failed, c.empty)
  BY <1>1, <1>2, <1>3, <1>4, StoreForm
<1>6. SameAt(a, b, Desc(g))
  <2>1. b.fdCache = Put(a.fdCache, e, path)
    BY <1>5 DEF Form
  <2>. QED
    BY <1>3, <1>4, <2>1 DEF SameAt, Put
<1>7. ASSUME NEW r \in Resolutions, NEW f \in BOOLEAN, Recorded(a, c, g, Desc(g), r, f)
      PROVE  Recorded(b, z, g, Desc(g), r, f)
  <2>1. Put(Put(a.fdCache, Desc(g), r), e, path) = Put(Put(a.fdCache, e, path), Desc(g), r)
    BY <1>3, PutSwap
  <2>2. z.fdCache = Put(b.fdCache, Desc(g), r)
    BY <1>5, <1>7, <2>1 DEF Recorded, Form
  <2>. QED
    BY <1>5, <1>7, <2>2 DEF Recorded, Form
<1>. QED
  BY <1>1, <1>2, <1>6, <1>7, Carried

\* The type of an account that forgot descriptors.
LEMMA ForgetType ==
  ASSUME NEW a \in AppStates, NEW D
  PROVE  Forget(a, D) \in AppStates
<1>1. PICK c \in Caches : c = a.fdCache
  BY Parts
<1>2. PICK k : k = Restrict(c, DOMAIN c \ D)
  OBVIOUS
<1>3. k \in Caches
  BY <1>2 DEF Restrict, Caches
<1>4. Forget(a, D) = [a EXCEPT !.fdCache = k]
  BY <1>1, <1>2 DEF Forget
<1>. QED
  BY <1>3, <1>4 DEF AppStates

\* or forgetting other descriptors,
LEMMA ForgetCarried ==
  ASSUME NEW a \in AppStates, NEW v \in ProcViews, NEW g \in Pending, NEW D, Desc(g) \notin D
  PROVE  Forget(RecordGroup(a, v, g), D) = RecordGroup(Forget(a, D), v, g)
<1>1. PICK b, c, z : b = Forget(a, D) /\ c = RecordGroup(a, v, g) /\ z = Forget(c, D)
  OBVIOUS
<1>2. b \in AppStates /\ c \in AppStates /\ z \in AppStates
  BY <1>1, RecordedState, ForgetType
<1>3. PICK d : d = Desc(g)
  OBVIOUS
<1>5. /\ b = Form(Restrict(a.fdCache, DOMAIN a.fdCache \ D), a.totals, a.shares, a.rows, a.rated,
                  a.failures, a.ignored, a.failed, a.empty)
      /\ z = Form(Restrict(c.fdCache, DOMAIN c.fdCache \ D), c.totals, c.shares, c.rows, c.rated,
                  c.failures, c.ignored, c.failed, c.empty)
  BY <1>1, <1>2, ForgetForm
<1>6. SameAt(a, b, d)
  <2>1. b.fdCache = Restrict(a.fdCache, DOMAIN a.fdCache \ D)
    BY <1>5 DEF Form
  <2>. QED
    BY <1>3, <2>1 DEF SameAt, Restrict
<1>7. ASSUME NEW r \in Resolutions, NEW f \in BOOLEAN, Recorded(a, c, g, d, r, f)
      PROVE  Recorded(b, z, g, d, r, f)
  <2>1. PICK k, l : k = a.fdCache /\ l = Put(k, d, r)
    OBVIOUS
  <2>2. Restrict(l, DOMAIN l \ D) = Put(Restrict(k, DOMAIN k \ D), d, r)
    <3>1. CASE r = Ignored
      BY <2>1, <3>1 DEF Put
    <3>2. CASE r # Ignored
      <4>1. l = [x \in DOMAIN k \cup {d} |-> IF x = d THEN r ELSE k[x]]
        BY <2>1, <3>2 DEF Put
      <4>2. DOMAIN l \ D = (DOMAIN k \ D) \cup {d}
        BY <1>3, <4>1
      <4>3. PICK m : m = Restrict(k, DOMAIN k \ D)
        OBVIOUS
      <4>4. DOMAIN m = DOMAIN k \ D /\ \A x \in DOMAIN k \ D : m[x] = k[x]
        BY <4>3 DEF Restrict
      <4>5. Put(m, d, r) = [x \in (DOMAIN k \ D) \cup {d} |-> IF x = d THEN r ELSE m[x]]
        BY <3>2, <4>4 DEF Put
      <4>6. Restrict(l, DOMAIN l \ D) = [x \in (DOMAIN k \ D) \cup {d} |-> l[x]]
        BY <4>2 DEF Restrict
      <4>. QED
        BY <4>1, <4>3, <4>4, <4>5, <4>6
    <3>. QED
      BY <3>1, <3>2
  <2>3. z.fdCache = Put(b.fdCache, d, r)
    BY <1>5, <1>7, <2>1, <2>2 DEF Recorded, Form
  <2>. QED
    BY <1>5, <1>7, <2>3 DEF Recorded, Form
<1>. QED
  BY <1>1, <1>2, <1>3, <1>6, <1>7, Carried

\* The type of an account after RecordOp.
LEMMA RecordOpType ==
  ASSUME NEW a \in AppStates, NEW pid \in Pids, NEW path \in Paths, NEW op \in Ops, NEW delta \in OpStats
  PROVE  RecordOp(a, pid, path, op, delta) \in AppStates
<1>1. PICK t, s, w : /\ t = AddAt(a.totals, TRUE, <<path, op>>, delta)
                     /\ s = AddAt(a.shares, TRUE, <<pid, path, op>>, delta)
                     /\ w = AddRow(a.rows, TRUE, pid, op, delta)
  OBVIOUS
<1>2. RecordOp(a, pid, path, op, delta) =
        Form(a.fdCache, t, s, w, a.rated, a.failures, a.ignored, a.failed, a.empty)
  BY <1>1, RecordForm
<1>3. t \in [Paths \X Ops -> OpStats]
  BY <1>1, Parts, AddAtType
<1>4. s \in [Pids \X Paths \X Ops -> OpStats]
  BY <1>1, Parts, AddAtType
<1>5. w \in [Pids -> [Ops -> OpStats]]
  BY <1>1, Parts, AddRowType
<1>. QED
  BY <1>2, <1>3, <1>4, <1>5 DEF Form, AppStates

\* RecordOp's updates, once more as operators.
Raise(t, k, s) == [t EXCEPT ![k] = AddOps(t[k], s)]

RaiseRow(rows, pid, op, s) == [rows EXCEPT ![pid] = [rows[pid] EXCEPT ![op] = AddOps(rows[pid][op], s)]]

Key2(path, op) == <<path, op>>

Key3(pid, path, op) == <<pid, path, op>>

\* The parts of an account after RecordOp.
LEMMA RecordOpParts ==
  ASSUME NEW a \in AppStates, NEW pid \in Pids, NEW path \in Paths, NEW op \in Ops, NEW delta \in OpStats
  PROVE  LET b == RecordOp(a, pid, path, op, delta)
         IN  /\ b.fdCache = a.fdCache /\ b.totals = Raise(a.totals, Key2(path, op), delta)
             /\ b.shares = Raise(a.shares, Key3(pid, path, op), delta)
             /\ b.rows = RaiseRow(a.rows, pid, op, delta)
             /\ b.rated = a.rated /\ b.failures = a.failures /\ b.ignored = a.ignored
             /\ b.failed = a.failed /\ b.empty = a.empty
<1>1. PICK t, s, w : /\ t = Raise(a.totals, Key2(path, op), delta)
                     /\ s = Raise(a.shares, Key3(pid, path, op), delta)
                     /\ w = RaiseRow(a.rows, pid, op, delta)
  OBVIOUS
<1>2. /\ t = AddAt(a.totals, TRUE, <<path, op>>, delta)
      /\ s = AddAt(a.shares, TRUE, <<pid, path, op>>, delta)
      /\ w = AddRow(a.rows, TRUE, pid, op, delta)
  BY <1>1 DEF Raise, RaiseRow, Key2, Key3, AddAt, AddRow
<1>3. RecordOp(a, pid, path, op, delta) = Form(a.fdCache, t, s, w, a.rated,
                                               a.failures, a.ignored, a.failed, a.empty)
  BY <1>2, RecordForm
<1>. QED
  BY <1>1, <1>3 DEF Form

\* Additions to a table, conditional or not, can be swapped.
LEMMA RaiseBefore ==
  ASSUME NEW K, NEW t \in [K -> OpStats], NEW p, NEW m \in K, NEW k \in K,
         NEW x \in OpStats, NEW y \in OpStats
  PROVE  Raise(AddAt(t, p, m, x), k, y) = AddAt(Raise(t, k, y), p, m, x)
<1>1. PICK q : q = TRUE
  OBVIOUS
<1>2. AddAt(AddAt(t, p, m, x), q, k, y) = AddAt(AddAt(t, q, k, y), p, m, x)
  BY AddAtSwap
<1>3. \A s : AddAt(s, q, k, y) = Raise(s, k, y)
  BY <1>1 DEF AddAt, Raise
<1>. QED
  BY <1>2, <1>3

\* So can additions to the process table.
LEMMA RaiseRowBefore ==
  ASSUME NEW t \in [Pids -> [Ops -> OpStats]], NEW p, NEW u \in Pids, NEW o \in Ops,
         NEW pid \in Pids, NEW op \in Ops, NEW x \in OpStats, NEW y \in OpStats
  PROVE  RaiseRow(AddRow(t, p, u, o, x), pid, op, y) = AddRow(RaiseRow(t, pid, op, y), p, u, o, x)
<1>1. PICK q : q = TRUE
  OBVIOUS
<1>2. AddRow(AddRow(t, p, u, o, x), q, pid, op, y) = AddRow(AddRow(t, q, pid, op, y), p, u, o, x)
  BY AddRowSwap
<1>3. \A s : AddRow(s, q, pid, op, y) = RaiseRow(s, pid, op, y)
  BY <1>1 DEF AddRow, RaiseRow
<1>. QED
  BY <1>2, <1>3

\* Recording an open or a close can be done before a pending group is recorded,
\* or after,
LEMMA RecordOpCarried ==
  ASSUME NEW a \in AppStates, NEW v \in ProcViews, NEW g \in Pending,
         NEW pid \in Pids, NEW path \in Paths, NEW op \in Ops, NEW delta \in OpStats
  PROVE  RecordOp(RecordGroup(a, v, g), pid, path, op, delta) = RecordGroup(RecordOp(a, pid, path, op, delta), v, g)
<1>1. PICK b, c, z : /\ b = RecordOp(a, pid, path, op, delta) /\ c = RecordGroup(a, v, g)
                     /\ z = RecordOp(c, pid, path, op, delta)
  OBVIOUS
<1>2. b \in AppStates /\ c \in AppStates /\ z \in AppStates
  BY <1>1, RecordedState, RecordOpType
<1>3. PICK k, l : k = Key2(path, op) /\ l = Key3(pid, path, op)
  OBVIOUS
<1>4. /\ b.fdCache = a.fdCache /\ b.totals = Raise(a.totals, k, delta)
      /\ b.shares = Raise(a.shares, l, delta) /\ b.rows = RaiseRow(a.rows, pid, op, delta)
      /\ b.rated = a.rated /\ b.failures = a.failures /\ b.ignored = a.ignored
      /\ b.failed = a.failed /\ b.empty = a.empty
  BY <1>1, <1>3, RecordOpParts
<1>5. /\ z.fdCache = c.fdCache /\ z.totals = Raise(c.totals, k, delta)
      /\ z.shares = Raise(c.shares, l, delta) /\ z.rows = RaiseRow(c.rows, pid, op, delta)
      /\ z.rated = c.rated /\ z.failures = c.failures /\ z.ignored = c.ignored
      /\ z.failed = c.failed /\ z.empty = c.empty
  BY <1>1, <1>2, <1>3, RecordOpParts
<1>6. SameAt(a, b, Desc(g))
  BY <1>4 DEF SameAt
<1>7. ASSUME NEW r \in Resolutions, NEW f \in BOOLEAN, Recorded(a, c, g, Desc(g), r, f)
      PROVE  Recorded(b, z, g, Desc(g), r, f)
  <2>0. PICK p : p = Tracked(r)
    OBVIOUS
  <2>1. PICK x \in OpStats, u \in Pids, o \in Ops : p = Tracked(r) /\ x = g.stats /\ u = g.pid /\ o = g.op
    BY <2>0, PendingParts
  <2>2. p => r \in Paths
    BY <2>1 DEF Tracked, Resolutions
  <2>3. z.totals = AddAt(b.totals, p, <<r, o>>, x)
    <3>1. PICK K, t, m : K = Paths \X Ops /\ t \in [K -> OpStats] /\ t = a.totals /\ m = <<r, o>>
      BY Parts
    <3>2. t \in [K -> OpStats] /\ k \in K /\ (p => m \in K)
      BY <1>3, <2>2, <3>1 DEF Key2
    <3>3. Raise(AddAt(t, p, m, x), k, delta) = AddAt(Raise(t, k, delta), p, m, x)
      <4>1. CASE p
        <5>1. m \in K
          BY <3>2, <4>1
        <5>. QED
          BY <3>2, <5>1, RaiseBefore
      <4>2. CASE ~p
        BY <4>2 DEF AddAt
      <4>. QED
        BY <4>1, <4>2
    <3>4. c.totals = AddAt(t, p, m, x)
      BY <1>7, <2>1, <3>1 DEF Recorded
    <3>. QED
      BY <1>4, <1>5, <3>1, <3>3, <3>4
  <2>4. z.shares = AddAt(b.shares, p, <<u, r, o>>, x)
    <3>1. PICK K, t, m : K = Pids \X Paths \X Ops /\ t \in [K -> OpStats] /\ t = a.shares /\ m = <<u, r, o>>
      BY Parts
    <3>2. t \in [K -> OpStats] /\ l \in K /\ (p => m \in K)
      BY <1>3, <2>2, <3>1 DEF Key3
    <3>3. Raise(AddAt(t, p, m, x), l, delta) = AddAt(Raise(t, l, delta), p, m, x)
      <4>1. CASE p
        <5>1. m \in K
          BY <3>2, <4>1
        <5>. QED
          BY <3>2, <5>1, RaiseBefore
      <4>2. CASE ~p
        BY <4>2 DEF AddAt
      <4>. QED
        BY <4>1, <4>2
    <3>4. c.shares = AddAt(t, p, m, x)
      BY <1>7, <2>1, <3>1 DEF Recorded
    <3>. QED
      BY <1>4, <1>5, <3>1, <3>3, <3>4
  <2>5. z.rows = AddRow(b.rows, p, u, o, x)
    <3>1. PICK t \in [Pids -> [Ops -> OpStats]] : t = a.rows
      BY Parts
    <3>2. RaiseRow(AddRow(t, p, u, o, x), pid, op, delta) = AddRow(RaiseRow(t, pid, op, delta), p, u, o, x)
      BY RaiseRowBefore
    <3>3. c.rows = AddRow(t, p, u, o, x)
      BY <1>7, <2>1, <3>1 DEF Recorded
    <3>. QED
      BY <1>4, <1>5, <3>1, <3>2, <3>3
  <2>. QED
    BY <1>4, <1>5, <1>7, <2>1, <2>3, <2>4, <2>5 DEF Recorded
<1>. QED
  BY <1>1, <1>2, <1>6, <1>7, Carried

\* The parts of an account that forgot descriptors.
LEMMA ForgetParts ==
  ASSUME NEW a \in AppStates, NEW D
  PROVE  LET b == Forget(a, D) IN
         /\ b.fdCache = Restrict(a.fdCache, DOMAIN a.fdCache \ D) /\ b.totals = a.totals
         /\ b.shares = a.shares /\ b.rows = a.rows /\ b.rated = a.rated /\ b.failures = a.failures
         /\ b.ignored = a.ignored /\ b.failed = a.failed /\ b.empty = a.empty
BY DEF Forget, AppStates

\* The parts of an account after a process's exec or exit.
LEMMA EndGenerationForm ==
  ASSUME NEW a \in AppStates, NEW pid \in Pids
  PROVE  LET b == EndGeneration(a, pid)
         IN  /\ b \in AppStates
             /\ b.fdCache = Forget(a, DescriptorsOf(pid)).fdCache
             /\ b.totals = a.totals
             /\ b.shares = [k \in DOMAIN a.shares |-> IF k[1] = pid THEN NoOps ELSE a.shares[k]]
             /\ b.rows = [a.rows EXCEPT ![pid] = NoRow]
             /\ b.rated = a.rated /\ b.failures = a.failures /\ b.ignored = a.ignored
             /\ b.failed = a.failed /\ b.empty = a.empty
<1>1. PICK o, s, w : /\ o = Forget(a, DescriptorsOf(pid))
                     /\ s = [k \in DOMAIN a.shares |-> IF k[1] = pid THEN NoOps ELSE a.shares[k]]
                     /\ w = [a.rows EXCEPT ![pid] = NoRow]
  OBVIOUS
<1>2. o \in AppStates
  BY <1>1, ForgetType
<1>3. o.totals = a.totals /\ o.shares = a.shares /\ o.rows = a.rows /\ o.rated = a.rated
      /\ o.failures = a.failures /\ o.ignored = a.ignored /\ o.failed = a.failed /\ o.empty = a.empty
  BY <1>1, ForgetParts
<1>4. EndGeneration(a, pid) = [o EXCEPT !.rows = w, !.shares = s]
  <2>1. EndGeneration(a, pid) = [o EXCEPT !.rows[pid] = NoRow,
             !.shares = [k \in DOMAIN o.shares |-> IF k[1] = pid THEN NoOps ELSE o.shares[k]]]
    BY <1>1 DEF EndGeneration
  <2>. QED
    BY <1>1, <1>3, <2>1
<1>5. NoOps \in OpStats
  BY CounterSums DEF NoOps, OpStats
<1>6. s \in [Pids \X Paths \X Ops -> OpStats]
  BY <1>1, <1>5, Parts
<1>7. w \in [Pids -> [Ops -> OpStats]]
  BY <1>1, <1>5, Parts DEF NoRow
<1>8. PICK x : x = [o EXCEPT !.rows = w]
  OBVIOUS
<1>9. PICK y : y = [x EXCEPT !.shares = s]
  OBVIOUS
<1>10. EndGeneration(a, pid) = y
  BY <1>4, <1>8, <1>9
<1>11. y \in AppStates /\ y.fdCache = o.fdCache /\ y.totals = o.totals /\ y.shares = s /\ y.rows = w
       /\ y.rated = o.rated /\ y.failures = o.failures /\ y.ignored = o.ignored
       /\ y.failed = o.failed /\ y.empty = o.empty
  BY <1>2, <1>6, <1>7, <1>8, <1>9 DEF AppStates
<1>. QED
  BY <1>1, <1>3, <1>10, <1>11

\* and so can the end of another process's generation.
LEMMA EndGenerationCarried ==
  ASSUME NEW a \in AppStates, NEW v \in ProcViews, NEW g \in Pending, NEW pid \in Pids, g.pid # pid
  PROVE  EndGeneration(RecordGroup(a, v, g), pid) = RecordGroup(EndGeneration(a, pid), v, g)
<1>1. PICK b, c, z : b = EndGeneration(a, pid) /\ c = RecordGroup(a, v, g) /\ z = EndGeneration(c, pid)
  OBVIOUS
<1>2. b \in AppStates /\ c \in AppStates /\ z \in AppStates
  BY <1>1, RecordedState, EndGenerationForm
<1>3. PICK o, y : o = Forget(a, DescriptorsOf(pid)) /\ y = Forget(c, DescriptorsOf(pid))
  OBVIOUS
<1>4. Desc(g) \notin DescriptorsOf(pid)
  BY DEF Desc, DescriptorsOf
<1>5. y = RecordGroup(o, v, g) /\ o \in AppStates
  BY <1>1, <1>3, <1>4, ForgetCarried, ForgetType
<1>6. /\ b.fdCache = o.fdCache /\ b.totals = a.totals
      /\ b.shares = [k \in DOMAIN a.shares |-> IF k[1] = pid THEN NoOps ELSE a.shares[k]]
      /\ b.rows = [a.rows EXCEPT ![pid] = NoRow]
      /\ b.rated = a.rated /\ b.failures = a.failures /\ b.ignored = a.ignored
      /\ b.failed = a.failed /\ b.empty = a.empty
  BY <1>1, <1>3, EndGenerationForm
<1>7. /\ z.fdCache = y.fdCache /\ z.totals = c.totals
      /\ z.shares = [k \in DOMAIN c.shares |-> IF k[1] = pid THEN NoOps ELSE c.shares[k]]
      /\ z.rows = [c.rows EXCEPT ![pid] = NoRow]
      /\ z.rated = c.rated /\ z.failures = c.failures /\ z.ignored = c.ignored
      /\ z.failed = c.failed /\ z.empty = c.empty
  BY <1>1, <1>2, <1>3, EndGenerationForm, ZenonT(100)
<1>8. PICK d \in Descriptors, r \in Resolutions : d = Desc(g) /\ r = Resolved(a, v, d)
  BY PendingParts, ResolvedType DEF Desc
<1>9. d \notin DescriptorsOf(pid)
  BY <1>4, <1>8
<1>10. SameAt(a, o, d)
  <2>1. o.fdCache = Restrict(a.fdCache, DOMAIN a.fdCache \ DescriptorsOf(pid))
    BY <1>3, ForgetParts
  <2>. QED
    BY <1>9, <2>1 DEF SameAt, Restrict
<1>11. r = Resolved(o, v, d) /\ (Fails(o, v, d) <=> Fails(a, v, d))
  BY <1>8, <1>10 DEF SameAt, Resolved, Fails
<1>12. r = Resolved(b, v, d) /\ (Fails(b, v, d) <=> Fails(a, v, d))
  BY <1>6, <1>11 DEF Resolved, Fails
<1>13. Recorded(a, c, g, d, r, Fails(a, v, d))
  BY <1>1, <1>8, RecordedParts DEF Desc
<1>14. Recorded(o, y, g, d, r, Fails(o, v, d))
  BY <1>5, <1>8, <1>11, RecordedParts DEF Desc
<1>15. PICK e : e = RecordGroup(b, v, g)
  OBVIOUS
<1>16. e \in AppStates /\ Recorded(b, e, g, d, r, Fails(b, v, d))
  BY <1>2, <1>8, <1>12, <1>15, RecordedParts DEF Desc
<1>17. z.fdCache = e.fdCache
  BY <1>6, <1>7, <1>14, <1>16 DEF Recorded
<1>18. z.totals = e.totals /\ z.rated = e.rated /\ z.failures = e.failures /\ z.ignored = e.ignored
       /\ z.failed = e.failed /\ z.empty = e.empty
  BY <1>6, <1>7, <1>12, <1>13, <1>16 DEF Recorded, Up
<1>19. PICK p, x, u, q : p = Tracked(r) /\ x = g.stats /\ u = g.pid /\ q = g.op /\ u \in Pids /\ u # pid
  BY PendingParts
<1>20. z.shares = e.shares
  <2>1. PICK t, k : t = a.shares /\ k = <<u, r, q>> /\ k[1] # pid
    <3>1. PICK k : k = <<u, r, q>>
      OBVIOUS
    <3>2. k[1] = u
      BY <3>1
    <3>3. k[1] # pid
      BY <1>19, <3>2
    <3>. QED
      BY <3>1, <3>3
  <2>2. c.shares = AddAt(t, p, k, x) /\ e.shares = AddAt(b.shares, p, k, x)
    BY <1>13, <1>16, <1>19, <2>1 DEF Recorded
  <2>3. PICK t1, t2, t3 : t1 = b.shares /\ t2 = c.shares /\ t3 = z.shares
    OBVIOUS
  <2>4. /\ t1 = [j \in DOMAIN t |-> IF j[1] = pid THEN NoOps ELSE t[j]]
        /\ t3 = [j \in DOMAIN t2 |-> IF j[1] = pid THEN NoOps ELSE t2[j]]
    BY <1>6, <1>7, <2>1, <2>3
  <2>5. t2 = AddAt(t, p, k, x)
    BY <2>2, <2>3
  <2>6. t \in [Pids \X Paths \X Ops -> OpStats]
    BY <2>1, Parts
  <2>7. t3 = AddAt(t1, p, k, x)
    <3>1. CASE p
      <4>1. t2 = [t EXCEPT ![k] = AddOps(t[k], x)]
        BY <2>5, <3>1 DEF AddAt
      <4>2. AddAt(t1, p, k, x) = [t1 EXCEPT ![k] = AddOps(t1[k], x)]
        BY <3>1 DEF AddAt
      <4>3. DOMAIN t2 = DOMAIN t /\ DOMAIN t1 = DOMAIN t
        BY <2>4, <4>1
      <4>4. k \in DOMAIN t => t1[k] = t[k]
        BY <2>1, <2>4
      <4>. QED
        BY <2>1, <2>4, <4>1, <4>2, <4>3, <4>4
    <3>2. CASE ~p
      BY <2>4, <2>5, <3>2 DEF AddAt
    <3>. QED
      BY <3>1, <3>2
  <2>. QED
    BY <2>2, <2>3, <2>7
<1>21. z.rows = e.rows
  <2>1. PICK w \in [Pids -> [Ops -> OpStats]] : w = a.rows
    BY Parts
  <2>2. c.rows = AddRow(w, p, u, q, x) /\ e.rows = AddRow(b.rows, p, u, q, x)
    BY <1>13, <1>16, <1>19, <2>1 DEF Recorded
  <2>3. z.rows = [AddRow(w, p, u, q, x) EXCEPT ![pid] = NoRow]
        /\ e.rows = AddRow([w EXCEPT ![pid] = NoRow], p, u, q, x)
    BY <1>6, <1>7, <2>1, <2>2
  <2>4. [AddRow(w, p, u, q, x) EXCEPT ![pid] = NoRow] = AddRow([w EXCEPT ![pid] = NoRow], p, u, q, x)
    BY <1>19 DEF AddRow
  <2>. QED
    BY <2>3, <2>4
<1>22. z = e
  BY <1>2, <1>16, <1>17, <1>18, <1>20, <1>21, SameParts
<1>. QED
  BY <1>1, <1>15, <1>22

--------------------------------------------------------------------------------
\* The lifecycle events commute with the recording of the groups they spare.

\* Recording a group changes nothing of what is known of other descriptors.
LEMMA SameUntouched ==
  ASSUME NEW a \in AppStates, NEW v \in ProcViews, NEW g \in Pending, NEW d, d # Desc(g)
  PROVE  SameAt(RecordGroup(a, v, g), a, d)
<1>1. PICK c, h, r : c = RecordGroup(a, v, g) /\ h = Desc(g) /\ r = Resolved(a, v, h)
  OBVIOUS
<1>2. h \in Descriptors /\ h = <<g.pid, g.fd>> /\ r \in Resolutions
  BY <1>1, PendingParts, ResolvedType DEF Desc
<1>3. Recorded(a, c, g, h, r, Fails(a, v, h))
  BY <1>1, <1>2, RecordedParts
<1>4. c.fdCache = Put(a.fdCache, h, r)
  BY <1>3 DEF Recorded
<1>5. SameAt(c, a, d)
  BY <1>1, <1>4 DEF SameAt, Put
<1>. QED
  BY <1>1, <1>5

\* A lookup keeps the types, and finds a path unless it finds a non-file.
LEMMA ResolveType ==
  ASSUME NEW a \in AppStates, NEW v \in ProcViews, NEW pid, NEW fd, <<pid, fd>> \in Descriptors
  PROVE  /\ AfterResolve(a, v, pid, fd) \in AppStates
         /\ ~NotAFile(a, v, pid, fd) => AfterResolve(a, v, pid, fd).fdCache[<<pid, fd>>] \in Paths
<1>1. PICK d \in Descriptors : d = <<pid, fd>>
  OBVIOUS
<1>2. PICK b : b = AfterResolve(a, v, pid, fd)
  OBVIOUS
<1>3. b \in AppStates /\ b = ResolvedForm(a, v, d)
  BY <1>1, <1>2, AfterResolveForm
<1>4. ASSUME ~NotAFile(a, v, pid, fd)
      PROVE  b.fdCache[d] \in Paths
  <2>1. CASE d \in DOMAIN a.fdCache
    <3>1. b = a
      BY <1>1, <1>2, <2>1 DEF AfterResolve
    <3>. QED
      BY <2>1, <3>1, Parts, CacheParts
  <2>2. CASE d \notin DOMAIN a.fdCache
    <3>1. v[d] # Ignored /\ v[d] \in Resolutions
      BY <1>1, <1>4, <2>2, ResolvedType DEF NotAFile
    <3>2. PICK o : o = IF v[d] = Unresolved THEN CountFailure(a) ELSE a
      OBVIOUS
    <3>3. o \in AppStates
      BY <3>2, FailureType
    <3>4. b = Store(o, pid, fd, v[d])
      BY <1>1, <1>2, <2>2, <3>1, <3>2 DEF AfterResolve
    <3>5. b.fdCache = [x \in DOMAIN o.fdCache \cup {d} |-> IF x = d THEN v[d] ELSE o.fdCache[x]]
      BY <1>1, <3>3, <3>4 DEF Store, AppStates
    <3>6. b.fdCache[d] = v[d]
      BY <3>5
    <3>. QED
      BY <3>1, <3>6 DEF Resolutions
  <2>. QED
    BY <2>1, <2>2
<1>. QED
  BY <1>1, <1>2, <1>3, <1>4

\* A lookup of another descriptor can be made before a pending group is recorded,
\* or after.
LEMMA ResolveCarried ==
  ASSUME NEW a \in AppStates, NEW v \in ProcViews, NEW g \in Pending,
         NEW pid, NEW fd, <<pid, fd>> \in Descriptors, <<pid, fd>> # Desc(g)
  PROVE  /\ AfterResolve(RecordGroup(a, v, g), v, pid, fd) = RecordGroup(AfterResolve(a, v, pid, fd), v, g)
         /\ NotAFile(RecordGroup(a, v, g), v, pid, fd) <=> NotAFile(a, v, pid, fd)
<1>1. PICK c, d : c = RecordGroup(a, v, g) /\ d = <<pid, fd>> /\ d \in Descriptors /\ d # Desc(g)
  OBVIOUS
<1>2. SameAt(c, a, d)
  BY <1>1, SameUntouched
<1>3. NotAFile(c, v, pid, fd) <=> NotAFile(a, v, pid, fd)
  BY <1>1, <1>2 DEF SameAt, NotAFile
<1>4. AfterResolve(c, v, pid, fd) = RecordGroup(AfterResolve(a, v, pid, fd), v, g)
  <2>1. CASE d \in DOMAIN a.fdCache
    BY <1>1, <1>2, <2>1 DEF SameAt, AfterResolve
  <2>2. CASE d \notin DOMAIN a.fdCache /\ v[d] = Ignored
    <3>1. AfterResolve(c, v, pid, fd) = CountIgnored(c, 1) /\ AfterResolve(a, v, pid, fd) = CountIgnored(a, 1)
      BY <1>1, <1>2, <2>2 DEF SameAt, AfterResolve
    <3>2. PICK n \in Nat : n = 1
      OBVIOUS
    <3>3. CountIgnored(RecordGroup(a, v, g), n) = RecordGroup(CountIgnored(a, n), v, g)
      BY IgnoredCarried
    <3>. QED
      BY <1>1, <3>1, <3>2, <3>3
  <2>3. CASE d \notin DOMAIN a.fdCache /\ v[d] # Ignored
    <3>1. PICK w \in Paths : w = v[d]
      BY <1>1, <2>3, ResolvedType DEF Resolutions
    <3>2. PICK o, p : /\ o = IF w = Unresolved THEN CountFailure(a) ELSE a
                      /\ p = IF w = Unresolved THEN CountFailure(c) ELSE c
      OBVIOUS
    <3>3. AfterResolve(c, v, pid, fd) = Store(p, pid, fd, w)
          /\ AfterResolve(a, v, pid, fd) = Store(o, pid, fd, w)
      BY <1>1, <1>2, <2>3, <3>1, <3>2 DEF SameAt, AfterResolve
    <3>4. o \in AppStates /\ p = RecordGroup(o, v, g)
      BY <1>1, <3>2, FailureType, FailureCarried
    <3>5. Store(RecordGroup(o, v, g), pid, fd, w) = RecordGroup(Store(o, pid, fd, w), v, g)
      BY <1>1, <3>4, StoreCarried
    <3>. QED
      BY <3>3, <3>4, <3>5
  <2>. QED
    BY <2>1, <2>2, <2>3
<1>. QED
  BY <1>1, <1>3, <1>4

\* So can an open of another descriptor,
LEMMA OpenCarried ==
  ASSUME NEW a \in AppStates, NEW v \in ProcViews, NEW g \in Pending,
         NEW e, <<e.pid, e.fd>> \in Descriptors, e.target \in Resolutions, <<e.pid, e.fd>> # Desc(g)
  PROVE  ApplyOpen(RecordGroup(a, v, g), e) = RecordGroup(ApplyOpen(a, e), v, g)
<1>1. PICK c : c = RecordGroup(a, v, g)
  OBVIOUS
<1>2. CASE e.target = Ignored
  <2>1. ApplyOpen(c, e) = CountIgnored(c, 1) /\ ApplyOpen(a, e) = CountIgnored(a, 1)
    BY <1>2 DEF ApplyOpen
  <2>2. PICK n \in Nat : n = 1
    OBVIOUS
  <2>3. CountIgnored(RecordGroup(a, v, g), n) = RecordGroup(CountIgnored(a, n), v, g)
    BY IgnoredCarried
  <2>. QED
    BY <1>1, <2>1, <2>2, <2>3
<1>3. CASE e.target # Ignored
  <2>0. PICK fd : fd = e.fd
    OBVIOUS
  <2>1. PICK w \in Paths, pid \in Pids : w = e.target /\ pid = e.pid /\ fd = e.fd
    BY <2>0, <1>3, AppStateAssumption DEF Resolutions
  <2>2. PICK o, p : /\ o = IF w = Unresolved THEN CountFailure(a) ELSE a
                    /\ p = IF w = Unresolved THEN CountFailure(c) ELSE c
    OBVIOUS
  <2>3. o \in AppStates /\ p = RecordGroup(o, v, g)
    BY <1>1, <2>2, FailureType, FailureCarried
  <2>4. PICK s, t : s = Store(o, pid, fd, w) /\ t = Store(p, pid, fd, w)
    OBVIOUS
  <2>5. s \in AppStates
    BY <2>1, <2>3, <2>4, StoreType
  <2>6. Store(RecordGroup(o, v, g), pid, fd, w) = RecordGroup(Store(o, pid, fd, w), v, g)
    BY <2>1, <2>3, StoreCarried
  <2>7. t = RecordGroup(s, v, g)
    BY <2>3, <2>4, <2>6
  <2>8. CASE w \in Excluded
    <3>1. ApplyOpen(c, e) = t /\ ApplyOpen(a, e) = s
      BY <1>3, <2>1, <2>2, <2>4, <2>8 DEF ApplyOpen
    <3>. QED
      BY <1>1, <2>7, <3>1
  <2>9. CASE w \notin Excluded
    <3>1. PICK x, op : x = OneOperation /\ op = "Open"
      OBVIOUS
    <3>2. x \in OpStats /\ op \in Ops
      BY <3>1, CounterSums DEF OneOperation, OpStats, Ops
    <3>3. ApplyOpen(c, e) = RecordOp(t, pid, w, op, x) /\ ApplyOpen(a, e) = RecordOp(s, pid, w, op, x)
      BY <1>3, <2>1, <2>2, <2>4, <2>9, <3>1 DEF ApplyOpen
    <3>4. RecordOp(RecordGroup(s, v, g), pid, w, op, x) = RecordGroup(RecordOp(s, pid, w, op, x), v, g)
      BY <2>5, <3>2, RecordOpCarried
    <3>. QED
      BY <1>1, <2>7, <3>3, <3>4
  <2>. QED
    BY <2>8, <2>9
<1>. QED
  BY <1>2, <1>3

\* The type of an account after an open.
LEMMA OpenType ==
  ASSUME NEW a \in AppStates, NEW e, <<e.pid, e.fd>> \in Descriptors, e.target \in Resolutions
  PROVE  ApplyOpen(a, e) \in AppStates
<1>2. CASE e.target = Ignored
  BY <1>2, FailureType DEF ApplyOpen
<1>3. CASE e.target # Ignored
  <2>0. PICK fd : fd = e.fd
    OBVIOUS
  <2>1. PICK w \in Paths, pid \in Pids : w = e.target /\ pid = e.pid /\ fd = e.fd
    BY <2>0, <1>3, AppStateAssumption DEF Resolutions
  <2>2. PICK o : o = IF w = Unresolved THEN CountFailure(a) ELSE a
    OBVIOUS
  <2>3. o \in AppStates
    BY <2>2, FailureType
  <2>4. PICK s : s = Store(o, pid, fd, w)
    OBVIOUS
  <2>5. s \in AppStates
    BY <2>1, <2>3, <2>4, StoreType
  <2>6. PICK x, op : x = OneOperation /\ op = "Open"
    OBVIOUS
  <2>7. x \in OpStats /\ op \in Ops
    BY <2>6, CounterSums DEF OneOperation, OpStats, Ops
  <2>8. RecordOp(s, pid, w, op, x) \in AppStates
    BY <2>5, <2>7, RecordOpType
  <2>9. ApplyOpen(a, e) = IF w \in Excluded THEN s ELSE RecordOp(s, pid, w, op, x)
    BY <1>3, <2>1, <2>2, <2>4, <2>6 DEF ApplyOpen
  <2>. QED
    BY <2>5, <2>8, <2>9
<1>. QED
  BY <1>2, <1>3

\* The type of an account after a close.
LEMMA CloseType ==
  ASSUME NEW a \in AppStates, NEW e, <<e.pid, e.fd>> \in Descriptors
  PROVE  ApplyClose(a, e) \in AppStates
<1>0. PICK d : d = <<e.pid, e.fd>>
  OBVIOUS
<1>1. PICK pid \in Pids : pid = e.pid /\ d = <<e.pid, e.fd>>
  BY <1>0, AppStateAssumption
<1>2. PICK b : b = IF d \in DOMAIN a.fdCache /\ a.fdCache[d] \notin Excluded
                   THEN RecordOp(a, pid, a.fdCache[d], "Close", OneOperation) ELSE a
  OBVIOUS
<1>3. b \in AppStates
  <2>1. CASE d \in DOMAIN a.fdCache /\ a.fdCache[d] \notin Excluded
    <3>1. PICK w \in Paths, x \in OpStats, op \in Ops : w = a.fdCache[d] /\ x = OneOperation /\ op = "Close"
      BY <2>1, Parts, CacheParts, CounterSums DEF OneOperation, OpStats, Ops
    <3>2. RecordOp(a, pid, w, op, x) \in AppStates
      BY RecordOpType
    <3>. QED
      BY <1>2, <2>1, <3>1, <3>2
  <2>2. CASE ~(d \in DOMAIN a.fdCache /\ a.fdCache[d] \notin Excluded)
    BY <1>2, <2>2
  <2>. QED
    BY <2>1, <2>2
<1>4. ApplyClose(a, e) = Forget(b, {d})
  BY <1>1, <1>2 DEF ApplyClose
<1>. QED
  BY <1>3, <1>4, ForgetType

\* a close of another descriptor,
LEMMA CloseCarried ==
  ASSUME NEW a \in AppStates, NEW v \in ProcViews, NEW g \in Pending,
         NEW e, <<e.pid, e.fd>> \in Descriptors, <<e.pid, e.fd>> # Desc(g)
  PROVE  ApplyClose(RecordGroup(a, v, g), e) = RecordGroup(ApplyClose(a, e), v, g)
<1>0. PICK d : d = <<e.pid, e.fd>>
  OBVIOUS
<1>1. PICK pid \in Pids : pid = e.pid /\ d = <<e.pid, e.fd>>
  BY <1>0, AppStateAssumption
<1>2. PICK c : c = RecordGroup(a, v, g)
  OBVIOUS
<1>3. SameAt(c, a, d)
  BY <1>1, <1>2, SameUntouched
<1>4. PICK b, z :
        /\ b = IF d \in DOMAIN a.fdCache /\ a.fdCache[d] \notin Excluded
               THEN RecordOp(a, pid, a.fdCache[d], "Close", OneOperation) ELSE a
        /\ z = IF d \in DOMAIN c.fdCache /\ c.fdCache[d] \notin Excluded
               THEN RecordOp(c, pid, c.fdCache[d], "Close", OneOperation) ELSE c
  OBVIOUS
<1>5. b \in AppStates /\ z = RecordGroup(b, v, g)
  <2>1. CASE d \in DOMAIN a.fdCache /\ a.fdCache[d] \notin Excluded
    <3>1. PICK w \in Paths, x \in OpStats, op \in Ops : w = a.fdCache[d] /\ x = OneOperation /\ op = "Close"
      BY <2>1, Parts, CacheParts, CounterSums DEF OneOperation, OpStats, Ops
    <3>2. RecordOp(a, pid, w, op, x) \in AppStates
      BY RecordOpType
    <3>3. RecordOp(RecordGroup(a, v, g), pid, w, op, x) = RecordGroup(RecordOp(a, pid, w, op, x), v, g)
      BY RecordOpCarried
    <3>4. b = RecordOp(a, pid, w, op, x) /\ z = RecordOp(c, pid, w, op, x)
      BY <1>3, <1>4, <2>1, <3>1 DEF SameAt
    <3>. QED
      BY <1>2, <3>2, <3>3, <3>4
  <2>2. CASE ~(d \in DOMAIN a.fdCache /\ a.fdCache[d] \notin Excluded)
    BY <1>2, <1>3, <1>4, <2>2 DEF SameAt
  <2>. QED
    BY <2>1, <2>2
<1>6. ApplyClose(a, e) = Forget(b, {d}) /\ ApplyClose(c, e) = Forget(z, {d})
  BY <1>1, <1>4 DEF ApplyClose
<1>7. PICK D : D = {d}
  OBVIOUS
<1>8. Forget(RecordGroup(b, v, g), D) = RecordGroup(Forget(b, D), v, g)
  BY <1>1, <1>5, <1>7, ForgetCarried
<1>. QED
  BY <1>2, <1>5, <1>6, <1>7, <1>8

\* The type of an account after a dup.
LEMMA DupType ==
  ASSUME NEW a \in AppStates, NEW v \in ProcViews, NEW e,
         <<e.pid, e.old>> \in Descriptors, <<e.pid, e.new>> \in Descriptors
  PROVE  ApplyDup(a, v, e) \in AppStates
<1>1. PICK pid, old, new : pid = e.pid /\ old = e.old /\ new = e.new
  OBVIOUS
<1>2. PICK b, o : /\ b = AfterResolve(a, v, pid, old)
                  /\ o = IF old = new THEN b ELSE Forget(b, {<<pid, new>>})
  OBVIOUS
<1>3. b \in AppStates /\ (~NotAFile(a, v, pid, old) => b.fdCache[<<pid, old>>] \in Paths)
  BY <1>1, <1>2, ResolveType
<1>4. o \in AppStates
  BY <1>2, <1>3, ForgetType
<1>5. ApplyDup(a, v, e) = IF NotAFile(a, v, pid, old) THEN o ELSE Store(o, pid, new, b.fdCache[<<pid, old>>])
  BY <1>1, <1>2 DEF ApplyDup
<1>6. CASE NotAFile(a, v, pid, old)
  BY <1>4, <1>5, <1>6
<1>7. CASE ~NotAFile(a, v, pid, old)
  <2>1. PICK w \in Paths : w = b.fdCache[<<pid, old>>]
    BY <1>3, <1>7
  <2>2. Store(o, pid, new, w) \in AppStates
    BY <1>1, <1>4, StoreType
  <2>. QED
    BY <1>5, <1>7, <2>1, <2>2
<1>. QED
  BY <1>6, <1>7

\* or a dup between other descriptors.
LEMMA DupCarried ==
  ASSUME NEW a \in AppStates, NEW v \in ProcViews, NEW g \in Pending, NEW e,
         <<e.pid, e.old>> \in Descriptors, <<e.pid, e.new>> \in Descriptors,
         <<e.pid, e.old>> # Desc(g), <<e.pid, e.new>> # Desc(g)
  PROVE  ApplyDup(RecordGroup(a, v, g), v, e) = RecordGroup(ApplyDup(a, v, e), v, g)
<1>1. PICK pid, old, new : pid = e.pid /\ old = e.old /\ new = e.new
  OBVIOUS
<1>2. PICK c : c = RecordGroup(a, v, g)
  OBVIOUS
<1>3. PICK b, z : b = AfterResolve(a, v, pid, old) /\ z = AfterResolve(c, v, pid, old)
  OBVIOUS
<1>4. b \in AppStates /\ z = RecordGroup(b, v, g) /\ (NotAFile(c, v, pid, old) <=> NotAFile(a, v, pid, old))
      /\ (~NotAFile(a, v, pid, old) => b.fdCache[<<pid, old>>] \in Paths)
  BY <1>1, <1>2, <1>3, ResolveType, ResolveCarried
<1>5. PICK o, p : /\ o = IF old = new THEN b ELSE Forget(b, {<<pid, new>>})
                  /\ p = IF old = new THEN z ELSE Forget(z, {<<pid, new>>})
  OBVIOUS
<1>6. o \in AppStates /\ p = RecordGroup(o, v, g)
  <2>1. PICK D : D = {<<pid, new>>}
    OBVIOUS
  <2>2. Forget(RecordGroup(b, v, g), D) = RecordGroup(Forget(b, D), v, g) /\ Forget(b, D) \in AppStates
    BY <1>1, <1>4, <2>1, ForgetCarried, ForgetType
  <2>. QED
    BY <1>4, <1>5, <2>1, <2>2
<1>7. /\ ApplyDup(a, v, e) = IF NotAFile(a, v, pid, old) THEN o ELSE Store(o, pid, new, b.fdCache[<<pid, old>>])
      /\ ApplyDup(c, v, e) = IF NotAFile(c, v, pid, old) THEN p ELSE Store(p, pid, new, z.fdCache[<<pid, old>>])
  BY <1>1, <1>3, <1>5 DEF ApplyDup
<1>8. CASE NotAFile(a, v, pid, old)
  BY <1>2, <1>4, <1>6, <1>7, <1>8
<1>9. CASE ~NotAFile(a, v, pid, old)
  <2>1. PICK w \in Paths : w = b.fdCache[<<pid, old>>]
    BY <1>4, <1>9
  <2>2. PICK d : d = <<pid, old>> /\ d # Desc(g) /\ d \in Descriptors
    BY <1>1
  <2>3. SameAt(z, b, d)
    BY <1>4, <2>2, SameUntouched
  <2>4. d \in DOMAIN b.fdCache
    <3>1. CASE d \in DOMAIN a.fdCache
      BY <1>3, <2>2, <3>1 DEF AfterResolve
    <3>2. CASE d \notin DOMAIN a.fdCache
      <4>1. v[d] # Ignored
        BY <1>9, <2>2, <3>2 DEF NotAFile
      <4>2. PICK q : q = IF v[d] = Unresolved THEN CountFailure(a) ELSE a
        OBVIOUS
      <4>3. q \in AppStates
        BY <4>2, FailureType
      <4>4. b = Store(q, pid, old, v[d])
        BY <1>3, <2>2, <3>2, <4>1, <4>2 DEF AfterResolve
      <4>5. b.fdCache = [x \in DOMAIN q.fdCache \cup {d} |-> IF x = d THEN v[d] ELSE q.fdCache[x]]
        BY <2>2, <4>3, <4>4 DEF Store, AppStates
      <4>. QED
        BY <4>5
    <3>. QED
      BY <3>1, <3>2
  <2>5. z.fdCache[d] = w
    BY <2>1, <2>2, <2>3, <2>4 DEF SameAt
  <2>6. Store(RecordGroup(o, v, g), pid, new, w) = RecordGroup(Store(o, pid, new, w), v, g)
    BY <1>1, <1>6, StoreCarried
  <2>. QED
    BY <1>2, <1>4, <1>6, <1>7, <1>9, <2>1, <2>2, <2>5, <2>6
<1>. QED
  BY <1>8, <1>9

\* What e does has nothing to do with the pending group g.
Spares(e, g) ==
  /\ e.kind \in {"Open", "Close"} => <<e.pid, e.fd>> # Desc(g)
  /\ e.kind = "Dup" => <<e.pid, e.old>> # Desc(g) /\ <<e.pid, e.new>> # Desc(g)
  /\ e.kind = "CloseRange" => Desc(g) \notin ClosedByRange(e)
  /\ e.kind \in {"ProcessExec", "ProcessExit"} => g.pid # e.pid

\* The type of an account after a lifecycle event.
LEMMA LifecycleType ==
  ASSUME NEW a \in AppStates, NEW v \in ProcViews, NEW e \in Events, ~IsIo(e)
  PROVE  ApplyLifecycle(a, v, e) \in AppStates
<1>1. CASE e.kind = "Open"
  BY <1>1, OpenType, LifecycleEventAssumption DEF ApplyLifecycle, IsIo
<1>2. CASE e.kind = "Close"
  BY <1>2, CloseType, LifecycleEventAssumption DEF ApplyLifecycle, IsIo
<1>3. CASE e.kind = "Dup"
  BY <1>3, DupType, LifecycleEventAssumption DEF ApplyLifecycle, IsIo
<1>4. CASE e.kind = "CloseRange"
  BY <1>4, ForgetType DEF ApplyLifecycle
<1>5. CASE e.kind \in {"ProcessExec", "ProcessExit"}
  <2>1. e.pid \in Pids
    BY <1>5, LifecycleEventAssumption
  <2>. QED
    BY <1>5, <2>1, EndGenerationForm DEF ApplyLifecycle
<1>. QED
  BY <1>1, <1>2, <1>3, <1>4, <1>5, LifecycleEventAssumption DEF IsIo

\* A lifecycle event commutes with the recording of every group that it spares.
LEMMA LifecycleCarried ==
  ASSUME NEW a \in AppStates, NEW v \in ProcViews, NEW g \in Pending, NEW e \in Events, ~IsIo(e), Spares(e, g)
  PROVE  ApplyLifecycle(RecordGroup(a, v, g), v, e) = RecordGroup(ApplyLifecycle(a, v, e), v, g)
<1>1. CASE e.kind = "Open"
  BY <1>1, OpenCarried, LifecycleEventAssumption DEF ApplyLifecycle, IsIo, Spares
<1>2. CASE e.kind = "Close"
  BY <1>2, CloseCarried, LifecycleEventAssumption DEF ApplyLifecycle, IsIo, Spares
<1>3. CASE e.kind = "Dup"
  BY <1>3, DupCarried, LifecycleEventAssumption DEF ApplyLifecycle, IsIo, Spares
<1>4. CASE e.kind = "CloseRange"
  BY <1>4, ForgetCarried DEF ApplyLifecycle, Spares
<1>5. CASE e.kind \in {"ProcessExec", "ProcessExit"}
  <2>1. e.pid \in Pids
    BY <1>5, LifecycleEventAssumption
  <2>. QED
    BY <1>5, <2>1, EndGenerationCarried DEF ApplyLifecycle, Spares
<1>. QED
  BY <1>1, <1>2, <1>3, <1>4, <1>5, LifecycleEventAssumption DEF IsIo

--------------------------------------------------------------------------------
\* Recording a sequence of groups.

\* What a place in the vector of groups may hold.
Kept == Pending \cup {Taken}

\* RecordAll for one place.
Slot(a, v, s) == IF s = Taken THEN a ELSE RecordGroup(a, v, s)

\* RecordAll, whatever /proc says.
Recording(a, v, q) ==
  FoldLeft(LAMBDA b, slot : IF slot = Taken THEN b ELSE RecordGroup(b, v, slot), a, q)

\* The type of an account after one place.
LEMMA SlotType ==
  ASSUME NEW a \in AppStates, NEW v \in ProcViews, NEW s \in Kept
  PROVE  Slot(a, v, s) \in AppStates
BY RecordedState DEF Slot, Kept

\* Two places can be recorded in either order.
LEMMA SlotSwap ==
  ASSUME NEW a \in AppStates, NEW v \in ProcViews, NEW s \in Kept, NEW t \in Kept
  PROVE  Slot(Slot(a, v, s), v, t) = Slot(Slot(a, v, t), v, s)
<1>1. CASE s = Taken \/ t = Taken
  BY <1>1 DEF Slot
<1>2. CASE s # Taken /\ t # Taken
  BY <1>2, RecordSwap DEF Slot, Kept
<1>. QED
  BY <1>1, <1>2

\* The accounts that a recording goes through.
IsRecording(f, a, v, q) ==
  /\ f \in [0 .. Len(q) -> AppStates]
  /\ f[0] = a
  /\ \A i \in 1 .. Len(q) : f[i] = Slot(f[i - 1], v, q[i])

\* A recording goes through such accounts to its last.
LEMMA RecordingSteps ==
  ASSUME NEW a \in AppStates, NEW v \in ProcViews, NEW q \in Seq(Kept)
  PROVE  \E f : IsRecording(f, a, v, q) /\ Recording(a, v, q) = f[Len(q)]
<1> DEFINE n == Len(q)
           F == [p \in AppStates \X (1 .. n) |-> Slot(p[1], v, q[p[2]])]
           Eq(h) == h = [s \in SUBSET DOMAIN q |->
                           IF s = {} THEN a
                           ELSE IF q[Max(s)] = Taken THEN h[s \ {Max(s)}]
                                ELSE RecordGroup(h[s \ {Max(s)}], v, q[Max(s)])]
           h == CHOOSE x : Eq(x)
<1>1. n \in Nat /\ DOMAIN q = 1 .. n /\ \A i \in 1 .. n : q[i] \in Kept
  BY LenProperties
<1>2. Recording(a, v, q) = h[DOMAIN q]
  BY DEF Recording, FoldLeft, MapThenFoldSet
<1>. HIDE DEF n
<1>3. F \in [AppStates \X (1 .. n) -> AppStates]
  BY <1>1, SlotType
<1>4. \A b \in AppStates, i \in 1 .. n : F[<<b, i>>] = Slot(b, v, q[i])
  OBVIOUS
<1>. HIDE DEF F
<1>5. PICK k \in [SUBSET (1 .. n) -> AppStates] : FoldsDown(k, n, F, a)
  BY <1>1, <1>3, FoldsDownExists
<1>6. \A s \in SUBSET (1 .. n) : s # {} => s \ {Max(s)} \in SUBSET (1 .. n) /\ Max(s) \in 1 .. n
  <2>1. ASSUME NEW s \in SUBSET (1 .. n), s # {} PROVE s \ {Max(s)} \in SUBSET (1 .. n) /\ Max(s) \in 1 .. n
    <3>1. s \in SUBSET (0 .. n)
      OBVIOUS
    <3>2. Max(s) \in s
      BY <1>1, <2>1, <3>1, LargestNumber
    <3>. QED
      BY <3>2
  <2>. QED
    BY <2>1
<1>7. Eq(k)
  <2>1. k = [s \in SUBSET (1 .. n) |-> k[s]]
    BY <1>5
  <2>2. ASSUME NEW s \in SUBSET (1 .. n)
        PROVE  k[s] = IF s = {} THEN a
                      ELSE IF q[Max(s)] = Taken THEN k[s \ {Max(s)}]
                           ELSE RecordGroup(k[s \ {Max(s)}], v, q[Max(s)])
    <3>1. k[s] = IF s = {} THEN a ELSE F[<<k[s \ {Max(s)}], Max(s)>>]
      BY <1>5, Zenon DEF FoldsDown
    <3>2. CASE s = {}
      BY <3>1, <3>2
    <3>3. CASE s # {}
      <4>1. PICK m \in 1 .. n, r \in SUBSET (1 .. n) : m = Max(s) /\ r = s \ {Max(s)}
        BY <1>6, <3>3
      <4>2. k[r] \in AppStates
        BY <1>5
      <4>3. F[<<k[r], m>>] = Slot(k[r], v, q[m])
        BY <1>4, <4>2
      <4>. QED
        BY <3>1, <3>3, <4>1, <4>3 DEF Slot
    <3>. QED
      BY <3>2, <3>3
  <2>. QED
    BY <1>1, <2>1, <2>2, Zenon
<1>8. Eq(h)
  BY <1>7, Zenon
<1>. HIDE DEF h
<1>9. \A s \in SUBSET (1 .. n) : h[s] = IF s = {} THEN a
                                         ELSE IF q[Max(s)] = Taken THEN h[s \ {Max(s)}]
                                              ELSE RecordGroup(h[s \ {Max(s)}], v, q[Max(s)])
  BY <1>1, <1>8, Zenon
<1>10. h[{}] = a
  <2>1. {} \in SUBSET (1 .. n)
    OBVIOUS
  <2>. QED
    BY <1>9, <2>1, Zenon
<1>11. ASSUME NEW i \in 1 .. n PROVE h[1 .. i] = Slot(h[1 .. i - 1], v, q[i])
  <2>1. PICK s, r \in SUBSET (1 .. n) : /\ s = 1 .. i /\ s # {} /\ r = 1 .. i - 1
                                        /\ Max(s) = i /\ s \ {i} = r
    <3>1. 1 .. i \in SUBSET (1 .. n) /\ 1 .. i # {} /\ Max(1 .. i) = i /\ (1 .. i) \ {i} = 1 .. i - 1
      BY <1>1, PrefixLast
    <3>. QED
      BY <3>1
  <2>2. h[s] = IF q[Max(s)] = Taken THEN h[s \ {Max(s)}] ELSE RecordGroup(h[s \ {Max(s)}], v, q[Max(s)])
    BY <1>9, <2>1, Zenon
  <2>3. h[s] = IF q[i] = Taken THEN h[r] ELSE RecordGroup(h[r], v, q[i])
    BY <2>1, <2>2
  <2>. QED
    BY <2>1, <2>3 DEF Slot
<1> DEFINE f == [i \in 0 .. n |-> h[1 .. i]]
<1>12. f[0] = a
  <2>1. 0 \in 0 .. n /\ 1 .. 0 = {}
    BY <1>1
  <2>. QED
    BY <1>10, <2>1
<1>13. ASSUME NEW i \in 1 .. n PROVE f[i] = Slot(f[i - 1], v, q[i])
  <2>1. i \in 0 .. n /\ i - 1 \in 0 .. n
    BY <1>1
  <2>2. f[i] = h[1 .. i] /\ f[i - 1] = h[1 .. i - 1]
    BY <2>1
  <2>. QED
    BY <1>11, <2>2
<1>14. Recording(a, v, q) = f[n]
  BY <1>1, <1>2
<1>15. DOMAIN f = 0 .. n /\ f = [i \in 0 .. n |-> f[i]]
  OBVIOUS
<1>. HIDE DEF f
<1> DEFINE T == {i \in Nat : i <= n => f[i] \in AppStates}
<1>16. 0 \in T
  BY <1>12
<1>17. ASSUME NEW i \in Nat, i \in T PROVE i + 1 \in T
  <2>1. CASE i + 1 <= n
    <3>1. i + 1 \in 1 .. n /\ (i + 1) - 1 = i /\ f[i] \in AppStates
      BY <1>1, <1>17, <2>1
    <3>2. f[i + 1] = Slot(f[(i + 1) - 1], v, q[i + 1])
      BY <1>13, <3>1
    <3>3. f[i + 1] \in AppStates
      BY <1>1, <3>1, <3>2, SlotType
    <3>. QED
      BY <3>3
  <2>. QED
    BY <2>1
<1>. HIDE DEF T
<1>18. Nat \subseteq T
  BY <1>16, <1>17, AllNumbers
<1>19. f \in [0 .. n -> AppStates]
  <2>1. \A i \in 0 .. n : f[i] \in AppStates
    BY <1>1, <1>18 DEF T
  <2>. QED
    BY <1>15, <2>1
<1>20. IsRecording(f, a, v, q)
  BY <1>12, <1>13, <1>19 DEF IsRecording, n
<1>. QED
  BY <1>14, <1>20 DEF n

\* A recording ends in an account.
LEMMA RecordingType ==
  ASSUME NEW a \in AppStates, NEW v \in ProcViews, NEW q \in Seq(Kept)
  PROVE  Recording(a, v, q) \in AppStates
<1>1. PICK f : IsRecording(f, a, v, q) /\ Recording(a, v, q) = f[Len(q)]
  BY RecordingSteps
<1>2. Len(q) \in 0 .. Len(q)
  BY LenProperties
<1>. QED
  BY <1>1, <1>2 DEF IsRecording

\* No place, no change.
LEMMA RecordingNothing ==
  ASSUME NEW a \in AppStates, NEW v \in ProcViews
  PROVE  Recording(a, v, <<>>) = a
<1>1. <<>> \in Seq(Kept) /\ Len(<<>>) = 0
  BY EmptySeq
<1>2. PICK f : IsRecording(f, a, v, <<>>) /\ Recording(a, v, <<>>) = f[Len(<<>>)]
  BY <1>1, RecordingSteps
<1>. QED
  BY <1>1, <1>2 DEF IsRecording

\* One more place is recorded last.
LEMMA RecordingAppend ==
  ASSUME NEW a \in AppStates, NEW v \in ProcViews, NEW q \in Seq(Kept), NEW s \in Kept
  PROVE  Recording(a, v, Append(q, s)) = Slot(Recording(a, v, q), v, s)
<1>1. PICK n \in Nat : n = Len(q)
  BY LenProperties
<1>2. PICK r \in Seq(Kept) : r = Append(q, s) /\ Len(r) = n + 1 /\ r[n + 1] = s /\ \A i \in 1 .. n : r[i] = q[i]
  <2>1. /\ Append(q, s) \in Seq(Kept) /\ Len(Append(q, s)) = Len(q) + 1 /\ Append(q, s)[Len(q) + 1] = s
        /\ \A i \in 1 .. Len(q) : Append(q, s)[i] = q[i]
    BY AppendProperties
  <2>2. PICK r : r = Append(q, s)
    OBVIOUS
  <2>3. r \in Seq(Kept) /\ r = Append(q, s) /\ Len(r) = n + 1 /\ r[n + 1] = s /\ \A i \in 1 .. n : r[i] = q[i]
    BY <1>1, <2>1, <2>2
  <2>. QED
    BY <2>3
<1>3. PICK f : IsRecording(f, a, v, q) /\ Recording(a, v, q) = f[n]
  BY <1>1, RecordingSteps
<1>4. PICK g : IsRecording(g, a, v, r) /\ Recording(a, v, r) = g[Len(r)]
  BY RecordingSteps
<1>5. f[0] = a /\ \A i \in 1 .. n : f[i] = Slot(f[i - 1], v, q[i])
  BY <1>1, <1>3 DEF IsRecording
<1>6. g[0] = a /\ \A i \in 1 .. n + 1 : g[i] = Slot(g[i - 1], v, r[i])
  BY <1>2, <1>4 DEF IsRecording
<1> DEFINE T == {i \in Nat : i <= n => f[i] = g[i]}
<1>7. 0 \in T
  BY <1>5, <1>6
<1>8. ASSUME NEW i \in Nat, i \in T PROVE i + 1 \in T
  <2>1. CASE i + 1 <= n
    <3>1. i + 1 \in 1 .. n /\ i + 1 \in 1 .. n + 1 /\ (i + 1) - 1 = i /\ f[i] = g[i]
      BY <1>8, <2>1
    <3>2. f[i + 1] = Slot(f[(i + 1) - 1], v, q[i + 1]) /\ g[i + 1] = Slot(g[(i + 1) - 1], v, r[i + 1])
          /\ r[i + 1] = q[i + 1]
      BY <1>2, <1>5, <1>6, <3>1
    <3>3. f[i + 1] = g[i + 1]
      BY <3>1, <3>2
    <3>. QED
      BY <3>3
  <2>. QED
    BY <2>1
<1>. HIDE DEF T
<1>9. n \in T
  BY <1>7, <1>8, AllNumbers
<1>10. f[n] = g[n]
  BY <1>9 DEF T
<1>11. n + 1 \in 1 .. n + 1 /\ (n + 1) - 1 = n
  OBVIOUS
<1>12. g[n + 1] = Slot(g[(n + 1) - 1], v, r[n + 1])
  BY <1>6, <1>11
<1>. QED
  BY <1>2, <1>3, <1>4, <1>10, <1>11, <1>12

\* What commutes with every place commutes with the recording.
LEMMA RecordingMoves ==
  ASSUME NEW a \in AppStates, NEW v \in ProcViews, NEW q \in Seq(Kept), NEW Phi \in [AppStates -> AppStates],
         \A i \in 1 .. Len(q), b \in AppStates : Slot(Phi[b], v, q[i]) = Phi[Slot(b, v, q[i])]
  PROVE  Recording(Phi[a], v, q) = Phi[Recording(a, v, q)]
<1>1. PICK n \in Nat : n = Len(q)
  BY LenProperties
<1>2. PICK f : IsRecording(f, a, v, q) /\ Recording(a, v, q) = f[n]
  BY <1>1, RecordingSteps
<1>3. PICK c \in AppStates : c = Phi[a]
  OBVIOUS
<1>4. PICK g : IsRecording(g, c, v, q) /\ Recording(c, v, q) = g[n]
  BY <1>1, RecordingSteps
<1>5. f \in [0 .. n -> AppStates] /\ f[0] = a /\ \A i \in 1 .. n : f[i] = Slot(f[i - 1], v, q[i])
  BY <1>1, <1>2 DEF IsRecording
<1>6. g[0] = c /\ \A i \in 1 .. n : g[i] = Slot(g[i - 1], v, q[i])
  BY <1>1, <1>4 DEF IsRecording
<1> DEFINE T == {i \in Nat : i <= n => g[i] = Phi[f[i]]}
<1>7. 0 \in T
  BY <1>3, <1>5, <1>6
<1>8. ASSUME NEW i \in Nat, i \in T PROVE i + 1 \in T
  <2>1. CASE i + 1 <= n
    <3>1. i + 1 \in 1 .. n /\ i \in 0 .. n /\ (i + 1) - 1 = i /\ g[i] = Phi[f[i]]
      BY <1>8, <2>1
    <3>2. f[i + 1] = Slot(f[(i + 1) - 1], v, q[i + 1]) /\ g[i + 1] = Slot(g[(i + 1) - 1], v, q[i + 1])
      BY <1>5, <1>6, <3>1
    <3>3. PICK b \in AppStates : b = f[i]
      BY <1>5, <3>1
    <3>4. Slot(Phi[b], v, q[i + 1]) = Phi[Slot(b, v, q[i + 1])]
      BY <1>1, <3>1
    <3>5. g[i + 1] = Phi[f[i + 1]]
      BY <3>1, <3>2, <3>3, <3>4
    <3>. QED
      BY <3>5
  <2>. QED
    BY <2>1
<1>. HIDE DEF T
<1>9. n \in T
  BY <1>7, <1>8, AllNumbers
<1>. QED
  BY <1>2, <1>3, <1>4, <1>9 DEF T

\* So does a change that one place makes and every other commutes with.
LEMMA RecordingChanges ==
  ASSUME NEW a \in AppStates, NEW v \in ProcViews, NEW q \in Seq(Kept), NEW r \in Seq(Kept), Len(q) = Len(r),
         NEW Phi \in [AppStates -> AppStates], NEW x \in 1 .. Len(q),
         \A i \in 1 .. Len(q) : i # x => r[i] = q[i],
         \A b \in AppStates : Slot(b, v, r[x]) = Phi[Slot(b, v, q[x])],
         \A i \in 1 .. Len(q), b \in AppStates : Slot(Phi[b], v, q[i]) = Phi[Slot(b, v, q[i])]
  PROVE  Recording(a, v, r) = Phi[Recording(a, v, q)]
<1>1. PICK n \in Nat : n = Len(q) /\ n = Len(r) /\ x \in 1 .. n
  BY LenProperties
<1>2. PICK f : IsRecording(f, a, v, q) /\ Recording(a, v, q) = f[n]
  BY <1>1, RecordingSteps
<1>4. PICK g : IsRecording(g, a, v, r) /\ Recording(a, v, r) = g[n]
  BY <1>1, RecordingSteps
<1>5. f \in [0 .. n -> AppStates] /\ f[0] = a /\ \A i \in 1 .. n : f[i] = Slot(f[i - 1], v, q[i])
  BY <1>1, <1>2 DEF IsRecording
<1>6. g[0] = a /\ \A i \in 1 .. n : g[i] = Slot(g[i - 1], v, r[i])
  BY <1>1, <1>4 DEF IsRecording
<1> DEFINE T == {i \in Nat : i <= n => g[i] = IF i < x THEN f[i] ELSE Phi[f[i]]}
<1>7. 0 \in T
  BY <1>1, <1>5, <1>6
<1>8. ASSUME NEW i \in Nat, i \in T PROVE i + 1 \in T
  <2>1. CASE i + 1 <= n
    <3>1. i + 1 \in 1 .. n /\ i \in 0 .. n /\ (i + 1) - 1 = i /\ g[i] = IF i < x THEN f[i] ELSE Phi[f[i]]
      BY <1>8, <2>1
    <3>2. f[i + 1] = Slot(f[(i + 1) - 1], v, q[i + 1]) /\ g[i + 1] = Slot(g[(i + 1) - 1], v, r[i + 1])
      BY <1>5, <1>6, <3>1
    <3>3. PICK b \in AppStates : b = f[i]
      BY <1>5, <3>1
    <3>4. Slot(Phi[b], v, q[i + 1]) = Phi[Slot(b, v, q[i + 1])]
      BY <1>1, <3>1
    <3>5. PICK j \in 1 .. n : j = i + 1
      BY <3>1
    <3>6. CASE j < x
      <4>1. i < x /\ r[j] = q[j]
        BY <1>1, <3>5, <3>6
      <4>2. g[j] = f[j]
        BY <3>1, <3>2, <3>5, <4>1
      <4>. QED
        BY <3>5, <3>6, <4>2
    <3>7. CASE j = x
      <4>1. i < x
        BY <3>5, <3>7
      <4>2. Slot(b, v, r[x]) = Phi[Slot(b, v, q[x])]
        OBVIOUS
      <4>3. g[j] = Phi[f[j]]
        BY <3>1, <3>2, <3>3, <3>5, <3>7, <4>1, <4>2
      <4>. QED
        BY <3>5, <3>7, <4>3
    <3>8. CASE j > x
      <4>1. ~(i < x) /\ r[j] = q[j] /\ ~(j < x)
        BY <1>1, <3>5, <3>8
      <4>2. g[j] = Phi[f[j]]
        BY <3>1, <3>2, <3>3, <3>4, <3>5, <4>1
      <4>. QED
        BY <3>5, <4>1, <4>2
    <3>. QED
      BY <3>5, <3>6, <3>7, <3>8
  <2>. QED
    BY <2>1
<1>. HIDE DEF T
<1>9. n \in T
  BY <1>7, <1>8, AllNumbers
<1>10. ~(n < x)
  BY <1>1
<1>. QED
  BY <1>2, <1>4, <1>9, <1>10 DEF T

\* Slots are recorded in any order.
LEMMA RecordingAround ==
  ASSUME NEW a \in AppStates, NEW v \in ProcViews, NEW q \in Seq(Kept), NEW s \in Kept
  PROVE  Recording(Slot(a, v, s), v, q) = Slot(Recording(a, v, q), v, s)
<1>1. PICK Phi : Phi = [b \in AppStates |-> Slot(b, v, s)]
  OBVIOUS
<1>2. Phi \in [AppStates -> AppStates] /\ \A b \in AppStates : Phi[b] = Slot(b, v, s)
  BY <1>1, SlotType
<1>3. ASSUME NEW i \in 1 .. Len(q), NEW b \in AppStates
      PROVE  Slot(Phi[b], v, q[i]) = Phi[Slot(b, v, q[i])]
  <2>1. PICK t \in Kept : t = q[i]
    BY LenProperties
  <2>2. PICK c \in AppStates : c = Slot(b, v, t)
    BY SlotType
  <2>3. Slot(Slot(b, v, s), v, t) = Slot(Slot(b, v, t), v, s)
    BY SlotSwap
  <2>. QED
    BY <1>2, <2>1, <2>2, <2>3
<1>4. Recording(Phi[a], v, q) = Phi[Recording(a, v, q)]
  BY <1>2, <1>3, RecordingMoves
<1>5. Recording(a, v, q) \in AppStates
  BY RecordingType
<1>. QED
  BY <1>2, <1>4, <1>5

\* The vector of groups once the places in S are taken.
Without(q, S) == [i \in DOMAIN q |-> IF i \in S THEN Taken ELSE q[i]]

\* It has as many places, those in S without a group.
LEMMA WithoutType ==
  ASSUME NEW q \in Seq(Kept), NEW S
  PROVE  Without(q, S) \in Seq(Kept) /\ Len(Without(q, S)) = Len(q)
         /\ \A i \in 1 .. Len(q) : Without(q, S)[i] = IF i \in S THEN Taken ELSE q[i]
<1>1. PICK n \in Nat : n = Len(q) /\ DOMAIN q = 1 .. n /\ \A i \in 1 .. n : q[i] \in Kept
  BY LenProperties
<1>2. PICK r : r = Without(q, S)
  OBVIOUS
<1>3. DOMAIN r = 1 .. n /\ \A i \in 1 .. n : r[i] = IF i \in S THEN Taken ELSE q[i]
  BY <1>1, <1>2 DEF Without
<1>4. r \in [1 .. n -> Kept]
  <2>1. r = [i \in 1 .. n |-> r[i]]
    BY <1>1, <1>2 DEF Without
  <2>2. \A i \in 1 .. n : r[i] \in Kept
    BY <1>1, <1>3 DEF Kept
  <2>. QED
    BY <2>1, <2>2
<1>5. r \in Seq(Kept)
  BY <1>4, SeqDef
<1>6. Len(r) = n
  BY <1>1, <1>3, <1>5, LenProperties
<1>. QED
  BY <1>1, <1>2, <1>3, <1>5, <1>6

\* One group taken out of the others and recorded before them.
LEMMA RecordingTakesOne ==
  ASSUME NEW a \in AppStates, NEW v \in ProcViews, NEW q \in Seq(Kept), NEW S, NEW x \in 1 .. Len(q), x \notin S
  PROVE  Recording(Slot(a, v, q[x]), v, Without(q, S \cup {x})) = Recording(a, v, Without(q, S))
<1>1. PICK n \in Nat, s \in Kept : n = Len(q) /\ s = q[x] /\ x \in 1 .. n
  BY LenProperties
<1>2. PICK r \in Seq(Kept) : r = Without(q, S) /\ Len(r) = n
                             /\ \A i \in 1 .. n : r[i] = IF i \in S THEN Taken ELSE q[i]
  BY <1>1, WithoutType
<1>3. PICK t \in Seq(Kept) : /\ t = Without(q, S \cup {x}) /\ Len(t) = n
                             /\ \A i \in 1 .. n : t[i] = IF i \in S \cup {x} THEN Taken ELSE q[i]
  BY <1>1, WithoutType
<1>4. PICK Phi : Phi = [b \in AppStates |-> Slot(b, v, s)]
  OBVIOUS
<1>5. Phi \in [AppStates -> AppStates] /\ \A b \in AppStates : Phi[b] = Slot(b, v, s)
  BY <1>4, SlotType
<1>6. ASSUME NEW i \in 1 .. n, NEW b \in AppStates
      PROVE  Slot(Phi[b], v, t[i]) = Phi[Slot(b, v, t[i])]
  <2>1. PICK u \in Kept : u = t[i]
    BY <1>3, LenProperties
  <2>2. PICK c \in AppStates : c = Slot(b, v, u)
    BY SlotType
  <2>3. Slot(Slot(b, v, s), v, u) = Slot(Slot(b, v, u), v, s)
    BY SlotSwap
  <2>. QED
    BY <1>5, <2>1, <2>2, <2>3
<1>7. \A i \in 1 .. n : i # x => r[i] = t[i]
  BY <1>2, <1>3
<1>8. \A b \in AppStates : Slot(b, v, r[x]) = Phi[Slot(b, v, t[x])]
  BY <1>1, <1>2, <1>3, <1>5 DEF Slot
<1>9. Recording(a, v, r) = Phi[Recording(a, v, t)]
  <2>1. Len(t) = Len(r) /\ x \in 1 .. Len(t) /\ 1 .. Len(t) = 1 .. n
    BY <1>1, <1>2, <1>3
  <2>2. \A i \in 1 .. Len(t) : i # x => r[i] = t[i]
    BY <1>7, <2>1
  <2>3. \A i \in 1 .. Len(t), b \in AppStates : Slot(Phi[b], v, t[i]) = Phi[Slot(b, v, t[i])]
    BY <1>6, <2>1
  <2>4. Phi \in [AppStates -> AppStates]
    BY <1>5
  <2>. QED
    BY <1>8, <2>1, <2>2, <2>3, <2>4, RecordingChanges
<1>10. Recording(a, v, t) \in AppStates
  BY RecordingType
<1>11. Recording(Slot(a, v, s), v, t) = Slot(Recording(a, v, t), v, s)
  BY RecordingAround
<1>. QED
  BY <1>1, <1>2, <1>3, <1>5, <1>9, <1>10, <1>11

--------------------------------------------------------------------------------
\* Groups recorded ahead of the others.

\* The groups at the places in p.
At(q, p) == [i \in DOMAIN p |-> q[p[i]]]

\* The groups at one more place.
LEMMA AtAppend ==
  ASSUME NEW q \in Seq(Kept), NEW p \in Seq(1 .. Len(q)), NEW x \in 1 .. Len(q)
  PROVE  /\ At(q, p) \in Seq(Kept)
         /\ At(q, Append(p, x)) = Append(At(q, p), q[x])
<1>1. PICK m \in Nat, n \in Nat : m = Len(q) /\ n = Len(p) /\ DOMAIN p = 1 .. n
                                  /\ \A i \in 1 .. m : q[i] \in Kept
  BY LenProperties
<1>2. \A i \in 1 .. n : p[i] \in 1 .. m
  BY <1>1, LenProperties
<1>3. PICK f : f = At(q, p)
  OBVIOUS
<1>4. f = [i \in 1 .. n |-> q[p[i]]]
  BY <1>1, <1>3 DEF At
<1>5. f \in [1 .. n -> Kept]
  BY <1>1, <1>2, <1>4
<1>6. f \in Seq(Kept)
  BY <1>5, SeqDef
<1>7. Len(f) = n
  BY <1>1, <1>4, <1>6, LenProperties
<1>8. PICK r : r = Append(p, x)
  OBVIOUS
<1>9. DOMAIN r = 1 .. n + 1 /\ r[n + 1] = x /\ \A i \in 1 .. n : r[i] = p[i]
  <2>1. /\ Append(p, x) \in Seq(1 .. Len(q)) /\ Len(Append(p, x)) = Len(p) + 1 /\ Append(p, x)[Len(p) + 1] = x
        /\ \A i \in 1 .. Len(p) : Append(p, x)[i] = p[i]
    BY AppendProperties
  <2>. QED
    BY <1>1, <1>8, <2>1, LenProperties
<1>10. PICK g : g = Append(f, q[x])
  OBVIOUS
<1>11. DOMAIN g = 1 .. n + 1 /\ g[n + 1] = q[x] /\ \A i \in 1 .. n : g[i] = f[i]
  <2>1. PICK s \in Kept : s = q[x]
    BY <1>1
  <2>2. /\ Append(f, s) \in Seq(Kept) /\ Len(Append(f, s)) = Len(f) + 1 /\ Append(f, s)[Len(f) + 1] = s
        /\ \A i \in 1 .. Len(f) : Append(f, s)[i] = f[i]
    BY <1>6, AppendProperties
  <2>. QED
    BY <1>7, <1>10, <2>1, <2>2, LenProperties
<1>12. g \in Seq(Kept)
  BY <1>1, <1>6, <1>10, AppendProperties
<1>13. g = [i \in 1 .. n + 1 |-> g[i]]
  BY <1>11, <1>12
<1>14. At(q, r) = [i \in 1 .. n + 1 |-> q[r[i]]]
  BY <1>9 DEF At
<1>15. \A i \in 1 .. n + 1 : q[r[i]] = g[i]
  <2>1. \A i \in 1 .. n + 1 : i \in 1 .. n \/ i = n + 1
    OBVIOUS
  <2>2. ASSUME NEW i \in 1 .. n PROVE q[r[i]] = g[i]
    BY <1>4, <1>9, <1>11
  <2>. QED
    BY <1>9, <1>11, <2>1, <2>2
<1>16. At(q, r) = g
  BY <1>13, <1>14, <1>15
<1>. QED
  BY <1>3, <1>6, <1>8, <1>10, <1>16

\* Groups taken out of the others and recorded before them.
LEMMA RecordingTakes ==
  ASSUME NEW a \in AppStates, NEW v \in ProcViews, NEW q \in Seq(Kept),
         NEW p \in Seq(1 .. Len(q)), IsInjective(p)
  PROVE  /\ At(q, p) \in Seq(Kept)
         /\ Recording(Recording(a, v, At(q, p)), v, Without(q, Range(p))) = Recording(a, v, q)
<1> DEFINE X == 1 .. Len(q)
           T == {u \in Seq(X) : IsInjective(u) =>
                   /\ At(q, u) \in Seq(Kept)
                   /\ Recording(Recording(a, v, At(q, u)), v, Without(q, Range(u))) = Recording(a, v, q)}
<1>1. <<>> \in T
  <2>1. At(q, <<>>) = <<>> /\ <<>> \in Seq(X) /\ <<>> \in Seq(Kept) /\ Range(<<>>) = {}
    BY EmptySeq, RangeOfNothing DEF At
  <2>2. Without(q, {}) = q
    <3>1. q = [i \in DOMAIN q |-> q[i]]
      BY SeqDef
    <3>. QED
      BY <3>1 DEF Without
  <2>3. Recording(a, v, <<>>) = a
    BY RecordingNothing
  <2>. QED
    BY <2>1, <2>2, <2>3
<1>2. ASSUME NEW u \in Seq(X), u \in T, NEW x \in X PROVE Append(u, x) \in T
  <2>1. PICK r : r = Append(u, x)
    OBVIOUS
  <2>2. r \in Seq(X)
    BY <2>1, AppendProperties
  <2>3. SUFFICES ASSUME IsInjective(r)
                 PROVE  /\ At(q, r) \in Seq(Kept)
                        /\ Recording(Recording(a, v, At(q, r)), v, Without(q, Range(r))) = Recording(a, v, q)
    BY <2>1, <2>2
  <2>4. Range(r) = Range(u) \cup {x} /\ IsInjective(u) /\ x \notin Range(u)
    BY <2>1, <2>3, RangeOfAppend
  <2>5. PICK f \in Seq(Kept), s \in Kept : f = At(q, u) /\ s = q[x]
    BY <1>2, <2>4, LenProperties
  <2>6. At(q, r) = Append(f, s) /\ Append(f, s) \in Seq(Kept)
    BY <2>1, <2>5, AtAppend, AppendProperties
  <2>7. PICK b \in AppStates : b = Recording(a, v, f)
    BY RecordingType
  <2>8. Recording(a, v, Append(f, s)) = Slot(b, v, s)
    BY <2>7, RecordingAppend
  <2>9. Recording(Slot(b, v, q[x]), v, Without(q, Range(u) \cup {x})) = Recording(b, v, Without(q, Range(u)))
    BY <2>4, RecordingTakesOne
  <2>10. Recording(b, v, Without(q, Range(u))) = Recording(a, v, q)
    BY <1>2, <2>4, <2>5, <2>7
  <2>. QED
    BY <2>3, <2>4, <2>5, <2>6, <2>8, <2>9, <2>10
<1>. HIDE DEF T
<1>3. Seq(X) \subseteq T
  BY <1>1, <1>2, AllSequences
<1>. QED
  BY <1>3 DEF T

\* The pending groups in another's account: what is done to an account may be
\* done before the pending groups are recorded.
LEMMA RecordingOutcome ==
  ASSUME NEW a \in AppStates, NEW v \in ProcViews, NEW q \in Seq(Kept), NEW n
  PROVE  Recording(CountOutcome(a, n), v, q) = CountOutcome(Recording(a, v, q), n)
<1>1. PICK Phi : Phi = [b \in AppStates |-> CountOutcome(b, n)]
  OBVIOUS
<1>2. Phi \in [AppStates -> AppStates] /\ \A b \in AppStates : Phi[b] = CountOutcome(b, n)
  BY <1>1, FailureType
<1>3. ASSUME NEW i \in 1 .. Len(q), NEW b \in AppStates
      PROVE  Slot(Phi[b], v, q[i]) = Phi[Slot(b, v, q[i])]
  <2>1. PICK s \in Kept : s = q[i]
    BY LenProperties
  <2>2. Slot(b, v, s) \in AppStates
    BY SlotType
  <2>3. CASE s = Taken
    BY <1>2, <2>1, <2>3 DEF Slot
  <2>4. CASE s # Taken
    <3>1. s \in Pending
      BY <2>4 DEF Kept
    <3>2. CountOutcome(RecordGroup(b, v, s), n) = RecordGroup(CountOutcome(b, n), v, s)
      BY <3>1, OutcomeCarried
    <3>. QED
      BY <1>2, <2>1, <2>2, <2>4, <3>2 DEF Slot
  <2>. QED
    BY <2>3, <2>4
<1>4. Recording(Phi[a], v, q) = Phi[Recording(a, v, q)]
  BY <1>2, <1>3, RecordingMoves
<1>. QED
  BY <1>2, <1>4, RecordingType

\* A lifecycle event may come before the groups that it spares.
LEMMA RecordingLifecycle ==
  ASSUME NEW a \in AppStates, NEW v \in ProcViews, NEW q \in Seq(Kept), NEW e \in Events, ~IsIo(e),
         \A i \in 1 .. Len(q) : q[i] # Taken => Spares(e, q[i])
  PROVE  Recording(ApplyLifecycle(a, v, e), v, q) = ApplyLifecycle(Recording(a, v, q), v, e)
<1>1. PICK Phi : Phi = [b \in AppStates |-> ApplyLifecycle(b, v, e)]
  OBVIOUS
<1>2. Phi \in [AppStates -> AppStates] /\ \A b \in AppStates : Phi[b] = ApplyLifecycle(b, v, e)
  BY <1>1, LifecycleType
<1>3. ASSUME NEW i \in 1 .. Len(q), NEW b \in AppStates
      PROVE  Slot(Phi[b], v, q[i]) = Phi[Slot(b, v, q[i])]
  <2>1. PICK s \in Kept : s = q[i]
    BY LenProperties
  <2>2. Slot(b, v, s) \in AppStates
    BY SlotType
  <2>3. CASE s = Taken
    BY <1>2, <2>1, <2>3 DEF Slot
  <2>4. CASE s # Taken
    <3>1. s \in Pending /\ Spares(e, s)
      BY <2>1, <2>4 DEF Kept
    <3>2. ApplyLifecycle(RecordGroup(b, v, s), v, e) = RecordGroup(ApplyLifecycle(b, v, e), v, s)
      BY <3>1, LifecycleCarried
    <3>. QED
      BY <1>2, <2>1, <2>2, <2>4, <3>2 DEF Slot
  <2>. QED
    BY <2>3, <2>4
<1>4. Recording(Phi[a], v, q) = Phi[Recording(a, v, q)]
  BY <1>2, <1>3, RecordingMoves
<1>. QED
  BY <1>2, <1>4, RecordingType

\* An operation added to its group.
LEMMA RecordingMerges ==
  ASSUME NEW a \in AppStates, NEW v \in ProcViews, NEW q \in Seq(Kept), NEW r \in Seq(Kept), Len(q) = Len(r),
         NEW x \in 1 .. Len(q), NEW g \in Pending, NEW h \in Pending, q[x] = g,
         g.pid = h.pid, g.fd = h.fd, g.op = h.op, r[x] = [g EXCEPT !.stats = AddOps(g.stats, h.stats)],
         \A i \in 1 .. Len(q) : i # x => r[i] = q[i]
  PROVE  Recording(a, v, r) = RecordGroup(Recording(a, v, q), v, h)
<1>1. PICK m \in Pending : m = [g EXCEPT !.stats = AddOps(g.stats, h.stats)] /\ m = r[x]
  BY MergedGroup
<1>2. PICK Phi : Phi = [b \in AppStates |-> Slot(b, v, h)]
  OBVIOUS
<1>3. h \in Kept /\ g \in Kept /\ h # Taken /\ g # Taken /\ m # Taken
  BY PendingParts DEF Kept
<1>4. Phi \in [AppStates -> AppStates] /\ \A b \in AppStates : Phi[b] = Slot(b, v, h)
  BY <1>2, <1>3, SlotType
<1>5. ASSUME NEW i \in 1 .. Len(q), NEW b \in AppStates
      PROVE  Slot(Phi[b], v, q[i]) = Phi[Slot(b, v, q[i])]
  <2>1. PICK t \in Kept : t = q[i]
    BY LenProperties
  <2>2. PICK c \in AppStates : c = Slot(b, v, t)
    BY SlotType
  <2>3. Slot(Slot(b, v, h), v, t) = Slot(Slot(b, v, t), v, h)
    BY <1>3, SlotSwap
  <2>. QED
    BY <1>4, <2>1, <2>2, <2>3
<1>6. ASSUME NEW b \in AppStates PROVE Slot(b, v, r[x]) = Phi[Slot(b, v, q[x])]
  <2>1. RecordGroup(RecordGroup(b, v, g), v, h) = RecordGroup(b, v, m)
    BY <1>1, RecordMerge
  <2>2. Slot(b, v, g) \in AppStates
    BY <1>3, SlotType
  <2>. QED
    BY <1>1, <1>3, <1>4, <2>1, <2>2 DEF Slot
<1>7. Recording(a, v, r) = Phi[Recording(a, v, q)]
  BY <1>4, <1>5, <1>6, RecordingChanges, SMTT(60)
<1>8. Recording(a, v, q) \in AppStates
  BY RecordingType
<1>. QED
  BY <1>3, <1>4, <1>7, <1>8 DEF Slot

\* What /proc says of a descriptor that is in the cache does not matter.
LEMMA RecordUnderView ==
  ASSUME NEW a, NEW v, NEW w, NEW g, Desc(g) \in DOMAIN a.fdCache \/ v[Desc(g)] = w[Desc(g)]
  PROVE  RecordGroup(a, v, g) = RecordGroup(a, w, g)
<1>1. AfterResolve(a, v, g.pid, g.fd) = AfterResolve(a, w, g.pid, g.fd)
  BY DEF AfterResolve, Desc
<1>2. NotAFile(a, v, g.pid, g.fd) = NotAFile(a, w, g.pid, g.fd)
  BY DEF NotAFile, Desc
<1>. QED
  BY <1>1, <1>2 DEF RecordGroup

\* A view of /proc that differs in what is cached or of no pending group.
LEMMA RecordingUnderOtherView ==
  ASSUME NEW a \in AppStates, NEW v \in ProcViews, NEW w \in ProcViews, NEW q \in Seq(Kept), NEW d,
         \A x \in Descriptors : x # d => v[x] = w[x],
         \A i \in 1 .. Len(q) : q[i] # Taken /\ Desc(q[i]) = d => d \in DOMAIN a.fdCache
  PROVE  Recording(a, v, q) = Recording(a, w, q)
<1>1. PICK n \in Nat : n = Len(q)
  BY LenProperties
<1>2. PICK f : IsRecording(f, a, v, q) /\ Recording(a, v, q) = f[n]
  BY <1>1, RecordingSteps
<1>3. PICK g : IsRecording(g, a, w, q) /\ Recording(a, w, q) = g[n]
  BY <1>1, RecordingSteps
<1>4. f \in [0 .. n -> AppStates] /\ f[0] = a /\ \A i \in 1 .. n : f[i] = Slot(f[i - 1], v, q[i])
  BY <1>1, <1>2 DEF IsRecording
<1>5. g[0] = a /\ \A i \in 1 .. n : g[i] = Slot(g[i - 1], w, q[i])
  BY <1>1, <1>3 DEF IsRecording
<1> DEFINE T == {i \in Nat : i <= n => /\ f[i] = g[i]
                                       /\ d \in DOMAIN a.fdCache => d \in DOMAIN f[i].fdCache}
<1>6. 0 \in T
  BY <1>4, <1>5
<1>7. ASSUME NEW i \in Nat, i \in T PROVE i + 1 \in T
  <2>1. CASE i + 1 <= n
    <3>1. PICK j \in 1 .. n : j = i + 1 /\ j - 1 = i /\ i \in 0 .. n
      BY <2>1
    <3>2. PICK b \in AppStates, s \in Kept : b = f[i] /\ s = q[j]
      BY <1>1, <1>4, <3>1, LenProperties
    <3>3. b = g[i] /\ (d \in DOMAIN a.fdCache => d \in DOMAIN b.fdCache)
      BY <1>7, <3>1, <3>2
    <3>4. f[j] = Slot(b, v, s) /\ g[j] = Slot(b, w, s)
      BY <1>4, <1>5, <3>1, <3>2, <3>3
    <3>5. CASE s = Taken
      BY <3>1, <3>3, <3>4, <3>5 DEF Slot
    <3>6. CASE s # Taken
      <4>1. s \in Pending
        BY <3>6 DEF Kept
      <4>2. PICK c \in Descriptors : c = <<s.pid, s.fd>> /\ c = Desc(s)
        BY <4>1, PendingParts DEF Desc
      <4>3. c \in DOMAIN b.fdCache \/ v[c] = w[c]
        BY <1>1, <3>2, <3>3, <3>6, <4>2
      <4>4. RecordGroup(b, v, s) = RecordGroup(b, w, s)
        <5>1. Desc(s) \in DOMAIN b.fdCache \/ v[Desc(s)] = w[Desc(s)]
          BY <4>2, <4>3
        <5>. QED
          BY <5>1, RecordUnderView
      <4>5. PICK z, r : z = RecordGroup(b, v, s) /\ r = Resolved(b, v, c)
        OBVIOUS
      <4>6. r \in Resolutions
        BY <4>5, ResolvedType
      <4>7. Recorded(b, z, s, c, r, Fails(b, v, c))
        BY <4>1, <4>2, <4>5, <4>6, RecordedParts
      <4>8. d \in DOMAIN b.fdCache => d \in DOMAIN z.fdCache
        BY <4>7 DEF Recorded, Put
      <4>. QED
        BY <3>1, <3>3, <3>4, <3>6, <4>4, <4>5, <4>8 DEF Slot
    <3>. QED
      BY <3>5, <3>6
  <2>. QED
    BY <2>1
<1>. HIDE DEF T
<1>8. n \in T
  BY <1>6, <1>7, AllNumbers
<1>. QED
  BY <1>2, <1>3, <1>8 DEF T

--------------------------------------------------------------------------------
\* Every step accounts for the event that it takes.

\* The types of the state and the index of the pending groups.
PromiseInv ==
  /\ IndexInv
  /\ app \in AppStates /\ procfs \in ProcViews
  /\ groups \in Seq(Kept)
  /\ totalEvents \in Nat /\ remaining \in Nat

\* An event taken by itself, whatever was pending.
OneEvent(a, v, e) ==
  IF ~IsIo(e) THEN ApplyLifecycle(a, v, e)
  ELSE IF e.result > 0 THEN RecordGroup(CountOutcome(a, e.result), v, PerEvent!GroupOf(e))
  ELSE CountOutcome(a, e.result)

\* RecordAll goes by what /proc says now.
LEMMA RecordAllIs ==
  ASSUME NEW a, NEW q
  PROVE  RecordAll(a, q) = Recording(a, procfs, q)
BY DEF RecordAll, Recording, FoldLeft, MapThenFoldSet

\* The group of one operation.
LEMMA SingleGroup ==
  ASSUME NEW e \in Events, IsIo(e), e.result > 0
  PROVE  /\ PerEvent!GroupOf(e) \in Pending
         /\ PerEvent!GroupOf(e) = [pid |-> e.pid, fd |-> e.fd, op |-> e.kind,
                                   stats |-> [ops |-> 1, bytes |-> e.result, peak |-> e.latency]]
<1>1. /\ e.kind \in {"Read", "Write"} /\ <<e.pid, e.fd>> \in Descriptors
      /\ e.result \in Counter /\ e.latency \in Counter
  BY IoEventAssumption DEF IoEventAssumption, IsIo
<1>2. e.pid \in Pids /\ e.fd \in Nat
  BY <1>1, AppStateAssumption
<1>3. PICK one \in OpStats : one = [ops |-> 1, bytes |-> e.result, peak |-> e.latency] /\ one.ops = 1
  <2>1. [ops |-> 1, bytes |-> e.result, peak |-> e.latency] \in OpStats
    BY <1>1, CounterSums DEF OpStats
  <2>. QED
    BY <2>1
<1>4. PICK g : g = [pid |-> e.pid, fd |-> e.fd, op |-> e.kind, stats |-> one]
  OBVIOUS
<1>5. g \in Groups
  BY <1>1, <1>2, <1>4 DEF Groups
<1>6. g.pid = e.pid /\ g.fd = e.fd /\ g.stats = one
  BY <1>4
<1>7. g \in Pending
  BY <1>1, <1>3, <1>5, <1>6 DEF Pending
<1>8. PerEvent!GroupOf(e) = g
  BY <1>3, <1>4 DEF PerEvent!GroupOf
<1>. QED
  BY <1>3, <1>4, <1>7, <1>8

\* A read or write accounts for itself: combined into its group, it adds to the
\* books what it would have added alone.
LEMMA IoCountsForItself ==
  ASSUME PromiseInv, NEW e \in Events, IngestIo(e)
  PROVE  /\ app' \in AppStates /\ groups' \in Seq(Kept)
         /\ Recording(app', procfs, groups') = OneEvent(Recording(app, procfs, groups), procfs, e)
<1>1. IsIo(e) /\ app' = CountOutcome(app, e.result) /\ app \in AppStates /\ procfs \in ProcViews
  BY DEF PromiseInv, IngestIo
<1>2. PICK a \in AppStates, v \in ProcViews, q \in Seq(Kept) : a = app /\ v = procfs /\ q = groups
  BY DEF PromiseInv
<1>3. PICK b \in AppStates : b = app' /\ b = CountOutcome(a, e.result)
  BY <1>1, <1>2, FailureType
<1>4. PICK z \in AppStates : z = Recording(a, v, q)
  BY RecordingType
<1>5. Recording(b, v, q) = CountOutcome(z, e.result)
  BY <1>3, <1>4, RecordingOutcome
<1>6. CASE ~(e.result > 0)
  <2>1. groups' = groups
    BY <1>6 DEF IngestIo
  <2>. QED
    BY <1>1, <1>2, <1>3, <1>4, <1>5, <1>6, <2>1 DEF OneEvent
<1>7. CASE e.result > 0
  <2>1. Combine(e)
    BY <1>7 DEF IngestIo
  <2>2. PICK h \in Pending : /\ h = PerEvent!GroupOf(e)
                             /\ h = [pid |-> e.pid, fd |-> e.fd, op |-> e.kind,
                                     stats |-> [ops |-> 1, bytes |-> e.result, peak |-> e.latency]]
    BY <1>1, <1>7, SingleGroup
  <2>3. PICK c \in AppStates : c = Recording(b, v, q) /\ c = CountOutcome(z, e.result)
    BY <1>5, RecordingType
  <2>4. OneEvent(z, v, e) = RecordGroup(c, v, h)
    BY <1>1, <1>7, <2>2, <2>3 DEF OneEvent
  <2>5. h \in Kept /\ h # Taken
    BY PendingParts DEF Kept
  <2> DEFINE key == [pid |-> e.pid, fd |-> e.fd, op |-> e.kind]
  <2>6. CASE key \notin DOMAIN positions
    <3>1. groups' = Append(q, h)
      BY <1>2, <2>1, <2>2, <2>6 DEF Combine
    <3>2. Append(q, h) \in Seq(Kept)
      BY <2>5, AppendProperties
    <3>3. Recording(b, v, Append(q, h)) = Slot(Recording(b, v, q), v, h)
      BY <2>5, RecordingAppend
    <3>. QED
      BY <1>2, <1>3, <1>4, <2>3, <2>4, <2>5, <3>1, <3>2, <3>3 DEF Slot
  <2>7. CASE key \in DOMAIN positions
    <3>1. PICK x : x = positions[key]
      OBVIOUS
    <3>2. x \in DOMAIN groups /\ groups[x] # Taken /\ Key(groups[x]) = key
      BY <2>7, <3>1 DEF PromiseInv, IndexInv, IndexedGroupsAreActive
    <3>3. PICK n \in Nat : n = Len(q) /\ DOMAIN q = 1 .. n /\ x \in 1 .. n
      BY <1>2, <3>2, LenProperties
    <3>4. PICK g \in Pending : g = q[x] /\ Key(g) = key
      BY <1>2, <3>2, <3>3, LenProperties DEF Kept
    <3>5. g.pid = h.pid /\ g.fd = h.fd /\ g.op = h.op
      BY <2>2, <3>4 DEF Key
    <3>6. h.stats = [ops |-> 1, bytes |-> e.result, peak |-> e.latency]
      BY <2>2
    <3>7. groups' = [q EXCEPT ![x].stats = AddOps(@, h.stats)]
      BY <1>2, <2>1, <2>7, <3>1, <3>6 DEF Combine
    <3>8. PICK m : m = [g EXCEPT !.stats = AddOps(g.stats, h.stats)]
      OBVIOUS
    <3>9. m \in Pending
      BY <3>8, MergedGroup
    <3>10. groups' = [q EXCEPT ![x] = m]
      BY <3>4, <3>7, <3>8
    <3>11. PICK r : r = groups'
      OBVIOUS
    <3>12. r \in Seq(Kept) /\ Len(r) = n /\ r[x] = m /\ \A i \in 1 .. n : i # x => r[i] = q[i]
      <4>1. m \in Kept
        BY <3>9 DEF Kept
      <4>2. x \in 1 .. Len(q)
        BY <3>3
      <4>3. r = [q EXCEPT ![x] = m]
        BY <3>10, <3>11
      <4>4. r \in [1 .. n -> Kept] /\ r[x] = m /\ \A i \in 1 .. n : i # x => r[i] = q[i]
        BY <3>3, <4>1, <4>2, <4>3, LenProperties
      <4>5. r \in Seq(Kept)
        BY <4>4, SeqDef
      <4>6. Len(r) = n
        BY <4>4, <4>5, LenProperties
      <4>. QED
        BY <4>4, <4>5, <4>6
    <3>13. Recording(b, v, r) = RecordGroup(Recording(b, v, q), v, h)
      <4>1. /\ Len(q) = Len(r) /\ x \in 1 .. Len(q) /\ q[x] = g
            /\ r[x] = [g EXCEPT !.stats = AddOps(g.stats, h.stats)]
            /\ \A i \in 1 .. Len(q) : i # x => r[i] = q[i]
        BY <3>3, <3>4, <3>8, <3>12
      <4>. QED
        BY <3>5, <3>12, <4>1, RecordingMerges
    <3>. QED
      BY <1>2, <1>3, <1>4, <2>3, <2>4, <3>11, <3>12, <3>13
  <2>. QED
    BY <2>6, <2>7
<1>. QED
  BY <1>6, <1>7

\* The index key of the operations op on a descriptor.
IoKey(pid, fd, op) == [pid |-> pid, fd |-> fd, op |-> op]

\* flush_fd_groups: the two keys of a descriptor, after keys of others.
LEMMA KeysOfDescriptor ==
  ASSUME NEW pid, NEW fd, NEW X, IoKey(pid, fd, "Read") \in X, IoKey(pid, fd, "Write") \in X,
         NEW s \in Seq(X), IsInjective(s), IoKey(pid, fd, "Read") \notin Range(s), IoKey(pid, fd, "Write") \notin Range(s)
  PROVE  /\ s \o KeysOf(pid, fd) \in Seq(X)
         /\ IsInjective(s \o KeysOf(pid, fd))
         /\ Range(s \o KeysOf(pid, fd)) = Range(s) \cup {IoKey(pid, fd, "Read"), IoKey(pid, fd, "Write")}
<1>1. PICK x \in X, y \in X : x = IoKey(pid, fd, "Read") /\ y = IoKey(pid, fd, "Write")
  OBVIOUS
<1>2. x # y
  BY <1>1 DEF IoKey
<1>3. PICK t : t = Append(s, x)
  OBVIOUS
<1>4. t \in Seq(X) /\ Range(t) = Range(s) \cup {x} /\ IsInjective(t)
  BY <1>1, <1>3, RangeOfAppend, AppendProperties
<1>5. PICK u : u = Append(t, y)
  OBVIOUS
<1>6. u \in Seq(X) /\ Range(u) = Range(t) \cup {y} /\ IsInjective(u)
  BY <1>1, <1>2, <1>4, <1>5, RangeOfAppend, AppendProperties
<1>7. u = s \o <<x, y>>
  BY <1>3, <1>5
<1>8. KeysOf(pid, fd) = <<x, y>>
  BY <1>1 DEF KeysOf, IoKey
<1>. QED
  BY <1>1, <1>4, <1>6, <1>7, <1>8

\* The two keys of a descriptor.
LEMMA KeysOfOne ==
  ASSUME NEW pid, NEW fd, NEW X, IoKey(pid, fd, "Read") \in X, IoKey(pid, fd, "Write") \in X
  PROVE  /\ KeysOf(pid, fd) \in Seq(X)
         /\ IsInjective(KeysOf(pid, fd))
         /\ Range(KeysOf(pid, fd)) = {IoKey(pid, fd, "Read"), IoKey(pid, fd, "Write")}
<1>1. PICK s : s = <<>> /\ s \in Seq(X)
  BY EmptySeq
<1>2. IsInjective(s) /\ Range(s) = {}
  BY <1>1, RangeOfNothing
<1>3. s \o KeysOf(pid, fd) = KeysOf(pid, fd)
  BY <1>1 DEF KeysOf
<1>4. /\ s \o KeysOf(pid, fd) \in Seq(X)
      /\ IsInjective(s \o KeysOf(pid, fd))
      /\ Range(s \o KeysOf(pid, fd)) = Range(s) \cup {IoKey(pid, fd, "Read"), IoKey(pid, fd, "Write")}
  BY <1>1, <1>2, KeysOfDescriptor
<1>. QED
  BY <1>2, <1>3, <1>4

\* The key of a group is one of the two of its descriptor.
LEMMA KeyOfPending ==
  ASSUME NEW g \in Pending
  PROVE  /\ Key(g) = IoKey(g.pid, g.fd, g.op)
         /\ Key(g).pid = g.pid /\ Key(g).fd = g.fd
         /\ \A pid, fd : <<pid, fd>> = Desc(g) => Key(g) \in {IoKey(pid, fd, "Read"), IoKey(pid, fd, "Write")}
<1>1. g.op = "Read" \/ g.op = "Write"
  BY PendingParts
<1>. QED
  BY <1>1 DEF Key, IoKey, Desc

\* The pending keys are finitely many, one per active group.
LEMMA PendingKeysFinite ==
  ASSUME PromiseInv
  PROVE  IsFiniteSet(DOMAIN positions)
<1>1. PICK n \in Nat : DOMAIN groups = 1 .. n
  BY LenProperties DEF PromiseInv
<1>2. PICK f : f = [i \in 1 .. n |-> Key(groups[i])]
  OBVIOUS
<1>3. IsFiniteSet(1 .. n)
  BY FS_Interval
<1>4. IsFiniteSet({f[i] : i \in 1 .. n})
  BY <1>3, FiniteImage
<1>5. ASSUME NEW k \in DOMAIN positions PROVE k \in {f[i] : i \in 1 .. n}
  <2>1. PICK x : x = positions[k]
    OBVIOUS
  <2>2. x \in 1 .. n /\ Key(groups[x]) = k
    BY <1>1, <2>1 DEF PromiseInv, IndexInv, IndexedGroupsAreActive
  <2>3. f[x] = k
    BY <1>2, <2>2
  <2>. QED
    BY <2>2, <2>3
<1>. QED
  BY <1>4, <1>5, FS_Subset

\* The orders in which an event flushes name each key once, and the pending
\* groups of no named key have nothing to do with the event.
LEMMA BarriersNameOnce ==
  ASSUME PromiseInv, NEW e \in Events, ~IsIo(e), NEW keys \in Barriers(e)
  PROVE  /\ \E X : keys \in Seq(X)
         /\ IsInjective(keys)
         /\ \A i \in DOMAIN groups :
              groups[i] # Taken /\ Key(groups[i]) \notin Range(keys) => Spares(e, groups[i])
<1>1. \A i \in DOMAIN groups : groups[i] # Taken =>
        groups[i] \in Pending /\ Key(groups[i]) \in DOMAIN positions
  <2>1. \A i \in DOMAIN groups : groups[i] \in Kept
    BY LenProperties DEF PromiseInv
  <2>. QED
    BY <2>1 DEF PromiseInv, IndexInv, IndexedGroupsAreActive, Kept
<1>2. CASE e.kind \in {"Open", "Close"}
  <2>1. keys = KeysOf(e.pid, e.fd)
    BY <1>2 DEF Barriers
  <2>2. PICK X : X = {IoKey(e.pid, e.fd, "Read"), IoKey(e.pid, e.fd, "Write")}
    OBVIOUS
  <2>3. keys \in Seq(X) /\ IsInjective(keys) /\ Range(keys) = X
    BY <2>1, <2>2, KeysOfOne
  <2>4. ASSUME NEW g \in Pending, Key(g) \notin Range(keys) PROVE Spares(e, g)
    <3>1. <<e.pid, e.fd>> # Desc(g)
      BY <2>2, <2>3, <2>4, KeyOfPending
    <3>. QED
      BY <1>2, <3>1 DEF Spares
  <2>. QED
    BY <1>1, <2>3, <2>4
<1>3. CASE e.kind = "Dup"
  <2>1. PICK X : X = {IoKey(e.pid, e.old, "Read"), IoKey(e.pid, e.old, "Write"),
                      IoKey(e.pid, e.new, "Read"), IoKey(e.pid, e.new, "Write")}
    OBVIOUS
  <2>2. PICK s : s = KeysOf(e.pid, e.old)
    OBVIOUS
  <2>3. s \in Seq(X) /\ IsInjective(s) /\ Range(s) = {IoKey(e.pid, e.old, "Read"), IoKey(e.pid, e.old, "Write")}
    BY <2>1, <2>2, KeysOfOne
  <2>4. keys = s \o (IF e.old = e.new THEN <<>> ELSE KeysOf(e.pid, e.new))
    BY <1>3, <2>2 DEF Barriers
  <2>5. keys \in Seq(X) /\ IsInjective(keys) /\ Range(keys) = X
    <3>1. CASE e.old = e.new
      <4>1. s \o <<>> = s
        BY <2>3, ConcatEmptySeq
      <4>. QED
        BY <2>1, <2>3, <2>4, <3>1, <4>1
    <3>2. CASE e.old # e.new
      <4>1. keys = s \o KeysOf(e.pid, e.new)
        BY <2>4, <3>2
      <4>2. IoKey(e.pid, e.new, "Read") \notin Range(s) /\ IoKey(e.pid, e.new, "Write") \notin Range(s)
        BY <2>3, <3>2 DEF IoKey
      <4>3. /\ s \o KeysOf(e.pid, e.new) \in Seq(X)
            /\ IsInjective(s \o KeysOf(e.pid, e.new))
            /\ Range(s \o KeysOf(e.pid, e.new)) = Range(s) \cup {IoKey(e.pid, e.new, "Read"), IoKey(e.pid, e.new, "Write")}
        <5>1. IoKey(e.pid, e.new, "Read") \in X /\ IoKey(e.pid, e.new, "Write") \in X
          BY <2>1
        <5>. QED
          BY <2>3, <4>2, <5>1, KeysOfDescriptor
      <4>. QED
        BY <2>1, <2>3, <4>1, <4>3
    <3>. QED
      BY <3>1, <3>2
  <2>6. ASSUME NEW g \in Pending, Key(g) \notin Range(keys) PROVE Spares(e, g)
    <3>1. <<e.pid, e.old>> # Desc(g) /\ <<e.pid, e.new>> # Desc(g)
      BY <2>1, <2>5, <2>6, KeyOfPending
    <3>. QED
      BY <1>3, <3>1 DEF Spares
  <2>. QED
    BY <1>1, <2>5, <2>6
<1>4. CASE e.kind \in {"CloseRange", "ProcessExec", "ProcessExit"}
  <2>1. PICK S : S = {k \in DOMAIN positions :
                        IF e.kind = "CloseRange" THEN <<k.pid, k.fd>> \in ClosedByRange(e)
                                                 ELSE k.pid = e.pid}
    OBVIOUS
  <2>2. IsFiniteSet(S)
    <3>1. S \subseteq DOMAIN positions
      BY <2>1
    <3>. QED
      BY <3>1, PendingKeysFinite, FS_Subset
  <2>3. keys \in SetToSeqs(S)
    BY <1>4, <2>1 DEF Barriers, PendingKeysOf
  <2>4. keys \in Seq(S) /\ IsInjective(keys) /\ Range(keys) = S
    BY <2>2, <2>3, SetToSeqsRange
  <2>5. ASSUME NEW g \in Pending, Key(g) \in DOMAIN positions, Key(g) \notin Range(keys) PROVE Spares(e, g)
    <3>1. PICK k : k = Key(g) /\ k.pid = g.pid /\ k.fd = g.fd
      BY KeyOfPending
    <3>2. ~(IF e.kind = "CloseRange" THEN <<k.pid, k.fd>> \in ClosedByRange(e) ELSE k.pid = e.pid)
      BY <2>1, <2>4, <2>5, <3>1
    <3>. QED
      BY <1>4, <3>1, <3>2 DEF Spares, Desc
  <2>. QED
    BY <1>1, <2>4, <2>5
<1>. QED
  BY <1>2, <1>3, <1>4, LifecycleEventAssumption DEF IsIo

\* The pending groups of some keys, in the order of the keys.
LEMMA SlotsOfKeys ==
  ASSUME PromiseInv, NEW X, NEW s \in Seq(X), IsInjective(s), Range(s) \subseteq DOMAIN positions,
         NEW p, p = [i \in DOMAIN s |-> positions[s[i]]]
  PROVE  /\ p \in Seq(1 .. Len(groups))
         /\ IsInjective(p)
         /\ Range(p) = {positions[k] : k \in Range(s)}
<1>1. PICK n \in Nat, m \in Nat : n = Len(s) /\ DOMAIN s = 1 .. n /\ m = Len(groups) /\ DOMAIN groups = 1 .. m
  BY LenProperties DEF PromiseInv
<1>2. \A k \in DOMAIN positions : positions[k] \in 1 .. m /\ Key(groups[positions[k]]) = k
  BY <1>1 DEF PromiseInv, IndexInv, IndexedGroupsAreActive
<1>3. \A i \in 1 .. n : s[i] \in Range(s) /\ s[i] \in DOMAIN positions
  BY <1>1 DEF Range
<1>4. p \in [1 .. n -> 1 .. m] /\ \A i \in 1 .. n : p[i] = positions[s[i]]
  BY <1>1, <1>2, <1>3
<1>5. p \in Seq(1 .. m)
  BY <1>4, SeqDef
<1>6. IsInjective(p)
  <2>1. ASSUME NEW i \in 1 .. n, NEW j \in 1 .. n, p[i] = p[j] PROVE i = j
    <3>1. s[i] = s[j]
      BY <1>2, <1>3, <1>4, <2>1
    <3>. QED
      BY <1>1, <3>1 DEF IsInjective
  <2>2. DOMAIN p = 1 .. n
    BY <1>4
  <2>. QED
    BY <2>1, <2>2 DEF IsInjective
<1>7. Range(p) = {positions[k] : k \in Range(s)}
  <2>1. DOMAIN p = 1 .. n
    BY <1>4
  <2>. QED
    BY <1>1, <1>4, <2>1 DEF Range
<1>. QED
  BY <1>1, <1>5, <1>6, <1>7

\* What a lifecycle event flushes: the groups at some places, and those only.
LEMMA FlushedPlaces ==
  ASSUME PromiseInv, NEW e \in Events, IngestLifecycle(e)
  PROVE  \E p \in Seq(1 .. Len(groups)) :
           /\ IsInjective(p)
           /\ At(groups, p) \in Seq(Kept)
           /\ app' = ApplyLifecycle(RecordAll(app, At(groups, p)), procfs, e)
           /\ groups' = Without(groups, Range(p))
           /\ \A i \in DOMAIN groups :
                groups[i] # Taken /\ i \notin Range(p) => Spares(e, groups[i])
<1>1. PICK a \in AppStates, v \in ProcViews, q \in Seq(Kept) : a = app /\ v = procfs /\ q = groups
  BY DEF PromiseInv
<1>2. ~IsIo(e)
  BY DEF IngestLifecycle
<1>3. PICK keys \in Barriers(e) :
        LET pending == Selected(keys, DOMAIN positions)
            recorded == RecordAll(app, [i \in DOMAIN pending |-> groups[positions[pending[i]]]])
        IN  /\ app' = ApplyLifecycle(recorded, procfs, e)
            /\ Take(keys)
  BY DEF IngestLifecycle
<1>4. PICK X : keys \in Seq(X)
  BY <1>2, BarriersNameOnce
<1>5. /\ IsInjective(keys)
      /\ \A i \in DOMAIN groups :
           groups[i] # Taken /\ Key(groups[i]) \notin Range(keys) => Spares(e, groups[i])
  BY <1>2, BarriersNameOnce
<1>6. PICK s : s = Selected(keys, DOMAIN positions)
  OBVIOUS
<1>7. s \in Seq(X) /\ Range(s) = Range(keys) \cap DOMAIN positions /\ IsInjective(s)
  BY <1>4, <1>5, <1>6, SelectedRange
<1>8. PICK p : p = [i \in DOMAIN s |-> positions[s[i]]]
  OBVIOUS
<1>9. p \in Seq(1 .. Len(groups)) /\ IsInjective(p) /\ Range(p) = {positions[k] : k \in Range(s)}
  BY <1>7, <1>8, SlotsOfKeys
<1>10. [i \in DOMAIN s |-> groups[positions[s[i]]]] = At(groups, p)
  BY <1>8 DEF At
<1>11. At(groups, p) \in Seq(Kept)
  <2>1. At(q, p) \in Seq(Kept)
    BY <1>1, <1>9, RecordingTakes
  <2>. QED
    BY <1>1, <2>1
<1>12. app' = ApplyLifecycle(RecordAll(app, At(groups, p)), procfs, e)
  BY <1>3, <1>6, <1>10
<1>13. groups' = Without(groups, Range(p))
  BY <1>3, <1>7, <1>9 DEF Take, Without
<1>14. ASSUME NEW i \in DOMAIN groups, groups[i] # Taken, i \notin Range(p) PROVE Spares(e, groups[i])
  <2>1. Key(groups[i]) \in DOMAIN positions /\ positions[Key(groups[i])] = i
    BY <1>14 DEF PromiseInv, IndexInv, IndexedGroupsAreActive
  <2>2. Key(groups[i]) \notin Range(keys)
    BY <1>7, <1>9, <1>14, <2>1
  <2>. QED
    BY <1>5, <1>14, <2>2
<1>. QED
  BY <1>9, <1>11, <1>12, <1>13, <1>14

\* A lifecycle event accounts for itself: the groups it flushes would have been
\* recorded before it, and it does not matter to those that it leaves pending.
LEMMA LifecycleCountsForItself ==
  ASSUME PromiseInv, NEW e \in Events, IngestLifecycle(e)
  PROVE  /\ app' \in AppStates /\ groups' \in Seq(Kept)
         /\ Recording(app', procfs, groups') = OneEvent(Recording(app, procfs, groups), procfs, e)
<1>1. PICK a \in AppStates, v \in ProcViews, q \in Seq(Kept) : a = app /\ v = procfs /\ q = groups
  BY DEF PromiseInv
<1>2. ~IsIo(e)
  BY DEF IngestLifecycle
<1>3. PICK p \in Seq(1 .. Len(q)) :
        /\ IsInjective(p)
        /\ app' = ApplyLifecycle(RecordAll(app, At(groups, p)), procfs, e)
        /\ groups' = Without(groups, Range(p))
        /\ \A i \in DOMAIN groups :
             groups[i] # Taken /\ i \notin Range(p) => Spares(e, groups[i])
  BY <1>1, FlushedPlaces
<1>4. At(q, p) \in Seq(Kept) /\ Recording(Recording(a, v, At(q, p)), v, Without(q, Range(p))) = Recording(a, v, q)
  BY <1>3, RecordingTakes
<1>5. PICK b \in AppStates : b = Recording(a, v, At(q, p))
  BY <1>4, RecordingType
<1>6. PICK r \in Seq(Kept) : /\ r = Without(q, Range(p)) /\ Len(r) = Len(q)
                             /\ \A i \in 1 .. Len(q) : r[i] = IF i \in Range(p) THEN Taken ELSE q[i]
  BY WithoutType
<1>7. groups' = r
  BY <1>1, <1>3, <1>6
<1>8. app' = ApplyLifecycle(b, v, e)
  <2>1. RecordAll(app, At(groups, p)) = b
    BY <1>1, <1>5, RecordAllIs
  <2>. QED
    BY <1>1, <1>3, <2>1
<1>9. app' \in AppStates
  BY <1>2, <1>8, LifecycleType
<1>10. ASSUME NEW i \in 1 .. Len(r), r[i] # Taken PROVE Spares(e, r[i])
  <2>1. i \in 1 .. Len(q) /\ i \notin Range(p) /\ r[i] = q[i] /\ i \in DOMAIN groups
    BY <1>1, <1>6, <1>10, LenProperties
  <2>. QED
    BY <1>1, <1>3, <1>10, <2>1
<1>11. Recording(ApplyLifecycle(b, v, e), v, r) = ApplyLifecycle(Recording(b, v, r), v, e)
  BY <1>2, <1>10, RecordingLifecycle
<1>12. Recording(b, v, r) = Recording(a, v, q)
  BY <1>4, <1>5, <1>6
<1>. QED
  BY <1>1, <1>2, <1>7, <1>8, <1>9, <1>11, <1>12 DEF OneEvent

--------------------------------------------------------------------------------
\* The other steps of PromiseInv.

\* An AppState starts with accounts of the right types.
LEMMA NewStateType == NewAppState \in AppStates
<1>1. NoOps \in OpStats /\ 0 \in Counter
  BY CounterSums DEF NoOps, OpStats
<1>2. <<>> \in Caches
  <2>1. <<>> \in [{} -> Paths]
    OBVIOUS
  <2>. QED
    BY <2>1 DEF Caches
<1>3. NoRow \in [Ops -> OpStats]
  BY <1>1 DEF NoRow
<1>. QED
  BY <1>1, <1>2, <1>3 DEF NewAppState, AppStates

\* AppState::reset keeps them.
LEMMA ResetType ==
  ASSUME NEW a \in AppStates
  PROVE  ResetCounts(a) \in AppStates
<1>1. a.fdCache \in Caches
  BY Parts
<1>2. PICK z \in AppStates : z = NewAppState
  BY NewStateType
<1>3. ResetCounts(a) = [z EXCEPT !.fdCache = a.fdCache]
  BY <1>2 DEF ResetCounts
<1>. QED
  BY <1>1, <1>2, <1>3 DEF AppStates

\* The views of /proc are closed under changes of one descriptor's target.
LEMMA OtherViewType ==
  ASSUME NEW v \in ProcViews, NEW d \in Descriptors, NEW target \in ProcTargets[d]
  PROVE  [v EXCEPT ![d] = target] \in ProcViews
<1>1. target \in Resolutions
  BY AppStateAssumption DEF Resolutions
<1>. QED
  BY <1>1 DEF ProcViews

\* flush_io_groups records what counted as recorded before.
LEMMA FinishRecords ==
  ASSUME PromiseInv, FinishBatch
  PROVE  /\ app' \in AppStates /\ groups' \in Seq(Kept)
         /\ Recording(app', procfs, groups') = Recording(app, procfs, groups)
<1>1. PICK a \in AppStates, v \in ProcViews, q \in Seq(Kept) : a = app /\ v = procfs /\ q = groups
  BY DEF PromiseInv
<1>2. PICK b \in AppStates : b = Recording(a, v, q)
  BY RecordingType
<1>3. app' = b /\ groups' = <<>>
  BY <1>1, <1>2, RecordAllIs DEF FinishBatch
<1>4. Recording(b, v, <<>>) = b
  BY RecordingNothing
<1>5. <<>> \in Seq(Kept)
  BY EmptySeq
<1>. QED
  BY <1>1, <1>2, <1>3, <1>4, <1>5

\* Nothing pending asks /proc again about a settled descriptor.
LEMMA RebindUnseen ==
  ASSUME PromiseInv, NEW d \in Descriptors, NEW target \in ProcTargets[d], Rebind(d, target),
         Settled(d)
  PROVE  /\ procfs' \in ProcViews
         /\ procfs' = [procfs EXCEPT ![d] = target]
         /\ Recording(app, procfs', groups) = Recording(app, procfs, groups)
<1>1. PICK a \in AppStates, v \in ProcViews, q \in Seq(Kept) : a = app /\ v = procfs /\ q = groups
  BY DEF PromiseInv
<1>2. PICK w \in ProcViews : w = [v EXCEPT ![d] = target] /\ w = procfs'
  BY <1>1, OtherViewType DEF Rebind
<1>3. \A x \in Descriptors : x # d => w[x] = v[x]
  BY <1>2
<1>4. ASSUME NEW i \in 1 .. Len(q), q[i] # Taken, Desc(q[i]) = d PROVE d \in DOMAIN a.fdCache
  <2>1. i \in DOMAIN groups /\ groups[i] # Taken
    BY <1>1, <1>4, LenProperties
  <2>2. PICK k : k = Key(q[i]) /\ k \in DOMAIN positions /\ k.pid = q[i].pid /\ k.fd = q[i].fd
    <3>1. Key(groups[i]) \in DOMAIN positions
      BY <2>1 DEF PromiseInv, IndexInv, IndexedGroupsAreActive
    <3>. QED
      BY <1>1, <3>1 DEF Key
  <2>. QED
    BY <1>1, <1>4, <2>2 DEF Settled, Desc
<1>5. \A i \in 1 .. Len(q) : q[i] # Taken /\ Desc(q[i]) = d => d \in DOMAIN a.fdCache
  BY <1>4
<1>6. \A x \in Descriptors : x # d => v[x] = w[x]
  BY <1>3
<1>7. Recording(a, v, q) = Recording(a, w, q)
  BY <1>5, <1>6, RecordingUnderOtherView
<1>. QED
  BY <1>1, <1>2, <1>7

--------------------------------------------------------------------------------
\* The abstract specification.

\* The operators of the abstract specification are those of AppState.
LEMMA SamePrimitives ==
  ASSUME NEW a, NEW v, NEW pid, NEW fd, NEW path, NEW D, NEW n, NEW op, NEW delta
  PROVE  /\ PerEvent!Store(a, pid, fd, path) = Store(a, pid, fd, path)
         /\ PerEvent!Forget(a, D) = Forget(a, D)
         /\ PerEvent!CountFailure(a) = CountFailure(a)
         /\ PerEvent!CountIgnored(a, n) = CountIgnored(a, n)
         /\ PerEvent!RecordOp(a, pid, path, op, delta) = RecordOp(a, pid, path, op, delta)
         /\ PerEvent!RecordRate(a, path, n) = RecordRate(a, path, n)
         /\ PerEvent!NotAFile(a, v, pid, fd) <=> NotAFile(a, v, pid, fd)
         /\ PerEvent!CountOutcome(a, n) = CountOutcome(a, n)
         /\ PerEvent!DescriptorsOf(pid) = DescriptorsOf(pid)
<1>1. \A i, j : PerEvent!SaturatingAdd(i, j) = SaturatingAdd(i, j)
  BY DEF PerEvent!SaturatingAdd, SaturatingAdd
<1>2. \A i, j : PerEvent!AddOps(i, j) = AddOps(i, j)
  BY <1>1 DEF PerEvent!AddOps, AddOps, PerEvent!Larger, Larger
<1>3. PerEvent!Store(a, pid, fd, path) = Store(a, pid, fd, path)
  BY DEF PerEvent!Store, Store
<1>4. PerEvent!Forget(a, D) = Forget(a, D)
  BY DEF PerEvent!Forget, Forget, PerEvent!Restrict, Restrict
<1>5. PerEvent!CountFailure(a) = CountFailure(a)
  BY <1>1 DEF PerEvent!CountFailure, CountFailure
<1>6. PerEvent!CountIgnored(a, n) = CountIgnored(a, n)
  BY <1>1 DEF PerEvent!CountIgnored, CountIgnored
<1>7. PerEvent!RecordOp(a, pid, path, op, delta) = RecordOp(a, pid, path, op, delta)
  BY <1>2 DEF PerEvent!RecordOp, RecordOp
<1>8. PerEvent!RecordRate(a, path, n) = RecordRate(a, path, n)
  BY <1>1 DEF PerEvent!RecordRate, RecordRate
<1>9. PerEvent!NotAFile(a, v, pid, fd) <=> NotAFile(a, v, pid, fd)
  BY DEF PerEvent!NotAFile, NotAFile
<1>10. PerEvent!CountOutcome(a, n) = CountOutcome(a, n)
  BY <1>1 DEF PerEvent!CountOutcome, CountOutcome
<1>11. PerEvent!DescriptorsOf(pid) = DescriptorsOf(pid)
  BY DEF PerEvent!DescriptorsOf, DescriptorsOf
<1>. QED
  BY <1>3, <1>4, <1>5, <1>6, <1>7, <1>8, <1>9, <1>10, <1>11

\* So is its lookup,
LEMMA SameResolve ==
  ASSUME NEW a, NEW v, NEW pid, NEW fd
  PROVE  PerEvent!AfterResolve(a, v, pid, fd) = AfterResolve(a, v, pid, fd)
BY SamePrimitives DEF PerEvent!AfterResolve, AfterResolve

\* its recording,
LEMMA SameRecord ==
  ASSUME NEW a, NEW v, NEW g
  PROVE  PerEvent!RecordGroup(a, v, g) = RecordGroup(a, v, g)
BY SamePrimitives, SameResolve DEF PerEvent!RecordGroup, RecordGroup

\* its lifecycle,
LEMMA SameLifecycle ==
  ASSUME NEW a, NEW v, NEW e
  PROVE  PerEvent!ApplyLifecycle(a, v, e) = ApplyLifecycle(a, v, e)
<1>1. PerEvent!ApplyOpen(a, e) = ApplyOpen(a, e)
  BY SamePrimitives DEF PerEvent!ApplyOpen, ApplyOpen, PerEvent!OneOperation, OneOperation
<1>2. PerEvent!ApplyClose(a, e) = ApplyClose(a, e)
  BY SamePrimitives DEF PerEvent!ApplyClose, ApplyClose, PerEvent!OneOperation, OneOperation
<1>3. PerEvent!ApplyDup(a, v, e) = ApplyDup(a, v, e)
  BY SamePrimitives, SameResolve DEF PerEvent!ApplyDup, ApplyDup
<1>4. PerEvent!ClosedByRange(e) = ClosedByRange(e)
  BY SamePrimitives DEF PerEvent!ClosedByRange, ClosedByRange
<1>5. PerEvent!EndGeneration(a, e.pid) = EndGeneration(a, e.pid)
  <2>1. PerEvent!NoRow = NoRow /\ PerEvent!NoOps = NoOps
    BY DEF PerEvent!NoRow, NoRow, PerEvent!NoOps, NoOps, PerEvent!Ops, Ops
  <2>2. PerEvent!Forget(a, PerEvent!DescriptorsOf(e.pid)) = Forget(a, DescriptorsOf(e.pid))
    BY SamePrimitives
  <2>. QED
    BY <2>1, <2>2 DEF PerEvent!EndGeneration, EndGeneration
<1>6. PerEvent!Forget(a, PerEvent!ClosedByRange(e)) = Forget(a, ClosedByRange(e))
  BY <1>4, SamePrimitives
<1>. QED
  BY <1>1, <1>2, <1>3, <1>5, <1>6 DEF PerEvent!ApplyLifecycle, ApplyLifecycle

\* its reset,
LEMMA SameReset ==
  ASSUME NEW a
  PROVE  PerEvent!ResetCounts(a) = ResetCounts(a) /\ PerEvent!NewAppState = NewAppState
BY DEF PerEvent!ResetCounts, ResetCounts, PerEvent!NewAppState, NewAppState, PerEvent!NoOps, NoOps,
       PerEvent!NoRow, NoRow,
       PerEvent!Ops, Ops

\* and what an event does by itself.
LEMMA SameEvent ==
  ASSUME NEW a, NEW e
  PROVE  PerEvent!IngestOne(a, e) = OneEvent(a, procfs, e)
BY SamePrimitives, SameRecord, SameLifecycle DEF PerEvent!IngestOne, OneEvent, PerEvent!IsIo, IsIo

--------------------------------------------------------------------------------
\* The refinement.

\* The state that PerEventIngest sees, and what a step makes of it.
Promised == Recording(app, procfs, groups)

\* It is the refinement mapping's account,
LEMMA PromisedIs == RecordAll(app, groups) = Promised
BY RecordAllIs DEF Promised

\* the very account between two batches.
LEMMA IdleRecordsNothing ==
  ASSUME PromiseInv, Idle
  PROVE  Promised = app
BY RecordingNothing DEF Promised, Idle, PromiseInv

\* An event, whichever it is.
LEMMA EventCountsForItself ==
  ASSUME PromiseInv, NEW e \in Events, IngestIo(e) \/ IngestLifecycle(e)
  PROVE  /\ app' \in AppStates /\ procfs' = procfs /\ groups' \in Seq(Kept)
         /\ totalEvents' = totalEvents /\ remaining' = remaining - 1 /\ remaining > 0
         /\ Promised' = OneEvent(Promised, procfs, e)
<1>1. procfs' = procfs /\ totalEvents' = totalEvents /\ remaining' = remaining - 1 /\ remaining > 0
  BY DEF IngestIo, IngestLifecycle
<1>2. /\ app' \in AppStates /\ groups' \in Seq(Kept)
      /\ Recording(app', procfs, groups') = OneEvent(Recording(app, procfs, groups), procfs, e)
  BY IoCountsForItself, LifecycleCountsForItself
<1>3. Promised' = Recording(app', procfs', groups')
  BY DEF Promised
<1>. QED
  BY <1>1, <1>2, <1>3 DEF Promised

\* No group is pending at the start.
LEMMA PromiseInvInit == Init => PromiseInv
<1>. SUFFICES ASSUME Init PROVE PromiseInv
  OBVIOUS
<1>1. groups = <<>> /\ positions = <<>> /\ app = NewAppState /\ procfs \in ProcViews
      /\ totalEvents = 0 /\ remaining = 0
  BY DEF Init
<1>2. IndexInv
  BY <1>1, EmptyIndex
<1>3. groups \in Seq(Kept)
  BY <1>1, EmptySeq
<1>. QED
  BY <1>1, <1>2, <1>3, NewStateType DEF PromiseInv

\* Every step keeps the types and the index.
LEMMA PromiseInvStep == PromiseInv /\ [Next]_vars => PromiseInv'
<1>. SUFFICES ASSUME PromiseInv, [Next]_vars PROVE PromiseInv'
  OBVIOUS
<1>1. IndexInv'
  BY IndexInvStep DEF PromiseInv
<1>. SUFFICES /\ app' \in AppStates /\ procfs' \in ProcViews
              /\ groups' \in Seq(Kept)
              /\ totalEvents' \in Nat /\ remaining' \in Nat
  BY <1>1 DEF PromiseInv
<1>2. ASSUME NEW size \in 1 .. MaxEvents, BeginBatch(size)
      PROVE  /\ app' = app /\ procfs' = procfs /\ groups' = groups
             /\ totalEvents' \in Nat /\ remaining' \in Nat
  BY <1>2 DEF BeginBatch, PromiseInv
<1>3. ASSUME NEW e \in Events, IngestIo(e) \/ IngestLifecycle(e)
      PROVE  /\ app' \in AppStates /\ procfs' = procfs /\ groups' \in Seq(Kept)
             /\ totalEvents' \in Nat /\ remaining' \in Nat
  <2>1. /\ app' \in AppStates /\ procfs' = procfs /\ groups' \in Seq(Kept)
        /\ totalEvents' = totalEvents /\ remaining' = remaining - 1 /\ remaining > 0
    BY <1>3, EventCountsForItself
  <2>2. totalEvents \in Nat /\ remaining \in Nat
    BY DEF PromiseInv
  <2>. QED
    BY <2>1, <2>2
<1>4. CASE FinishBatch
  BY <1>4, FinishRecords DEF FinishBatch, PromiseInv
<1>5. ASSUME NEW total \in dropTotal .. MaxDrops, UpdateDropTotal(total)
      PROVE  /\ app' \in AppStates /\ procfs' = procfs /\ groups' = groups
             /\ totalEvents' = totalEvents /\ remaining' = remaining
  <2>1. Forget(app, Descriptors) \in AppStates /\ app \in AppStates
    BY ForgetType DEF PromiseInv
  <2>. QED
    BY <1>5, <2>1 DEF UpdateDropTotal
<1>6. CASE Reset
  <2>1. ResetCounts(app) \in AppStates
    BY ResetType DEF PromiseInv
  <2>. QED
    BY <1>6, <2>1 DEF Reset, PromiseInv
<1>7. ASSUME NEW d \in Descriptors, NEW target \in ProcTargets[d], Rebind(d, target)
      PROVE  /\ procfs' \in ProcViews /\ app' = app /\ groups' = groups
             /\ totalEvents' = totalEvents /\ remaining' = remaining
  BY <1>7, OtherViewType DEF Rebind, PromiseInv
<1>8. CASE UNCHANGED vars
  BY <1>8 DEF vars, PromiseInv
<1>. QED
  BY <1>2, <1>3, <1>4, <1>5, <1>6, <1>7, <1>8 DEF Next, PromiseInv

\* A step goes by the promise.
LEMMA PromisedInit == Init => PerEvent!Init
<1>. SUFFICES ASSUME Init PROVE PerEvent!Init
  OBVIOUS
<1>1. Promised = app
  BY PromiseInvInit, IdleRecordsNothing DEF Init, Idle
<1>2. app = NewAppState /\ procfs \in ProcViews /\ totalEvents - remaining = 0
  BY DEF Init
<1>3. PerEvent!ProcViews = ProcViews
  BY DEF PerEvent!ProcViews, ProcViews, PerEvent!Resolutions, Resolutions
<1>. QED
  BY <1>1, <1>2, <1>3, PromisedIs, SameReset DEF PerEvent!Init

\* A step that changes none of what the abstract specification sees is a stutter.
LEMMA PromisedSame ==
  ASSUME Promised' = Promised, procfs' = procfs, totalEvents' - remaining' = totalEvents - remaining
  PROVE  UNCHANGED PerEvent!vars
<1>1. RecordAll(app, groups) = Promised
  BY PromisedIs
<1>2. RecordAll(app, groups)' = Promised'
  <2>1. RecordAll(app, groups) = Recording(app, procfs, groups)
    BY RecordAllIs
  <2>2. RecordAll(app, groups)' = Recording(app', procfs', groups')
    BY DEF RecordAll, Recording, FoldLeft, MapThenFoldSet
  <2>. QED
    BY <2>2 DEF Promised
<1>. QED
  BY <1>1, <1>2 DEF PerEvent!vars

\* The mapping's account after a step.
LEMMA PromisedNext == RecordAll(app, groups)' = Promised'
<1>1. RecordAll(app, groups)' = Recording(app', procfs', groups')
  BY DEF RecordAll, Recording, FoldLeft, MapThenFoldSet
<1>. QED
  BY <1>1 DEF Promised

\* A step that takes an event is the abstract step of that event.
LEMMA PromisedEvent ==
  ASSUME PromiseInv, NEW e \in Events, IngestIo(e) \/ IngestLifecycle(e)
  PROVE  PerEvent!Ingest(e)
<1>1. /\ procfs' = procfs
      /\ totalEvents' = totalEvents /\ remaining' = remaining - 1
      /\ Promised' = OneEvent(Promised, procfs, e)
  BY EventCountsForItself
<1>2. totalEvents' - remaining' = totalEvents - remaining + 1
  BY <1>1 DEF PromiseInv
<1>3. RecordAll(app, groups)' = PerEvent!IngestOne(RecordAll(app, groups), e)
  BY <1>1, PromisedIs, PromisedNext, SameEvent
<1>. QED
  BY <1>1, <1>2, <1>3 DEF PerEvent!Ingest

\* Every step is a step of the promise, or none, or one that unsettles.
LEMMA PromisedStep ==
  PromiseInv /\ [Next]_vars => [PerEvent!Next \/ Unsettles]_(PerEvent!vars)
<1>. SUFFICES ASSUME PromiseInv, [Next]_vars
              PROVE  PerEvent!Next \/ Unsettles \/ UNCHANGED PerEvent!vars
  OBVIOUS
<1>1. ASSUME NEW size \in 1 .. MaxEvents, BeginBatch(size) PROVE UNCHANGED PerEvent!vars
  <2>1. /\ app' = app /\ procfs' = procfs /\ groups' = groups /\ remaining = 0
        /\ totalEvents' = totalEvents + size /\ remaining' = size
    BY <1>1 DEF BeginBatch, Idle
  <2>2. Promised' = Promised
    BY <2>1 DEF Promised
  <2>3. totalEvents' - remaining' = totalEvents - remaining
    BY <2>1 DEF PromiseInv
  <2>. QED
    BY <2>1, <2>2, <2>3, PromisedSame
<1>2. ASSUME NEW e \in Events, IngestIo(e) \/ IngestLifecycle(e) PROVE PerEvent!Next
  <2>1. PerEvent!Ingest(e)
    BY <1>2, PromisedEvent
  <2>. QED
    BY <2>1 DEF PerEvent!Next
<1>3. CASE FinishBatch
  <2>1. procfs' = procfs /\ totalEvents' = totalEvents /\ remaining' = remaining
    BY <1>3 DEF FinishBatch
  <2>2. Recording(app', procfs, groups') = Recording(app, procfs, groups)
    BY <1>3, FinishRecords
  <2>3. Promised' = Recording(app', procfs', groups')
    BY DEF Promised
  <2>4. Promised' = Promised
    BY <2>1, <2>2, <2>3 DEF Promised
  <2>. QED
    BY <2>1, <2>4, PromisedSame
<1>4. ASSUME NEW total \in dropTotal .. MaxDrops, UpdateDropTotal(total)
      PROVE  PerEvent!Next \/ UNCHANGED PerEvent!vars
  <2>1. /\ Idle /\ procfs' = procfs /\ groups' = groups
        /\ totalEvents' = totalEvents /\ remaining' = remaining
        /\ app' = IF total > dropTotal THEN Forget(app, Descriptors) ELSE app
    BY <1>4 DEF UpdateDropTotal
  <2>2. CASE total > dropTotal
    <3>1. app' = Forget(app, Descriptors) /\ app' \in AppStates
      BY <2>1, <2>2, ForgetType DEF PromiseInv
    <3>2. Promised = app
      BY <2>1, IdleRecordsNothing
    <3>3. Promised' = Recording(app', procfs', groups')
      BY DEF Promised
    <3>4. groups' = <<>> /\ procfs' \in ProcViews
      BY <2>1 DEF Idle, PromiseInv
    <3>5. Promised' = app'
      BY <3>1, <3>3, <3>4, RecordingNothing
    <3>6. RecordAll(app, groups)' = PerEvent!Forget(RecordAll(app, groups), Descriptors)
      BY <3>1, <3>2, <3>5, PromisedIs, PromisedNext, SamePrimitives
    <3>7. PerEvent!Lose
      BY <2>1, <3>6 DEF PerEvent!Lose
    <3>. QED
      BY <3>7 DEF PerEvent!Next
  <2>3. CASE ~(total > dropTotal)
    <3>1. Promised' = Promised
      BY <2>1, <2>3 DEF Promised
    <3>. QED
      BY <2>1, <3>1, PromisedSame
  <2>. QED
    BY <2>2, <2>3
<1>5. CASE Reset
  <2>1. /\ Idle /\ procfs' = procfs /\ groups' = groups /\ app' = ResetCounts(app)
        /\ totalEvents' = 0 /\ remaining' = remaining
    BY <1>5 DEF Reset
  <2>2. app' \in AppStates
    BY <2>1, ResetType DEF PromiseInv
  <2>3. Promised = app
    BY <2>1, IdleRecordsNothing
  <2>4. Promised' = Recording(app', procfs', groups')
    BY DEF Promised
  <2>5. groups' = <<>> /\ procfs' \in ProcViews
    BY <2>1 DEF Idle, PromiseInv
  <2>6. Promised' = app'
    BY <2>2, <2>4, <2>5, RecordingNothing
  <2>7. RecordAll(app, groups)' = PerEvent!ResetCounts(RecordAll(app, groups))
    BY <2>1, <2>3, <2>6, PromisedIs, PromisedNext, SameReset
  <2>8. totalEvents' - remaining' = 0
    BY <2>1 DEF Idle
  <2>9. PerEvent!Reset
    BY <2>1, <2>7, <2>8 DEF PerEvent!Reset
  <2>. QED
    BY <2>9 DEF PerEvent!Next
<1>6. ASSUME NEW d \in Descriptors, NEW target \in ProcTargets[d], Rebind(d, target)
      PROVE  PerEvent!Next \/ Unsettles \/ UNCHANGED PerEvent!vars
  <2>1. /\ app' = app /\ groups' = groups
        /\ totalEvents' = totalEvents /\ remaining' = remaining
        /\ procfs' = [procfs EXCEPT ![d] = target]
    BY <1>6 DEF Rebind
  <2>2. CASE Settled(d)
    <3>1. Recording(app, procfs', groups) = Recording(app, procfs, groups)
      BY <1>6, <2>2, RebindUnseen
    <3>2. Promised' = Recording(app', procfs', groups')
      BY DEF Promised
    <3>3. RecordAll(app, groups)' = RecordAll(app, groups)
      BY <2>1, <3>1, <3>2, PromisedIs, PromisedNext DEF Promised
    <3>4. PerEvent!Rebind(d, target)
      BY <2>1, <3>3 DEF PerEvent!Rebind
    <3>. QED
      BY <3>4 DEF PerEvent!Next
  <2>3. CASE ~Settled(d) /\ procfs'[d] # procfs[d]
    BY <2>3 DEF Unsettles
  <2>4. CASE procfs'[d] = procfs[d]
    <3>1. PICK v \in ProcViews : v = procfs
      BY DEF PromiseInv
    <3>2. procfs' = procfs
      BY <2>1, <2>4, <3>1 DEF ProcViews
    <3>3. Promised' = Promised
      BY <2>1, <3>2 DEF Promised
    <3>. QED
      BY <2>1, <3>2, <3>3, PromisedSame
  <2>. QED
    BY <2>2, <2>3, <2>4
<1>7. CASE UNCHANGED vars
  <2>1. /\ app' = app /\ groups' = groups /\ procfs' = procfs
        /\ totalEvents' = totalEvents /\ remaining' = remaining
    BY <1>7 DEF vars
  <2>2. Promised' = Promised
    BY <2>1 DEF Promised
  <2>. QED
    BY <2>1, <2>2, PromisedSame
<1>. QED
  BY <1>1, <1>2, <1>3, <1>4, <1>5, <1>6, <1>7 DEF Next

\* Batched ingestion implements per-event ingestion ("Preserve every lifecycle
\* boundary"): with the pending groups counted as recorded, every step of
\* AppState::ingest makes the accounts what recording the event at its place in the
\* order of arrival makes them, however batches are cut and whatever order the index
\* is flushed in.  The one step that no per-event ingestion takes is a change of
\* /proc that finds operations pending of a descriptor that is not cached: they are
\* attributed to the new target.
THEOREM IngestionIsPerEvent == Spec => PerEventSpec
<1>1. Init => PromiseInv /\ PerEvent!Init
  BY PromiseInvInit, PromisedInit
<1>2. PromiseInv /\ [Next]_vars => PromiseInv' /\ [PerEvent!Next \/ Unsettles]_(PerEvent!vars)
  BY PromiseInvStep, PromisedStep
<1>. QED
  BY <1>1, <1>2, PTL DEF Spec, PerEventSpec

\* As long as /proc never changes that way, batched ingestion is per-event
\* ingestion, without an exception.
THEOREM SettledIngestionIsPerEvent == Spec /\ [][~Unsettles]_vars => PerEvent!Spec
<1>1. Init => PromiseInv /\ PerEvent!Init
  BY PromiseInvInit, PromisedInit
<1>2. PromiseInv /\ [Next]_vars => PromiseInv'
  BY PromiseInvStep
<1>3. PromiseInv /\ [Next]_vars /\ [~Unsettles]_vars => [PerEvent!Next]_(PerEvent!vars)
  <2>1. ASSUME UNCHANGED vars PROVE ~Unsettles
    BY <2>1 DEF vars, Unsettles
  <2>. QED
    BY <2>1, PromisedStep
<1>. QED
  BY <1>1, <1>2, <1>3, PTL DEF Spec, PerEvent!Spec

\* Combining changes no account ("without changing byte, operation, latency, or
\* lifecycle accounting"): a step that takes an event adds what that event alone
\* adds.
THEOREM CombiningCountsEveryEvent == Spec => EventsCountForThemselves
<1>1. Init => PromiseInv
  BY PromiseInvInit
<1>2. PromiseInv /\ [Next]_vars => PromiseInv'
  BY PromiseInvStep
<1>3. PromiseInv /\ [Next]_vars =>
        [\A e \in Events : IngestIo(e) \/ IngestLifecycle(e) => PerEvent!Ingest(e)]_vars
  BY PromisedEvent
<1>. QED
  BY <1>1, <1>2, <1>3, PTL DEF Spec, EventsCountForThemselves

--------------------------------------------------------------------------------
\* The sinks of one recording.

\* What the tree's breakdown holds of a process and a kind, path by path.
OpsOf(a, pid, op) == [path \in Paths |-> a.shares[<<pid, path, op>>].ops]

BytesOf(a, pid, op) == [path \in Paths |-> a.shares[<<pid, path, op>>].bytes]

\* The two halves of SinksAgree.
RowAgrees(a, pid, op) ==
  /\ a.rows[pid][op].ops = Saturate(SumFunctionOnSet(OpsOf(a, pid, op), Paths))
  /\ a.rows[pid][op].bytes = Saturate(SumFunctionOnSet(BytesOf(a, pid, op), Paths))

RateAgrees(a, path) ==
  a.rated[path] = Saturate(a.totals[Key2(path, "Read")].bytes + a.totals[Key2(path, "Write")].bytes)

\* The accounts in which the sinks agree.
Agreeing ==
  {a \in AppStates : /\ \A pid \in Pids, op \in Ops : RowAgrees(a, pid, op)
                     /\ \A path \in Paths : RateAgrees(a, path)}

\* If one number goes up by d within the counter's width, so does the sum, within
\* that width.
LEMMA SaturatedSum ==
  ASSUME NEW S, IsFiniteSet(S), NEW f \in [S -> Counter], NEW g \in [S -> Counter], NEW x \in S, NEW d \in Counter,
         g[x] = SaturatingAdd(f[x], d), \A y \in S : y # x => g[y] = f[y]
  PROVE  Saturate(SumFunctionOnSet(g, S)) = SaturatingAdd(Saturate(SumFunctionOnSet(f, S)), d)
<1>1. Numbers(f, S) /\ Numbers(g, S)
  BY CounterSums DEF Numbers
<1>2. PICK T : T = S \ {x}
  OBVIOUS
<1>3. /\ SumFunctionOnSet(f, S) = f[x] + SumFunctionOnSet(f, T)
      /\ SumFunctionOnSet(g, S) = g[x] + SumFunctionOnSet(g, T)
  BY <1>1, <1>2, SumRemove
<1>4. Numbers(f, T) /\ \A y \in T : f[y] = g[y]
  BY <1>1, <1>2, FS_Subset DEF Numbers
<1>5. PICK r \in Nat : r = SumFunctionOnSet(f, T) /\ r = SumFunctionOnSet(g, T)
  BY <1>4, SumSame, SumType
<1>6. PICK m \in Nat, n \in Nat : m = f[x] /\ n = d
  BY CounterSums
<1>7. SumFunctionOnSet(f, S) = m + r /\ SumFunctionOnSet(g, S) = SaturatingAdd(m, n) + r
  BY <1>3, <1>5, <1>6
<1>8. Saturate(SaturatingAdd(m, n) + r) = SaturatingAdd(Saturate(m + r), n)
  BY CounterMaxAssumption DEF CounterMaxAssumption, Saturate, SaturatingAdd
<1>. QED
  BY <1>6, <1>7, <1>8

\* The entry that is added to, and the others.
LEMMA RaiseAt ==
  ASSUME NEW K, NEW t \in [K -> OpStats], NEW k \in K, NEW s \in OpStats
  PROVE  /\ Raise(t, k, s)[k].ops = SaturatingAdd(t[k].ops, s.ops)
         /\ Raise(t, k, s)[k].bytes = SaturatingAdd(t[k].bytes, s.bytes)
         /\ \A j \in K : j # k => Raise(t, k, s)[j] = t[j]
BY DEF Raise, AddOps

\* The types of the breakdown.
LEMMA ShareParts ==
  ASSUME NEW a \in AppStates, NEW pid \in Pids, NEW op \in Ops
  PROVE  /\ OpsOf(a, pid, op) \in [Paths -> Counter] /\ BytesOf(a, pid, op) \in [Paths -> Counter]
         /\ \A path \in Paths : /\ OpsOf(a, pid, op)[path] = a.shares[Key3(pid, path, op)].ops
                                /\ BytesOf(a, pid, op)[path] = a.shares[Key3(pid, path, op)].bytes
<1>1. PICK s \in [Pids \X Paths \X Ops -> OpStats] : s = a.shares
  BY Parts
<1>2. \A path \in Paths : s[<<pid, path, op>>] \in OpStats
  OBVIOUS
<1>3. \A path \in Paths : s[<<pid, path, op>>].ops \in Counter /\ s[<<pid, path, op>>].bytes \in Counter
  BY <1>2 DEF OpStats
<1>. QED
  BY <1>1, <1>3 DEF OpsOf, BytesOf, Key3

\* The keys of the breakdown differ when a part of them does,
LEMMA Keys3 ==
  ASSUME NEW pid \in Pids, NEW path \in Paths, NEW op \in Ops, NEW i \in Pids, NEW p \in Paths, NEW o \in Ops
  PROVE  /\ Key3(pid, path, op) \in Pids \X Paths \X Ops
         /\ Key3(i, p, o) = Key3(pid, path, op) => i = pid /\ p = path /\ o = op
BY DEF Key3

\* and so do those of the totals.
LEMMA Keys2 ==
  ASSUME NEW path \in Paths, NEW op \in Ops, NEW p \in Paths, NEW o \in Ops
  PROVE  /\ Key2(path, op) \in Paths \X Ops
         /\ Key2(p, o) = Key2(path, op) => p = path /\ o = op
BY DEF Key2

\* An operation added to the tree and to the process's row.
LEMMA RowsStillAgree ==
  ASSUME NEW a \in Agreeing, NEW b \in AppStates,
         NEW pid \in Pids, NEW path \in Paths, NEW op \in Ops, NEW s \in OpStats,
         b.shares = Raise(a.shares, Key3(pid, path, op), s), b.rows = RaiseRow(a.rows, pid, op, s),
         NEW i \in Pids, NEW o \in Ops
  PROVE  RowAgrees(b, i, o)
<1>1. a \in AppStates /\ RowAgrees(a, i, o)
  BY DEF Agreeing
<1>2. PICK t \in [Pids \X Paths \X Ops -> OpStats], w \in [Pids -> [Ops -> OpStats]] : t = a.shares
                                                                                       /\ w = a.rows
  BY <1>1, Parts
<1>3. PICK k \in Pids \X Paths \X Ops : k = Key3(pid, path, op)
  BY Keys3
<1>4. PICK f, g, x, y : f = OpsOf(a, i, o) /\ g = OpsOf(b, i, o) /\ x = BytesOf(a, i, o) /\ y = BytesOf(b, i, o)
  OBVIOUS
<1>5. /\ f \in [Paths -> Counter] /\ g \in [Paths -> Counter] /\ x \in [Paths -> Counter]
      /\ y \in [Paths -> Counter]
      /\ \A p \in Paths : /\ f[p] = a.shares[Key3(i, p, o)].ops /\ g[p] = b.shares[Key3(i, p, o)].ops
                          /\ x[p] = a.shares[Key3(i, p, o)].bytes /\ y[p] = b.shares[Key3(i, p, o)].bytes
  BY <1>1, <1>4, ShareParts
<1>6. IsFiniteSet(Paths)
  BY AppStateAssumption
<1>7. s.ops \in Counter /\ s.bytes \in Counter
  BY DEF OpStats
<1>8. /\ b.shares[k].ops = SaturatingAdd(a.shares[k].ops, s.ops)
      /\ b.shares[k].bytes = SaturatingAdd(a.shares[k].bytes, s.bytes)
      /\ \A j \in Pids \X Paths \X Ops : j # k => b.shares[j] = a.shares[j]
  <2>1. /\ Raise(t, k, s)[k].ops = SaturatingAdd(t[k].ops, s.ops)
        /\ Raise(t, k, s)[k].bytes = SaturatingAdd(t[k].bytes, s.bytes)
        /\ \A j \in Pids \X Paths \X Ops : j # k => Raise(t, k, s)[j] = t[j]
    <3>1. PICK K : K = Pids \X Paths \X Ops
      OBVIOUS
    <3>2. t \in [K -> OpStats] /\ k \in K
      BY <3>1
    <3>3. /\ Raise(t, k, s)[k].ops = SaturatingAdd(t[k].ops, s.ops)
          /\ Raise(t, k, s)[k].bytes = SaturatingAdd(t[k].bytes, s.bytes)
          /\ \A j \in K : j # k => Raise(t, k, s)[j] = t[j]
      BY <3>2 DEF Raise, AddOps
    <3>. QED
      BY <3>1, <3>3
  <2>2. b.shares = Raise(t, k, s)
    BY <1>2, <1>3
  <2>. QED
    BY <1>2, <2>1, <2>2
<1>9. /\ b.rows[pid][op].ops = SaturatingAdd(a.rows[pid][op].ops, s.ops)
      /\ b.rows[pid][op].bytes = SaturatingAdd(a.rows[pid][op].bytes, s.bytes)
      /\ i # pid \/ o # op => b.rows[i][o] = a.rows[i][o]
  <2>1. /\ RaiseRow(w, pid, op, s)[pid][op].ops = SaturatingAdd(w[pid][op].ops, s.ops)
        /\ RaiseRow(w, pid, op, s)[pid][op].bytes = SaturatingAdd(w[pid][op].bytes, s.bytes)
        /\ i # pid \/ o # op => RaiseRow(w, pid, op, s)[i][o] = w[i][o]
    BY DEF RaiseRow, AddOps
  <2>2. b.rows = RaiseRow(w, pid, op, s)
    BY <1>2
  <2>. QED
    BY <1>2, <2>1, <2>2
<1>10. CASE i = pid /\ o = op
  <2>1. g[path] = SaturatingAdd(f[path], s.ops) /\ y[path] = SaturatingAdd(x[path], s.bytes)
    BY <1>3, <1>5, <1>8, <1>10
  <2>2. \A p \in Paths : p # path => g[p] = f[p] /\ y[p] = x[p]
    <3>1. ASSUME NEW p \in Paths, p # path PROVE b.shares[Key3(i, p, o)] = a.shares[Key3(i, p, o)]
      <4>1. PICK j \in Pids \X Paths \X Ops : j = Key3(i, p, o) /\ j # k
        BY <1>3, <3>1, Keys3
      <4>. QED
        BY <1>8, <4>1
    <3>. QED
      BY <1>5, <3>1
  <2>3. Saturate(SumFunctionOnSet(g, Paths)) = SaturatingAdd(Saturate(SumFunctionOnSet(f, Paths)), s.ops)
    <3>1. PICK d \in Counter : d = s.ops
      BY <1>7
    <3>2. g[path] = SaturatingAdd(f[path], d) /\ \A p \in Paths : p # path => g[p] = f[p]
      BY <2>1, <2>2, <3>1
    <3>3. f \in [Paths -> Counter] /\ g \in [Paths -> Counter]
      BY <1>5
    <3>4. Saturate(SumFunctionOnSet(g, Paths)) = SaturatingAdd(Saturate(SumFunctionOnSet(f, Paths)), d)
      BY <1>6, <3>2, <3>3, SaturatedSum
    <3>. QED
      BY <3>1, <3>4
  <2>4. Saturate(SumFunctionOnSet(y, Paths)) = SaturatingAdd(Saturate(SumFunctionOnSet(x, Paths)), s.bytes)
    <3>1. PICK d \in Counter : d = s.bytes
      BY <1>7
    <3>2. y[path] = SaturatingAdd(x[path], d) /\ \A p \in Paths : p # path => y[p] = x[p]
      BY <2>1, <2>2, <3>1
    <3>3. x \in [Paths -> Counter] /\ y \in [Paths -> Counter]
      BY <1>5
    <3>4. Saturate(SumFunctionOnSet(y, Paths)) = SaturatingAdd(Saturate(SumFunctionOnSet(x, Paths)), d)
      BY <1>6, <3>2, <3>3, SaturatedSum
    <3>. QED
      BY <3>1, <3>4
  <2>. QED
    BY <1>1, <1>4, <1>9, <1>10, <2>3, <2>4 DEF RowAgrees
<1>11. CASE i # pid \/ o # op
  <2>1. \A p \in Paths : f[p] = g[p] /\ x[p] = y[p]
    <3>1. ASSUME NEW p \in Paths PROVE b.shares[Key3(i, p, o)] = a.shares[Key3(i, p, o)]
      <4>1. PICK j \in Pids \X Paths \X Ops : j = Key3(i, p, o) /\ j # k
        BY <1>3, <1>11, Keys3
      <4>. QED
        BY <1>8, <4>1
    <3>. QED
      BY <1>5, <3>1
  <2>2. f = g /\ x = y
    BY <1>5, <2>1
  <2>. QED
    BY <1>1, <1>4, <1>9, <1>11, <2>2 DEF RowAgrees
<1>. QED
  BY <1>10, <1>11

\* If one of two numbers goes up by d within the counter's width, so does their
\* sum, within that width.
LEMMA SaturatedRate ==
  ASSUME NEW m \in Nat, NEW n \in Nat, NEW d \in Nat
  PROVE  /\ Saturate(SaturatingAdd(m, d) + n) = SaturatingAdd(Saturate(m + n), d)
         /\ Saturate(m + SaturatingAdd(n, d)) = SaturatingAdd(Saturate(m + n), d)
BY CounterMaxAssumption DEF CounterMaxAssumption, Saturate, SaturatingAdd

\* The bytes in the tree are a counter's.
LEMMA TotalParts ==
  ASSUME NEW a \in AppStates, NEW path \in Paths, NEW op \in Ops
  PROVE  a.totals[Key2(path, op)].bytes \in Counter /\ a.totals[Key2(path, op)].bytes \in Nat
<1>1. PICK t \in [Paths \X Ops -> OpStats], k \in Paths \X Ops : t = a.totals /\ k = Key2(path, op)
  BY Parts, Keys2
<1>2. t[k] \in OpStats
  OBVIOUS
<1>. QED
  BY <1>1, <1>2, CounterSums DEF OpStats

\* The bytes of a read or write, added to the tree and to the rate tracker.
LEMMA RatesStillAgree ==
  ASSUME NEW a \in Agreeing, NEW b \in AppStates,
         NEW path \in Paths, NEW op \in Ops, NEW s \in OpStats,
         b.totals = Raise(a.totals, Key2(path, op), s),
         \A q \in Paths : q # path \/ op \notin {"Read", "Write"} => b.rated[q] = a.rated[q],
         op \in {"Read", "Write"} => b.rated[path] = SaturatingAdd(a.rated[path], s.bytes),
         NEW p \in Paths
  PROVE  RateAgrees(b, p)
<1>1. a \in AppStates /\ RateAgrees(a, p)
  BY DEF Agreeing
<1>2. PICK t \in [Paths \X Ops -> OpStats] : t = a.totals
  BY <1>1, Parts
<1>3. PICK k, i, j \in Paths \X Ops : k = Key2(path, op) /\ i = Key2(p, "Read") /\ j = Key2(p, "Write") /\ i # j
  BY Keys2 DEF Ops
<1>4. PICK r \in Nat, w \in Nat, d \in Nat : r = a.totals[i].bytes /\ w = a.totals[j].bytes /\ d = s.bytes
  <2>1. s.bytes \in Nat
    BY CounterSums DEF OpStats
  <2>2. a.totals[i].bytes \in Nat /\ a.totals[j].bytes \in Nat
    BY <1>1, <1>3, TotalParts DEF Ops
  <2>. QED
    BY <2>1, <2>2
<1>5. /\ b.totals[k].bytes = SaturatingAdd(a.totals[k].bytes, s.bytes)
      /\ \A l \in Paths \X Ops : l # k => b.totals[l] = a.totals[l]
  BY <1>2, <1>3, RaiseAt
<1>6. a.rated[p] = Saturate(r + w)
  BY <1>1, <1>3, <1>4 DEF RateAgrees
<1>7. RateAgrees(b, p) <=> b.rated[p] = Saturate(b.totals[i].bytes + b.totals[j].bytes)
  BY <1>3 DEF RateAgrees
<1>8. CASE k = i
  <2>1. p = path /\ op = "Read"
    <3>1. PICK o \in Ops : o = "Read" /\ Key2(p, o) = Key2(path, op)
      BY <1>3, <1>8 DEF Ops
    <3>. QED
      BY <3>1, Keys2
  <2>2. b.totals[i].bytes = SaturatingAdd(r, d) /\ b.totals[j].bytes = w
    BY <1>3, <1>4, <1>5, <1>8
  <2>3. b.rated[p] = SaturatingAdd(a.rated[p], d)
    BY <1>4, <2>1
  <2>4. Saturate(SaturatingAdd(r, d) + w) = SaturatingAdd(Saturate(r + w), d)
    BY SaturatedRate
  <2>. QED
    BY <1>6, <1>7, <2>2, <2>3, <2>4
<1>9. CASE k = j
  <2>1. p = path /\ op = "Write"
    <3>1. PICK o \in Ops : o = "Write" /\ Key2(p, o) = Key2(path, op)
      BY <1>3, <1>9 DEF Ops
    <3>. QED
      BY <3>1, Keys2
  <2>2. b.totals[i].bytes = r /\ b.totals[j].bytes = SaturatingAdd(w, d)
    BY <1>3, <1>4, <1>5, <1>9
  <2>3. b.rated[p] = SaturatingAdd(a.rated[p], d)
    BY <1>4, <2>1
  <2>4. Saturate(r + SaturatingAdd(w, d)) = SaturatingAdd(Saturate(r + w), d)
    BY SaturatedRate
  <2>. QED
    BY <1>6, <1>7, <2>2, <2>3, <2>4
<1>10. CASE k # i /\ k # j
  <2>1. p # path \/ op \notin {"Read", "Write"}
    BY <1>3, <1>10
  <2>2. b.totals[i] = a.totals[i] /\ b.totals[j] = a.totals[j]
    BY <1>3, <1>5, <1>10
  <2>. QED
    BY <1>4, <1>6, <1>7, <2>1, <2>2
<1>. QED
  BY <1>8, <1>9, <1>10

\* What leaves the sinks alone leaves them in agreement.
LEMMA AgreeingUntouched ==
  ASSUME NEW a \in Agreeing, NEW b \in AppStates,
         b.totals = a.totals, b.shares = a.shares, b.rows = a.rows, b.rated = a.rated
  PROVE  b \in Agreeing
BY DEF Agreeing, RowAgrees, RateAgrees, OpsOf, BytesOf

\* An operation that goes to every sink keeps them in agreement:
LEMMA AgreeingRaised ==
  ASSUME NEW a \in Agreeing, NEW b \in AppStates,
         NEW pid \in Pids, NEW path \in Paths, NEW op \in Ops, NEW s \in OpStats,
         b.totals = Raise(a.totals, Key2(path, op), s),
         b.shares = Raise(a.shares, Key3(pid, path, op), s),
         b.rows = RaiseRow(a.rows, pid, op, s),
         \A q \in Paths : q # path \/ op \notin {"Read", "Write"} => b.rated[q] = a.rated[q],
         op \in {"Read", "Write"} => b.rated[path] = SaturatingAdd(a.rated[path], s.bytes)
  PROVE  b \in Agreeing
<1>1. ASSUME NEW i \in Pids, NEW o \in Ops PROVE RowAgrees(b, i, o)
  BY RowsStillAgree
<1>2. ASSUME NEW p \in Paths PROVE RateAgrees(b, p)
  BY RatesStillAgree
<1>. QED
  BY <1>1, <1>2 DEF Agreeing

\* an open or a close, which moves no bytes,
LEMMA AgreeingRecordOp ==
  ASSUME NEW a \in Agreeing, NEW pid \in Pids, NEW path \in Paths, NEW op \in Ops, op \notin {"Read", "Write"},
         NEW s \in OpStats
  PROVE  RecordOp(a, pid, path, op, s) \in Agreeing
<1>1. a \in AppStates
  BY DEF Agreeing
<1>2. PICK b \in AppStates : b = RecordOp(a, pid, path, op, s)
  BY <1>1, RecordOpType
<1>3. /\ b.totals = Raise(a.totals, Key2(path, op), s)
      /\ b.shares = Raise(a.shares, Key3(pid, path, op), s)
      /\ b.rows = RaiseRow(a.rows, pid, op, s)
      /\ b.rated = a.rated
  BY <1>1, <1>2, RecordOpParts
<1>4. b \in Agreeing
  BY <1>3, AgreeingRaised
<1>. QED
  BY <1>2, <1>4

\* and a group of reads or of writes.
LEMMA AgreeingRecordGroup ==
  ASSUME NEW a \in Agreeing, NEW v \in ProcViews, NEW g \in Pending
  PROVE  RecordGroup(a, v, g) \in Agreeing
<1>1. a \in AppStates
  BY DEF Agreeing
<1>2. PICK b \in AppStates : b = RecordGroup(a, v, g)
  BY <1>1, RecordedState
<1>3. PICK d \in Descriptors, r \in Resolutions : d = <<g.pid, g.fd>> /\ r = Resolved(a, v, d)
  BY <1>1, PendingParts, ResolvedType
<1>4. Recorded(a, b, g, d, r, Fails(a, v, d))
  BY <1>1, <1>2, <1>3, RecordedParts
<1>5. CASE ~Tracked(r)
  <2>1. b.totals = a.totals /\ b.shares = a.shares /\ b.rows = a.rows /\ b.rated = a.rated
    BY <1>4, <1>5 DEF Recorded, AddAt, AddRow, AddRate
  <2>. QED
    BY <1>2, <2>1, AgreeingUntouched
<1>6. CASE Tracked(r)
  <2>1. PICK path \in Paths : path = r
    BY <1>6 DEF Tracked, Resolutions
  <2>2. PICK pid \in Pids, op \in Ops : pid = g.pid /\ op = g.op
    BY PendingParts
  <2>3. PICK s \in OpStats : s = g.stats
    BY PendingParts
  <2>4. op \in {"Read", "Write"}
    BY <2>2, PendingParts
  <2>5. b.totals = Raise(a.totals, Key2(path, op), s)
    BY <1>4, <1>6, <2>1, <2>2, <2>3 DEF Recorded, AddAt, Raise, Key2
  <2>6. b.shares = Raise(a.shares, Key3(pid, path, op), s)
    BY <1>4, <1>6, <2>1, <2>2, <2>3 DEF Recorded, AddAt, Raise, Key3
  <2>7. b.rows = RaiseRow(a.rows, pid, op, s)
    BY <1>4, <1>6, <2>2, <2>3 DEF Recorded, AddRow, RaiseRow
  <2>8. b.rated = [a.rated EXCEPT ![path] = SaturatingAdd(a.rated[path], s.bytes)]
    BY <1>4, <1>6, <2>1, <2>3 DEF Recorded, AddRate
  <2>9. a.rated \in [Paths -> Counter]
    BY <1>1, Parts
  <2>10. /\ b.rated[path] = SaturatingAdd(a.rated[path], s.bytes)
         /\ \A q \in Paths : q # path => b.rated[q] = a.rated[q]
    BY <2>8, <2>9
  <2>11. b \in Agreeing
    BY <2>4, <2>5, <2>6, <2>7, <2>10, AgreeingRaised
  <2>. QED
    BY <1>2, <2>11
<1>. QED
  BY <1>5, <1>6

\* A generation end empties the row and the shares of its process.
LEMMA AgreeingEnd ==
  ASSUME NEW a \in Agreeing, NEW pid \in Pids
  PROVE  EndGeneration(a, pid) \in Agreeing
<1>1. a \in AppStates
  BY DEF Agreeing
<1>2. PICK b \in AppStates : b = EndGeneration(a, pid)
  BY <1>1, EndGenerationForm
<1>3. /\ b.totals = a.totals
      /\ b.shares = [k \in DOMAIN a.shares |-> IF k[1] = pid THEN NoOps ELSE a.shares[k]]
      /\ b.rows = [a.rows EXCEPT ![pid] = NoRow]
      /\ b.rated = a.rated
  BY <1>1, <1>2, EndGenerationForm
<1>4. \A p \in Paths : RateAgrees(b, p)
  BY <1>3 DEF Agreeing, RateAgrees
<1>5. ASSUME NEW i \in Pids, NEW o \in Ops PROVE RowAgrees(b, i, o)
  <2>1. RowAgrees(a, i, o)
    BY DEF Agreeing
  <2>2. DOMAIN a.shares = Pids \X Paths \X Ops /\ a.rows \in [Pids -> [Ops -> OpStats]]
    BY <1>1, Parts
  <2>3. \A p \in Paths : b.shares[<<i, p, o>>] = IF i = pid THEN NoOps ELSE a.shares[<<i, p, o>>]
    BY <1>3, <2>2
  <2>4. CASE i # pid
    <3>1. OpsOf(b, i, o) = OpsOf(a, i, o) /\ BytesOf(b, i, o) = BytesOf(a, i, o)
      BY <2>3, <2>4 DEF OpsOf, BytesOf
    <3>2. b.rows[i] = a.rows[i]
      BY <1>3, <2>2, <2>4
    <3>. QED
      BY <2>1, <3>1, <3>2 DEF RowAgrees
  <2>5. CASE i = pid
    <3>1. PICK f : f = [p \in Paths |-> 0]
      OBVIOUS
    <3>2. OpsOf(b, i, o) = f /\ BytesOf(b, i, o) = f
      BY <2>3, <2>5, <3>1 DEF OpsOf, BytesOf, NoOps
    <3>3. SumFunctionOnSet(f, Paths) = 0
      BY <3>1, AppStateAssumption, SumNoNumbers
    <3>4. b.rows[i][o] = NoOps
      BY <1>3, <2>2, <2>5 DEF NoRow
    <3>. QED
      BY <3>2, <3>3, <3>4, CounterMaxAssumption DEF RowAgrees, NoOps, Saturate
  <2>. QED
    BY <2>4, <2>5
<1>. QED
  BY <1>2, <1>4, <1>5 DEF Agreeing

\* Empty sinks agree.
LEMMA NewStateAgrees == NewAppState \in Agreeing
<1>1. PICK a \in AppStates : a = NewAppState
  BY NewStateType
<1>2. /\ a.totals = [k \in Paths \X Ops |-> NoOps] /\ a.shares = [k \in Pids \X Paths \X Ops |-> NoOps]
      /\ a.rows = [pid \in Pids |-> NoRow] /\ a.rated = [path \in Paths |-> 0]
  BY <1>1 DEF NewAppState
<1>3. ASSUME NEW i \in Pids, NEW o \in Ops PROVE RowAgrees(a, i, o)
  <2>1. PICK f : f = [p \in Paths |-> 0]
    OBVIOUS
  <2>2. OpsOf(a, i, o) = f /\ BytesOf(a, i, o) = f
    BY <1>2, <2>1 DEF OpsOf, BytesOf, NoOps
  <2>3. SumFunctionOnSet(f, Paths) = 0
    BY <2>1, AppStateAssumption, SumNoNumbers
  <2>4. a.rows[i][o] = NoOps
    BY <1>2 DEF NoRow
  <2>. QED
    BY <2>2, <2>3, <2>4, CounterMaxAssumption DEF RowAgrees, NoOps, Saturate
<1>4. ASSUME NEW p \in Paths PROVE RateAgrees(a, p)
  <2>1. a.totals[Key2(p, "Read")] = NoOps /\ a.totals[Key2(p, "Write")] = NoOps /\ a.rated[p] = 0
    BY <1>2 DEF Key2, Ops
  <2>. QED
    BY <2>1, CounterMaxAssumption DEF RateAgrees, NoOps, Saturate
<1>. QED
  BY <1>1, <1>3, <1>4 DEF Agreeing

--------------------------------------------------------------------------------
\* The sinks through every step.

\* Remembering a descriptor leaves the sinks alone,
LEMMA AgreeingStored ==
  ASSUME NEW a \in Agreeing, NEW pid, NEW fd, <<pid, fd>> \in Descriptors, NEW path \in Paths
  PROVE  Store(a, pid, fd, path) \in Agreeing
<1>1. a \in AppStates
  BY DEF Agreeing
<1>2. PICK b \in AppStates : b = Store(a, pid, fd, path)
  BY <1>1, StoreType
<1>3. b.totals = a.totals /\ b.shares = a.shares /\ b.rows = a.rows /\ b.rated = a.rated
  BY <1>1, <1>2 DEF Store, AppStates
<1>. QED
  BY <1>2, <1>3, AgreeingUntouched

\* and so does forgetting some,
LEMMA AgreeingForgotten ==
  ASSUME NEW a \in Agreeing, NEW D
  PROVE  Forget(a, D) \in Agreeing
<1>1. a \in AppStates
  BY DEF Agreeing
<1>2. PICK b \in AppStates : b = Forget(a, D)
  BY <1>1, ForgetType
<1>3. b.totals = a.totals /\ b.shares = a.shares /\ b.rows = a.rows /\ b.rated = a.rated
  BY <1>1, <1>2, ForgetParts
<1>. QED
  BY <1>2, <1>3, AgreeingUntouched

\* counting events,
LEMMA AgreeingCounted ==
  ASSUME NEW a \in Agreeing
  PROVE  /\ CountFailure(a) \in Agreeing
         /\ CountIgnored(a, 1) \in Agreeing
         /\ \A n : CountOutcome(a, n) \in Agreeing
<1>1. a \in AppStates
  BY DEF Agreeing
<1>2. CountFailure(a) \in Agreeing
  <2>1. PICK b \in AppStates : b = CountFailure(a)
    BY <1>1, FailureType
  <2>2. b.totals = a.totals /\ b.shares = a.shares /\ b.rows = a.rows /\ b.rated = a.rated
    BY <1>1, <2>1 DEF CountFailure, AppStates
  <2>. QED
    BY <2>1, <2>2, AgreeingUntouched
<1>3. CountIgnored(a, 1) \in Agreeing
  <2>1. PICK b \in AppStates : b = CountIgnored(a, 1)
    BY <1>1, FailureType
  <2>2. b.totals = a.totals /\ b.shares = a.shares /\ b.rows = a.rows /\ b.rated = a.rated
    BY <1>1, <2>1 DEF CountIgnored, AppStates
  <2>. QED
    BY <2>1, <2>2, AgreeingUntouched
<1>4. ASSUME NEW n PROVE CountOutcome(a, n) \in Agreeing
  <2>1. PICK b \in AppStates : b = CountOutcome(a, n)
    BY <1>1, FailureType
  <2>2. b.totals = a.totals /\ b.shares = a.shares /\ b.rows = a.rows /\ b.rated = a.rated
    BY <1>1, <2>1, OutcomeParts
  <2>. QED
    BY <2>1, <2>2, AgreeingUntouched
<1>. QED
  BY <1>2, <1>3, <1>4

\* and a lookup.
LEMMA AgreeingResolved ==
  ASSUME NEW a \in Agreeing, NEW v \in ProcViews, NEW pid, NEW fd, <<pid, fd>> \in Descriptors
  PROVE  AfterResolve(a, v, pid, fd) \in Agreeing
<1>1. a \in AppStates
  BY DEF Agreeing
<1>2. PICK d \in Descriptors : d = <<pid, fd>>
  OBVIOUS
<1>3. PICK b : b = AfterResolve(a, v, pid, fd)
  OBVIOUS
<1>4. b = ResolvedForm(a, v, d) /\ b \in AppStates
  BY <1>1, <1>2, <1>3, AfterResolveForm
<1>5. b.totals = a.totals /\ b.shares = a.shares /\ b.rows = a.rows /\ b.rated = a.rated
  BY <1>4 DEF ResolvedForm, Form
<1>. QED
  BY <1>3, <1>4, <1>5, AgreeingUntouched

\* An open and a close count as one operation.
LEMMA OneOperationType == OneOperation \in OpStats
BY CounterSums DEF OneOperation, OpStats

\* Whatever the lifecycle event, the sinks agree after it.
LEMMA AgreeingLifecycle ==
  ASSUME NEW a \in Agreeing, NEW v \in ProcViews, NEW e \in Events, ~IsIo(e)
  PROVE  ApplyLifecycle(a, v, e) \in Agreeing
<1>1. a \in AppStates
  BY DEF Agreeing
<1>2. CASE e.kind = "Open"
  <2>1. <<e.pid, e.fd>> \in Descriptors /\ e.target \in Resolutions
    BY <1>2, LifecycleEventAssumption
  <2>2. CASE e.target = Ignored
    BY <1>2, <2>2, AgreeingCounted DEF ApplyLifecycle, ApplyOpen
  <2>3. CASE e.target # Ignored
    <3>0. PICK fd : fd = e.fd
      OBVIOUS
    <3>1. PICK w \in Paths, pid \in Pids : w = e.target /\ pid = e.pid /\ fd = e.fd
      BY <3>0, <2>1, <2>3, AppStateAssumption DEF Resolutions
    <3>2. PICK o \in Agreeing : o = IF w = Unresolved THEN CountFailure(a) ELSE a
      BY AgreeingCounted
    <3>3. PICK s \in Agreeing : s = Store(o, pid, fd, w)
      BY <2>1, <3>1, AgreeingStored
    <3>4. PICK op \in Ops, x \in OpStats : op = "Open" /\ x = OneOperation
      BY OneOperationType DEF Ops
    <3>5. RecordOp(s, pid, w, op, x) \in Agreeing
      BY <3>4, AgreeingRecordOp
    <3>6. ApplyLifecycle(a, v, e) = IF w \in Excluded THEN s ELSE RecordOp(s, pid, w, op, x)
      BY <1>2, <2>3, <3>1, <3>2, <3>3, <3>4 DEF ApplyLifecycle, ApplyOpen
    <3>. QED
      BY <3>5, <3>6
  <2>. QED
    BY <2>2, <2>3
<1>3. CASE e.kind = "Close"
  <2>1. <<e.pid, e.fd>> \in Descriptors
    BY <1>3, LifecycleEventAssumption
  <2>2. PICK d \in Descriptors, pid \in Pids : d = <<e.pid, e.fd>> /\ pid = e.pid
    BY <2>1, AppStateAssumption
  <2>3. PICK o : o = IF d \in DOMAIN a.fdCache /\ a.fdCache[d] \notin Excluded
                     THEN RecordOp(a, pid, a.fdCache[d], "Close", OneOperation) ELSE a
    OBVIOUS
  <2>4. o \in Agreeing
    <3>1. CASE d \in DOMAIN a.fdCache /\ a.fdCache[d] \notin Excluded
      <4>1. PICK w \in Paths : w = a.fdCache[d]
        BY <1>1, <3>1, Parts, CacheParts
      <4>2. PICK op \in Ops, x \in OpStats : op = "Close" /\ x = OneOperation
        BY OneOperationType DEF Ops
      <4>3. RecordOp(a, pid, w, op, x) \in Agreeing
        BY <4>2, AgreeingRecordOp
      <4>. QED
        BY <2>3, <3>1, <4>1, <4>2, <4>3
    <3>2. CASE ~(d \in DOMAIN a.fdCache /\ a.fdCache[d] \notin Excluded)
      BY <2>3, <3>2
    <3>. QED
      BY <3>1, <3>2
  <2>5. ApplyLifecycle(a, v, e) = Forget(o, {d})
    BY <1>3, <2>2, <2>3 DEF ApplyLifecycle, ApplyClose
  <2>. QED
    BY <2>4, <2>5, AgreeingForgotten
<1>4. CASE e.kind = "Dup"
  <2>1. PICK pid, old, new : pid = e.pid /\ old = e.old /\ new = e.new
    OBVIOUS
  <2>2. <<pid, old>> \in Descriptors /\ <<pid, new>> \in Descriptors
    BY <1>4, <2>1, LifecycleEventAssumption
  <2>3. PICK b \in Agreeing : b = AfterResolve(a, v, pid, old)
    BY <2>2, AgreeingResolved
  <2>4. PICK o : o = IF old = new THEN b ELSE Forget(b, {<<pid, new>>})
    OBVIOUS
  <2>5. o \in Agreeing
    BY <2>4, AgreeingForgotten
  <2>6. ~NotAFile(a, v, pid, old) => b.fdCache[<<pid, old>>] \in Paths
    BY <1>1, <2>2, <2>3, ResolveType
  <2>7. ApplyLifecycle(a, v, e) =
          IF NotAFile(a, v, pid, old) THEN o ELSE Store(o, pid, new, b.fdCache[<<pid, old>>])
    BY <1>4, <2>1, <2>3, <2>4 DEF ApplyLifecycle, ApplyDup
  <2>8. CASE NotAFile(a, v, pid, old)
    BY <2>5, <2>7, <2>8
  <2>9. CASE ~NotAFile(a, v, pid, old)
    <3>1. PICK w \in Paths : w = b.fdCache[<<pid, old>>]
      BY <2>6, <2>9
    <3>2. Store(o, pid, new, w) \in Agreeing
      BY <2>2, <2>5, AgreeingStored
    <3>. QED
      BY <2>7, <2>9, <3>1, <3>2
  <2>. QED
    BY <2>8, <2>9
<1>5. CASE e.kind = "CloseRange"
  BY <1>5, AgreeingForgotten DEF ApplyLifecycle
<1>6. CASE e.kind \in {"ProcessExec", "ProcessExit"}
  <2>1. e.pid \in Pids
    BY <1>6, LifecycleEventAssumption
  <2>. QED
    BY <1>6, <2>1, AgreeingEnd DEF ApplyLifecycle
<1>. QED
  BY <1>2, <1>3, <1>4, <1>5, <1>6, LifecycleEventAssumption DEF IsIo

\* They agree once pending groups are recorded.
LEMMA AgreeingRecording ==
  ASSUME NEW a \in Agreeing, NEW v \in ProcViews, NEW q \in Seq(Kept)
  PROVE  Recording(a, v, q) \in Agreeing
<1>1. PICK n \in Nat : n = Len(q)
  BY LenProperties
<1>2. a \in AppStates
  BY DEF Agreeing
<1>3. PICK f : IsRecording(f, a, v, q) /\ Recording(a, v, q) = f[n]
  BY <1>1, <1>2, RecordingSteps
<1>4. f[0] = a /\ \A i \in 1 .. n : f[i] = Slot(f[i - 1], v, q[i])
  BY <1>1, <1>3 DEF IsRecording
<1> DEFINE T == {i \in Nat : i <= n => f[i] \in Agreeing}
<1>5. 0 \in T
  BY <1>4
<1>6. ASSUME NEW i \in Nat, i \in T PROVE i + 1 \in T
  <2>1. CASE i + 1 <= n
    <3>1. PICK j \in 1 .. n : j = i + 1 /\ j - 1 = i
      BY <2>1
    <3>2. PICK b \in Agreeing, s \in Kept : b = f[i] /\ s = q[j]
      BY <1>1, <1>6, <3>1, LenProperties
    <3>3. f[j] = Slot(b, v, s)
      BY <1>4, <3>1, <3>2
    <3>4. Slot(b, v, s) \in Agreeing
      BY AgreeingRecordGroup DEF Slot, Kept
    <3>. QED
      BY <3>1, <3>3, <3>4
  <2>. QED
    BY <2>1
<1>. HIDE DEF T
<1>7. n \in T
  BY <1>5, <1>6, AllNumbers
<1>. QED
  BY <1>3, <1>7 DEF T

\* The sinks agree whatever is pending.
SinkInv == PromiseInv /\ app \in Agreeing

\* Every step keeps them in agreement.
LEMMA SinkInvStep == SinkInv /\ [Next]_vars => SinkInv'
<1>. SUFFICES ASSUME SinkInv, [Next]_vars PROVE SinkInv'
  OBVIOUS
<1>1. PromiseInv'
  BY PromiseInvStep DEF SinkInv
<1>. SUFFICES app' \in Agreeing
  BY <1>1 DEF SinkInv
<1>2. PICK a \in Agreeing, v \in ProcViews, q \in Seq(Kept) : a = app /\ v = procfs /\ q = groups
  BY DEF SinkInv, PromiseInv
<1>3. ASSUME NEW size \in 1 .. MaxEvents, BeginBatch(size) PROVE app' \in Agreeing
  BY <1>2, <1>3 DEF BeginBatch
<1>4. ASSUME NEW e \in Events, IngestIo(e) PROVE app' \in Agreeing
  BY <1>2, <1>4, AgreeingCounted DEF IngestIo
<1>5. ASSUME NEW e \in Events, IngestLifecycle(e) PROVE app' \in Agreeing
  <2>1. PICK r \in Seq(Kept) : app' = ApplyLifecycle(RecordAll(app, r), procfs, e)
    BY <1>5, FlushedPlaces DEF SinkInv
  <2>2. PICK b \in Agreeing : b = RecordAll(app, r)
    BY <1>2, RecordAllIs, AgreeingRecording
  <2>3. ~IsIo(e)
    BY <1>5 DEF IngestLifecycle
  <2>4. ApplyLifecycle(b, v, e) \in Agreeing
    BY <2>3, AgreeingLifecycle
  <2>. QED
    BY <1>2, <2>1, <2>2, <2>4
<1>6. CASE FinishBatch
  <2>1. Recording(a, v, q) \in Agreeing
    BY AgreeingRecording
  <2>. QED
    BY <1>2, <1>6, <2>1, RecordAllIs DEF FinishBatch
<1>7. ASSUME NEW total \in dropTotal .. MaxDrops, UpdateDropTotal(total) PROVE app' \in Agreeing
  BY <1>2, <1>7, AgreeingForgotten DEF UpdateDropTotal
<1>8. CASE Reset
  <2>1. PICK z \in Agreeing : z = NewAppState
    BY NewStateAgrees
  <2>2. app' = [z EXCEPT !.fdCache = a.fdCache] /\ app' \in AppStates
    BY <1>1, <1>2, <1>8, <2>1 DEF Reset, ResetCounts, PromiseInv
  <2>3. PICK b \in AppStates : b = app'
    BY <2>2
  <2>4. z \in AppStates
    BY DEF Agreeing
  <2>5. b.totals = z.totals /\ b.shares = z.shares /\ b.rows = z.rows /\ b.rated = z.rated
    BY <2>2, <2>3, <2>4 DEF AppStates
  <2>. QED
    BY <2>3, <2>5, AgreeingUntouched
<1>9. ASSUME NEW d \in Descriptors, NEW target \in ProcTargets[d], Rebind(d, target) PROVE app' \in Agreeing
  BY <1>2, <1>9 DEF Rebind
<1>10. CASE UNCHANGED vars
  BY <1>2, <1>10 DEF vars
<1>. QED
  BY <1>3, <1>4, <1>5, <1>6, <1>7, <1>8, <1>9, <1>10 DEF Next

\* The three sinks of record_io_group and record_process never disagree: the
\* process table, the tree's breakdown and the rate tracker hold the same
\* operations and bytes, up to where their counters saturate, through every batch,
\* exec, exit, loss and reset.
THEOREM SinksStayInStep == Spec => []SinksAgree
<1>1. Init => SinkInv
  BY PromiseInvInit, NewStateAgrees DEF Init, SinkInv
<1>2. SinkInv /\ [Next]_vars => SinkInv'
  BY SinkInvStep
<1>3. SinkInv => SinksAgree
  BY DEF SinkInv, SinksAgree, Agreeing, RowAgrees, RateAgrees, OpsOf, BytesOf, Key2
<1>. QED
  BY <1>1, <1>2, <1>3, PTL DEF Spec
=============================================================================
