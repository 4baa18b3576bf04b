------------------------------ MODULE FileTree ------------------------------
(***************************************************************************)
(* The file activity tree of ncda/src/model.rs: TreeNode and FileTree.     *)
(*                                                                         *)
(* A node is named by the sequence of path components that leads to it     *)
(* from the root <<>>.  `nodes` is the set of TreeNodes that exist, and    *)
(* the other tree variables are the fields of the node of that name; they  *)
(* hold the values of a fresh node where no node exists.                   *)
(*                                                                         *)
(* Two structures hold the same fact twice.  per_process says which        *)
(* processes were active at a leaf; paths_by_process is its reverse, which *)
(* remove_process uses so that it need not scan the tree.  active_paths    *)
(* counts the references of the reverse index to each path string.         *)
(*                                                                         *)
(* Every operation runs under the AppState mutex, so each is one action.   *)
(***************************************************************************)
EXTENDS NodeStats, Sequences, FiniteSets, Functions, Folds

CONSTANTS
  Pids,         \* process ids
  Paths,        \* path strings handed to record_stats
  Components,   \* Components[path]: its non-empty components (several paths may agree)
  Deltas        \* the operation deltas that record_stats is given

\* The set of prefixes of a sequence of components: the walk from the root.
WalkTo(leaf) == {SubSeq(leaf, 1, i) : i \in 0 .. Len(leaf)}

Root == <<>>

Leaves == {Components[path] : path \in Paths} \ {Root}

Nodes == (UNION {WalkTo(leaf) : leaf \in Leaves}) \cup {Root}

Parent(node) == SubSeq(node, 1, Len(node) - 1)

ASSUME FileTreeAssumption ==
  /\ IsFiniteSet(Pids)
  /\ \A path \in Paths : Components[path] \in Seq(STRING)
  /\ Deltas \subseteq NodeStats

VARIABLES
  nodes,            \* the TreeNodes that exist
  isDir,            \* TreeNode::is_dir
  stats,            \* TreeNode::stats, recorded at this very node
  aggStats,         \* TreeNode::agg_stats, including all descendants
  perProcess,       \* TreeNode::per_process
  activePaths,      \* FileTree::active_paths
  pathsByProcess    \* FileTree::paths_by_process

treeVars == <<nodes, isDir, stats, aggStats, perProcess>>
indexVars == <<activePaths, pathsByProcess>>
vars == <<nodes, isDir, stats, aggStats, perProcess, activePaths, pathsByProcess>>

Breakdown == UNION {[who -> NodeStats] : who \in SUBSET Pids}

\* The tree of FileTree::new: a root without statistics.
OnlyRootIsDir == [n \in Nodes |-> n = Root]
Unrecorded == [n \in Nodes |-> NoStats]
NoBreakdowns == [n \in Nodes |-> <<>>]

Init ==
  /\ nodes = {Root}
  /\ isDir = OnlyRootIsDir
  /\ stats = Unrecorded
  /\ aggStats = Unrecorded
  /\ perProcess = NoBreakdowns
  /\ activePaths = <<>>
  /\ pathsByProcess = <<>>

--------------------------------------------------------------------------------
\* FileTree::record_stats.

\* Aggregates of the leaf's ancestors only, missing the leaf itself.
AggregatedByAncestors(leaf) == WalkTo(Parent(leaf))

\* The nodes whose agg_stats one record adds to.
AggregatedBy(leaf) == WalkTo(leaf)

\* A walk that only makes new nodes directories, never promotes an old one.
MarkDirectoriesWhenCreated(leaf) ==
  isDir' = [n \in Nodes |-> \/ isDir[n]
                            \/ n \in WalkTo(leaf) \ ({leaf} \cup nodes)]

MarkDirectories(leaf) ==
  isDir' = [n \in Nodes |-> isDir[n] \/ n \in WalkTo(leaf) \ {leaf}]

IndexedPaths(pid) == IF pid \in DOMAIN pathsByProcess THEN pathsByProcess[pid] ELSE {}

AddToIndex(path, pid) ==
  /\ pathsByProcess' =
       [p \in DOMAIN pathsByProcess \cup {pid} |->
          IF p = pid THEN IndexedPaths(pid) \cup {path} ELSE pathsByProcess[p]]
  /\ activePaths' =
       [q \in DOMAIN activePaths \cup {path} |->
          IF q # path THEN activePaths[q]
          ELSE IF path \in DOMAIN activePaths THEN activePaths[path] + 1
          ELSE 1]

\* The index keyed to the path string: an alias is indexed a second time.
IndexEveryPathString(path, pid) ==
  IF path \in IndexedPaths(pid) THEN UNCHANGED indexVars ELSE AddToIndex(path, pid)

\* Only the first process to reach a path is indexed under it.
IndexFirstProcess(path, pid) ==
  IF path \in DOMAIN activePaths THEN UNCHANGED indexVars ELSE AddToIndex(path, pid)

\* first_process_activity: the process was not yet in the leaf's per_process.
IndexActivity(path, pid) ==
  IF pid \in DOMAIN perProcess[Components[path]]
  THEN UNCHANGED indexVars
  ELSE AddToIndex(path, pid)

AddBreakdown(breakdown, pid, delta) ==
  [p \in DOMAIN breakdown \cup {pid} |->
     IF p # pid THEN breakdown[p]
     ELSE IF pid \in DOMAIN breakdown THEN Accumulate(breakdown[pid], delta)
     ELSE delta]

RecordStats(path, pid, delta) ==
  LET leaf == Components[path]
  IN  /\ leaf # Root                        \* no component: nothing is recorded
      /\ nodes' = nodes \cup WalkTo(leaf)
      /\ MarkDirectories(leaf)
      /\ aggStats' = [n \in Nodes |-> IF n \in AggregatedBy(leaf)
                                      THEN Accumulate(aggStats[n], delta)
                                      ELSE aggStats[n]]
      /\ stats' = [stats EXCEPT ![leaf] = Accumulate(@, delta)]
      /\ perProcess' = [perProcess EXCEPT ![leaf] = AddBreakdown(@, pid, delta)]
      /\ IndexActivity(path, pid)

--------------------------------------------------------------------------------
\* FileTree::remove_process and FileTree::reset.

\* One reference less; the path string is dropped with its last reference.
Dereference(paths) ==
  activePaths' =
    [q \in {p \in DOMAIN activePaths : p \in paths => activePaths[p] > 1} |->
       IF q \in paths THEN activePaths[q] - 1 ELSE activePaths[q]]

RemoveProcess(pid) ==
  LET paths == pathsByProcess[pid]
      found == {Components[path] : path \in paths} \cap nodes
  IN  /\ pid \in DOMAIN pathsByProcess
      /\ perProcess' =
           [n \in Nodes |-> IF n \in found
                            THEN Restrict(perProcess[n], DOMAIN perProcess[n] \ {pid})
                            ELSE perProcess[n]]
      /\ pathsByProcess' = Restrict(pathsByProcess, DOMAIN pathsByProcess \ {pid})
      /\ Dereference(paths)
      /\ UNCHANGED <<nodes, isDir, stats, aggStats>>

Reset ==
  /\ nodes' = {Root}
  /\ isDir' = OnlyRootIsDir
  /\ stats' = Unrecorded
  /\ aggStats' = Unrecorded
  /\ perProcess' = NoBreakdowns
  /\ activePaths' = <<>>
  /\ pathsByProcess' = <<>>

Next ==
  \/ \E path \in Paths, pid \in Pids, delta \in Deltas : RecordStats(path, pid, delta)
  \/ \E pid \in Pids : RemoveProcess(pid)
  \/ Reset

Spec == Init /\ [][Next]_vars

--------------------------------------------------------------------------------
\* Properties.

\* The shape of the state.
TypeOK ==
  /\ nodes \subseteq Nodes
  /\ isDir \in [Nodes -> BOOLEAN]
  /\ stats \in [Nodes -> NodeStats]
  /\ aggStats \in [Nodes -> NodeStats]
  /\ perProcess \in [Nodes -> Breakdown]
  /\ DOMAIN activePaths \subseteq Paths
  /\ activePaths \in [DOMAIN activePaths -> Nat]
  /\ DOMAIN pathsByProcess \subseteq Pids
  /\ pathsByProcess \in [DOMAIN pathsByProcess -> SUBSET Paths]

\* Every ancestor of a node exists and is a directory, even one that was first
\* recorded as a file (record_stats promotes it when a later path passes
\* through it): a node that is not a directory is shown as a leaf and hides
\* whatever is below it.
TreeIsClosed ==
  \A n \in nodes \ {Root} : Parent(n) \in nodes /\ isDir[Parent(n)]

\* agg_stats, kept up incrementally along the walk, is what a scan of the
\* subtree would recompute: the node's own statistics and those of everything
\* below it, also when counters saturate.
AggregatesMatchSubtree ==
  \A n \in nodes :
    LET below == {m \in nodes : n \in WalkTo(m)}
    IN  aggStats[n] = MapThenFoldSet(Accumulate, NoStats, LAMBDA m : stats[m],
                                     LAMBDA S : CHOOSE m \in S : TRUE, below)

\* per_process and paths_by_process agree in both directions, and one process
\* is indexed under one path string per leaf (the debug_assert of
\* record_stats).  remove_process relies on it: a breakdown without an index
\* entry would survive its process and be credited to the next one with its
\* pid.
IndexSound ==
  \A pid \in DOMAIN pathsByProcess : \A path \in pathsByProcess[pid] :
    /\ Components[path] \in Leaves \cap nodes
    /\ pid \in DOMAIN perProcess[Components[path]]

IndexComplete ==
  \A n \in Nodes : \A pid \in DOMAIN perProcess[n] :
    \E path \in IndexedPaths(pid) : Components[path] = n

IndexUnique ==
  \A pid \in DOMAIN pathsByProcess : \A p, q \in pathsByProcess[pid] :
    Components[p] = Components[q] => p = q

IndexMatchesBreakdown == IndexSound /\ IndexComplete /\ IndexUnique

\* A path string is kept exactly while some process refers to it, and its
\* count is the number of those processes: no leak of path strings when
\* processes churn, and no entry dropped while still referenced.
ReferencesCounted ==
  \A path \in Paths :
    LET holders == {pid \in Pids : path \in IndexedPaths(pid)}
    IN  IF path \in DOMAIN activePaths
        THEN activePaths[path] = Cardinality(holders)
        ELSE holders = {}

\* What the tree promises: ending a process through the reverse index forgets
\* the same shares as a scan of the whole tree, and only those.
Ledger == INSTANCE ActivityLedger
            WITH direct <- [leaf \in Leaves |-> stats[leaf]],
                 shares <- [leaf \in Leaves |-> perProcess[leaf]]

LedgerSpec == Ledger!Spec
==============================================================================
