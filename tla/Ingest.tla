------------------------------- MODULE Ingest -------------------------------
(***************************************************************************)
(* AppState::ingest of ncda/src/tui/app.rs as it is written: a batch of    *)
(* events, taken one by one, in which successful reads and writes are      *)
(* combined into groups by (process, descriptor, kind).  A group is        *)
(* resolved to a path and recorded only when a lifecycle event touches its *)
(* descriptor or when the batch ends.                                      *)
(*                                                                         *)
(* The caller holds the state lock for the whole batch, so Reset and       *)
(* UpdateDropTotal come between batches; what /proc says may change at any *)
(* time, in the middle of a batch too.                                     *)
(***************************************************************************)
EXTENDS AppState, Integers, SequencesExt, Selections

CONSTANTS
  Events,         \* the events that may arrive
  MaxEvents,      \* bound on total_events between two resets
  MaxDrops        \* bound on the cumulative number of lost events

ASSUME IngestAssumption ==
  /\ MaxEvents \in Nat
  /\ MaxDrops \in Nat

\* parse_io: a successful operation moved as many bytes as it returned.
ASSUME IoEventAssumption ==
  \A e \in Events :
    e.kind \in {"Read", "Write"} =>
      /\ <<e.pid, e.fd>> \in Descriptors
      /\ e.result \in Int
      /\ e.result > 0 => e.result \in Counter
      /\ e.latency \in Counter

\* The other events, of descriptors and processes that exist.
ASSUME LifecycleEventAssumption ==
  \A e \in Events :
    \/ e.kind \in {"Read", "Write"}
    \/ e.kind = "Open" /\ <<e.pid, e.fd>> \in Descriptors /\ e.target \in Resolutions
    \/ e.kind = "Close" /\ <<e.pid, e.fd>> \in Descriptors
    \/ e.kind = "Dup" /\ <<e.pid, e.old>> \in Descriptors /\ <<e.pid, e.new>> \in Descriptors
    \/ e.kind \in {"CloseRange", "ProcessExec", "ProcessExit"} /\ e.pid \in Pids

VARIABLES
  app,            \* the accounting state
  procfs,         \* procfs[descriptor]: what /proc/pid/fd/fd resolves to now
  groups,         \* Vec<Option<IoGroup>>, in first-seen order
  positions,      \* positions[key]: the index in groups of the key's group
  remaining,      \* events of the current batch still to be taken
  totalEvents,    \* total_events
  dropTotal, dropBaseline, droppedEvents

vars == <<app, procfs, groups, positions, remaining,
          totalEvents, dropTotal, dropBaseline, droppedEvents>>

dropVars == <<dropTotal, dropBaseline, droppedEvents>>

IoKeys == {[pid |-> d[1], fd |-> d[2], op |-> op] : d \in Descriptors, op \in {"Read", "Write"}}

Key(g) == [pid |-> g.pid, fd |-> g.fd, op |-> g.op]

Groups == [pid : Pids, fd : Nat, op : {"Read", "Write"}, stats : OpStats]

\* A slot of groups whose group has been recorded.
Taken == [op |-> "None"]

IsIo(e) == e.kind \in {"Read", "Write"}

\* The lock is free: no batch is being ingested.
Idle == remaining = 0 /\ groups = <<>>

\* Every group that is still there, in their order.
RecordAll(state, slots) ==
  FoldLeft(LAMBDA a, slot : IF slot = Taken THEN a ELSE RecordGroup(a, procfs, slot),
           state, slots)

--------------------------------------------------------------------------------

BeginBatch(size) ==
  /\ Idle
  /\ totalEvents + size <= MaxEvents
  /\ totalEvents' = totalEvents + size
  /\ remaining' = size
  /\ UNCHANGED <<app, procfs, groups, positions, dropVars>>

\* accumulate_io_group
Combine(e) ==
  LET key == [pid |-> e.pid, fd |-> e.fd, op |-> e.kind]
      one == [ops |-> 1, bytes |-> e.result, peak |-> e.latency]
  IN  IF key \in DOMAIN positions
      THEN /\ groups' = [groups EXCEPT ![positions[key]].stats = AddOps(@, one)]
           /\ UNCHANGED positions
      ELSE /\ groups' = Append(groups, [pid |-> e.pid, fd |-> e.fd, op |-> e.kind,
                                        stats |-> one])
           /\ positions' = [k \in DOMAIN positions \cup {key} |->
                              IF k = key THEN Len(groups) + 1 ELSE positions[k]]

IngestIo(e) ==
  /\ remaining > 0
  /\ IsIo(e)
  /\ app' = CountOutcome(app, e.result)
  /\ IF e.result > 0 THEN Combine(e) ELSE UNCHANGED <<groups, positions>>
  /\ remaining' = remaining - 1
  /\ UNCHANGED <<procfs, totalEvents, dropVars>>

\* flush_fd_groups: the reads of a descriptor, then its writes.
KeysOf(pid, fd) ==
  <<[pid |-> pid, fd |-> fd, op |-> "Read"], [pid |-> pid, fd |-> fd, op |-> "Write"]>>

\* The pending keys e touches, in whatever order the map yields them.
PendingKeysOf(e) ==
  SetToSeqs({k \in DOMAIN positions :
               IF e.kind = "CloseRange" THEN <<k.pid, k.fd>> \in ClosedByRange(e)
                                        ELSE k.pid = e.pid})

\* The target of a dup left pending.
BarriersWithoutDupTarget(e) ==
  CASE e.kind \in {"Open", "Close"} -> {KeysOf(e.pid, e.fd)}
    [] e.kind = "Dup" -> {KeysOf(e.pid, e.old)}
    [] e.kind \in {"CloseRange", "ProcessExec", "ProcessExit"} -> PendingKeysOf(e)

\* flush_lifecycle_groups: the orders in which e may flush the groups it touches.
Barriers(e) ==
  CASE e.kind \in {"Open", "Close"} -> {KeysOf(e.pid, e.fd)}
    [] e.kind = "Dup" -> {KeysOf(e.pid, e.old)
                          \o (IF e.old = e.new THEN <<>> ELSE KeysOf(e.pid, e.new))}
    [] e.kind \in {"CloseRange", "ProcessExec", "ProcessExit"} -> PendingKeysOf(e)

\* flush_io_key for each key, with the index left in place.
TakeKeepingPositions(keys) ==
  LET slots == {positions[k] : k \in Range(keys) \cap DOMAIN positions}
  IN  /\ groups' = [i \in DOMAIN groups |-> IF i \in slots THEN Taken ELSE groups[i]]
      /\ UNCHANGED positions

Take(keys) ==
  LET slots == {positions[k] : k \in Range(keys) \cap DOMAIN positions}
  IN  /\ groups' = [i \in DOMAIN groups |-> IF i \in slots THEN Taken ELSE groups[i]]
      /\ positions' = Restrict(positions, DOMAIN positions \ Range(keys))

IngestLifecycle(e) ==
  /\ remaining > 0
  /\ ~IsIo(e)
  /\ \E keys \in Barriers(e) :
       LET pending == Selected(keys, DOMAIN positions)
           recorded == RecordAll(app, [i \in DOMAIN pending |-> groups[positions[pending[i]]]])
       IN  /\ app' = ApplyLifecycle(recorded, procfs, e)
           /\ Take(keys)
  /\ remaining' = remaining - 1
  /\ UNCHANGED <<procfs, totalEvents, dropVars>>

\* flush_io_groups
FinishBatch ==
  /\ remaining = 0
  /\ groups # <<>>
  /\ app' = RecordAll(app, groups)
  /\ groups' = <<>>
  /\ positions' = <<>>
  /\ UNCHANGED <<procfs, remaining, totalEvents, dropVars>>

--------------------------------------------------------------------------------

UpdateDropTotal(total) ==
  /\ Idle
  /\ app' = IF total > dropTotal THEN Forget(app, Descriptors) ELSE app
  /\ dropTotal' = total
  /\ droppedEvents' = IF total > dropBaseline THEN total - dropBaseline ELSE 0
  /\ UNCHANGED <<procfs, groups, positions, remaining, totalEvents, dropBaseline>>

Reset ==
  /\ Idle
  /\ app' = ResetCounts(app)
  /\ totalEvents' = 0
  /\ dropBaseline' = dropTotal
  /\ droppedEvents' = 0
  /\ UNCHANGED <<procfs, groups, positions, remaining, dropTotal>>

\* A monitored process, or its end, changes what a descriptor refers to.
Rebind(d, target) ==
  /\ procfs' = [procfs EXCEPT ![d] = target]
  /\ UNCHANGED <<app, groups, positions, remaining, totalEvents, dropVars>>

--------------------------------------------------------------------------------

Init ==
  /\ app = NewAppState
  /\ procfs \in ProcViews
  /\ groups = <<>>
  /\ positions = <<>>
  /\ remaining = 0
  /\ totalEvents = 0
  /\ dropTotal = 0
  /\ dropBaseline = 0
  /\ droppedEvents = 0

Next ==
  \/ \E size \in 1 .. MaxEvents : BeginBatch(size)
  \/ \E e \in Events : IngestIo(e)
  \/ \E e \in Events : IngestLifecycle(e)
  \/ FinishBatch
  \/ \E total \in dropTotal .. MaxDrops : UpdateDropTotal(total)
  \/ Reset
  \/ \E d \in Descriptors : \E target \in ProcTargets[d] : Rebind(d, target)

Spec == Init /\ [][Next]_vars

--------------------------------------------------------------------------------

\* The index and the vector of accumulate_io_group and flush_io_key agree: an
\* indexed group is active ("indexed I/O group must remain active"), it is the
\* group of its key, and no active group is out of the index's reach, so none
\* panics and none waits for a lifecycle event that will not find it.
IndexedGroupsAreActive ==
  /\ \A k \in DOMAIN positions :
       /\ positions[k] \in DOMAIN groups
       /\ groups[positions[k]] # Taken
       /\ Key(groups[positions[k]]) = k
  /\ \A i \in DOMAIN groups :
       groups[i] # Taken => /\ Key(groups[i]) \in DOMAIN positions
                            /\ positions[Key(groups[i])] = i

Saturate(n) == IF n > CounterMax THEN CounterMax ELSE n

\* The three sinks of record_io_group and record_process never disagree: a
\* process's row is what the tree's breakdown holds of it over all paths, and
\* the bytes in the rate tracker are those of the tree's reads and writes, the
\* part that came from processes that have since ended included.
SinksAgree ==
  /\ \A pid \in Pids, op \in Ops :
       /\ app.rows[pid][op].ops =
            Saturate(SumFunctionOnSet([path \in Paths |-> app.shares[<<pid, path, op>>].ops], Paths))
       /\ app.rows[pid][op].bytes =
            Saturate(SumFunctionOnSet([path \in Paths |-> app.shares[<<pid, path, op>>].bytes], Paths))
  /\ \A path \in Paths :
       app.rated[path] =
         Saturate(app.totals[<<path, "Read">>].bytes + app.totals[<<path, "Write">>].bytes)

\* What procfs says of d cannot matter to an operation that is still pending.
Settled(d) ==
  \A k \in DOMAIN positions : <<k.pid, k.fd>> = d => d \in DOMAIN app.fdCache

\* Pending operations of a descriptor that was never resolved will be attributed to
\* another target than the one it had when they were taken.
Unsettles == \E d \in Descriptors : ~Settled(d) /\ procfs'[d] # procfs[d]

\* Ingestion as a promise: with the pending groups counted as recorded, ingest
\* goes through the same accounts as one that records every event at its place
\* in the order of arrival ("Preserve every lifecycle boundary"), whatever changes
\* in /proc, but for the very change that Unsettles pending operations.
PerEvent == INSTANCE PerEventIngest WITH
  app <- RecordAll(app, groups),
  ingested <- totalEvents - remaining

PerEventSpec == PerEvent!Init /\ [][PerEvent!Next \/ Unsettles]_(PerEvent!vars)

\* Combining operations changes no account: taking an event adds what that very
\* event adds by itself, to bytes, operations, latency, rows, failures and
\* ignored events alike ("reduces repeated tree and procfs work without changing
\* byte, operation, latency, or lifecycle accounting").
EventsCountForThemselves ==
  [][\A e \in Events : IngestIo(e) \/ IngestLifecycle(e) => PerEvent!Ingest(e)]_vars
=============================================================================
