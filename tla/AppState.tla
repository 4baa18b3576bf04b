------------------------------ MODULE AppState ------------------------------
(***************************************************************************)
(* The accounting state of ncda/src/tui/app.rs and what one event, or one  *)
(* group of I/O events, does to it.  The operators are functions from one  *)
(* AppState to the next; Ingest says in which order they are applied.      *)
(*                                                                         *)
(* Statistics are [ops, bytes, peak]: NodeStats for one kind of operation  *)
(* (bytes stands for the latency sum too, which is added up alike).  The   *)
(* tree is the per-path totals and the per-process shares of them that     *)
(* module FileTree keeps; the process table is one row per process; the    *)
(* rate tracker and the event log are the bytes given to them per path.    *)
(* The container name that decorates a path is a function of its process   *)
(* here, so it is left out of the path.                                    *)
(***************************************************************************)
EXTENDS NodeStats, FiniteSets, Functions

CONSTANTS
  Pids, Paths,
  Descriptors,    \* pairs of a process and a descriptor number
  Unresolved,     \* the /[unresolved]/ path; also a resolution that failed
  Ignored,        \* the resolution of a pipe, a socket, or another non-file
  Excluded,       \* the paths below --exclude prefixes
  ProcTargets     \* ProcTargets[d]: what /proc may say of descriptor d

ASSUME AppStateAssumption ==
  /\ IsFiniteSet(Paths)                   \* paths are bounded in length
  /\ Descriptors \subseteq Pids \X Nat
  /\ Unresolved \in Paths
  /\ Ignored \notin Paths
  /\ Excluded \subseteq Paths
  /\ ProcTargets \in [Descriptors -> SUBSET (Paths \cup {Ignored})]

Ops == {"Open", "Read", "Write", "Close"}

\* PathResolution: a path (perhaps under /[unresolved]/) or nothing to track.
Resolutions == Paths \cup {Ignored}

\* The views of /proc/pid/fd that ncda may meet.
ProcViews == {view \in [Descriptors -> Resolutions] :
                \A d \in Descriptors : view[d] \in ProcTargets[d]}

DescriptorsOf(pid) == {d \in Descriptors : d[1] = pid}

OpStats == [ops : Counter, bytes : Counter, peak : Counter]

NoOps == [ops |-> 0, bytes |-> 0, peak |-> 0]

AddOps(s, d) ==
  [ops   |-> SaturatingAdd(s.ops, d.ops),
   bytes |-> SaturatingAdd(s.bytes, d.bytes),
   peak  |-> Larger(s.peak, d.peak)]

OneOperation == [ops |-> 1, bytes |-> 0, peak |-> 0]

NoRow == [op \in Ops |-> NoOps]

NewAppState ==
  [fdCache  |-> <<>>,
   totals   |-> [k \in Paths \X Ops |-> NoOps],
   shares   |-> [k \in Pids \X Paths \X Ops |-> NoOps],
   rows     |-> [pid \in Pids |-> NoRow],
   rated    |-> [path \in Paths |-> 0],
   failures |-> 0,    \* attribution_failures
   ignored  |-> 0,    \* ignored_non_file_events
   failed   |-> 0,    \* failed_io_events
   empty    |-> 0]    \* zero_byte_io_events

--------------------------------------------------------------------------------
\* The descriptor cache: FdPathCache::store, on_close, on_close_range and
\* on_process_reset.

Store(app, pid, fd, path) ==
  [app EXCEPT !.fdCache =
     [d \in DOMAIN @ \cup {<<pid, fd>>} |-> IF d = <<pid, fd>> THEN path ELSE @[d]]]

Forget(app, descriptors) ==
  [app EXCEPT !.fdCache = Restrict(@, DOMAIN @ \ descriptors)]

\* CLOSE_RANGE_CLOEXEC marks descriptors; it closes none of them.
ClosedByRange(e) ==
  IF e.cloexec THEN {} ELSE {d \in DescriptorsOf(e.pid) : d[2] \in e.first .. e.last}

--------------------------------------------------------------------------------
\* Recording an operation in every sink.

CountFailure(app) == [app EXCEPT !.failures = SaturatingAdd(@, 1)]

CountIgnored(app, n) == [app EXCEPT !.ignored = SaturatingAdd(@, n)]

\* tree.record_stats and process_table.record_stats_with_context.
RecordOp(app, pid, path, op, delta) ==
  [app EXCEPT !.totals[<<path, op>>] = AddOps(@, delta),
              !.shares[<<pid, path, op>>] = AddOps(@, delta),
              !.rows[pid][op] = AddOps(@, delta)]

\* global_rate.record_at and event_log.record_at.
RecordRate(app, path, bytes) == [app EXCEPT !.rated[path] = SaturatingAdd(@, bytes)]

\* Whether resolve_fd_path finds no path to track.
NotAFile(app, procfs, pid, fd) ==
  <<pid, fd>> \notin DOMAIN app.fdCache /\ procfs[<<pid, fd>>] = Ignored

\* What resolve_fd_path leaves behind: a cache miss is resolved through procfs,
\* counted if it fails, and remembered unless it is not a file.
AfterResolve(app, procfs, pid, fd) ==
  LET target == procfs[<<pid, fd>>]
  IN  IF <<pid, fd>> \in DOMAIN app.fdCache THEN app
      ELSE IF target = Ignored THEN CountIgnored(app, 1)
      ELSE Store(IF target = Unresolved THEN CountFailure(app) ELSE app, pid, fd, target)

\* An ignored group counted once, however many operations it holds.
RecordGroupIgnoringOnce(app, procfs, g) ==
  LET resolved == AfterResolve(app, procfs, g.pid, g.fd)
      path == resolved.fdCache[<<g.pid, g.fd>>]
  IN  IF NotAFile(app, procfs, g.pid, g.fd) \/ path \in Excluded THEN resolved
      ELSE RecordRate(RecordOp(resolved, g.pid, path, g.op, g.stats), path, g.stats.bytes)

RecordGroup(app, procfs, g) ==
  LET resolved == AfterResolve(app, procfs, g.pid, g.fd)
      path == resolved.fdCache[<<g.pid, g.fd>>]
  IN  IF NotAFile(app, procfs, g.pid, g.fd)
      THEN CountIgnored(resolved, g.stats.ops - 1)
      ELSE IF path \in Excluded THEN resolved
      ELSE RecordRate(RecordOp(resolved, g.pid, path, g.op, g.stats), path, g.stats.bytes)

\* record_io_outcome.
CountOutcome(app, result) ==
  IF result < 0 THEN [app EXCEPT !.failed = SaturatingAdd(@, 1)]
  ELSE IF result = 0 THEN [app EXCEPT !.empty = SaturatingAdd(@, 1)]
  ELSE app

--------------------------------------------------------------------------------
\* ingest_lifecycle, by kind of event.

\* An open that resolves to a non-file returns before it touches the cache.
ApplyOpen(app, e) ==
  LET counted == IF e.target = Unresolved THEN CountFailure(app) ELSE app
      stored == Store(counted, e.pid, e.fd, e.target)
  IN  IF e.target = Ignored THEN CountIgnored(app, 1)
      ELSE IF e.target \in Excluded THEN stored
      ELSE RecordOp(stored, e.pid, e.target, "Open", OneOperation)

ApplyClose(app, e) ==
  LET d == <<e.pid, e.fd>>
      tracked == d \in DOMAIN app.fdCache /\ app.fdCache[d] \notin Excluded
  IN  Forget(IF tracked THEN RecordOp(app, e.pid, app.fdCache[d], "Close", OneOperation)
             ELSE app, {d})

ApplyDup(app, procfs, e) ==
  LET resolved == AfterResolve(app, procfs, e.pid, e.old)
      closed == IF e.old = e.new THEN resolved ELSE Forget(resolved, {<<e.pid, e.new>>})
  IN  IF NotAFile(app, procfs, e.pid, e.old) THEN closed
      ELSE Store(closed, e.pid, e.new, resolved.fdCache[<<e.pid, e.old>>])

\* A generation end that leaves the process table's row in place.
KeepRow(app, pid) ==
  [Forget(app, DescriptorsOf(pid)) EXCEPT
     !.shares = [k \in DOMAIN @ |-> IF k[1] = pid THEN NoOps ELSE @[k]]]

EndGeneration(app, pid) ==
  [Forget(app, DescriptorsOf(pid)) EXCEPT
     !.rows[pid] = NoRow,
     !.shares = [k \in DOMAIN @ |-> IF k[1] = pid THEN NoOps ELSE @[k]]]

ApplyLifecycle(app, procfs, e) ==
  CASE e.kind = "Open"       -> ApplyOpen(app, e)
    [] e.kind = "Close"      -> ApplyClose(app, e)
    [] e.kind = "Dup"        -> ApplyDup(app, procfs, e)
    [] e.kind = "CloseRange" -> Forget(app, ClosedByRange(e))
    [] e.kind \in {"ProcessExec", "ProcessExit"} -> EndGeneration(app, e.pid)

\* AppState::reset keeps what is known about descriptors.
ResetCounts(app) == [NewAppState EXCEPT !.fdCache = app.fdCache]
=============================================================================
