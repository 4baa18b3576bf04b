--------------------------- MODULE PerEventIngest ---------------------------
(***************************************************************************)
(* What AppState::ingest promises: every event is accounted for by itself, *)
(* in the order in which the ring buffer delivered them.                   *)
(***************************************************************************)
EXTENDS AppState

CONSTANT Events       \* the events that may arrive

VARIABLES
  app,          \* the accounting state
  procfs,       \* procfs[descriptor]: what /proc/pid/fd/fd resolves to now
  ingested      \* total_events

IsIo(e) == e.kind \in {"Read", "Write"}

\* A successful read or write as a group of its own.
GroupOf(e) ==
  [pid |-> e.pid, fd |-> e.fd, op |-> e.kind,
   stats |-> [ops |-> 1, bytes |-> e.result, peak |-> e.latency]]

IngestOne(state, e) ==
  IF ~IsIo(e) THEN ApplyLifecycle(state, procfs, e)
  ELSE LET counted == CountOutcome(state, e.result)
       IN  IF e.result > 0 THEN RecordGroup(counted, procfs, GroupOf(e)) ELSE counted

Ingest(e) ==
  /\ ingested' = ingested + 1
  /\ UNCHANGED procfs
  /\ app' = IngestOne(app, e)

\* Another process changes what a descriptor refers to.
Rebind(d, target) ==
  /\ UNCHANGED ingested
  /\ procfs' = [procfs EXCEPT ![d] = target]
  /\ UNCHANGED app

\* update_drop_total after a loss.
Lose ==
  /\ UNCHANGED <<procfs, ingested>>
  /\ app' = Forget(app, Descriptors)

Reset ==
  /\ ingested' = 0
  /\ UNCHANGED procfs
  /\ app' = ResetCounts(app)

Init ==
  /\ app = NewAppState
  /\ procfs \in ProcViews
  /\ ingested = 0

Next ==
  \/ \E e \in Events : Ingest(e)
  \/ \E d \in Descriptors : \E target \in ProcTargets[d] : Rebind(d, target)
  \/ Lose
  \/ Reset

vars == <<app, procfs, ingested>>

Spec == Init /\ [][Next]_vars
=============================================================================
