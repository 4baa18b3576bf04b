------------------------------ MODULE Pipeline ------------------------------
(***************************************************************************)
(* The userspace pipeline of ncda: the kernel's ring buffer, the reader    *)
(* task and the bounded channel of ncda/src/bpf.rs, and the aggregator,    *)
(* the container discovery, the drop-counter monitor, the output task and  *)
(* the ordered shutdown of ncda/src/main.rs.                               *)
(*                                                                         *)
(* Every task is a program counter and the values it holds between two of  *)
(* its steps; a critical section of the state lock is one step, since no   *)
(* task waits for anything else while it holds the lock.  A task that      *)
(* panics with the lock poisons it, and the next lock().unwrap() of every  *)
(* other task panics too.  Records are numbered in the order of their      *)
(* emission.  What a batch does to the accounting state is module Ingest.  *)
(***************************************************************************)
EXTENDS Integers, Sequences, FiniteSets, SequencesExt, Selections

CONSTANTS
  MaxRecords,         \* bound on the records that the kernel emits
  RingCapacity,       \* records that fit into the EVENTS ring buffer
  MaxBatchEvents,     \* MAX_BATCH_EVENTS
  ChannelCapacity,    \* batches that fit into the channel
  Malformed,          \* bound: which records may be ones that do not parse
  Faults              \* the tasks that may fail: "reader", "aggregator", "stats", "output"

ASSUME PipelineAssumption ==
  /\ {MaxRecords, RingCapacity, MaxBatchEvents, ChannelCapacity} \subseteq Nat \ {0}
  /\ Malformed \subseteq Nat
  /\ Faults \subseteq {"reader", "aggregator", "stats", "output"}

VARIABLES
  attached,       \* the eBPF programs emit records
  emitted,        \* records emitted so far, the refused ones included
  ring,           \* Seq of [id, valid]: the EVENTS map
  reader,         \* "select", "drain", "send" or "done"
  batch,          \* the batch the reader is sending
  final,          \* the reader is in the drain that follows its shutdown signal
  drained,        \* the ring was empty when the batch was taken
  channel,        \* Seq of batches
  aggregator,     \* "receive", "decide", "ingest", "done" or "panicked"
  hand,           \* the batch the aggregator holds
  ingested,       \* Seq of ids: what AppState::ingest was given
  drops,          \* the counters of lost records: CAPTURE_STATS and ReaderDropCounters
  abandoned,      \* records in batches that died with the aggregator
  stats,          \* the counter sampled next, "publish", "check", "wait", or how it ended
  snapshot,       \* the DropSnapshot the monitor is working with
  published,      \* AppState::drop_total
  containers,     \* "check", "discover", "sleep", "done" or "panicked"
  output,         \* "running", "done" or "panicked"
  poisoned,       \* a task has panicked with the state lock
  main,           \* "attach", "running", the step of the shutdown that comes next, "aborted"
  signals,        \* the shutdown flags and channels that have been raised
  finalDrops      \* final_drops, once main has it

kernelVars == <<attached, emitted, ring>>
readerVars == <<reader, batch, final, drained>>
aggregatorVars == <<aggregator, hand, ingested, abandoned>>
statsVars == <<stats, snapshot, published>>
lockVars == <<containers, output, poisoned>>
mainVars == <<main, signals, finalDrops>>
vars == <<attached, emitted, ring, reader, batch, final, drained, channel, aggregator, hand,
          ingested, drops, abandoned, stats, snapshot, published, containers, output, poisoned,
          main, signals, finalDrops>>

\* DropSnapshot; the three kernel counters are one.
NoDrops == [kernel |-> 0, parse |-> 0, queue |-> 0, discarded |-> 0]

\* A total that counts what was discarded at shutdown as lost.
TotalWithDiscarded(s) == s.kernel + s.parse + s.queue + s.discarded

Total(s) == s.kernel + s.parse + s.queue

Steps ==
  {"attach", "running", "stopOutput", "discard", "stopContainers", "detach", "stopReader",
   "joinReader", "joinAggregator", "joinContainers", "stopStats", "joinOutput", "joinStats",
   "done", "aborted"}

--------------------------------------------------------------------------------
\* The kernel.  A record that finds no room is counted by ring_output_drops.

Emit(valid) ==
  /\ attached /\ emitted < MaxRecords
  /\ valid \/ emitted + 1 \in Malformed
  /\ emitted' = emitted + 1
  /\ IF Len(ring) < RingCapacity
     THEN ring' = Append(ring, [id |-> emitted + 1, valid |-> valid]) /\ UNCHANGED drops
     ELSE drops' = [drops EXCEPT !.kernel = @ + 1] /\ UNCHANGED ring
  /\ UNCHANGED <<attached, readerVars, channel, aggregatorVars, statsVars, lockVars, mainVars>>

--------------------------------------------------------------------------------
\* The reader task.

\* What parse_event accepts.
WellFormed == [id : Nat, valid : {TRUE}]

\* drain_ring_batch: up to MAX_BATCH_EVENTS records, without the malformed ones,
\* and whether the ring ran empty before the limit.
DrainRing ==
  LET size == IF Len(ring) < MaxBatchEvents THEN Len(ring) ELSE MaxBatchEvents
      taken == SubSeq(ring, 1, size)
      parsed == Selected(taken, WellFormed)
  IN  /\ ring' = SubSeq(ring, size + 1, Len(ring))
      /\ batch' = [i \in DOMAIN parsed |-> parsed[i].id]
      /\ drops' = [drops EXCEPT !.parse = @ + Cardinality({i \in 1 .. size : ~ring[i].valid})]
      /\ drained' = (Len(ring) < MaxBatchEvents)

\* Where the reader goes after send_batch has returned true.
AfterSend(isFinal, isDrained) ==
  IF ~isFinal THEN "select" ELSE IF isDrained THEN "done" ELSE "drain"

\* send_batch returns at once for an empty batch.
DrainAndSend(isFinal) ==
  /\ DrainRing
  /\ final' = isFinal
  /\ reader' = IF batch' # <<>> THEN "send" ELSE AfterSend(isFinal, drained')
  /\ UNCHANGED <<attached, emitted, channel, aggregatorVars, statsVars, lockVars, mainVars>>

ReaderReady ==
  /\ reader = "select"
  /\ ring # <<>>
  /\ DrainAndSend(FALSE)

\* Leaving the loop on the signal, without looking at the ring again.
ReaderStopAtOnce ==
  /\ \/ reader = "drain"
     \/ reader = "select" /\ "reader" \in signals
  /\ reader' = "done"
  /\ UNCHANGED <<kernelVars, batch, final, drained, channel, aggregatorVars, drops,
                 statsVars, lockVars, mainVars>>

ReaderFinalDrain ==
  /\ \/ reader = "drain"
     \/ reader = "select" /\ "reader" \in signals
  /\ DrainAndSend(TRUE)

ReceiverAlive == aggregator \notin {"done", "panicked"}

\* A channel without a bound.
ReaderSendUnbounded ==
  /\ reader = "send"
  /\ ReceiverAlive
  /\ channel' = Append(channel, batch)
  /\ batch' = <<>>
  /\ reader' = AfterSend(final, drained)
  /\ UNCHANGED <<kernelVars, final, drained, aggregatorVars, drops, statsVars, lockVars, mainVars>>

\* tx.send(batch).await waits for room in the channel.
ReaderSend ==
  /\ reader = "send"
  /\ ReceiverAlive
  /\ Len(channel) < ChannelCapacity
  /\ channel' = Append(channel, batch)
  /\ batch' = <<>>
  /\ reader' = AfterSend(final, drained)
  /\ UNCHANGED <<kernelVars, final, drained, aggregatorVars, drops, statsVars, lockVars, mainVars>>

\* The receiver is gone; the batch is dropped without being counted.
ReaderSendFailsSilently ==
  /\ reader = "send"
  /\ ~ReceiverAlive
  /\ batch' = <<>>
  /\ reader' = "done"
  /\ UNCHANGED <<kernelVars, final, drained, channel, aggregatorVars, drops, statsVars,
                 lockVars, mainVars>>

ReaderSendFails ==
  /\ reader = "send"
  /\ ~ReceiverAlive
  /\ drops' = [drops EXCEPT !.queue = @ + Len(batch)]
  /\ batch' = <<>>
  /\ reader' = "done"
  /\ UNCHANGED <<kernelVars, final, drained, channel, aggregatorVars, statsVars, lockVars, mainVars>>

\* Waiting for readiness fails.
ReaderFails ==
  /\ "reader" \in Faults
  /\ reader = "select"
  /\ reader' = "done"
  /\ UNCHANGED <<kernelVars, batch, final, drained, channel, aggregatorVars, drops,
                 statsVars, lockVars, mainVars>>

Reader ==
  \/ ReaderReady
  \/ ReaderFinalDrain
  \/ ReaderSend
  \/ ReaderSendFails

--------------------------------------------------------------------------------
\* The aggregator task.

\* The channel as a stack.
AggregatorReceiveNewest ==
  /\ aggregator = "receive"
  /\ channel # <<>>
  /\ hand' = Last(channel)
  /\ channel' = Front(channel)
  /\ aggregator' = "decide"
  /\ UNCHANGED <<kernelVars, readerVars, ingested, abandoned, drops, statsVars, lockVars, mainVars>>

AggregatorReceive ==
  /\ aggregator = "receive"
  /\ channel # <<>>
  /\ hand' = Head(channel)
  /\ channel' = Tail(channel)
  /\ aggregator' = "decide"
  /\ UNCHANGED <<kernelVars, readerVars, ingested, abandoned, drops, statsVars, lockVars, mainVars>>

\* handle_aggregator_batch, once discard_pending has been loaded.
AggregatorDiscard ==
  /\ aggregator = "decide"
  /\ "discard" \in signals
  /\ drops' = [drops EXCEPT !.discarded = @ + Len(hand)]
  /\ hand' = <<>>
  /\ aggregator' = "receive"
  /\ UNCHANGED <<kernelVars, readerVars, channel, ingested, abandoned, statsVars, lockVars, mainVars>>

AggregatorKeep ==
  /\ aggregator = "decide"
  /\ "discard" \notin signals
  /\ aggregator' = "ingest"
  /\ UNCHANGED <<kernelVars, readerVars, channel, hand, ingested, abandoned, drops,
                 statsVars, lockVars, mainVars>>

AggregatorIngest ==
  /\ aggregator = "ingest"
  /\ ~poisoned
  /\ ingested' = ingested \o hand
  /\ hand' = <<>>
  /\ aggregator' = "receive"
  /\ UNCHANGED <<kernelVars, readerVars, channel, abandoned, drops, statsVars, lockVars, mainVars>>

\* The channel is closed and empty.
AggregatorEnds ==
  /\ aggregator = "receive"
  /\ channel = <<>>
  /\ reader = "done"
  /\ aggregator' = "done"
  /\ UNCHANGED <<kernelVars, readerVars, channel, hand, ingested, abandoned, drops,
                 statsVars, lockVars, mainVars>>

\* A panic in ingest, which has the lock, or one at a lock that is poisoned: the
\* task reports nothing, and the receiver dies with it.
AggregatorPanics ==
  /\ aggregator = "ingest"
  /\ poisoned \/ "aggregator" \in Faults
  /\ poisoned' = TRUE
  /\ aggregator' = "panicked"
  /\ abandoned' = abandoned + Len(hand) + Len(FlattenSeq(channel))
  /\ hand' = <<>>
  /\ channel' = <<>>
  /\ UNCHANGED <<kernelVars, readerVars, ingested, drops, statsVars, containers, output,
                 mainVars>>

Aggregator ==
  \/ AggregatorReceive
  \/ AggregatorDiscard
  \/ AggregatorKeep
  \/ AggregatorIngest
  \/ poisoned /\ AggregatorPanics
  \/ AggregatorEnds

--------------------------------------------------------------------------------
\* monitor_drop_counters.

StatsStep(from, to) ==
  /\ stats = from
  /\ stats' = to
  /\ UNCHANGED <<kernelVars, readerVars, channel, aggregatorVars, drops, lockVars, mainVars>>

\* One counter after the other, each as it is by then.
Sample(counter, next) ==
  /\ StatsStep(counter, next)
  /\ snapshot' = [snapshot EXCEPT ![counter] = drops[counter]]
  /\ UNCHANGED published

SampleKernel == Sample("kernel", "parse")

\* ReaderDropCounters::snapshot
SampleReader ==
  \/ Sample("parse", "queue")
  \/ Sample("queue", "discarded")
  \/ Sample("discarded", "publish")

\* update_drop_total, under the state lock.
PublishDrops ==
  /\ ~poisoned
  /\ StatsStep("publish", "check")
  /\ published' = Total(snapshot)
  /\ UNCHANGED snapshot

StatsPanics ==
  /\ poisoned
  /\ StatsStep("publish", "panicked")
  /\ UNCHANGED <<snapshot, published>>

CheckStatsShutdown ==
  /\ StatsStep("check", IF "stats" \in signals THEN "done" ELSE "wait")
  /\ UNCHANGED <<snapshot, published>>

\* The next tick, or the shutdown signal.
WakeStats ==
  /\ StatsStep("wait", "kernel")
  /\ UNCHANGED <<snapshot, published>>

StatsFails ==
  /\ "stats" \in Faults
  /\ StatsStep("kernel", "failed")
  /\ UNCHANGED <<snapshot, published>>

Stats ==
  \/ SampleKernel
  \/ SampleReader
  \/ PublishDrops
  \/ StatsPanics
  \/ CheckStatsShutdown
  \/ WakeStats

--------------------------------------------------------------------------------
\* monitor_container_discovery and the output task.

ContainersStep(from, to) ==
  /\ containers = from
  /\ containers' = to
  /\ UNCHANGED <<kernelVars, readerVars, channel, aggregatorVars, drops, statsVars, output,
                 poisoned, mainVars>>

Containers ==
  \/ ContainersStep("check", IF "containers" \in signals THEN "done" ELSE "discover")
  \/ ContainersStep("discover", IF poisoned THEN "panicked" ELSE "sleep")
  \/ ContainersStep("sleep", "check")
  \/ "containers" \in signals /\ ContainersStep("sleep", "done")

OutputStep(to) ==
  /\ output = "running"
  /\ output' = to
  /\ UNCHANGED <<kernelVars, readerVars, channel, aggregatorVars, drops, statsVars,
                 containers, mainVars>>

\* The user quits, or drawing fails.
OutputEnds == OutputStep("done") /\ UNCHANGED poisoned

OutputStops == "output" \in signals /\ OutputEnds

\* A panic while the state is drawn or printed, under the lock, or one at a lock
\* that is poisoned.
OutputPanics ==
  /\ poisoned \/ "output" \in Faults
  /\ OutputStep("panicked")
  /\ poisoned' = TRUE

\* The output looks at its flag, or else takes the lock, once in a tick.
OutputTick ==
  \/ OutputStops
  \/ poisoned /\ OutputPanics

--------------------------------------------------------------------------------
\* The main task.

MainStep(from, to) ==
  /\ main = from
  /\ main' = to
  /\ UNCHANGED <<emitted, ring, readerVars, channel, aggregatorVars, drops, statsVars,
                 lockVars>>

\* The reader is running when the programs are attached.
Attach ==
  /\ MainStep("attach", "running")
  /\ attached' = TRUE
  /\ UNCHANGED <<signals, finalDrops>>

\* A task that panics reports no WorkerExit.
WorkerExited ==
  \/ reader = "done"
  \/ aggregator = "done"
  \/ stats \in {"done", "failed"}

\* The select, if it did not listen to the workers.
MainSelectOutput ==
  /\ output = "done"
  /\ MainStep("running", "stopOutput")
  /\ UNCHANGED <<attached, signals, finalDrops>>

\* The select: SIGINT or SIGTERM, the end of the output, or that of a worker.
Signal ==
  /\ MainStep("running", "stopOutput")
  /\ UNCHANGED <<attached, signals, finalDrops>>

MainSelect ==
  /\ output = "done" \/ WorkerExited
  /\ MainStep("running", "stopOutput")
  /\ UNCHANGED <<attached, signals, finalDrops>>

\* A panic of the output: main returns past the ordered shutdown and drops what it
\* owns.
MainAborts ==
  /\ output = "panicked"
  /\ MainStep("running", "aborted")
  /\ attached' = FALSE
  /\ UNCHANGED <<signals, finalDrops>>

Raise(from, signal, to) ==
  /\ MainStep(from, to)
  /\ signals' = signals \cup {signal}
  /\ UNCHANGED <<attached, finalDrops>>

StopOutput == Raise("stopOutput", "output", "discard")

DiscardPending == Raise("discard", "discard", "stopContainers")

StopContainers == Raise("stopContainers", "containers", "detach")

\* A shutdown that leaves the programs attached.
DetachNothing ==
  /\ MainStep("detach", "stopReader")
  /\ UNCHANGED <<attached, signals, finalDrops>>

\* attached.detach and drop(ebpf)
Detach ==
  /\ MainStep("detach", "stopReader")
  /\ attached' = FALSE
  /\ UNCHANGED <<signals, finalDrops>>

\* A shutdown that waits for a reader it has not told to stop.
StopReaderSilently ==
  /\ MainStep("stopReader", "joinReader")
  /\ UNCHANGED <<attached, signals, finalDrops>>

StopReader == Raise("stopReader", "reader", "joinReader")

StopStats == Raise("stopStats", "stats", "joinOutput")

Join(from, ended, to) ==
  /\ ended
  /\ MainStep(from, to)
  /\ UNCHANGED <<attached, signals, finalDrops>>

JoinReader == Join("joinReader", reader = "done", "joinAggregator")

\* A shutdown that does not wait for the backlog.
JoinAggregatorAtOnce == Join("joinAggregator", TRUE, "joinContainers")

JoinAggregator == Join("joinAggregator", ~ReceiverAlive, "joinContainers")

JoinContainers == Join("joinContainers", containers \in {"done", "panicked"}, "stopStats")

JoinOutput == Join("joinOutput", output # "running", "joinStats")

StatsEnded == stats \in {"done", "failed", "panicked"}

JoinStats ==
  /\ StatsEnded
  /\ MainStep("joinStats", "done")
  /\ finalDrops' = IF stats = "done" THEN snapshot ELSE NoDrops
  /\ UNCHANGED <<attached, signals>>

Main ==
  \/ Attach
  \/ MainSelect
  \/ MainAborts
  \/ StopOutput
  \/ DiscardPending
  \/ StopContainers
  \/ Detach
  \/ StopReader
  \/ JoinReader
  \/ JoinAggregator
  \/ JoinContainers
  \/ StopStats
  \/ JoinOutput
  \/ JoinStats

--------------------------------------------------------------------------------

Init ==
  /\ attached = FALSE
  /\ emitted = 0
  /\ ring = <<>>
  /\ reader = "select"
  /\ batch = <<>>
  /\ final = FALSE
  /\ drained = FALSE
  /\ channel = <<>>
  /\ aggregator = "receive"
  /\ hand = <<>>
  /\ ingested = <<>>
  /\ drops = NoDrops
  /\ abandoned = 0
  /\ stats = "kernel"
  /\ snapshot = NoDrops
  /\ published = 0
  /\ containers = "check"
  /\ output = "running"
  /\ poisoned = FALSE
  /\ main = "attach"
  /\ signals = {}
  /\ finalDrops = NoDrops

Step ==
  \/ \E valid \in BOOLEAN : Emit(valid)
  \/ Reader
  \/ ReaderFails
  \/ Aggregator
  \/ AggregatorPanics
  \/ Stats
  \/ StatsFails
  \/ Containers
  \/ OutputEnds
  \/ OutputPanics
  \/ Signal
  \/ Main

\* Once main has returned, the runtime drops the tasks where they are.
Next == main # "aborted" /\ Step

\* The runtime runs every task that can run; discovery commands time out, ticks
\* come, and the output polls its flag and takes the lock.  Nothing forces an event,
\* a signal, a first panic, or the user to quit.
Fairness ==
  /\ WF_vars(Reader)
  /\ WF_vars(Aggregator)
  /\ WF_vars(Stats)
  /\ WF_vars(Containers)
  /\ WF_vars(OutputTick)
  /\ WF_vars(Main)

Spec == Init /\ [][Next]_vars

FairSpec == Spec /\ Fairness

--------------------------------------------------------------------------------

Ids == 1 .. MaxRecords

Snapshots == [kernel : 0 .. MaxRecords, parse : 0 .. MaxRecords,
              queue : 0 .. MaxRecords, discarded : 0 .. MaxRecords]

\* Type invariant.  The ring and the channel stay within their capacity.
TypeOK ==
  /\ attached \in BOOLEAN
  /\ emitted \in 0 .. MaxRecords
  /\ ring \in Seq([id : Ids, valid : BOOLEAN]) /\ Len(ring) <= RingCapacity
  /\ reader \in {"select", "drain", "send", "done"}
  /\ batch \in Seq(Ids) /\ Len(batch) <= MaxBatchEvents
  /\ final \in BOOLEAN
  /\ drained \in BOOLEAN
  /\ channel \in Seq(Seq(Ids)) /\ Len(channel) <= ChannelCapacity
  /\ aggregator \in {"receive", "decide", "ingest", "done", "panicked"}
  /\ hand \in Seq(Ids)
  /\ ingested \in Seq(Ids)
  /\ drops \in Snapshots
  /\ abandoned \in 0 .. MaxRecords
  /\ stats \in {"kernel", "parse", "queue", "discarded", "publish", "check", "wait"} \cup
                {"done", "failed", "panicked"}
  /\ snapshot \in Snapshots
  /\ published \in 0 .. MaxRecords
  /\ containers \in {"check", "discover", "sleep", "done", "panicked"}
  /\ output \in {"running", "done", "panicked"}
  /\ poisoned \in BOOLEAN
  /\ main \in Steps
  /\ signals \subseteq {"output", "discard", "containers", "reader", "stats"}
  /\ finalDrops \in Snapshots

\* "Own both maps independently so dropping ebpf detaches all producers before
\* the reader's final drain": when ncda has stopped in order and no task failed,
\* no record is left in the ring, in a batch, or in the channel.  (DeliverySpec
\* then says that each one was ingested or counted.)
NothingLeftBehind ==
  main = "done" /\ Faults = {} =>
    ring = <<>> /\ batch = <<>> /\ channel = <<>> /\ hand = <<>>

\* The tasks end in the order the shutdown asks for: the reader is told to stop
\* when no program can emit any more, the monitor when nothing is left that could
\* count a loss, and main ends last.
ShutdownInOrder ==
  /\ "reader" \in signals => ~attached
  /\ "stats" \in signals =>
       reader = "done" /\ ~ReceiverAlive /\ containers \in {"done", "panicked"}
  /\ main = "done" => output # "running" /\ StatsEnded

\* What ncda shows as lost was lost: neither a sample taken while counters move
\* nor the discarding of the backlog at shutdown shows more.
ShownLossesAreReal == published <= drops.kernel + drops.parse + drops.queue

\* However the tasks interleave, the pipeline is a queue that loses records only
\* where it counts them: records are ingested in the order of their emission and
\* none twice.
Promise == INSTANCE Delivery WITH
  arrived <- emitted,
  pending <- hand \o FlattenSeq(channel) \o batch \o [i \in DOMAIN ring |-> ring[i].id],
  delivered <- ingested,
  lost <- Total(drops) + drops.discarded + abandoned

DeliverySpec == Promise!Spec

\* Once the shutdown has begun, ncda ends: no two tasks wait for each other, not
\* even with a full channel and a full ring.
ShutdownCompletes == main = "stopOutput" ~> main = "done"

\* The end of the output or of a worker ends ncda: a worker that returns reports it,
\* and one that panics with the state lock takes the output down with it, though the
\* worker itself reports nothing and no batch may ever come again.
WorkerExitEndsProgram ==
  (main # "attach" /\ (output # "running" \/ WorkerExited \/ poisoned))
    ~> main \in {"done", "aborted"}

InFlight(id) ==
  \/ \E i \in DOMAIN ring : ring[i].id = id
  \/ id \in Range(batch) \cup Range(FlattenSeq(channel)) \cup Range(hand)

\* No record stays under way for ever: its turn comes at each stage.
RecordsSettle == \A id \in Ids : InFlight(id) ~> ~InFlight(id)

\* "A final sample is taken after the reader and aggregator stop."
FinalSampleIsFinal ==
  main = "done" /\ stats = "done" => finalDrops = drops
=============================================================================
