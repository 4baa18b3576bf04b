--------------------------- MODULE PipelineProofs ---------------------------
(***************************************************************************)
(* Proofs about Pipeline, for any number of records, any capacities, and   *)
(* (where a theorem does not say otherwise) any faults.                    *)
(***************************************************************************)
EXTENDS Pipeline, Lemmas, SequenceTheorems, FiniteSetTheorems, TLAPS

\* The steps of the shutdown that come after a given one.
AfterJoinOutput == {"joinStats", "done"}
AfterStopStats == {"joinOutput"} \cup AfterJoinOutput
AfterJoinContainers == {"stopStats"} \cup AfterStopStats
AfterJoinAggregator == {"joinContainers"} \cup AfterJoinContainers
AfterJoinReader == {"joinAggregator"} \cup AfterJoinAggregator
AfterStopReader == {"joinReader"} \cup AfterJoinReader
AfterDetach == {"stopReader"} \cup AfterStopReader

\* The ways in which the output ends.
Outputs == OutputEnds \/ OutputPanics

--------------------------------------------------------------------------------
\* The order of the shutdown.

\* Where main is tells what has been signalled and what has ended.
OrderInv ==
  /\ main \in AfterDetach => ~attached
  /\ "reader" \in signals => main \in AfterStopReader
  /\ main \in AfterJoinReader => reader = "done"
  /\ main \in AfterJoinAggregator => ~ReceiverAlive
  /\ main \in AfterJoinContainers => containers \in {"done", "panicked"}
  /\ "stats" \in signals => main \in AfterStopStats
  /\ main \in AfterJoinOutput => output # "running"
  /\ main = "done" => StatsEnded

LEMMA OrderInvInit == Init => OrderInv
BY DEF Init, OrderInv, AfterDetach, AfterStopReader, AfterJoinReader, AfterJoinAggregator,
       AfterJoinContainers, AfterStopStats, AfterJoinOutput

\* A step of another task than main undoes no end that main has waited for.
LEMMA EndsLast ==
  ASSUME Emit(TRUE) \/ Emit(FALSE) \/ Reader \/ ReaderFails \/ Aggregator
         \/ AggregatorPanics \/ Stats \/ StatsFails \/ Containers \/ Outputs
  PROVE  /\ UNCHANGED <<main, signals>>
         /\ attached' = attached
         /\ reader = "done" => reader' = "done"
         /\ ~ReceiverAlive => ~ReceiverAlive'
         /\ containers \in {"done", "panicked"} => containers' \in {"done", "panicked"}
         /\ output # "running" => output' # "running"
         /\ StatsEnded => StatsEnded'
<1>. USE DEF StatsEnded
<1>1. CASE Emit(TRUE) \/ Emit(FALSE)
  BY <1>1 DEF Emit, readerVars, aggregatorVars, statsVars, lockVars, mainVars, ReceiverAlive
<1>2. CASE Reader
  <2>1. CASE ReaderReady \/ ReaderFinalDrain
    BY <2>1 DEF ReaderReady, ReaderFinalDrain, DrainAndSend, aggregatorVars, statsVars,
                lockVars, mainVars, ReceiverAlive
  <2>2. CASE ReaderSend
    BY <2>2 DEF ReaderSend, kernelVars, aggregatorVars, statsVars, lockVars, mainVars, ReceiverAlive
  <2>3. CASE ReaderSendFails
    BY <2>3 DEF ReaderSendFails, kernelVars, aggregatorVars, statsVars, lockVars, mainVars,
                ReceiverAlive
  <2>. QED
    BY <1>2, <2>1, <2>2, <2>3 DEF Reader
<1>3. CASE ReaderFails
  BY <1>3 DEF ReaderFails, kernelVars, aggregatorVars, statsVars, lockVars, mainVars, ReceiverAlive
<1>4. CASE Aggregator \/ AggregatorPanics
  BY <1>4 DEF Aggregator, AggregatorReceive, AggregatorDiscard, AggregatorKeep,
              AggregatorIngest, AggregatorEnds, AggregatorPanics, kernelVars, readerVars,
              statsVars, lockVars, mainVars, ReceiverAlive
<1>5. CASE Stats \/ StatsFails
  BY <1>5 DEF Stats, SampleKernel, Sample, SampleReader, PublishDrops, StatsPanics, CheckStatsShutdown, WakeStats,
              StatsFails, StatsStep, kernelVars, readerVars, aggregatorVars, lockVars, mainVars,
              ReceiverAlive
<1>6. CASE Containers
  BY <1>6 DEF Containers, ContainersStep, kernelVars, readerVars, aggregatorVars, statsVars,
              lockVars, mainVars, ReceiverAlive
<1>7. CASE Outputs
  BY <1>7 DEF Outputs, OutputEnds, OutputPanics, OutputStep, kernelVars, readerVars, aggregatorVars, statsVars, lockVars, mainVars,
              ReceiverAlive
<1>. QED
  BY <1>1, <1>2, <1>3, <1>4, <1>5, <1>6, <1>7

\* A step of main advances it by one, and past a wait only when it is over.
LEMMA MainKeepsOrder ==
  ASSUME OrderInv, Main \/ Signal
  PROVE  OrderInv'
<1>. USE DEF OrderInv, MainStep, lockVars, readerVars, statsVars, ReceiverAlive, StatsEnded,
             AfterDetach, AfterStopReader, AfterJoinReader, AfterJoinAggregator,
             AfterJoinContainers, AfterStopStats, AfterJoinOutput
<1>1. CASE Attach
  BY <1>1 DEF Attach, aggregatorVars
<1>2. CASE MainSelect \/ Signal
  BY <1>2 DEF MainSelect, Signal, aggregatorVars
<1>3. CASE StopOutput \/ DiscardPending \/ StopContainers
  BY <1>3 DEF StopOutput, DiscardPending, StopContainers, Raise, aggregatorVars
<1>4. CASE Detach
  BY <1>4 DEF Detach, aggregatorVars
<1>5. CASE StopReader
  BY <1>5 DEF StopReader, Raise, aggregatorVars
<1>6. CASE StopStats
  BY <1>6 DEF StopStats, Raise, aggregatorVars
<1>7. CASE JoinReader
  BY <1>7 DEF JoinReader, Join, aggregatorVars
<1>8. CASE JoinAggregator
  BY <1>8 DEF JoinAggregator, Join, aggregatorVars
<1>9. CASE JoinContainers
  BY <1>9 DEF JoinContainers, Join, aggregatorVars
<1>10. CASE JoinOutput
  BY <1>10 DEF JoinOutput, Join, aggregatorVars
<1>11. CASE JoinStats
  BY <1>11 DEF JoinStats, aggregatorVars
<1>12. CASE MainAborts
  BY <1>12 DEF MainAborts, aggregatorVars
<1>. QED
  BY <1>1, <1>2, <1>3, <1>4, <1>5, <1>6, <1>7, <1>8, <1>9, <1>10, <1>11, <1>12 DEF Main

LEMMA OrderInvStep == OrderInv /\ [Next]_vars => OrderInv'
<1>. SUFFICES ASSUME OrderInv, [Next]_vars PROVE OrderInv'
  OBVIOUS
<1>1. CASE UNCHANGED vars
  BY <1>1 DEF vars, OrderInv, ReceiverAlive, StatsEnded
<1>2. CASE Main \/ Signal
  BY <1>2, MainKeepsOrder
<1>3. CASE Emit(TRUE) \/ Emit(FALSE) \/ Reader \/ ReaderFails \/ Aggregator
           \/ AggregatorPanics \/ Stats \/ StatsFails \/ Containers \/ Outputs
  <2>1. /\ UNCHANGED <<main, signals>>
        /\ attached' = attached
        /\ reader = "done" => reader' = "done"
        /\ ~ReceiverAlive => ~ReceiverAlive'
        /\ containers \in {"done", "panicked"} => containers' \in {"done", "panicked"}
        /\ output # "running" => output' # "running"
        /\ StatsEnded => StatsEnded'
    BY <1>3, EndsLast
  <2>. QED
    BY <2>1 DEF OrderInv, AfterDetach, AfterStopReader, AfterJoinReader, AfterJoinAggregator,
                AfterJoinContainers, AfterStopStats, AfterJoinOutput
<1>. QED
  BY <1>1, <1>2, <1>3 DEF Next, Step, Outputs

\* The tasks end in the order the shutdown of main.rs asks for, whatever fails.
THEOREM ShutdownIsOrdered == Spec => []ShutdownInOrder
<1>1. Init => OrderInv
  BY OrderInvInit
<1>2. OrderInv /\ [Next]_vars => OrderInv'
  BY OrderInvStep
<1>3. OrderInv => ShutdownInOrder
  BY DEF OrderInv, ShutdownInOrder, AfterDetach, AfterStopReader, AfterJoinReader,
         AfterJoinAggregator, AfterJoinContainers, AfterStopStats, AfterJoinOutput
<1>. QED
  BY <1>1, <1>2, <1>3, PTL DEF Spec

--------------------------------------------------------------------------------
\* What is left when ncda has ended without a failure.

Records == [id : Nat, valid : BOOLEAN]

\* The reader ends only with an empty ring that nobody fills any more, and the
\* aggregator only after the reader, with an empty channel.
DrainInv ==
  /\ emitted \in Nat
  /\ ring \in Seq(Records)
  /\ final => "reader" \in signals
  /\ reader \in {"select", "drain", "send", "done"}
  /\ reader = "drain" => final
  /\ reader = "send" /\ final /\ drained => ring = <<>>
  /\ reader # "send" => batch = <<>>
  /\ reader = "done" => "reader" \in signals /\ ring = <<>>
  /\ poisoned = FALSE
  /\ aggregator \in {"receive", "decide", "ingest", "done"}
  /\ aggregator = "done" => channel = <<>> /\ reader = "done"
  /\ aggregator \in {"receive", "done"} => hand = <<>>

\* Only the final drain finds the ring to be empty for good.
LEMMA DrainTakes ==
  ASSUME ring \in Seq(Records), DrainRing, PipelineAssumption
  PROVE  /\ ring' \in Seq(Records)
         /\ drained' => ring' = <<>>
<1>1. MaxBatchEvents \in Nat \ {0} /\ Len(ring) \in Nat
      /\ \A i \in 1 .. Len(ring) : ring[i] \in Records
  BY LenProperties DEF PipelineAssumption
<1> DEFINE size == IF Len(ring) < MaxBatchEvents THEN Len(ring) ELSE MaxBatchEvents
<1>2. ring' = SubSeq(ring, size + 1, Len(ring)) /\ drained' = (Len(ring) < MaxBatchEvents)
  BY DEF DrainRing
<1>3. size \in 0 .. Len(ring)
  BY <1>1
<1>4. \A i \in size + 1 .. Len(ring) : ring[i] \in Records
  BY <1>1, <1>3
<1>5. ring' \in Seq(Records)
  <2>. HIDE DEF size
  <2>1. size + 1 \in Int /\ Len(ring) \in Int
    BY <1>1, <1>3
  <2>. QED
    BY <1>2, <1>4, <2>1, SubSeqProperties
<1>6. ASSUME drained' PROVE ring' = <<>>
  <2>1. size = Len(ring)
    BY <1>2, <1>6
  <2>. HIDE DEF size
  <2>2. size + 1 \in Int /\ Len(ring) \in Int /\ Len(ring) < size + 1
    BY <1>1, <2>1
  <2>. QED
    BY <1>2, <2>2, SubSeqEmpty
<1>. QED
  BY <1>5, <1>6

LEMMA DrainInvInit == Init => DrainInv
BY EmptySeq DEF Init, DrainInv

LEMMA ReaderKeepsDrainInv ==
  ASSUME DrainInv, OrderInv, Reader, PipelineAssumption
  PROVE  DrainInv'
<1>1. CASE ReaderReady
  <2>1. /\ DrainRing /\ final' = FALSE
        /\ reader' = IF batch' # <<>> THEN "send" ELSE "select"
        /\ reader = "select"
        /\ UNCHANGED <<attached, emitted, channel, aggregatorVars, statsVars, lockVars, mainVars>>
    BY <1>1 DEF ReaderReady, DrainAndSend, AfterSend
  <2>2. ring' \in Seq(Records)
    BY <2>1, DrainTakes DEF DrainInv
  <2>. QED
    BY <2>1, <2>2 DEF DrainInv, aggregatorVars, lockVars, mainVars
<1>2. CASE ReaderFinalDrain
  <2>1. /\ DrainRing /\ final' = TRUE
        /\ reader' = IF batch' # <<>> THEN "send" ELSE IF drained' THEN "done" ELSE "drain"
        /\ reader \in {"drain", "select"} /\ "reader" \in signals
        /\ UNCHANGED <<attached, emitted, channel, aggregatorVars, statsVars, lockVars, mainVars>>
    BY <1>2 DEF ReaderFinalDrain, DrainAndSend, AfterSend, DrainInv
  <2>2. ring' \in Seq(Records) /\ (drained' => ring' = <<>>)
    BY <2>1, DrainTakes DEF DrainInv
  <2>. QED
    BY <2>1, <2>2 DEF DrainInv, aggregatorVars, lockVars, mainVars
<1>3. CASE ReaderSend
  BY <1>3 DEF ReaderSend, AfterSend, DrainInv, ReceiverAlive, kernelVars, aggregatorVars,
              lockVars, mainVars
<1>4. CASE ReaderSendFails
  BY <1>4 DEF ReaderSendFails, ReceiverAlive, DrainInv
<1>. QED
  BY <1>1, <1>2, <1>3, <1>4 DEF Reader

LEMMA DrainInvStep ==
  ASSUME Faults = {}, PipelineAssumption, OrderInv, DrainInv, [Next]_vars
  PROVE  DrainInv'
<1>1. CASE UNCHANGED vars
  BY <1>1 DEF vars, DrainInv
<1>2. ASSUME NEW valid \in BOOLEAN, Emit(valid) PROVE DrainInv'
  <2>1. attached /\ emitted' = emitted + 1
        /\ UNCHANGED <<readerVars, channel, aggregatorVars, poisoned, mainVars>>
    BY <1>2 DEF Emit, lockVars
  <2>2. "reader" \notin signals
    BY <2>1 DEF OrderInv, AfterStopReader, AfterDetach
  <2>3. ring' \in Seq(Records)
    <3>1. CASE Len(ring) < RingCapacity
      <4>1. ring' = Append(ring, [id |-> emitted + 1, valid |-> valid])
        BY <1>2, <3>1 DEF Emit
      <4>2. [id |-> emitted + 1, valid |-> valid] \in Records
        BY <1>2 DEF Records, DrainInv
      <4>. QED
        BY <4>1, <4>2, AppendProperties DEF DrainInv
    <3>2. CASE ~(Len(ring) < RingCapacity)
      BY <1>2, <3>2 DEF Emit, DrainInv
    <3>. QED
      BY <3>1, <3>2
  <2>. QED
    BY <2>1, <2>2, <2>3 DEF DrainInv, readerVars, aggregatorVars, lockVars, mainVars
<1>3. CASE Reader
  BY <1>3, ReaderKeepsDrainInv
<1>4. ~AggregatorPanics
  BY DEF AggregatorPanics, DrainInv
<1>5. CASE Aggregator \/ ReaderFails \/ StatsFails
  <2>1. \/ AggregatorReceive \/ AggregatorDiscard \/ AggregatorKeep \/ AggregatorIngest
        \/ AggregatorEnds
    BY <1>4, <1>5 DEF Aggregator, ReaderFails, StatsFails
  <2>2. UNCHANGED <<kernelVars, readerVars, poisoned, mainVars>>
    BY <2>1 DEF AggregatorReceive, AggregatorDiscard, AggregatorKeep, AggregatorIngest,
                AggregatorEnds, lockVars
  <2>. QED
    BY <2>1, <2>2 DEF AggregatorReceive, AggregatorDiscard, AggregatorKeep, AggregatorIngest,
                      AggregatorEnds, DrainInv, kernelVars, readerVars, mainVars
<1>6. CASE Stats
  BY <1>6 DEF Stats, SampleKernel, Sample, SampleReader, PublishDrops, StatsPanics, CheckStatsShutdown, WakeStats,
              StatsStep, DrainInv, kernelVars, readerVars, aggregatorVars, lockVars, mainVars
<1>7. CASE Containers \/ Outputs
  BY <1>7 DEF Containers, ContainersStep, lockVars, Outputs, OutputEnds, OutputPanics, OutputStep, DrainInv, kernelVars, readerVars,
              aggregatorVars, lockVars, mainVars
<1>8. CASE Main \/ Signal
  <2>1. /\ signals \subseteq signals'
        /\ UNCHANGED <<emitted, ring, readerVars, channel, aggregatorVars, poisoned>>
    BY <1>8 DEF Main, Signal, Attach, MainSelect, MainAborts, StopOutput, DiscardPending, StopContainers,
                Detach, StopReader, StopStats, JoinReader, JoinAggregator, JoinContainers,
                JoinOutput, JoinStats, Join, Raise, MainStep, lockVars
  <2>. QED
    BY <2>1 DEF DrainInv, readerVars, aggregatorVars
<1>. QED
  BY <1>1, <1>2, <1>3, <1>4, <1>5, <1>6, <1>7, <1>8 DEF Next, Step, Outputs

\* Without a failure, the ordered shutdown leaves no record in the ring, in a
\* batch, or in the channel: the order of detaching, draining and joining in
\* main.rs is enough, whatever the sizes of the buffers.
THEOREM ShutdownDrains == Spec => []NothingLeftBehind
<1> DEFINE Inv == OrderInv /\ (Faults = {} => DrainInv)
<1>1. Init => Inv
  BY OrderInvInit, DrainInvInit
<1>2. Inv /\ [Next]_vars => Inv'
  BY OrderInvStep, DrainInvStep, PipelineAssumption
<1>3. Inv => NothingLeftBehind
  BY DEF OrderInv, DrainInv, NothingLeftBehind, AfterDetach, AfterStopReader, AfterJoinReader,
         AfterJoinAggregator, AfterJoinContainers, AfterStopStats, AfterJoinOutput,
         ReceiverAlive
<1>. QED
  BY <1>1, <1>2, <1>3, PTL DEF Spec

--------------------------------------------------------------------------------
\* The numbers of the records of a ring.

RingRecords == [id : Ids, valid : BOOLEAN]

RecordIds(s) == [i \in DOMAIN s |-> s[i].id]

LEMMA IdsAreNumbers ==
  /\ Ids \subseteq Nat
  /\ \A s \in Seq(Ids) : s \in Seq(Nat)
<1>1. Ids \subseteq Nat
  BY PipelineAssumption DEF Ids, PipelineAssumption
<1>2. ASSUME NEW s \in Seq(Ids) PROVE s \in Seq(Nat)
  <2>. HIDE DEF Ids
  <2>. QED
    BY <1>1, SeqMonotonic
<1>. QED
  BY <1>1, <1>2

LEMMA RecordIdsAre ==
  ASSUME NEW s \in Seq(RingRecords)
  PROVE  /\ RecordIds(s) \in Seq(Ids)
         /\ Len(RecordIds(s)) = Len(s)
         /\ \A i \in 1 .. Len(s) : RecordIds(s)[i] = s[i].id
<1>1. /\ Len(s) \in Nat /\ DOMAIN s = 1 .. Len(s)
      /\ \A i \in 1 .. Len(s) : s[i].id \in Ids
  <2>1. /\ Len(s) \in Nat /\ DOMAIN s = 1 .. Len(s)
        /\ \A i \in 1 .. Len(s) : s[i] \in RingRecords
    BY LenProperties
  <2>2. \A r \in RingRecords : r.id \in Ids
    BY DEF RingRecords
  <2>. QED
    BY <2>1, <2>2
<1>2. RecordIds(s) \in [1 .. Len(s) -> Ids]
  BY <1>1 DEF RecordIds
<1>3. \A i \in 1 .. Len(s) : RecordIds(s)[i] = s[i].id
  BY <1>1 DEF RecordIds
<1>. QED
  BY <1>1, <1>2, <1>3

LEMMA RecordIdsAppend ==
  ASSUME NEW s \in Seq(RingRecords), NEW r \in RingRecords
  PROVE  RecordIds(Append(s, r)) = Append(RecordIds(s), r.id)
<1> DEFINE t == Append(s, r)
           u == RecordIds(s)
<1>1. /\ t \in Seq(RingRecords) /\ Len(t) = Len(s) + 1 /\ Len(s) \in Nat
      /\ \A i \in 1 .. Len(s) : t[i] = s[i]
      /\ t[Len(s) + 1] = r
  BY AppendProperties, LenProperties
<1>2. /\ u \in Seq(Ids) /\ Len(u) = Len(s)
      /\ \A i \in 1 .. Len(s) : u[i] = s[i].id
  BY RecordIdsAre
<1>3. r.id \in Ids
  BY DEF RingRecords
<1>. HIDE DEF t, u
<1>4. /\ RecordIds(t) \in Seq(Ids) /\ Len(RecordIds(t)) = Len(t)
      /\ \A i \in 1 .. Len(t) : RecordIds(t)[i] = t[i].id
  BY <1>1, RecordIdsAre
<1>5. /\ Append(u, r.id) \in Seq(Ids) /\ Len(Append(u, r.id)) = Len(u) + 1
      /\ \A i \in 1 .. Len(u) : Append(u, r.id)[i] = u[i]
      /\ Append(u, r.id)[Len(u) + 1] = r.id
  BY <1>2, <1>3, AppendProperties
<1>6. ASSUME NEW i \in 1 .. Len(t) PROVE RecordIds(t)[i] = Append(u, r.id)[i]
  <2>1. CASE i = Len(s) + 1
    BY <1>1, <1>2, <1>4, <1>5, <2>1
  <2>2. CASE i # Len(s) + 1
    <3>1. i \in 1 .. Len(s)
      BY <1>1, <2>2
    <3>. QED
      BY <1>1, <1>2, <1>4, <1>5, <3>1
  <2>. QED
    BY <2>1, <2>2
<1> DEFINE v == RecordIds(t)
           w == Append(u, r.id)
<1>7. v \in Seq(Ids) /\ w \in Seq(Ids) /\ Len(v) = Len(w) /\ \A i \in 1 .. Len(v) : v[i] = w[i]
  BY <1>1, <1>2, <1>4, <1>5, <1>6
<1>. HIDE DEF v, w
<1>8. v = w
  BY <1>7, SeqEqual
<1>. QED
  BY <1>8 DEF t, u, v, w

LEMMA RecordIdsConcat ==
  ASSUME NEW s \in Seq(RingRecords), NEW t \in Seq(RingRecords)
  PROVE  RecordIds(Concat(s, t)) = Concat(RecordIds(s), RecordIds(t))
<1> DEFINE T == {u \in Seq(RingRecords) : RecordIds(Concat(s, u)) = Concat(RecordIds(s), RecordIds(u))}
<1>1. <<>> \in T
  <2>1. <<>> \in Seq(RingRecords) /\ <<>> \in Seq(Ids)
    BY EmptySeq
  <2>2. Concat(s, <<>>) = s /\ Concat(RecordIds(s), <<>>) = RecordIds(s)
    BY ConcatEmptySeq, RecordIdsAre DEF Concat
  <2>3. RecordIds(<<>>) = <<>>
    BY <2>1, RecordIdsAre, EmptySeq
  <2>. QED
    BY <2>1, <2>2, <2>3
<1>2. ASSUME NEW u \in Seq(RingRecords), u \in T, NEW e \in RingRecords PROVE Append(u, e) \in T
  <2> DEFINE a == Concat(s, u)
             x == RecordIds(s)
             y == RecordIds(u)
  <2>1. a \in Seq(RingRecords) /\ Append(u, e) \in Seq(RingRecords)
        /\ Concat(s, Append(u, e)) = Append(a, e)
    BY ConcatProperties, AppendProperties DEF Concat
  <2>2. x \in Seq(Ids) /\ y \in Seq(Ids) /\ e.id \in Ids /\ RecordIds(a) = Concat(x, y)
    BY <1>2, RecordIdsAre DEF RingRecords
  <2>3. RecordIds(Append(u, e)) = Append(y, e.id)
    BY RecordIdsAppend
  <2>. HIDE DEF a, x, y, T
  <2>4. RecordIds(Append(a, e)) = Append(RecordIds(a), e.id)
    BY <2>1, RecordIdsAppend
  <2>5. Concat(x, Append(y, e.id)) = Append(Concat(x, y), e.id)
    BY <2>2 DEF Concat
  <2>6. RecordIds(Concat(s, Append(u, e))) = Concat(x, RecordIds(Append(u, e)))
    BY <2>1, <2>2, <2>3, <2>4, <2>5, Zenon
  <2>. QED
    BY <2>1, <2>6 DEF T, x
<1>. HIDE DEF T
<1>3. Seq(RingRecords) \subseteq T
  BY <1>1, <1>2, AllSequences
<1>. QED
  BY <1>3 DEF T

\* Filtering records is filtering their numbers.
LEMMA RecordIdsSelected ==
  ASSUME NEW V, NEW K, NEW s \in Seq(RingRecords),
         \A i \in 1 .. Len(s) : s[i].id \in K <=> s[i] \in V
  PROVE  RecordIds(Selected(s, V)) = Selected(RecordIds(s), K)
<1> DEFINE T == {u \in Seq(RingRecords) :
                   (\A i \in 1 .. Len(u) : u[i].id \in K <=> u[i] \in V)
                     => RecordIds(Selected(u, V)) = Selected(RecordIds(u), K)}
<1>1. <<>> \in T
  <2>1. <<>> \in Seq(RingRecords) /\ RecordIds(<<>>) = <<>>
    BY EmptySeq, RecordIdsAre
  <2>. QED
    BY <2>1, SelectedEmpty
<1>2. ASSUME NEW u \in Seq(RingRecords), u \in T, NEW e \in RingRecords PROVE Append(u, e) \in T
  <2>1. /\ Append(u, e) \in Seq(RingRecords) /\ Len(Append(u, e)) = Len(u) + 1 /\ Len(u) \in Nat
        /\ \A i \in 1 .. Len(u) : Append(u, e)[i] = u[i]
        /\ Append(u, e)[Len(u) + 1] = e
    BY AppendProperties, LenProperties
  <2>2. SUFFICES ASSUME \A i \in 1 .. Len(u) + 1 : Append(u, e)[i].id \in K <=> Append(u, e)[i] \in V
                 PROVE  RecordIds(Selected(Append(u, e), V)) = Selected(RecordIds(Append(u, e)), K)
    BY <2>1
  <2>3. e.id \in K <=> e \in V
    <3>1. Len(u) + 1 \in 1 .. Len(u) + 1
      BY <2>1
    <3>. QED
      BY <2>1, <2>2, <3>1
  <2>4. \A i \in 1 .. Len(u) : u[i].id \in K <=> u[i] \in V
    BY <2>1, <2>2
  <2> DEFINE f == Selected(u, V)
             x == RecordIds(u)
  <2>5. RecordIds(f) = Selected(x, K) /\ f \in Seq(RingRecords)
    BY <1>2, <2>4, SelectedAppend
  <2>6. x \in Seq(Ids) /\ e.id \in Ids /\ RecordIds(Append(u, e)) = Append(x, e.id)
    BY RecordIdsAre, RecordIdsAppend DEF RingRecords
  <2>7. Selected(Append(u, e), V) = IF e \in V THEN Append(f, e) ELSE f
    BY SelectedAppend
  <2>. HIDE DEF f, x, T
  <2>8. Selected(Append(x, e.id), K) = IF e.id \in K THEN Append(Selected(x, K), e.id) ELSE Selected(x, K)
    <3> DEFINE d == e.id
    <3>1. d \in Ids
      BY <2>6
    <3>. HIDE DEF d
    <3>2. Selected(Append(x, d), K) = IF d \in K THEN Append(Selected(x, K), d) ELSE Selected(x, K)
      BY <2>6, <3>1, SelectedAppend
    <3>. QED
      BY <3>2 DEF d
  <2>9. RecordIds(Append(f, e)) = Append(RecordIds(f), e.id)
    BY <2>5, RecordIdsAppend
  <2>10. CASE e \in V
    <3>1. Selected(Append(u, e), V) = Append(f, e)
      BY <2>7, <2>10
    <3>2. Selected(Append(x, e.id), K) = Append(Selected(x, K), e.id)
      BY <2>3, <2>8, <2>10
    <3>. QED
      BY <2>5, <2>6, <2>9, <3>1, <3>2, Zenon
  <2>11. CASE e \notin V
    <3>1. Selected(Append(u, e), V) = f /\ Selected(Append(x, e.id), K) = Selected(x, K)
      BY <2>3, <2>7, <2>8, <2>11
    <3>. QED
      BY <2>5, <2>6, <3>1, Zenon
  <2>. QED
    BY <2>10, <2>11
<1>. HIDE DEF T
<1>3. Seq(RingRecords) \subseteq T
  BY <1>1, <1>2, AllSequences
<1>4. s \in T
  BY <1>3
<1>. QED
  BY <1>4 DEF T

--------------------------------------------------------------------------------
\* What Delivery promises: p is under way, d delivered, l of n are lost.

Flow(p, d, l, n) ==
  /\ p \in Seq(Nat) /\ d \in Seq(Nat) /\ l \in Nat /\ n \in Nat
  /\ Ascending(Concat(d, p))
  /\ \A i \in 1 .. Len(p) : p[i] \in 1 .. n
  /\ \A i \in 1 .. Len(d) : d[i] \in 1 .. n
  /\ Len(d) + Len(p) + l = n

LEMMA FlowArrive ==
  ASSUME NEW p, NEW d, NEW l, NEW n, Flow(p, d, l, n)
  PROVE  Flow(Append(p, n + 1), d, l, n + 1)
<1> DEFINE q == Append(p, n + 1)
           c == Concat(d, p)
<1>1. /\ p \in Seq(Nat) /\ d \in Seq(Nat) /\ l \in Nat /\ n \in Nat /\ n + 1 \in Nat
      /\ Ascending(c)
      /\ \A i \in 1 .. Len(p) : p[i] \in 1 .. n
      /\ \A i \in 1 .. Len(d) : d[i] \in 1 .. n
      /\ Len(d) + Len(p) + l = n
  BY DEF Flow
<1>2. /\ q \in Seq(Nat) /\ Len(q) = Len(p) + 1 /\ Len(p) \in Nat /\ Len(d) \in Nat
      /\ \A i \in 1 .. Len(p) : q[i] = p[i]
      /\ q[Len(p) + 1] = n + 1
  BY <1>1, AppendProperties, LenProperties
<1>3. Concat(d, q) = Append(c, n + 1)
  BY <1>1 DEF Concat
<1>4. /\ c \in Seq(Nat) /\ Len(c) = Len(d) + Len(p)
      /\ \A i \in 1 .. Len(c) : c[i] = IF i <= Len(d) THEN d[i] ELSE p[i - Len(d)]
  BY <1>1, ConcatProperties DEF Concat
<1>. HIDE DEF c
<1>. HIDE DEF q
<1>5. ASSUME NEW i \in 1 .. Len(c) PROVE c[i] < n + 1
  <2>1. c[i] \in 1 .. n
    <3>1. CASE i <= Len(d)
      <4>1. i \in 1 .. Len(d) /\ c[i] = d[i]
        BY <1>2, <1>4, <3>1
      <4>. QED
        BY <1>1, <4>1
    <3>2. CASE ~(i <= Len(d))
      <4>1. i - Len(d) \in 1 .. Len(p) /\ c[i] = p[i - Len(d)]
        BY <1>2, <1>4, <3>2
      <4>. QED
        BY <1>1, <4>1
    <3>. QED
      BY <3>1, <3>2
  <2>. QED
    BY <1>1, <2>1
<1>6. Ascending(Concat(d, q))
  <2>1. Ascending(Append(c, n + 1))
    BY <1>1, <1>4, <1>5, AscendingAppend
  <2>. QED
    BY <1>3, <2>1
<1>7. ASSUME NEW i \in 1 .. Len(q) PROVE q[i] \in 1 .. n + 1
  <2>1. CASE i = Len(p) + 1
    BY <1>1, <1>2, <2>1
  <2>2. CASE i # Len(p) + 1
    <3>1. i \in 1 .. Len(p) /\ q[i] = p[i]
      BY <1>2, <2>2
    <3>2. p[i] \in 1 .. n
      BY <1>1, <3>1
    <3>. QED
      BY <1>1, <3>1, <3>2
  <2>. QED
    BY <2>1, <2>2
<1>8. \A i \in 1 .. Len(d) : d[i] \in 1 .. n + 1
  BY <1>1
<1>9. Len(d) + Len(q) + l = n + 1
  BY <1>1, <1>2
<1>10. Flow(q, d, l, n + 1)
  BY <1>1, <1>2, <1>6, <1>7, <1>8, <1>9 DEF Flow
<1>. QED
  BY <1>10 DEF q

LEMMA FlowRefuse ==
  ASSUME NEW p, NEW d, NEW l, NEW n, Flow(p, d, l, n)
  PROVE  Flow(p, d, l + 1, n + 1)
<1>1. Len(p) \in Nat /\ Len(d) \in Nat
  BY LenProperties DEF Flow
<1>. QED
  BY <1>1 DEF Flow

LEMMA FlowDeliver ==
  ASSUME NEW p \in Seq(Nat), NEW q \in Seq(Nat), NEW d, NEW l, NEW n, Flow(Concat(q, p), d, l, n)
  PROVE  Flow(p, Concat(d, q), l, n)
<1> DEFINE c == Concat(q, p)
           e == Concat(d, q)
<1>1. /\ c \in Seq(Nat) /\ d \in Seq(Nat) /\ l \in Nat /\ n \in Nat
      /\ Ascending(Concat(d, c))
      /\ \A i \in 1 .. Len(c) : c[i] \in 1 .. n
      /\ \A i \in 1 .. Len(d) : d[i] \in 1 .. n
      /\ Len(d) + Len(c) + l = n
  BY DEF Flow
<1>2. Concat(d, c) = Concat(e, p)
  BY <1>1, Associative
<1>3. /\ Len(c) = Len(q) + Len(p) /\ Len(q) \in Nat /\ Len(p) \in Nat /\ Len(d) \in Nat
      /\ \A i \in 1 .. Len(c) : c[i] = IF i <= Len(q) THEN q[i] ELSE p[i - Len(q)]
  BY <1>1, ConcatProperties, LenProperties DEF Concat
<1>4. /\ e \in Seq(Nat) /\ Len(e) = Len(d) + Len(q)
      /\ \A i \in 1 .. Len(e) : e[i] = IF i <= Len(d) THEN d[i] ELSE q[i - Len(d)]
  BY <1>1, ConcatProperties, LenProperties DEF Concat
<1>. HIDE DEF c, e
<1>5. ASSUME NEW i \in 1 .. Len(p) PROVE p[i] \in 1 .. n
  <2>1. Len(q) + i \in 1 .. Len(c) /\ ~(Len(q) + i <= Len(q)) /\ (Len(q) + i) - Len(q) = i
    BY <1>3
  <2>. QED
    BY <1>1, <1>3, <2>1
<1>6. ASSUME NEW i \in 1 .. Len(q) PROVE q[i] \in 1 .. n
  <2>1. i \in 1 .. Len(c) /\ i <= Len(q)
    BY <1>3
  <2>. QED
    BY <1>1, <1>3, <2>1
<1>7. ASSUME NEW i \in 1 .. Len(e) PROVE e[i] \in 1 .. n
  <2>1. CASE i <= Len(d)
    <3>1. i \in 1 .. Len(d)
      BY <1>3, <2>1
    <3>. QED
      BY <1>1, <1>4, <2>1, <3>1
  <2>2. CASE ~(i <= Len(d))
    <3>1. i - Len(d) \in 1 .. Len(q)
      BY <1>3, <1>4, <2>2
    <3>. QED
      BY <1>4, <1>6, <2>2, <3>1
  <2>. QED
    BY <2>1, <2>2
<1>8. Len(e) + Len(p) + l = n
  BY <1>1, <1>3, <1>4
<1>9. Flow(p, e, l, n)
  BY <1>1, <1>2, <1>4, <1>5, <1>7, <1>8 DEF Flow
<1>. QED
  BY <1>9 DEF e

LEMMA FlowLose ==
  ASSUME NEW p, NEW d, NEW l, NEW n, NEW K, Flow(p, d, l, n)
  PROVE  /\ Flow(Selected(p, K), d, l + (Len(p) - Len(Selected(p, K))), n)
         /\ Len(p) - Len(Selected(p, K)) \in Nat
<1> DEFINE q == Selected(p, K)
           x == Len(p) - Len(q)
<1>1. /\ p \in Seq(Nat) /\ d \in Seq(Nat) /\ l \in Nat /\ n \in Nat
      /\ Ascending(Concat(d, p))
      /\ \A i \in 1 .. Len(p) : p[i] \in 1 .. n
      /\ \A i \in 1 .. Len(d) : d[i] \in 1 .. n
      /\ Len(d) + Len(p) + l = n
  BY DEF Flow
<1>2. /\ q \in Seq(Nat)
      /\ \A i \in 1 .. Len(q) : \E j \in 1 .. Len(p) : q[i] = p[j] /\ p[j] \in K
      /\ x \in Nat
  <2>1. p \in Seq(Nat)
    BY <1>1
  <2>. QED
    BY <2>1, SelectedCounts
<1>3. /\ Ascending(d) /\ Ascending(p)
      /\ \A i \in 1 .. Len(d), j \in 1 .. Len(p) : d[i] < p[j]
  BY <1>1, AscendingConcat DEF Concat
<1>4. Ascending(q)
  BY <1>1, <1>3, SelectedAscending
<1>5. Len(d) \in Nat /\ Len(p) \in Nat /\ Len(q) \in Nat
  BY <1>1, <1>2, LenProperties
<1>. HIDE DEF q
<1>6. \A i \in 1 .. Len(d), j \in 1 .. Len(q) : d[i] < q[j]
  BY <1>2, <1>3
<1>7. Ascending(Concat(d, q))
  BY <1>1, <1>2, <1>3, <1>4, <1>6, AscendingConcat DEF Concat
<1>8. \A i \in 1 .. Len(q) : q[i] \in 1 .. n
  BY <1>1, <1>2
<1>9. Len(d) + Len(q) + (l + x) = n /\ l + x \in Nat
  BY <1>1, <1>2, <1>5
<1>10. Flow(q, d, l + x, n)
  BY <1>1, <1>2, <1>7, <1>8, <1>9 DEF Flow
<1>. QED
  BY <1>2, <1>10 DEF q

--------------------------------------------------------------------------------
\* Types, and where no record can be.

DropCounts == [kernel : Nat, parse : Nat, queue : Nat, discarded : Nat]

\* The records that d counts.
Counted(d) == Total(d) + d.discarded

NoLess(d, e) ==
  /\ d.kernel >= e.kernel
  /\ d.parse >= e.parse
  /\ d.queue >= e.queue
  /\ d.discarded >= e.discarded

LEMMA DropsCounted ==
  ASSUME NEW d \in DropCounts, NEW n \in Nat
  PROVE  /\ \A e \in {[d EXCEPT !.kernel = @ + n], [d EXCEPT !.parse = @ + n],
                      [d EXCEPT !.queue = @ + n], [d EXCEPT !.discarded = @ + n]} :
              e \in DropCounts /\ Counted(e) = Counted(d) + n /\ NoLess(e, d)
         /\ Counted(d) \in Nat
<1>1. /\ d.kernel \in Nat /\ d.parse \in Nat /\ d.queue \in Nat /\ d.discarded \in Nat
      /\ d = [kernel |-> d.kernel, parse |-> d.parse, queue |-> d.queue, discarded |-> d.discarded]
  BY DEF DropCounts
<1>2. \A a, b, c, e \in Nat :
        [kernel |-> a, parse |-> b, queue |-> c, discarded |-> e] \in DropCounts
  BY DEF DropCounts
<1>3. ASSUME NEW e, e = [d EXCEPT !.kernel = @ + n]
      PROVE  e \in DropCounts /\ Counted(e) = Counted(d) + n /\ NoLess(e, d)
  <2>1. e = [kernel |-> d.kernel + n, parse |-> d.parse, queue |-> d.queue, discarded |-> d.discarded]
    BY <1>1, <1>3
  <2>. QED
    BY <1>1, <1>2, <2>1 DEF Counted, Total, NoLess
<1>4. ASSUME NEW e, e = [d EXCEPT !.parse = @ + n]
      PROVE  e \in DropCounts /\ Counted(e) = Counted(d) + n /\ NoLess(e, d)
  <2>1. e = [kernel |-> d.kernel, parse |-> d.parse + n, queue |-> d.queue, discarded |-> d.discarded]
    BY <1>1, <1>4
  <2>. QED
    BY <1>1, <1>2, <2>1 DEF Counted, Total, NoLess
<1>5. ASSUME NEW e, e = [d EXCEPT !.queue = @ + n]
      PROVE  e \in DropCounts /\ Counted(e) = Counted(d) + n /\ NoLess(e, d)
  <2>1. e = [kernel |-> d.kernel, parse |-> d.parse, queue |-> d.queue + n, discarded |-> d.discarded]
    BY <1>1, <1>5
  <2>. QED
    BY <1>1, <1>2, <2>1 DEF Counted, Total, NoLess
<1>6. ASSUME NEW e, e = [d EXCEPT !.discarded = @ + n]
      PROVE  e \in DropCounts /\ Counted(e) = Counted(d) + n /\ NoLess(e, d)
  <2>1. e = [kernel |-> d.kernel, parse |-> d.parse, queue |-> d.queue, discarded |-> d.discarded + n]
    BY <1>1, <1>6
  <2>. QED
    BY <1>1, <1>2, <2>1 DEF Counted, Total, NoLess
<1>7. Counted(d) \in Nat
  BY <1>1 DEF Counted, Total
<1>. QED
  BY <1>3, <1>4, <1>5, <1>6, <1>7

ShapeInv ==
  /\ emitted \in 0 .. MaxRecords
  /\ ring \in Seq(RingRecords) /\ Len(ring) <= RingCapacity
  /\ batch \in Seq(Ids) /\ Len(batch) <= MaxBatchEvents
  /\ channel \in Seq(Seq(Ids)) /\ Len(channel) <= ChannelCapacity
  /\ hand \in Seq(Ids)
  /\ ingested \in Seq(Ids)
  /\ drops \in DropCounts
  /\ abandoned \in Nat
  /\ reader \in {"select", "drain", "send", "done"}
  /\ aggregator \in {"receive", "decide", "ingest", "done", "panicked"}
  /\ reader # "send" => batch = <<>>
  /\ aggregator \in {"receive", "done", "panicked"} => hand = <<>>
  /\ ~ReceiverAlive => channel = <<>>

LEMMA ShapeInvInit == Init => ShapeInv
<1>. SUFFICES ASSUME Init PROVE ShapeInv
  OBVIOUS
<1>1. <<>> \in Seq(RingRecords) /\ <<>> \in Seq(Ids) /\ <<>> \in Seq(Seq(Ids)) /\ Len(<<>>) = 0
  BY EmptySeq
<1>2. 0 \in 0 .. MaxRecords /\ 0 <= RingCapacity /\ 0 <= MaxBatchEvents /\ 0 <= ChannelCapacity
  BY PipelineAssumption DEF PipelineAssumption
<1>. QED
  BY <1>1, <1>2 DEF Init, ShapeInv, DropCounts, NoDrops, ReceiverAlive

\* drain_ring_batch takes the front of the ring, and counts what it does not parse.
LEMMA DrainSplits ==
  ASSUME ring \in Seq(RingRecords), DrainRing
  PROVE  \E taken, rest \in Seq(RingRecords) :
           /\ ring = Concat(taken, rest)
           /\ ring' = rest
           /\ Len(taken) <= MaxBatchEvents
           /\ batch' = RecordIds(Selected(taken, WellFormed))
           /\ drops' = [drops EXCEPT !.parse = @ + Cardinality(Unselected(taken, WellFormed))]
<1>1. /\ MaxBatchEvents \in Nat \ {0} /\ Len(ring) \in Nat
      /\ \A i \in 1 .. Len(ring) : ring[i] \in RingRecords
  BY LenProperties, PipelineAssumption DEF PipelineAssumption
<1> DEFINE size == IF Len(ring) < MaxBatchEvents THEN Len(ring) ELSE MaxBatchEvents
           taken == SubSeq(ring, 1, size)
           rest == SubSeq(ring, size + 1, Len(ring))
           bad == {i \in 1 .. size : ~ring[i].valid}
<1>2. size \in Nat /\ size <= Len(ring) /\ size <= MaxBatchEvents
  BY <1>1
<1>3. /\ ring' = rest
      /\ batch' = RecordIds(Selected(taken, WellFormed))
      /\ drops' = [drops EXCEPT !.parse = @ + Cardinality(bad)]
  BY DEF DrainRing, RecordIds
<1>. HIDE DEF size
<1>4. /\ taken \in Seq(RingRecords) /\ Len(taken) = size
      /\ \A i \in 1 .. size : taken[i] = ring[i]
  <2>1. size \in Int /\ \A i \in 1 .. size : ring[i] \in RingRecords
    BY <1>1, <1>2
  <2>2. /\ taken \in Seq(RingRecords) /\ Len(taken) = IF 1 <= size THEN size - 1 + 1 ELSE 0
        /\ \A i \in 1 .. size - 1 + 1 : taken[i] = ring[1 + i - 1]
    BY <2>1, SubSeqProperties
  <2>3. \A i \in 1 .. size : 1 + i - 1 = i /\ i \in 1 .. size - 1 + 1
    BY <1>2
  <2>. HIDE DEF taken
  <2>. QED
    BY <1>2, <2>2, <2>3
<1>5. rest \in Seq(RingRecords)
  <2>1. size + 1 \in Int /\ Len(ring) \in Int /\ \A i \in size + 1 .. Len(ring) : ring[i] \in RingRecords
    BY <1>1, <1>2
  <2>. QED
    BY <2>1, SubSeqProperties
<1>6. ring = Concat(taken, rest)
  <2>1. 1 \in 1 .. Len(ring) + 1 /\ size \in 1 - 1 .. Len(ring) /\ Len(ring) \in size .. Len(ring)
    BY <1>1, <1>2
  <2>2. taken \o rest = SubSeq(ring, 1, Len(ring))
    BY <2>1, ConcatAdjacentSubSeq
  <2>3. SubSeq(ring, 1, Len(ring)) = ring
    BY SubSeqFull
  <2>. QED
    BY <2>2, <2>3 DEF Concat
<1>7. bad = Unselected(taken, WellFormed)
  <2>1. \A i \in 1 .. size : ring[i] \in RingRecords
    BY <1>1, <1>2
  <2>2. \A r \in RingRecords : r \in WellFormed <=> r.valid
    BY IdsAreNumbers DEF RingRecords, WellFormed
  <2>. HIDE DEF taken
  <2>. QED
    BY <1>4, <2>1, <2>2 DEF Unselected
<1>. HIDE DEF taken, rest, bad
<1>. QED
  BY <1>2, <1>3, <1>4, <1>5, <1>6, <1>7

LEMMA ReaderKeepsShapeInv ==
  ASSUME ShapeInv, Reader
  PROVE  ShapeInv'
<1>1. CASE ReaderReady \/ ReaderFinalDrain
  <2>1. /\ DrainRing
        /\ reader \in {"select", "drain"}
        /\ reader' \in {"select", "drain", "send", "done"}
        /\ reader' # "send" => batch' = <<>>
        /\ UNCHANGED <<attached, emitted, channel, aggregatorVars, statsVars, lockVars, mainVars>>
    BY <1>1 DEF ReaderReady, ReaderFinalDrain, DrainAndSend, AfterSend
  <2>2. PICK taken, rest \in Seq(RingRecords) :
           /\ ring = Concat(taken, rest)
           /\ ring' = rest
           /\ Len(taken) <= MaxBatchEvents
           /\ batch' = RecordIds(Selected(taken, WellFormed))
           /\ drops' = [drops EXCEPT !.parse = @ + Cardinality(Unselected(taken, WellFormed))]
    BY <2>1, DrainSplits DEF ShapeInv
  <2> DEFINE parsed == Selected(taken, WellFormed)
             bad == Cardinality(Unselected(taken, WellFormed))
  <2>3. parsed \in Seq(RingRecords) /\ Len(taken) - Len(parsed) = bad /\ bad \in Nat
    BY SelectedCounts
  <2>4. Len(parsed) \in Nat /\ Len(taken) \in Nat /\ Len(rest) \in Nat
        /\ Len(ring) = Len(taken) + Len(rest)
    BY <2>2, <2>3, ConcatProperties, LenProperties DEF Concat
  <2>. HIDE DEF parsed, bad
  <2>5. batch' \in Seq(Ids) /\ Len(batch') = Len(parsed)
    BY <2>2, <2>3, RecordIdsAre DEF parsed
  <2>6. drops' \in DropCounts
    BY <2>2, <2>3, DropsCounted DEF ShapeInv, bad
  <2>7. Len(ring') <= RingCapacity /\ Len(batch') <= MaxBatchEvents
    BY <2>2, <2>3, <2>4, <2>5, PipelineAssumption, SMTT(60) DEF ShapeInv, PipelineAssumption
  <2>. QED
    BY <2>1, <2>2, <2>5, <2>6, <2>7 DEF ShapeInv, ReceiverAlive, aggregatorVars
<1>2. CASE ReaderSend
  <2>1. /\ channel' = Append(channel, batch) /\ Len(channel) < ChannelCapacity
        /\ batch' = <<>> /\ ReceiverAlive
        /\ reader' \in {"select", "done", "drain"}
        /\ UNCHANGED <<emitted, ring, hand, ingested, drops, abandoned, aggregator>>
    BY <1>2 DEF ReaderSend, AfterSend, kernelVars, aggregatorVars
  <2>2. channel' \in Seq(Seq(Ids)) /\ Len(channel') = Len(channel) + 1 /\ Len(channel) \in Nat
    BY <2>1, AppendProperties, LenProperties DEF ShapeInv
  <2>3. Len(channel') <= ChannelCapacity
    BY <2>1, <2>2, PipelineAssumption DEF PipelineAssumption
  <2>4. batch' \in Seq(Ids) /\ Len(batch') <= MaxBatchEvents
    BY <2>1, EmptySeq, PipelineAssumption DEF PipelineAssumption
  <2>. QED
    BY <2>1, <2>2, <2>3, <2>4 DEF ShapeInv, ReceiverAlive
<1>3. CASE ReaderSendFails
  <2>1. /\ drops' = [drops EXCEPT !.queue = @ + Len(batch)]
        /\ batch' = <<>> /\ reader' = "done"
        /\ UNCHANGED <<emitted, ring, channel, hand, ingested, abandoned, aggregator>>
    BY <1>3 DEF ReaderSendFails, kernelVars, aggregatorVars
  <2>2. Len(batch) \in Nat
    BY LenProperties DEF ShapeInv
  <2>3. drops' \in DropCounts
    BY <2>1, <2>2, DropsCounted DEF ShapeInv
  <2>4. batch' \in Seq(Ids) /\ Len(batch') <= MaxBatchEvents
    BY <2>1, EmptySeq, PipelineAssumption DEF PipelineAssumption
  <2>. QED
    BY <2>1, <2>3, <2>4 DEF ShapeInv, ReceiverAlive
<1>. QED
  BY <1>1, <1>2, <1>3 DEF Reader

LEMMA AggregatorKeepsShapeInv ==
  ASSUME ShapeInv, Aggregator \/ AggregatorPanics
  PROVE  ShapeInv'
<1>1. CASE AggregatorReceive
  <2>1. /\ channel # <<>> /\ hand' = Head(channel) /\ channel' = Tail(channel)
        /\ aggregator' = "decide"
        /\ UNCHANGED <<emitted, ring, batch, ingested, drops, abandoned, reader>>
    BY <1>1 DEF AggregatorReceive, kernelVars, readerVars
  <2>2. /\ hand' \in Seq(Ids) /\ channel' \in Seq(Seq(Ids)) /\ Len(channel') = Len(channel) - 1
        /\ Len(channel) \in Nat
    BY <2>1, HeadTailProperties, LenProperties DEF ShapeInv
  <2>3. Len(channel') <= ChannelCapacity
    BY <2>2, PipelineAssumption DEF PipelineAssumption, ShapeInv
  <2>. QED
    BY <2>1, <2>2, <2>3 DEF ShapeInv, ReceiverAlive
<1>2. CASE AggregatorDiscard
  <2>1. /\ drops' = [drops EXCEPT !.discarded = @ + Len(hand)]
        /\ hand' = <<>> /\ aggregator = "decide" /\ aggregator' = "receive"
        /\ UNCHANGED <<emitted, ring, batch, channel, ingested, abandoned, reader>>
    BY <1>2 DEF AggregatorDiscard, kernelVars, readerVars
  <2>2. Len(hand) \in Nat
    BY LenProperties DEF ShapeInv
  <2>3. drops' \in DropCounts
    BY <2>1, <2>2, DropsCounted DEF ShapeInv
  <2>. QED
    BY <2>1, <2>3, EmptySeq DEF ShapeInv, ReceiverAlive
<1>3. CASE AggregatorKeep \/ AggregatorEnds
  BY <1>3 DEF AggregatorKeep, AggregatorEnds, kernelVars, readerVars, ShapeInv, ReceiverAlive
<1>4. CASE AggregatorIngest
  <2>1. /\ ingested' = ingested \o hand
        /\ hand' = <<>> /\ aggregator = "ingest" /\ aggregator' = "receive"
        /\ UNCHANGED <<emitted, ring, batch, channel, drops, abandoned, reader>>
    BY <1>4 DEF AggregatorIngest, kernelVars, readerVars
  <2>2. ingested' \in Seq(Ids)
    BY <2>1, ConcatProperties DEF ShapeInv
  <2>. QED
    BY <2>1, <2>2, EmptySeq DEF ShapeInv, ReceiverAlive
<1>5. CASE AggregatorPanics
  <2>1. /\ abandoned' = abandoned + Len(hand) + Len(FlattenSeq(channel))
        /\ hand' = <<>> /\ channel' = <<>> /\ aggregator' = "panicked"
        /\ UNCHANGED <<emitted, ring, batch, ingested, drops, reader>>
    BY <1>5 DEF AggregatorPanics, kernelVars, readerVars
  <2>2. FlattenSeq(channel) \in Seq(Ids)
    BY FlattenAppend, EmptySeq DEF ShapeInv
  <2>3. Len(hand) \in Nat /\ Len(FlattenSeq(channel)) \in Nat
    BY <2>2, LenProperties DEF ShapeInv
  <2>4. abandoned' \in Nat
    BY <2>1, <2>3 DEF ShapeInv
  <2>5. channel' \in Seq(Seq(Ids)) /\ Len(channel') <= ChannelCapacity /\ hand' \in Seq(Ids)
    BY <2>1, EmptySeq, PipelineAssumption DEF PipelineAssumption
  <2>. QED
    BY <2>1, <2>4, <2>5 DEF ShapeInv, ReceiverAlive
<1>. QED
  BY <1>1, <1>2, <1>3, <1>4, <1>5 DEF Aggregator

LEMMA EmitKeepsShapeInv ==
  ASSUME ShapeInv, NEW valid \in BOOLEAN, Emit(valid)
  PROVE  ShapeInv'
<1>1. /\ emitted < MaxRecords /\ emitted' = emitted + 1
      /\ UNCHANGED <<reader, batch, channel, aggregator, hand, ingested, abandoned>>
  BY DEF Emit, readerVars, aggregatorVars
<1>2. MaxRecords \in Nat /\ RingCapacity \in Nat /\ emitted + 1 \in Ids /\ emitted' \in 0 .. MaxRecords
  BY <1>1, PipelineAssumption DEF ShapeInv, PipelineAssumption, Ids
<1>3. CASE Len(ring) < RingCapacity
  <2> DEFINE r == [id |-> emitted + 1, valid |-> valid]
  <2>1. ring' = Append(ring, r) /\ UNCHANGED drops
    BY <1>3 DEF Emit
  <2>2. r \in RingRecords
    BY <1>2 DEF RingRecords
  <2>. HIDE DEF r
  <2>3. ring' \in Seq(RingRecords) /\ Len(ring') = Len(ring) + 1 /\ Len(ring) \in Nat
    BY <2>1, <2>2, AppendProperties, LenProperties DEF ShapeInv
  <2>4. Len(ring') <= RingCapacity
    BY <1>2, <1>3, <2>3
  <2>. QED
    BY <1>1, <1>2, <2>1, <2>3, <2>4 DEF ShapeInv, ReceiverAlive
<1>4. CASE ~(Len(ring) < RingCapacity)
  <2>1. drops' = [drops EXCEPT !.kernel = @ + 1] /\ UNCHANGED ring
    BY <1>4 DEF Emit
  <2>2. drops' \in DropCounts
    BY <2>1, DropsCounted DEF ShapeInv
  <2>. QED
    BY <1>1, <1>2, <2>1, <2>2 DEF ShapeInv, ReceiverAlive
<1>. QED
  BY <1>3, <1>4

\* The steps that touch no record.
Bystander ==
  \/ Stats \/ StatsFails \/ Containers \/ Outputs \/ Main \/ Signal
  \/ ReaderFails \/ AggregatorKeep \/ AggregatorEnds
  \/ UNCHANGED vars

LEMMA BystandersTouchNothing ==
  ASSUME Bystander
  PROVE  UNCHANGED <<emitted, ring, batch, channel, hand, ingested, drops, abandoned>>
<1>1. CASE Stats \/ StatsFails
  BY <1>1 DEF Stats, SampleKernel, Sample, SampleReader, PublishDrops, StatsPanics, CheckStatsShutdown, WakeStats,
              StatsFails, StatsStep, kernelVars, readerVars, aggregatorVars
<1>2. CASE Containers \/ Outputs
  BY <1>2 DEF Containers, ContainersStep, lockVars, Outputs, OutputEnds, OutputPanics, OutputStep, kernelVars, readerVars, aggregatorVars
<1>3. CASE Main \/ Signal
  BY <1>3 DEF Main, Signal, Attach, MainSelect, MainAborts, StopOutput, DiscardPending, StopContainers,
              Detach, StopReader, StopStats, JoinReader, JoinAggregator, JoinContainers,
              JoinOutput, JoinStats, Join, Raise, MainStep, lockVars, readerVars, aggregatorVars
<1>4. CASE ReaderFails \/ AggregatorKeep \/ AggregatorEnds
  BY <1>4 DEF ReaderFails, AggregatorKeep, AggregatorEnds, kernelVars, readerVars, aggregatorVars
<1>5. CASE UNCHANGED vars
  BY <1>5 DEF vars
<1>. QED
  BY <1>1, <1>2, <1>3, <1>4, <1>5 DEF Bystander

LEMMA BystandersKeepShapeInv ==
  ASSUME ShapeInv, Bystander
  PROVE  ShapeInv'
<1>1. UNCHANGED <<emitted, ring, batch, channel, hand, ingested, drops, abandoned>>
  BY BystandersTouchNothing
<1>2. CASE AggregatorKeep \/ AggregatorEnds
  BY <1>2, AggregatorKeepsShapeInv DEF Aggregator
<1>3. CASE ReaderFails
  BY <1>1, <1>3 DEF ReaderFails, aggregatorVars, ShapeInv, ReceiverAlive
<1>4. CASE ~(AggregatorKeep \/ AggregatorEnds \/ ReaderFails)
  <2>1. UNCHANGED <<reader, aggregator>>
    <3>1. CASE Stats \/ StatsFails
      BY <3>1 DEF Stats, SampleKernel, Sample, SampleReader, PublishDrops, StatsPanics, CheckStatsShutdown,
                  WakeStats, StatsFails, StatsStep, readerVars, aggregatorVars
    <3>2. CASE Containers \/ Outputs
      BY <3>2 DEF Containers, ContainersStep, lockVars, Outputs, OutputEnds, OutputPanics, OutputStep, readerVars, aggregatorVars
    <3>3. CASE Main \/ Signal
      BY <3>3 DEF Main, Signal, Attach, MainSelect, MainAborts, StopOutput, DiscardPending, StopContainers,
                  Detach, StopReader, StopStats, JoinReader, JoinAggregator, JoinContainers,
                  JoinOutput, JoinStats, Join, Raise, MainStep, lockVars, readerVars, aggregatorVars
    <3>4. CASE UNCHANGED vars
      BY <3>4 DEF vars
    <3>. QED
      BY <1>4, <3>1, <3>2, <3>3, <3>4 DEF Bystander
  <2>. QED
    BY <1>1, <2>1 DEF ShapeInv, ReceiverAlive
<1>. QED
  BY <1>2, <1>3, <1>4

\* Every step is that of a task that carries records, or touches none.
LEMMA StepsAre ==
  ASSUME [Next]_vars
  PROVE  \/ \E valid \in BOOLEAN : Emit(valid)
         \/ ReaderReady \/ ReaderFinalDrain \/ ReaderSend \/ ReaderSendFails
         \/ AggregatorReceive \/ AggregatorDiscard \/ AggregatorIngest \/ AggregatorPanics
         \/ Bystander
BY DEF Next, Step, Reader, Aggregator, Outputs, Bystander

LEMMA ShapeInvStep == ShapeInv /\ [Next]_vars => ShapeInv'
<1>. SUFFICES ASSUME ShapeInv, [Next]_vars PROVE ShapeInv'
  OBVIOUS
<1>1. CASE \E valid \in BOOLEAN : Emit(valid)
  BY <1>1, EmitKeepsShapeInv
<1>2. CASE ReaderReady \/ ReaderFinalDrain \/ ReaderSend \/ ReaderSendFails
  BY <1>2, ReaderKeepsShapeInv DEF Reader
<1>3. CASE AggregatorReceive \/ AggregatorDiscard \/ AggregatorIngest \/ AggregatorPanics
  BY <1>3, AggregatorKeepsShapeInv DEF Aggregator
<1>4. CASE Bystander
  BY <1>4, BystandersKeepShapeInv
<1>. QED
  BY <1>1, <1>2, <1>3, <1>4, StepsAre

--------------------------------------------------------------------------------
\* The refinement of Delivery.

\* The refinement mapping.
Pending == Concat(Concat(Concat(hand, FlattenSeq(channel)), batch), RecordIds(ring))

Lost == Counted(drops) + abandoned

FlowInv == Flow(Pending, ingested, Lost, emitted)

\* The steps of Delivery, by what they do to the mapped state.
Arrives ==
  /\ emitted' = emitted + 1
  /\ Pending' = Append(Pending, emitted + 1)
  /\ ingested' = ingested /\ Lost' = Lost

Refuses ==
  /\ emitted' = emitted + 1
  /\ Lost' = Lost + 1
  /\ Pending' = Pending /\ ingested' = ingested

Delivers ==
  \E n \in 1 .. Len(Pending) :
    /\ ingested' = ingested \o SubSeq(Pending, 1, n)
    /\ Pending' = SubSeq(Pending, n + 1, Len(Pending))
    /\ emitted' = emitted /\ Lost' = Lost

Loses ==
  /\ CanBecome(Pending, Pending', emitted)
  /\ Lost' = Lost + (Len(Pending) - Len(Pending'))
  /\ emitted' = emitted /\ ingested' = ingested

Stutters ==
  emitted' = emitted /\ Pending' = Pending /\ ingested' = ingested /\ Lost' = Lost

Simulated == Arrives \/ Refuses \/ Delivers \/ Loses \/ Stutters

LEMMA PiecesAre ==
  ASSUME ShapeInv
  PROVE  /\ hand \in Seq(Nat) /\ FlattenSeq(channel) \in Seq(Nat)
         /\ batch \in Seq(Nat) /\ RecordIds(ring) \in Seq(Nat)
         /\ ingested \in Seq(Nat)
         /\ Concat(hand, FlattenSeq(channel)) \in Seq(Nat)
         /\ Counted(drops) \in Nat /\ abandoned \in Nat /\ emitted \in Nat
<1>1. FlattenSeq(channel) \in Seq(Ids)
  BY FlattenAppend, EmptySeq DEF ShapeInv
<1>2. RecordIds(ring) \in Seq(Ids)
  BY RecordIdsAre DEF ShapeInv
<1>3. Concat(hand, FlattenSeq(channel)) \in Seq(Ids)
  BY <1>1, ConcatProperties DEF ShapeInv, Concat
<1>4. Counted(drops) \in Nat
  BY DropsCounted DEF ShapeInv
<1>5. emitted \in Nat
  BY PipelineAssumption DEF ShapeInv, PipelineAssumption
<1>. QED
  BY <1>1, <1>2, <1>3, <1>4, <1>5, IdsAreNumbers DEF ShapeInv

LEMMA ConcatEmpty ==
  ASSUME NEW X, NEW s \in Seq(X)
  PROVE  Concat(<<>>, s) = s /\ Concat(s, <<>>) = s
BY ConcatEmptySeq DEF Concat

LEMMA ConcatAppend ==
  ASSUME NEW X, NEW s \in Seq(X), NEW t \in Seq(X), NEW e \in X
  PROVE  Concat(s, Append(t, e)) = Append(Concat(s, t), e)
BY DEF Concat

LEMMA ConcatType ==
  ASSUME NEW X, NEW s \in Seq(X), NEW t \in Seq(X)
  PROVE  Concat(s, t) \in Seq(X) /\ Len(Concat(s, t)) = Len(s) + Len(t)
         /\ Len(s) \in Nat /\ Len(t) \in Nat
BY ConcatProperties, LenProperties DEF Concat

\* Losing the front, or some of the middle, of what is under way.
LEMMA FrontLost ==
  ASSUME NEW m \in Seq(Nat), NEW r \in Seq(Nat), NEW d, NEW l, NEW n, Flow(Concat(m, r), d, l, n)
  PROVE  /\ CanBecome(Concat(m, r), r, n)
         /\ Len(Concat(m, r)) - Len(r) = Len(m)
         /\ Flow(r, d, l + Len(m), n)
<1>1. /\ n \in Nat /\ Ascending(Concat(d, Concat(m, r))) /\ d \in Seq(Nat)
      /\ \A i \in 1 .. Len(Concat(m, r)) : Concat(m, r)[i] \in 1 .. n
  BY DEF Flow
<1>2. Concat(m, r) \in Seq(Nat) /\ Len(Concat(m, r)) = Len(m) + Len(r)
      /\ Len(m) \in Nat /\ Len(r) \in Nat
  BY ConcatType
<1>3. Ascending(Concat(m, r))
  BY <1>1, <1>2, AscendingConcat DEF Concat
<1>4. /\ \A i \in 1 .. Len(m) : m[i] \in 1 .. n
      /\ \A i \in 1 .. Len(r) : r[i] \in 1 .. n
  <2>1. \A i \in 1 .. Len(m) + Len(r) : Concat(m, r)[i] = IF i <= Len(m) THEN m[i] ELSE r[i - Len(m)]
    BY ConcatProperties DEF Concat
  <2>2. ASSUME NEW i \in 1 .. Len(m) PROVE m[i] \in 1 .. n
    <3>1. i \in 1 .. Len(m) + Len(r) /\ i <= Len(m)
      BY <1>2
    <3>. QED
      BY <1>1, <1>2, <2>1, <3>1
  <2>3. ASSUME NEW i \in 1 .. Len(r) PROVE r[i] \in 1 .. n
    <3>1. /\ Len(m) + i \in 1 .. Len(m) + Len(r)
          /\ ~(Len(m) + i <= Len(m)) /\ (Len(m) + i) - Len(m) = i
      BY <1>2
    <3>. QED
      BY <1>1, <1>2, <2>1, <3>1
  <2>. QED
    BY <2>2, <2>3
<1>5. <<>> \in Seq(Nat) /\ Len(<<>>) = 0
  BY EmptySeq
<1>6. Selected(m, {}) = <<>>
  BY SelectedNone
<1>7. CanBecome(Concat(<<>>, Concat(m, r)), Concat(<<>>, Concat(Selected(m, {}), r)), n)
  <2>1. Concat(<<>>, Concat(m, r)) = Concat(m, r)
    BY <1>2, ConcatEmpty
  <2>2. \A i \in 1 .. Len(<<>>) : <<>>[i] \in 1 .. n
    BY <1>5
  <2>3. Ascending(Concat(<<>>, Concat(m, r)))
    BY <1>3, <2>1
  <2>. QED
    BY <1>1, <1>4, <1>5, <2>2, <2>3, LossOfPart
<1>8. CanBecome(Concat(m, r), r, n)
  BY <1>2, <1>6, <1>7, ConcatEmpty
<1> DEFINE p == Concat(m, r)
<1>9. Len(p) - Len(r) = Len(m)
  BY <1>2
<1>. HIDE DEF p
<1>10. PICK kept \in SUBSET (1 .. n) : Selected(p, kept) = r
  BY <1>8 DEF CanBecome, p
<1>11. Flow(Selected(p, kept), d, l + (Len(p) - Len(Selected(p, kept))), n)
  BY FlowLose DEF p
<1>. QED
  BY <1>8, <1>9, <1>10, <1>11 DEF p

LEMMA MiddleLost ==
  ASSUME NEW S, NEW a \in Seq(Nat), NEW m \in Seq(Nat), NEW r \in Seq(Nat), NEW d, NEW l, NEW n,
         Flow(Concat(a, Concat(m, r)), d, l, n)
  PROVE  CanBecome(Concat(a, Concat(m, r)), Concat(a, Concat(Selected(m, S), r)), n)
<1>1. Concat(m, r) \in Seq(Nat) /\ Len(Concat(m, r)) = Len(m) + Len(r)
      /\ Len(m) \in Nat /\ Len(r) \in Nat
  BY ConcatType
<1> DEFINE c == Concat(m, r)
           p == Concat(a, c)
<1>2. p \in Seq(Nat) /\ Len(p) = Len(a) + Len(c) /\ Len(a) \in Nat /\ Len(c) \in Nat
  BY <1>1, ConcatType
<1>3. /\ n \in Nat /\ Ascending(Concat(d, p)) /\ d \in Seq(Nat)
      /\ \A i \in 1 .. Len(p) : p[i] \in 1 .. n
  BY DEF Flow
<1>4. /\ \A i \in 1 .. Len(c) : c[i] = IF i <= Len(m) THEN m[i] ELSE r[i - Len(m)]
      /\ \A i \in 1 .. Len(p) : p[i] = IF i <= Len(a) THEN a[i] ELSE c[i - Len(a)]
  <2>1. \A i \in 1 .. Len(c) : c[i] = IF i <= Len(m) THEN m[i] ELSE r[i - Len(m)]
    BY <1>1, ConcatProperties DEF Concat
  <2>. HIDE DEF c
  <2>2. \A i \in 1 .. Len(p) : p[i] = IF i <= Len(a) THEN a[i] ELSE c[i - Len(a)]
    BY <1>1, <1>2, ConcatProperties DEF Concat, c
  <2>. QED
    BY <2>1, <2>2
<1>5. Ascending(p)
  <2>. HIDE DEF p
  <2>. QED
    BY <1>2, <1>3, AscendingConcat DEF Concat
<1>6. ASSUME NEW i \in 1 .. Len(a) PROVE a[i] \in 1 .. n
  <2>1. i \in 1 .. Len(p) /\ i <= Len(a)
    BY <1>2
  <2>. HIDE DEF p
  <2>. QED
    BY <1>3, <1>4, <2>1
<1>7. ASSUME NEW i \in 1 .. Len(c) PROVE c[i] \in 1 .. n
  <2>1. Len(a) + i \in 1 .. Len(p) /\ ~(Len(a) + i <= Len(a)) /\ (Len(a) + i) - Len(a) = i
    BY <1>2
  <2>. HIDE DEF p, c
  <2>. QED
    BY <1>3, <1>4, <2>1
<1>8. ASSUME NEW i \in 1 .. Len(m) PROVE m[i] \in 1 .. n
  <2>1. i \in 1 .. Len(c) /\ i <= Len(m)
    BY <1>1
  <2>. HIDE DEF c
  <2>. QED
    BY <1>4, <1>7, <2>1
<1>9. ASSUME NEW i \in 1 .. Len(r) PROVE r[i] \in 1 .. n
  <2>1. Len(m) + i \in 1 .. Len(c) /\ ~(Len(m) + i <= Len(m)) /\ (Len(m) + i) - Len(m) = i
    BY <1>1
  <2>. HIDE DEF c
  <2>. QED
    BY <1>4, <1>7, <2>1
<1>. QED
  BY <1>3, <1>5, <1>6, <1>8, <1>9, LossOfPart

LEMMA EmitSimulates ==
  ASSUME ShapeInv, FlowInv, NEW valid \in BOOLEAN, Emit(valid)
  PROVE  (Arrives \/ Refuses) /\ FlowInv'
<1>1. emitted' = emitted + 1 /\ UNCHANGED <<batch, channel, hand, ingested, abandoned>>
  BY DEF Emit, readerVars, aggregatorVars
<1>2. CASE Len(ring) < RingCapacity
  <2> DEFINE r == [id |-> emitted + 1, valid |-> valid]
             x == Concat(Concat(hand, FlattenSeq(channel)), batch)
             y == RecordIds(ring)
  <2>1. ring' = Append(ring, r) /\ UNCHANGED drops
    BY <1>2 DEF Emit
  <2>2. r \in RingRecords /\ r.id = emitted + 1 /\ emitted + 1 \in Nat
    <3>1. MaxRecords \in Nat /\ emitted \in 0 .. MaxRecords /\ emitted < MaxRecords
      BY PipelineAssumption DEF Emit, ShapeInv, PipelineAssumption
    <3>2. emitted + 1 \in Ids /\ emitted + 1 \in Nat
      BY <3>1 DEF Ids
    <3>. QED
      BY <3>2 DEF RingRecords
  <2>3. x \in Seq(Nat) /\ y \in Seq(Nat)
    BY PiecesAre, ConcatType
  <2>4. RecordIds(ring') = Append(y, emitted + 1)
    <3>. HIDE DEF r
    <3>. QED
      BY <2>1, <2>2, RecordIdsAppend DEF ShapeInv
  <2>5. Pending = Concat(x, y) /\ Pending' = Concat(x, RecordIds(ring'))
    BY <1>1, Zenon DEF Pending
  <2>. HIDE DEF x, y
  <2>6. Pending' = Append(Pending, emitted + 1)
    BY <2>2, <2>3, <2>4, <2>5, ConcatAppend
  <2>7. Lost' = Lost
    BY <1>1, <2>1 DEF Lost
  <2>8. Flow(Append(Pending, emitted + 1), ingested, Lost, emitted + 1)
    BY FlowArrive DEF FlowInv
  <2>9. FlowInv'
    BY <1>1, <2>6, <2>7, <2>8, Zenon DEF FlowInv
  <2>. QED
    BY <1>1, <2>6, <2>7, <2>9, Zenon DEF Arrives
<1>3. CASE ~(Len(ring) < RingCapacity)
  <2>1. drops' = [drops EXCEPT !.kernel = @ + 1] /\ UNCHANGED ring
    BY <1>3 DEF Emit
  <2>2. Counted(drops') = Counted(drops) + 1 /\ Counted(drops) \in Nat
    BY <2>1, DropsCounted DEF ShapeInv
  <2>3. Lost' = Lost + 1
    BY <1>1, <2>2 DEF Lost, ShapeInv
  <2>4. Pending' = Pending
    BY <1>1, <2>1, Zenon DEF Pending
  <2>5. Flow(Pending, ingested, Lost + 1, emitted + 1)
    BY FlowRefuse DEF FlowInv
  <2>6. FlowInv'
    BY <1>1, <2>3, <2>4, <2>5, Zenon DEF FlowInv
  <2>. QED
    BY <1>1, <2>3, <2>4, <2>6, Zenon DEF Refuses
<1>. QED
  BY <1>2, <1>3

LEMMA DrainSimulates ==
  ASSUME ShapeInv, FlowInv, ReaderReady \/ ReaderFinalDrain
  PROVE  Loses /\ FlowInv'
<1>1. /\ DrainRing /\ batch = <<>>
      /\ UNCHANGED <<emitted, channel, hand, ingested, abandoned>>
  BY DEF ReaderReady, ReaderFinalDrain, DrainAndSend, aggregatorVars, ShapeInv
<1>2. PICK taken, rest \in Seq(RingRecords) :
         /\ ring = Concat(taken, rest)
         /\ ring' = rest
         /\ Len(taken) <= MaxBatchEvents
         /\ batch' = RecordIds(Selected(taken, WellFormed))
         /\ drops' = [drops EXCEPT !.parse = @ + Cardinality(Unselected(taken, WellFormed))]
  BY <1>1, DrainSplits DEF ShapeInv
<1> DEFINE a == Concat(hand, FlattenSeq(channel))
           m == RecordIds(taken)
           r == RecordIds(rest)
           parsed == Selected(taken, WellFormed)
           bad == Cardinality(Unselected(taken, WellFormed))
           K == {taken[i].id : i \in {j \in 1 .. Len(taken) : taken[j] \in WellFormed}}
<1>3. /\ m \in Seq(Ids) /\ r \in Seq(Ids) /\ Len(m) = Len(taken)
      /\ \A i \in 1 .. Len(taken) : m[i] = taken[i].id
  BY RecordIdsAre
<1>4. a \in Seq(Nat) /\ m \in Seq(Nat) /\ r \in Seq(Nat) /\ ingested \in Seq(Nat)
  BY <1>3, PiecesAre, IdsAreNumbers
<1>5. Pending = Concat(a, Concat(m, r))
  <2>1. RecordIds(ring) = Concat(m, r)
    BY <1>2, RecordIdsConcat
  <2>2. Concat(a, batch) = a
    BY <1>1, <1>4, ConcatEmpty
  <2>3. Pending = Concat(Concat(a, batch), RecordIds(ring))
    BY Zenon DEF Pending
  <2>. QED
    BY <2>1, <2>2, <2>3, Zenon
<1>6. Flow(Concat(a, Concat(m, r)), ingested, Lost, emitted)
  BY <1>5 DEF FlowInv
<1>7. Ascending(m)
  <2>1. Concat(m, r) \in Seq(Nat)
    BY <1>4, ConcatType
  <2> DEFINE c == Concat(m, r)
  <2>. HIDE DEF c, a, m, r
  <2>2. Concat(a, c) \in Seq(Nat)
    BY <1>4, <2>1, ConcatType DEF c
  <2>3. Ascending(Concat(ingested, Concat(a, c)))
    BY <1>6 DEF Flow, c
  <2>4. Ascending(Concat(a, c))
    <3> DEFINE p == Concat(a, c)
    <3>1. p \in Seq(Nat) /\ Ascending(ingested \o p)
      BY <2>2, <2>3 DEF Concat
    <3>. HIDE DEF p
    <3>. QED
      BY <1>4, <3>1, AscendingConcat DEF p
  <2>5. Ascending(a \o c)
    BY <2>4 DEF Concat
  <2>6. Ascending(c)
    BY <1>4, <2>1, <2>5, AscendingConcat DEF c
  <2>. QED
    BY <1>4, <2>6, AscendingConcat DEF c, Concat
<1>8. ASSUME NEW i \in 1 .. Len(taken) PROVE taken[i].id \in K <=> taken[i] \in WellFormed
  <2>1. SUFFICES ASSUME NEW j \in 1 .. Len(taken), taken[j] \in WellFormed, taken[i].id = taken[j].id
                 PROVE  i = j
    OBVIOUS
  <2>2. m[i] = m[j] /\ i \in 1 .. Len(m) /\ j \in 1 .. Len(m)
    BY <1>3, <2>1
  <2>3. Len(m) \in Nat /\ m[i] \in Nat /\ m[j] \in Nat
    BY <1>4, <2>2, LenProperties
  <2>. HIDE DEF m
  <2>4. ~(i < j) /\ ~(j < i)
    BY <1>7, <2>2, <2>3 DEF Ascending
  <2>. QED
    BY <2>3, <2>4
<1>9. RecordIds(parsed) = Selected(m, K)
  <2>. HIDE DEF K
  <2>. QED
    BY <1>8, RecordIdsSelected
<1>10. parsed \in Seq(RingRecords) /\ Len(taken) - Len(parsed) = bad /\ bad \in Nat
  BY SelectedCounts
<1>. HIDE DEF parsed, bad, K
<1>11. Len(Selected(m, K)) = Len(parsed) /\ Selected(m, K) \in Seq(Nat)
  <2>1. Len(RecordIds(parsed)) = Len(parsed) /\ RecordIds(parsed) \in Seq(Ids)
    BY <1>10, RecordIdsAre
  <2>. QED
    BY <1>9, <2>1, IdsAreNumbers
<1>. HIDE DEF a, m, r
<1>12. Pending' = Concat(a, Concat(Selected(m, K), r))
  <2>1. Pending' = Concat(Concat(a, batch'), RecordIds(ring'))
    BY <1>1, Zenon DEF Pending, a
  <2>2. batch' = Selected(m, K) /\ RecordIds(ring') = r
    BY <1>2, <1>9 DEF parsed, r
  <2>3. Concat(Concat(a, Selected(m, K)), r) = Concat(a, Concat(Selected(m, K), r))
    BY <1>4, <1>11, Associative
  <2>. QED
    BY <2>1, <2>2, <2>3, Zenon
<1>13. Lost' = Lost + bad
  <2>1. Counted(drops') = Counted(drops) + bad /\ Counted(drops) \in Nat
    BY <1>2, <1>10, DropsCounted DEF ShapeInv, bad
  <2>. QED
    BY <1>1, <1>10, <2>1 DEF Lost, ShapeInv
<1>14. CanBecome(Pending, Pending', emitted)
  BY <1>4, <1>5, <1>6, <1>12, MiddleLost
<1>15. Len(Pending) - Len(Pending') = bad
  <2>1. /\ Len(Pending) = Len(a) + (Len(m) + Len(r))
        /\ Len(Pending') = Len(a) + (Len(Selected(m, K)) + Len(r))
        /\ Len(a) \in Nat /\ Len(m) \in Nat /\ Len(r) \in Nat /\ Len(Selected(m, K)) \in Nat
    <3> DEFINE q == Selected(m, K)
    <3>1. Concat(m, r) \in Seq(Nat) /\ Len(Concat(m, r)) = Len(m) + Len(r)
          /\ Len(m) \in Nat /\ Len(r) \in Nat
      BY <1>4, ConcatType
    <3>2. q \in Seq(Nat)
      BY <1>11
    <3>. HIDE DEF q
    <3>3. Concat(q, r) \in Seq(Nat) /\ Len(Concat(q, r)) = Len(q) + Len(r) /\ Len(q) \in Nat
      BY <1>4, <3>2, ConcatType
    <3>4. Len(Concat(a, Concat(m, r))) = Len(a) + Len(Concat(m, r)) /\ Len(a) \in Nat
      BY <1>4, <3>1, ConcatType
    <3>5. Len(Concat(a, Concat(q, r))) = Len(a) + Len(Concat(q, r))
      BY <1>4, <3>3, ConcatType
    <3>. QED
      BY <1>5, <1>12, <3>1, <3>3, <3>4, <3>5 DEF q
  <2>2. Len(Pending) - Len(Pending') = Len(m) - Len(Selected(m, K))
    BY <2>1
  <2>3. Len(m) = Len(taken) /\ Len(Selected(m, K)) = Len(parsed)
    BY <1>3, <1>11
  <2>. QED
    BY <1>10, <2>2, <2>3, Zenon
<1>16. FlowInv'
  <2>1. PICK kept \in SUBSET (1 .. emitted) : Selected(Pending, kept) = Pending'
    BY <1>14 DEF CanBecome
  <2>2. Flow(Selected(Pending, kept), ingested,
             Lost + (Len(Pending) - Len(Selected(Pending, kept))), emitted)
    BY FlowLose DEF FlowInv
  <2>3. Flow(Pending', ingested, Lost + bad, emitted)
    BY <1>15, <2>1, <2>2
  <2>. QED
    BY <1>1, <1>13, <2>3, Zenon DEF FlowInv
<1>17. Lost' = Lost + (Len(Pending) - Len(Pending'))
  BY <1>13, <1>15
<1>. QED
  BY <1>1, <1>14, <1>16, <1>17 DEF Loses

\* What a step that only moves records between its tasks does.
LEMMA MovesSimulate ==
  ASSUME FlowInv, Pending' = Pending, UNCHANGED <<emitted, ingested, drops, abandoned>>
  PROVE  Stutters /\ FlowInv'
<1>1. Lost' = Lost
  BY DEF Lost
<1>. QED
  BY <1>1, Zenon DEF FlowInv, Stutters

LEMMA SendSimulates ==
  ASSUME ShapeInv, FlowInv, ReaderSend
  PROVE  Stutters /\ FlowInv'
<1> DEFINE f == FlattenSeq(channel)
           r == RecordIds(ring)
<1>1. /\ channel' = Append(channel, batch) /\ batch' = <<>>
      /\ UNCHANGED <<emitted, ring, hand, ingested, drops, abandoned>>
  BY DEF ReaderSend, kernelVars, aggregatorVars
<1>2. hand \in Seq(Nat) /\ f \in Seq(Nat) /\ batch \in Seq(Nat) /\ r \in Seq(Nat)
  BY PiecesAre
<1>3. FlattenSeq(channel') = Concat(f, batch)
  BY <1>1, FlattenAppend DEF ShapeInv, Concat
<1>4. /\ Pending = Concat(Concat(Concat(hand, f), batch), r)
      /\ Pending' = Concat(Concat(Concat(hand, Concat(f, batch)), <<>>), r)
  BY <1>1, <1>3, Zenon DEF Pending
<1>. HIDE DEF f, r
<1>5. Concat(f, batch) \in Seq(Nat) /\ Concat(hand, Concat(f, batch)) \in Seq(Nat)
  <2> DEFINE c == Concat(f, batch)
  <2>1. c \in Seq(Nat)
    BY <1>2, ConcatType
  <2>. HIDE DEF c
  <2>2. Concat(hand, c) \in Seq(Nat)
    BY <1>2, <2>1, ConcatType
  <2>. QED
    BY <2>1, <2>2 DEF c
<1>6. /\ Concat(Concat(hand, Concat(f, batch)), <<>>) = Concat(hand, Concat(f, batch))
      /\ Concat(Concat(hand, f), batch) = Concat(hand, Concat(f, batch))
  BY <1>2, <1>5, ConcatEmpty, Associative
<1>7. Pending' = Pending
  BY <1>4, <1>6, Zenon
<1>. QED
  BY <1>1, <1>7, MovesSimulate

LEMMA ReceiveSimulates ==
  ASSUME ShapeInv, FlowInv, AggregatorReceive
  PROVE  Stutters /\ FlowInv'
<1>1. /\ channel # <<>> /\ hand' = Head(channel) /\ channel' = Tail(channel) /\ hand = <<>>
      /\ UNCHANGED <<emitted, ring, batch, ingested, drops, abandoned>>
  BY DEF AggregatorReceive, kernelVars, readerVars, ShapeInv
<1>2. FlattenSeq(channel) = Concat(hand', FlattenSeq(channel'))
  BY <1>1, FlattenHead DEF ShapeInv, Concat
<1>3. FlattenSeq(channel) \in Seq(Nat)
  BY PiecesAre
<1>4. Concat(hand, FlattenSeq(channel)) = Concat(hand', FlattenSeq(channel'))
  BY <1>1, <1>2, <1>3, ConcatEmpty
<1>5. Pending' = Pending
  BY <1>1, <1>4, Zenon DEF Pending
<1>. QED
  BY <1>1, <1>5, MovesSimulate

\* What the aggregator holds is the front of what is under way.
LEMMA HandIsFront ==
  ASSUME ShapeInv
  PROVE  /\ Pending = Concat(hand, Concat(Concat(FlattenSeq(channel), batch), RecordIds(ring)))
         /\ Concat(Concat(FlattenSeq(channel), batch), RecordIds(ring)) \in Seq(Nat)
<1> DEFINE f == FlattenSeq(channel)
           r == RecordIds(ring)
           c == Concat(f, batch)
<1>1. hand \in Seq(Nat) /\ f \in Seq(Nat) /\ batch \in Seq(Nat) /\ r \in Seq(Nat)
  BY PiecesAre
<1>2. Pending = Concat(Concat(Concat(hand, f), batch), r)
  BY Zenon DEF Pending
<1>. HIDE DEF f, r
<1>3. c \in Seq(Nat)
  BY <1>1, ConcatType
<1>4. Concat(Concat(hand, f), batch) = Concat(hand, c)
  BY <1>1, Associative
<1>. HIDE DEF c
<1>5. Concat(Concat(hand, c), r) = Concat(hand, Concat(c, r)) /\ Concat(c, r) \in Seq(Nat)
  BY <1>1, <1>3, Associative, ConcatType
<1>. QED
  BY <1>2, <1>4, <1>5, Zenon DEF f, r, c

\* When it lets go of that, the rest is under way.
LEMMA RestIsPending ==
  ASSUME ShapeInv, hand' = <<>>, UNCHANGED <<channel, batch, ring>>
  PROVE  Pending' = Concat(Concat(FlattenSeq(channel), batch), RecordIds(ring))
<1>1. Pending' = Concat(Concat(Concat(<<>>, FlattenSeq(channel)), batch), RecordIds(ring))
  BY Zenon DEF Pending
<1>2. Concat(<<>>, FlattenSeq(channel)) = FlattenSeq(channel)
  BY PiecesAre, ConcatEmpty
<1>. QED
  BY <1>1, <1>2, Zenon

LEMMA IngestSimulates ==
  ASSUME ShapeInv, FlowInv, AggregatorIngest
  PROVE  (Delivers \/ Stutters) /\ FlowInv'
<1> DEFINE r == Concat(Concat(FlattenSeq(channel), batch), RecordIds(ring))
<1>1. /\ ingested' = ingested \o hand /\ hand' = <<>>
      /\ UNCHANGED <<emitted, ring, batch, channel, drops, abandoned>>
  BY DEF AggregatorIngest, kernelVars, readerVars
<1>2. Pending = Concat(hand, r) /\ r \in Seq(Nat) /\ hand \in Seq(Nat) /\ ingested \in Seq(Nat)
  BY HandIsFront, PiecesAre
<1>3. Pending' = r
  BY <1>1, RestIsPending
<1>4. Lost' = Lost
  BY <1>1 DEF Lost
<1>. HIDE DEF r
<1>5. /\ SubSeq(Pending, 1, Len(hand)) = hand
      /\ SubSeq(Pending, Len(hand) + 1, Len(Pending)) = r
      /\ Len(Pending) = Len(hand) + Len(r) /\ Len(hand) \in Nat /\ Len(r) \in Nat
  <2>1. /\ SubSeq(Concat(hand, r), 1, Len(hand)) = hand
        /\ SubSeq(Concat(hand, r), Len(hand) + 1, Len(Concat(hand, r))) = r
        /\ Len(Concat(hand, r)) = Len(hand) + Len(r)
    <3> DEFINE h == hand
    <3>1. h \in Seq(Nat) /\ r \in Seq(Nat)
      BY <1>2
    <3>. HIDE DEF h
    <3>2. SubSeq(Concat(h, r), 1, Len(h)) = h
      BY <3>1, SplitConcat
    <3>3. SubSeq(Concat(h, r), Len(h) + 1, Len(Concat(h, r))) = r
      BY <3>1, SplitConcat
    <3>4. Len(Concat(h, r)) = Len(h) + Len(r)
      BY <3>1, SplitConcat
    <3>. QED
      BY <3>2, <3>3, <3>4, Zenon DEF h
  <2>2. Len(hand) \in Nat /\ Len(r) \in Nat
    BY <1>2, LenProperties
  <2>. QED
    BY <1>2, <2>1, <2>2, Zenon
<1>6. FlowInv'
  <2>1. Flow(r, Concat(ingested, hand), Lost, emitted)
    BY <1>2, FlowDeliver DEF FlowInv
  <2>2. Concat(ingested, hand) = ingested'
    BY <1>1 DEF Concat
  <2>. QED
    BY <1>1, <1>3, <1>4, <2>1, <2>2, Zenon DEF FlowInv
<1>7. CASE hand = <<>>
  <2>1. ingested' = ingested
    BY <1>1, <1>2, <1>7, ConcatEmptySeq
  <2>2. Pending' = Pending
    BY <1>2, <1>3, <1>7, ConcatEmpty
  <2>. QED
    BY <1>1, <1>4, <1>6, <2>1, <2>2, Zenon DEF Stutters
<1>8. CASE hand # <<>>
  <2>1. Len(hand) \in 1 .. Len(Pending)
    BY <1>2, <1>5, <1>8, EmptySeq
  <2>2. /\ ingested' = ingested \o SubSeq(Pending, 1, Len(hand))
        /\ Pending' = SubSeq(Pending, Len(hand) + 1, Len(Pending))
    BY <1>1, <1>3, <1>5, Zenon
  <2>. QED
    BY <1>1, <1>4, <1>6, <2>1, <2>2, Zenon DEF Delivers
<1>. QED
  BY <1>7, <1>8

\* A step that loses the front of what is under way, and counts it.
LEMMA FrontLossSimulates ==
  ASSUME NEW m \in Seq(Nat), NEW r \in Seq(Nat), FlowInv,
         Pending = Concat(m, r), Pending' = r, Lost' = Lost + Len(m),
         UNCHANGED <<emitted, ingested>>
  PROVE  Loses /\ FlowInv'
<1>1. /\ CanBecome(Concat(m, r), r, emitted)
      /\ Len(Concat(m, r)) - Len(r) = Len(m)
      /\ Flow(r, ingested, Lost + Len(m), emitted)
  BY FrontLost DEF FlowInv
<1>2. FlowInv'
  BY <1>1, Zenon DEF FlowInv
<1>3. Len(Pending) - Len(Pending') = Len(m) /\ CanBecome(Pending, Pending', emitted)
  BY <1>1, Zenon
<1>. QED
  BY <1>2, <1>3, Zenon DEF Loses

LEMMA DiscardSimulates ==
  ASSUME ShapeInv, FlowInv, AggregatorDiscard
  PROVE  Loses /\ FlowInv'
<1> DEFINE r == Concat(Concat(FlattenSeq(channel), batch), RecordIds(ring))
<1>1. /\ drops' = [drops EXCEPT !.discarded = @ + Len(hand)] /\ hand' = <<>>
      /\ UNCHANGED <<emitted, ring, batch, channel, ingested, abandoned>>
  BY DEF AggregatorDiscard, kernelVars, readerVars
<1>2. Pending = Concat(hand, r) /\ r \in Seq(Nat) /\ hand \in Seq(Nat)
  BY HandIsFront, PiecesAre
<1>3. Pending' = r
  BY <1>1, RestIsPending
<1>4. Lost' = Lost + Len(hand)
  <2>1. Len(hand) \in Nat
    BY <1>2, LenProperties
  <2>2. Counted(drops') = Counted(drops) + Len(hand) /\ Counted(drops) \in Nat
    BY <1>1, <2>1, DropsCounted DEF ShapeInv
  <2>. QED
    BY <1>1, <2>1, <2>2 DEF Lost, ShapeInv
<1>. HIDE DEF r
<1>. QED
  BY <1>1, <1>2, <1>3, <1>4, FrontLossSimulates

LEMMA PanicSimulates ==
  ASSUME ShapeInv, FlowInv, AggregatorPanics
  PROVE  Loses /\ FlowInv'
<1> DEFINE m == Concat(hand, FlattenSeq(channel))
           r == Concat(batch, RecordIds(ring))
<1>1. /\ abandoned' = abandoned + Len(hand) + Len(FlattenSeq(channel))
      /\ hand' = <<>> /\ channel' = <<>>
      /\ UNCHANGED <<emitted, ring, batch, ingested, drops>>
  BY DEF AggregatorPanics, kernelVars, readerVars
<1>2. /\ hand \in Seq(Nat) /\ FlattenSeq(channel) \in Seq(Nat)
      /\ batch \in Seq(Nat) /\ RecordIds(ring) \in Seq(Nat)
      /\ m \in Seq(Nat) /\ r \in Seq(Nat)
      /\ Len(m) = Len(hand) + Len(FlattenSeq(channel)) /\ Len(hand) \in Nat
      /\ Len(FlattenSeq(channel)) \in Nat
  BY PiecesAre, ConcatType
<1>3. Pending = Concat(m, r)
  <2>1. Pending = Concat(Concat(m, batch), RecordIds(ring))
    BY Zenon DEF Pending
  <2>. HIDE DEF m
  <2>. QED
    BY <1>2, <2>1, Associative
<1>4. Pending' = r
  <2>1. Pending' = Concat(Concat(Concat(<<>>, <<>>), batch), RecordIds(ring))
    BY <1>1, FlattenEmpty, Zenon DEF Pending
  <2>2. Concat(<<>>, <<>>) = <<>>
    BY EmptySeq, ConcatEmpty
  <2>3. Concat(<<>>, batch) = batch
    BY <1>2, ConcatEmpty
  <2>. QED
    BY <2>1, <2>2, <2>3, Zenon
<1>5. Lost' = Lost + Len(m)
  <2>1. Counted(drops) \in Nat /\ Counted(drops') = Counted(drops)
    BY <1>1, PiecesAre
  <2>. HIDE DEF m
  <2>. QED
    BY <1>1, <1>2, <2>1 DEF Lost, ShapeInv
<1>. HIDE DEF m, r
<1>. QED
  BY <1>1, <1>2, <1>3, <1>4, <1>5, FrontLossSimulates

LEMMA SendFailsSimulates ==
  ASSUME ShapeInv, FlowInv, ReaderSendFails
  PROVE  Loses /\ FlowInv'
<1> DEFINE r == RecordIds(ring)
<1>1. /\ drops' = [drops EXCEPT !.queue = @ + Len(batch)] /\ batch' = <<>>
      /\ hand = <<>> /\ channel = <<>>
      /\ UNCHANGED <<emitted, ring, channel, hand, ingested, abandoned>>
  BY DEF ReaderSendFails, kernelVars, aggregatorVars, ShapeInv, ReceiverAlive
<1>2. batch \in Seq(Nat) /\ r \in Seq(Nat)
  BY PiecesAre
<1>3. Concat(Concat(<<>>, <<>>), batch) = batch /\ Concat(Concat(<<>>, <<>>), <<>>) = <<>>
  <2>1. Concat(<<>>, <<>>) = <<>>
    BY EmptySeq, ConcatEmpty
  <2>. QED
    BY <1>2, <2>1, ConcatEmpty
<1>4. Pending = Concat(batch, r)
  <2>1. Pending = Concat(Concat(Concat(<<>>, <<>>), batch), r)
    BY <1>1, FlattenEmpty, Zenon DEF Pending
  <2>. QED
    BY <1>3, <2>1, Zenon
<1>5. Pending' = r
  <2>1. Pending' = Concat(Concat(Concat(<<>>, <<>>), <<>>), r)
    BY <1>1, FlattenEmpty, Zenon DEF Pending
  <2>2. Concat(<<>>, r) = r
    BY <1>2, ConcatEmpty
  <2>. QED
    BY <1>3, <2>1, <2>2, Zenon
<1>6. Lost' = Lost + Len(batch)
  <2>1. Len(batch) \in Nat
    BY <1>2, LenProperties
  <2>2. Counted(drops') = Counted(drops) + Len(batch) /\ Counted(drops) \in Nat
    BY <1>1, <2>1, DropsCounted DEF ShapeInv
  <2>. QED
    BY <1>1, <2>1, <2>2 DEF Lost, ShapeInv
<1>. HIDE DEF r
<1>. QED
  BY <1>1, <1>2, <1>4, <1>5, <1>6, FrontLossSimulates

LEMMA FlowInvInit == Init => FlowInv /\ Pending = <<>> /\ Lost = 0
<1>. SUFFICES ASSUME Init PROVE FlowInv /\ Pending = <<>> /\ Lost = 0
  OBVIOUS
<1>1. <<>> \in Seq(Nat) /\ Len(<<>>) = 0 /\ <<>> \in Seq(RingRecords)
  BY EmptySeq
<1>2. RecordIds(<<>>) = <<>>
  BY <1>1, RecordIdsAre, EmptySeq
<1>3. Concat(<<>>, <<>>) = <<>>
  BY <1>1, ConcatEmpty
<1>4. Pending = <<>>
  <2>1. hand = <<>> /\ channel = <<>> /\ batch = <<>> /\ ring = <<>>
    BY DEF Init
  <2>2. Pending = Concat(Concat(Concat(<<>>, <<>>), <<>>), <<>>)
    BY <1>2, <2>1, FlattenEmpty, Zenon DEF Pending
  <2>. QED
    BY <1>3, <2>2, Zenon
<1>5. Lost = 0 /\ ingested = <<>> /\ emitted = 0
  BY DEF Init, Lost, Counted, Total, NoDrops
<1>6. Flow(<<>>, <<>>, 0, 0)
  BY <1>1, <1>3 DEF Flow, Ascending
<1>. QED
  BY <1>4, <1>5, <1>6, Zenon DEF FlowInv

LEMMA NextSimulates ==
  ASSUME ShapeInv, FlowInv, [Next]_vars
  PROVE  Simulated /\ FlowInv'
<1>1. CASE \E valid \in BOOLEAN : Emit(valid)
  BY <1>1, EmitSimulates DEF Simulated
<1>2. CASE ReaderReady \/ ReaderFinalDrain
  BY <1>2, DrainSimulates DEF Simulated
<1>3. CASE ReaderSend
  BY <1>3, SendSimulates DEF Simulated
<1>4. CASE ReaderSendFails
  BY <1>4, SendFailsSimulates DEF Simulated
<1>5. CASE AggregatorReceive
  BY <1>5, ReceiveSimulates DEF Simulated
<1>6. CASE AggregatorDiscard
  BY <1>6, DiscardSimulates DEF Simulated
<1>7. CASE AggregatorIngest
  BY <1>7, IngestSimulates DEF Simulated
<1>8. CASE AggregatorPanics
  BY <1>8, PanicSimulates DEF Simulated
<1>9. CASE Bystander
  <2>1. UNCHANGED <<emitted, ring, batch, channel, hand, ingested, drops, abandoned>>
    BY <1>9, BystandersTouchNothing
  <2>2. Pending' = Pending
    BY <2>1, Zenon DEF Pending
  <2>. QED
    BY <2>1, <2>2, MovesSimulate DEF Simulated
<1>. QED
  BY <1>1, <1>2, <1>3, <1>4, <1>5, <1>6, <1>7, <1>8, <1>9, StepsAre

LEMMA SimulatedIsDelivery ==
  ASSUME Simulated
  PROVE  [Promise!Next]_(Promise!vars)
<1>. USE DEF Promise!Next, Promise!vars
<1>1. CASE Arrives
  <2>1. Promise!Arrive
    BY <1>1, Zenon DEF Arrives, Promise!Arrive, Pending, Concat, RecordIds, Lost, Counted
  <2>. QED
    BY <2>1, Zenon
<1>2. CASE Refuses
  <2>1. Promise!Refuse
    BY <1>2, Zenon DEF Refuses, Promise!Refuse, Pending, Concat, RecordIds, Lost, Counted
  <2>. QED
    BY <2>1, Zenon
<1>3. CASE Delivers
  <2>1. PICK n \in 1 .. Len(Pending) :
          /\ ingested' = ingested \o SubSeq(Pending, 1, n)
          /\ Pending' = SubSeq(Pending, n + 1, Len(Pending))
          /\ emitted' = emitted /\ Lost' = Lost
    BY <1>3, Zenon DEF Delivers
  <2>2. Promise!Deliver(n)
    BY <2>1, Zenon DEF Promise!Deliver, Pending, Concat, RecordIds, Lost, Counted
  <2>. QED
    BY <2>2, Zenon DEF Pending, Concat, RecordIds
<1>4. CASE Loses
  <2>1. PICK kept \in SUBSET (1 .. emitted) : Selected(Pending, kept) = Pending'
    BY <1>4, Zenon DEF Loses, CanBecome
  <2>2. /\ Pending' = Selected(Pending, kept)
        /\ Lost' = Lost + (Len(Pending) - Len(Pending'))
        /\ emitted' = emitted /\ ingested' = ingested
    BY <1>4, <2>1, Zenon DEF Loses
  <2>3. Promise!Lose(kept)
    BY <2>2, Zenon DEF Promise!Lose, Promise!Selected, Selected, Pending, Concat, RecordIds, Lost, Counted
  <2>. QED
    BY <2>3, Zenon
<1>5. CASE Stutters
  BY <1>5, Zenon DEF Stutters, Pending, Concat, RecordIds, Lost, Counted
<1>. QED
  BY <1>1, <1>2, <1>3, <1>4, <1>5 DEF Simulated

\* However the tasks interleave, and whichever of them fails, the pipeline of
\* bpf.rs and main.rs is a queue that loses records only where it counts them:
\* ingested in the order of their emission, and none twice.
THEOREM PipelineKeepsPromise == Spec => DeliverySpec
<1>1. Init => Promise!Init
  <2>1. Init => emitted = 0 /\ ingested = <<>>
    BY DEF Init
  <2>. QED
    BY <2>1, FlowInvInit, Zenon DEF Promise!Init, Pending, Concat, RecordIds, Lost, Counted
<1>2. Init => ShapeInv /\ FlowInv
  BY ShapeInvInit, FlowInvInit
<1>3. (ShapeInv /\ FlowInv) /\ [Next]_vars => (ShapeInv /\ FlowInv)'
  BY ShapeInvStep, NextSimulates
<1>4. (ShapeInv /\ FlowInv) /\ [Next]_vars => [Promise!Next]_(Promise!vars)
  BY NextSimulates, SimulatedIsDelivery
<1>. QED
  BY <1>1, <1>2, <1>3, <1>4, PTL DEF Spec, DeliverySpec, Promise!Spec

--------------------------------------------------------------------------------
\* What is shown as lost.

\* What the monitor holds, and what main has taken over, were once the counters.
ShownInv ==
  /\ snapshot \in DropCounts /\ NoLess(drops, snapshot)
  /\ finalDrops \in DropCounts /\ NoLess(drops, finalDrops)
  /\ published \in Nat /\ published <= Total(drops)

LEMMA NoLessOrder ==
  ASSUME NEW c \in DropCounts, NEW d \in DropCounts
  PROVE  /\ NoLess(c, c)
         /\ Total(c) \in Nat
         /\ NoLess(d, c) => Total(d) >= Total(c)
         /\ \A e \in DropCounts : NoLess(e, d) /\ NoLess(d, c) => NoLess(e, c)
<1>1. \A e \in DropCounts : /\ e.kernel \in Nat /\ e.parse \in Nat
                            /\ e.queue \in Nat /\ e.discarded \in Nat
  BY DEF DropCounts
<1>. QED
  BY <1>1 DEF NoLess, Total

\* No counter ever falls.
LEMMA DropsGrow ==
  ASSUME ShapeInv, [Next]_vars
  PROVE  NoLess(drops', drops)
<1>1. drops \in DropCounts
  BY DEF ShapeInv
<1>2. CASE drops' = drops
  BY <1>1, <1>2, NoLessOrder
<1>3. ASSUME NEW valid \in BOOLEAN, Emit(valid) PROVE NoLess(drops', drops)
  <2>1. drops' = drops \/ drops' = [drops EXCEPT !.kernel = @ + 1]
    BY <1>3 DEF Emit
  <2>. QED
    BY <1>1, <1>2, <2>1, DropsCounted
<1>4. CASE ReaderReady \/ ReaderFinalDrain
  <2>1. DrainRing /\ ring \in Seq(RingRecords)
    BY <1>4 DEF ReaderReady, ReaderFinalDrain, DrainAndSend, ShapeInv
  <2>2. PICK taken, rest \in Seq(RingRecords) :
          drops' = [drops EXCEPT !.parse = @ + Cardinality(Unselected(taken, WellFormed))]
    BY <2>1, DrainSplits
  <2> DEFINE n == Cardinality(Unselected(taken, WellFormed))
  <2>3. n \in Nat
    BY SelectedCounts
  <2>. HIDE DEF n
  <2>. QED
    BY <1>1, <2>2, <2>3, DropsCounted DEF n
<1>5. CASE ReaderSendFails
  BY <1>1, <1>5, DropsCounted, LenProperties DEF ReaderSendFails, ShapeInv
<1>6. CASE AggregatorDiscard
  BY <1>1, <1>6, DropsCounted, LenProperties DEF AggregatorDiscard, ShapeInv
<1>7. CASE ReaderSend \/ AggregatorReceive \/ AggregatorIngest \/ AggregatorPanics
  BY <1>2, <1>7 DEF ReaderSend, AggregatorReceive, AggregatorIngest, AggregatorPanics
<1>8. CASE Bystander
  BY <1>2, <1>8, BystandersTouchNothing
<1>. QED
  BY <1>3, <1>4, <1>5, <1>6, <1>7, <1>8, StepsAre

LEMMA ShownInvInit == Init => ShownInv
BY DEF Init, ShownInv, NoDrops, DropCounts, NoLess, Total

\* Only the monitor and the end of main change what is shown.
LEMMA ShownStays ==
  ASSUME ShapeInv, [Next]_vars
  PROVE  \/ Stats
         \/ JoinStats
         \/ UNCHANGED <<snapshot, published, finalDrops>>
<1>1. CASE \E valid \in BOOLEAN : Emit(valid)
  BY <1>1 DEF Emit, statsVars, lockVars, mainVars
<1>2. CASE ReaderReady \/ ReaderFinalDrain \/ ReaderSend \/ ReaderSendFails \/ ReaderFails
  BY <1>2 DEF ReaderReady, ReaderFinalDrain, DrainAndSend, ReaderSend, ReaderSendFails,
              ReaderFails, statsVars, lockVars, mainVars
<1>3. CASE Aggregator \/ AggregatorPanics
  BY <1>3 DEF Aggregator, AggregatorReceive, AggregatorDiscard, AggregatorKeep,
              AggregatorIngest, AggregatorEnds, AggregatorPanics, statsVars, lockVars, mainVars
<1>4. CASE StatsFails
  BY <1>4 DEF StatsFails, StatsStep, lockVars, mainVars
<1>5. CASE Containers \/ Outputs
  BY <1>5 DEF Containers, ContainersStep, lockVars, Outputs, OutputEnds, OutputPanics, OutputStep, statsVars, lockVars, mainVars
<1>6. CASE Main /\ ~JoinStats
  BY <1>6 DEF Main, Attach, MainSelect, MainAborts, StopOutput, DiscardPending, StopContainers,
              Detach, StopReader, StopStats, JoinReader, JoinAggregator, JoinContainers,
              JoinOutput, Join, Raise, MainStep, lockVars, statsVars
<1>7. CASE Signal
  BY <1>7 DEF Signal, MainStep, lockVars, statsVars
<1>8. CASE UNCHANGED vars
  BY <1>8 DEF vars
<1>. QED
  BY <1>1, <1>2, <1>3, <1>4, <1>5, <1>6, <1>7, <1>8
  DEF Next, Step, Reader, Outputs

LEMMA ShownInvStep ==
  ASSUME ShapeInv, ShownInv, [Next]_vars
  PROVE  ShownInv'
<1>1. /\ drops \in DropCounts /\ drops' \in DropCounts /\ NoLess(drops', drops)
      /\ snapshot \in DropCounts /\ NoLess(drops, snapshot)
      /\ finalDrops \in DropCounts /\ NoLess(drops, finalDrops)
      /\ published \in Nat /\ published <= Total(drops)
  BY ShapeInvStep, DropsGrow DEF ShapeInv, ShownInv
<1>2. /\ NoLess(drops', snapshot) /\ NoLess(drops', finalDrops)
      /\ Total(drops) \in Nat /\ Total(drops') \in Nat
      /\ Total(drops') >= Total(drops)
  BY <1>1, NoLessOrder
<1>3. published <= Total(drops')
  BY <1>1, <1>2
<1>4. CASE UNCHANGED <<snapshot, published, finalDrops>>
  BY <1>1, <1>2, <1>3, <1>4 DEF ShownInv
<1>5. CASE Stats
  <2>1. UNCHANGED <<drops, finalDrops>>
    BY <1>5 DEF Stats, SampleKernel, Sample, SampleReader, PublishDrops, StatsPanics, CheckStatsShutdown, WakeStats,
                StatsStep, lockVars, mainVars
  <2>2. ASSUME NEW counter \in {"kernel", "parse", "queue", "discarded"}, NEW next,
               Sample(counter, next)
        PROVE  ShownInv'
    <3>1. snapshot' = [snapshot EXCEPT ![counter] = drops[counter]] /\ published' = published
      BY <2>2 DEF Sample
    <3>2. snapshot' \in DropCounts /\ NoLess(drops, snapshot')
      BY <1>1, <3>1 DEF DropCounts, NoLess
    <3>. QED
      BY <1>1, <2>1, <3>1, <3>2 DEF ShownInv
  <2>3. CASE SampleKernel \/ SampleReader
    BY <2>2, <2>3 DEF SampleKernel, SampleReader
  <2>4. CASE PublishDrops
    <3>1. published' = Total(snapshot) /\ snapshot' = snapshot
      BY <2>4 DEF PublishDrops
    <3>2. Total(snapshot) \in Nat /\ Total(snapshot) <= Total(drops)
      BY <1>1, <1>2, NoLessOrder
    <3>. QED
      BY <1>1, <2>1, <3>1, <3>2 DEF ShownInv
  <2>5. CASE CheckStatsShutdown \/ WakeStats \/ StatsPanics
    BY <1>1, <2>1, <2>5 DEF CheckStatsShutdown, WakeStats, StatsPanics, ShownInv
  <2>. QED
    BY <1>5, <2>3, <2>4, <2>5 DEF Stats
<1>6. CASE JoinStats
  <2>1. /\ UNCHANGED <<drops, snapshot, published>>
        /\ finalDrops' \in {snapshot, NoDrops}
    BY <1>6 DEF JoinStats, MainStep, lockVars, statsVars
  <2>2. NoDrops \in DropCounts /\ NoLess(drops, NoDrops)
    BY <1>1 DEF NoDrops, DropCounts, NoLess
  <2>. QED
    BY <1>1, <2>1, <2>2 DEF ShownInv
<1>. QED
  BY <1>4, <1>5, <1>6, ShownStays

\* Whatever the interleaving of the tasks with the samples of the monitor, what
\* ncda shows as lost was lost.
THEOREM LossesShownAreReal == Spec => []ShownLossesAreReal
<1>1. Init => ShapeInv /\ ShownInv
  BY ShapeInvInit, ShownInvInit
<1>2. (ShapeInv /\ ShownInv) /\ [Next]_vars => (ShapeInv /\ ShownInv)'
  BY ShapeInvStep, ShownInvStep
<1>3. ShownInv => ShownLossesAreReal
  BY DEF ShownInv, ShownLossesAreReal, Total
<1>. QED
  BY <1>1, <1>2, <1>3, PTL DEF Spec

--------------------------------------------------------------------------------
\* Type correctness, and the account of all records.

PlainInv ==
  /\ attached \in BOOLEAN /\ final \in BOOLEAN /\ drained \in BOOLEAN
  /\ stats \in {"kernel", "parse", "queue", "discarded", "publish", "check", "wait"} \cup
                {"done", "failed", "panicked"}
  /\ containers \in {"check", "discover", "sleep", "done", "panicked"}
  /\ output \in {"running", "done", "panicked"}
  /\ poisoned \in BOOLEAN
  /\ main \in Steps
  /\ signals \subseteq {"output", "discard", "containers", "reader", "stats"}
  /\ Faults = {} => abandoned = 0 /\ poisoned = FALSE

LEMMA PlainInvStep == PlainInv /\ [Next]_vars => PlainInv'
<1>. SUFFICES ASSUME PlainInv, [Next]_vars PROVE PlainInv'
  OBVIOUS
<1>1. CASE \E valid \in BOOLEAN : Emit(valid)
  BY <1>1 DEF Emit, PlainInv, readerVars, aggregatorVars, statsVars, lockVars, mainVars
<1>2. CASE Reader \/ ReaderFails
  <2>1. UNCHANGED <<attached, stats, containers, output, poisoned, main, signals, abandoned>>
    BY <1>2 DEF Reader, ReaderReady, ReaderFinalDrain, DrainAndSend, ReaderSend, ReaderSendFails,
                ReaderFails, kernelVars, aggregatorVars, statsVars, lockVars, mainVars
  <2>2. final' \in BOOLEAN /\ drained' \in BOOLEAN
    <3>1. CASE ReaderReady \/ ReaderFinalDrain
      <4>1. drained' = (Len(ring) < MaxBatchEvents) /\ final' \in {TRUE, FALSE}
        BY <3>1 DEF ReaderReady, ReaderFinalDrain, DrainAndSend, DrainRing
      <4>2. (Len(ring) < MaxBatchEvents) \in BOOLEAN
        OBVIOUS
      <4>. QED
        BY <4>1, <4>2, Zenon
    <3>2. CASE ReaderSend \/ ReaderSendFails \/ ReaderFails
      BY <3>2 DEF ReaderSend, ReaderSendFails, ReaderFails, PlainInv
    <3>. QED
      BY <1>2, <3>1, <3>2 DEF Reader
  <2>. QED
    BY <2>1, <2>2, Zenon DEF PlainInv
<1>3. CASE AggregatorReceive \/ AggregatorDiscard \/ AggregatorKeep \/ AggregatorIngest
           \/ AggregatorEnds
  BY <1>3 DEF AggregatorReceive, AggregatorDiscard, AggregatorKeep,
              AggregatorIngest, AggregatorEnds, PlainInv, kernelVars, readerVars, statsVars,
              lockVars, mainVars
<1>4. CASE AggregatorPanics
  <2>1. poisoned' = TRUE /\ (poisoned \/ Faults # {})
        /\ UNCHANGED <<kernelVars, readerVars, statsVars, containers, output, mainVars>>
    BY <1>4 DEF AggregatorPanics
  <2>2. Faults # {}
    BY <2>1, Zenon DEF PlainInv
  <2>. QED
    BY <2>1, <2>2, Zenon DEF PlainInv, kernelVars, readerVars, statsVars, mainVars
<1>5. CASE Stats \/ StatsFails
  <2>1. /\ UNCHANGED <<attached, final, drained, containers, output, poisoned, main, signals,
                       abandoned>>
        /\ stats' \in {"kernel", "parse", "queue", "discarded", "publish", "check", "wait"} \cup
                        {"done", "failed", "panicked"}
    BY <1>5 DEF Stats, SampleKernel, Sample, SampleReader, PublishDrops, StatsPanics,
                CheckStatsShutdown, WakeStats, StatsFails, StatsStep, kernelVars, readerVars,
                aggregatorVars, lockVars, mainVars
  <2>. QED
    BY <2>1, Zenon DEF PlainInv
<1>6. CASE Containers \/ Outputs
  <2>1. UNCHANGED <<attached, final, drained, stats, main, signals, abandoned>>
    BY <1>6 DEF Containers, ContainersStep, Outputs, OutputEnds, OutputPanics, OutputStep,
                kernelVars, readerVars, aggregatorVars, statsVars, mainVars
  <2>2. /\ containers' \in {"check", "discover", "sleep", "done", "panicked"}
        /\ output' \in {"running", "done", "panicked"}
    BY <1>6 DEF Containers, ContainersStep, Outputs, OutputEnds, OutputPanics, OutputStep, PlainInv
  <2>3. \/ poisoned' = poisoned
        \/ poisoned' = TRUE /\ (poisoned \/ Faults # {})
    BY <1>6 DEF Containers, ContainersStep, Outputs, OutputEnds, OutputPanics, OutputStep
  <2>4. Faults = {} => poisoned' = FALSE
    BY <2>3, Zenon DEF PlainInv
  <2>5. poisoned' \in BOOLEAN
    BY <2>3, Zenon DEF PlainInv
  <2>. QED
    BY <2>1, <2>2, <2>4, <2>5, Zenon DEF PlainInv
<1>7. CASE Main \/ Signal
  <2>1. UNCHANGED <<final, drained, stats, containers, output, poisoned, abandoned>>
    BY <1>7 DEF Main, Signal, Attach, MainSelect, MainAborts, StopOutput, DiscardPending, StopContainers,
                Detach, StopReader, StopStats, JoinReader, JoinAggregator, JoinContainers,
                JoinOutput, JoinStats, Join, Raise, MainStep, lockVars, readerVars, aggregatorVars,
                statsVars
  <2>2. attached' \in BOOLEAN /\ main' \in Steps
        /\ signals' \subseteq {"output", "discard", "containers", "reader", "stats"}
    BY <1>7 DEF Main, Signal, Attach, MainSelect, MainAborts, StopOutput, DiscardPending, StopContainers,
                Detach, StopReader, StopStats, JoinReader, JoinAggregator, JoinContainers,
                JoinOutput, JoinStats, Join, Raise, MainStep, lockVars, Steps, PlainInv
  <2>. QED
    BY <2>1, <2>2, Zenon DEF PlainInv
<1>8. CASE UNCHANGED vars
  BY <1>8 DEF vars, PlainInv
<1>. QED
  BY <1>1, <1>2, <1>3, <1>4, <1>5, <1>6, <1>7, <1>8 DEF Next, Step, Aggregator, Outputs

LEMMA PlainInvInit == Init => PlainInv
BY DEF Init, PlainInv, Steps

\* What is lost is at most what was emitted.
LEMMA CountersAreBounded ==
  ASSUME ShapeInv, FlowInv, NEW d \in DropCounts, NoLess(drops, d)
  PROVE  d \in Snapshots /\ Total(drops) <= MaxRecords
<1>1. MaxRecords \in Nat /\ emitted \in 0 .. MaxRecords /\ drops \in DropCounts /\ abandoned \in Nat
  BY PipelineAssumption DEF ShapeInv, PipelineAssumption
<1>2. Lost <= emitted
  <2>1. /\ Len(ingested) + Len(Pending) + Lost = emitted
        /\ Len(ingested) \in Nat /\ Len(Pending) \in Nat /\ Lost \in Nat
    BY LenProperties DEF FlowInv, Flow
  <2>. QED
    BY <1>1, <2>1
<1>3. /\ d.kernel \in Nat /\ d.parse \in Nat /\ d.queue \in Nat /\ d.discarded \in Nat
      /\ drops.kernel \in Nat /\ drops.parse \in Nat /\ drops.queue \in Nat
      /\ drops.discarded \in Nat
      /\ d = [kernel |-> d.kernel, parse |-> d.parse, queue |-> d.queue, discarded |-> d.discarded]
  BY <1>1 DEF DropCounts
<1>4. Lost = drops.kernel + drops.parse + drops.queue + drops.discarded + abandoned
  BY DEF Lost, Counted, Total
<1>5. /\ d.kernel \in 0 .. MaxRecords /\ d.parse \in 0 .. MaxRecords
      /\ d.queue \in 0 .. MaxRecords /\ d.discarded \in 0 .. MaxRecords
      /\ Total(drops) <= MaxRecords
  BY <1>1, <1>2, <1>3, <1>4 DEF NoLess, Total
<1>. QED
  BY <1>3, <1>5 DEF Snapshots

IInv == OrderInv /\ PlainInv /\ ShapeInv /\ FlowInv /\ ShownInv

LEMMA IInvInductive ==
  /\ Init => IInv
  /\ IInv /\ [Next]_vars => IInv'
<1>1. Init => IInv
  BY OrderInvInit, PlainInvInit, ShapeInvInit, FlowInvInit, ShownInvInit DEF IInv
<1>2. IInv /\ [Next]_vars => IInv'
  BY OrderInvStep, PlainInvStep, ShapeInvStep, NextSimulates, ShownInvStep DEF IInv
<1>. QED
  BY <1>1, <1>2

\* Every variable stays within its bounds: the channel within its capacity, and no
\* counter beyond the number of the records.
THEOREM PipelineTypeCorrect == Spec => []TypeOK
<1>1. IInv => TypeOK
  <2>. SUFFICES ASSUME IInv PROVE TypeOK
    OBVIOUS
  <2>1. drops \in DropCounts /\ NoLess(drops, drops)
    BY NoLessOrder DEF IInv, ShapeInv
  <2>2. drops \in Snapshots /\ snapshot \in Snapshots /\ finalDrops \in Snapshots
    BY <2>1, CountersAreBounded DEF IInv, ShownInv
  <2>3. published \in 0 .. MaxRecords
    <3>1. MaxRecords \in Nat /\ published \in Nat /\ published <= Total(drops)
      BY PipelineAssumption DEF PipelineAssumption, IInv, ShownInv
    <3>2. Total(drops) <= MaxRecords /\ Total(drops) \in Nat
      BY <2>1, CountersAreBounded, NoLessOrder DEF IInv
    <3>. QED
      BY <3>1, <3>2
  <2>4. abandoned \in 0 .. MaxRecords
    <3>1. /\ Len(ingested) + Len(Pending) + Lost = emitted
          /\ Len(ingested) \in Nat /\ Len(Pending) \in Nat /\ Lost \in Nat
      BY LenProperties DEF IInv, FlowInv, Flow
    <3>2. Counted(drops) \in Nat /\ abandoned \in Nat /\ emitted \in 0 .. MaxRecords /\ MaxRecords \in Nat
      BY PiecesAre, PipelineAssumption DEF IInv, ShapeInv, PipelineAssumption
    <3>. QED
      BY <3>1, <3>2 DEF Lost
  <2>. QED
    BY <2>2, <2>3, <2>4 DEF TypeOK, IInv, PlainInv, ShapeInv, RingRecords
<1>. QED
  BY <1>1, IInvInductive, PTL DEF Spec

\* When ncda has ended without a failure, every record that the kernel emitted was
\* ingested or is counted as lost, and those that were ingested came in order.
THEOREM EveryRecordIsAccountedFor ==
  Spec => [](/\ main = "done" /\ Faults = {} => Len(ingested) + Counted(drops) = emitted
             /\ Ascending(ingested))
<1> DEFINE Accounted ==
             /\ main = "done" /\ Faults = {} => Len(ingested) + Counted(drops) = emitted
             /\ Ascending(ingested)
<1>1. IInv /\ NothingLeftBehind => Accounted
  <2>. SUFFICES ASSUME IInv, NothingLeftBehind PROVE Accounted
    OBVIOUS
  <2>1. Ascending(ingested)
    <3>1. Pending \in Seq(Nat) /\ ingested \in Seq(Nat) /\ Ascending(Concat(ingested, Pending))
      BY DEF IInv, FlowInv, Flow
    <3> DEFINE p == Pending
    <3>2. p \in Seq(Nat) /\ ingested \in Seq(Nat) /\ Ascending(ingested \o p)
      BY <3>1, Zenon DEF Concat
    <3>. HIDE DEF p
    <3>. QED
      BY <3>2, AscendingConcat
  <2>2. ASSUME main = "done", Faults = {} PROVE Len(ingested) + Counted(drops) = emitted
    <3>1. ring = <<>> /\ batch = <<>> /\ channel = <<>> /\ hand = <<>>
      BY <2>2 DEF NothingLeftBehind
    <3>2. Len(Pending) = 0
      <4>1. <<>> \in Seq(RingRecords) /\ <<>> \in Seq(Nat) /\ Len(<<>>) = 0
        BY EmptySeq
      <4>2. RecordIds(<<>>) = <<>>
        BY <4>1, RecordIdsAre, EmptySeq
      <4>3. Concat(<<>>, <<>>) = <<>>
        BY <4>1, ConcatEmpty
      <4>4. Pending = Concat(Concat(Concat(<<>>, <<>>), <<>>), <<>>)
        BY <3>1, <4>2, FlattenEmpty, Zenon DEF Pending
      <4>. QED
        BY <4>1, <4>3, <4>4
    <3>3. abandoned = 0 /\ Counted(drops) \in Nat
      BY <2>2, PiecesAre DEF IInv, PlainInv
    <3>4. /\ Len(ingested) + Len(Pending) + Lost = emitted /\ Len(ingested) \in Nat
      BY LenProperties DEF IInv, FlowInv, Flow
    <3>. QED
      BY <3>2, <3>3, <3>4 DEF Lost
  <2>. QED
    BY <2>1, <2>2
<1>2. Spec => []IInv
  BY IInvInductive, PTL DEF Spec
<1>. HIDE DEF Accounted
<1>3. Spec => []Accounted
  BY <1>1, <1>2, ShutdownDrains, PTL
<1>. QED
  BY <1>3 DEF Accounted
=============================================================================
