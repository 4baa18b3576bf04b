# A TLA+ model of ncda

ncda shows which files the processes of a Linux system read and write, live.
eBPF programs turn system calls into events in a ring buffer; a userspace
pipeline moves the events into an accounting state; a terminal interface, or a
periodic summary on stdout, shows that state.  This directory holds TLA+ modules
of that program, TLC configurations that check them on small instances, and
proofs that TLAPS checks for all instances.  `PROJECT.json` maps every
definition to the lines of the source that it models and lists the runs, the
theorems, the hazards and the findings.

All paths are relative to the repository.

## The system

| Component | Source | State | Operations |
|---|---|---|---|
| Capture programs | `ncda-ebpf/src/main.rs`, attached by `ncda/src/bpf.rs` | five stashes keyed by thread, per-CPU loss counters, the ring | `sys_enter`, `sys_exit`, exec and exit hooks, attach, detach |
| Ring reader | `ncda/src/bpf.rs` | the batch under way, `ReaderDropCounters` | drain up to 4096 records, send, final drain |
| Aggregator and shutdown | `ncda/src/main.rs` | channel of 512 batches, shutdown flags, joins | ingest or discard a batch; the ordered shutdown; drop monitor |
| Ingestion | `ncda/src/tui/app.rs` | `AppState`: sinks, counters, loss baseline | `ingest`, `update_drop_total`, `reset` |
| Descriptor attribution | `ncda/src/bpf.rs` (`FdPathCache`) | (process, descriptor) to path | resolve an open, resolve on a miss, close, dup, range, process reset, invalidate all |
| File tree | `ncda/src/model.rs` | nodes with direct, aggregate and per-process statistics; reverse index | `record_stats`, `remove_process`, `reset` |
| Rolling rates | `ncda/src/rate.rs` | time buckets and four indexes of them | record, query, reset |
| Process table | `ncda/src/process.rs` | a row per process | record, remove, sort |
| Container discovery | `ncda/src/container.rs`, monitor in `main.rs` | names by container, cache by process | replace after a discovery, resolve, invalidate |
| TUI | `ncda/src/tui/` | `ViewState`: mode, cursor, selection, filter editor | keys, reconcile, draw |

How they interact: the kernel and the reader share the ring; reader and
aggregator share the bounded channel; aggregator, drop monitor, discovery and
output share `AppState` behind one mutex; main tells the tasks to stop through
flags and watch channels and joins them one after the other.  Events tell of the
past, while `/proc`, which attribution asks, tells of the present.

What is hard: system calls of many threads interleave with the attaching and the
detaching of the programs; calls are lost when a stash or the ring is full;
descriptors are reused before userspace hears of it; reads and writes are
combined and recorded later than they arrive, while lifecycle events change what
their descriptors mean; counters saturate; an index has to follow a tree that is
changed in three ways; a shutdown has to drain three buffers in the right order
while every task may be blocked on another; tasks may fail.  `PROJECT.json` lists
these places as hazards, each with the properties that watch over it.

## The modules

`NodeStats` saturating statistics, shared.

`FileTree` the tree of `model.rs`.  A path is an opaque string; `Components`
gives its spelling as components, so that two spellings may reach one node.
`stats`, `aggStats`, `isDir` and `perProcess` are the fields of `TreeNode`;
`activePaths` and `pathsByProcess` those of `FileTree`.  `RecordStats`,
`RemoveProcess` and `Reset` are the operations, whole.  What makes it correct:
aggregates are the saturated sums of what is below them, the reverse index names
exactly the breakdowns that exist, references are counted.
`ActivityLedger` is its abstract specification: totals and per-process shares,
and no index; `FileTree` implements it (`LedgerSpec`).  `FileTreeProofs` proves
its safety.

`AppState` functions from one accounting state to the next: what one event, or
one group of operations, does to the descriptor cache and to the four sinks.
The tree is there in the abstract form that `ActivityLedger` justifies.
`Ingest` is `AppState::ingest` step by step: the vector of groups with its slots,
the map of positions, the groups that each lifecycle event flushes, in any order
that the hash map may yield, and the flush at the end of a batch.
`PerEventIngest` is what ingestion promises: one event at a time.  `Ingest`
implements it when pending groups are counted as recorded (`PerEventSpec`), whatever
`/proc` does, but for the very step in which it changes a descriptor that has
operations pending and is not cached (`Unsettles`).
`IngestProofs` proves that the two `expect`s cannot fail, that promise, and that the
process table, the tree and the rate tracker never disagree.

`Pipeline` the tasks: kernel, reader, aggregator, drop monitor, discovery,
output and main, each with a program counter for the points at which another
task may come between.  A critical section of the state lock is one step, since
no task waits for anything while it holds that lock.  A panic inside of one
(`AggregatorPanics`, `OutputPanics`) poisons the lock, and each task that takes it
later panics in its turn: the aggregator at its next batch, the monitor when it
publishes, discovery when it replaces names, and the output within a tick, whereupon
main returns past the ordered shutdown (`MainAborts`, `main.rs:165-168`) or, if that
has begun, finds the output ended at its join.  The monitor samples the four counters
one after the other.  `Delivery` is its abstract
specification: a queue that takes or refuses what arrives, delivers in order and
counts what it loses.  Both filter sequences with `Selected` of `Selections`, a
`SelectSeq` that proofs can unfold.  `PipelineProofs` proves the shutdown's safety,
that `Pipeline` implements `Delivery`, and that shown losses are real.

`Capture` the eBPF programs, with a kernel that is external: threads, descriptor
tables, calls with three steps (entry, action, exit), deaths, execs.
`Attribution` extends it with the descriptor cache and the drop monitor's
invalidation, so that what userspace says of an operation can be compared with
the file it acted on.  `Ingest` justifies taking events one by one there.
`AttributionProofs` proves the safety of `Capture` and what the cache knows.

`PathNames` a file name from the system call to a path, as pure operators: what
the open programs keep of it in a record, whatever the scratch buffer held
(`OpenArgs`, `OpenRecord`), which records the parser takes (`Accepted`), and
normalising, classifying and stripping of names.  A name is the sequence of its
components; buffers are measured in components.
`Naming` under which path and which container an open is shown.  Processes start,
join a container as a runtime makes them, exec, change directory, open, close
and end; discoveries list containers or fail; the aggregator handles events as late
as it likes, and asks `/proc`, the cgroup and the last discovery at that time.
`names` and `pidCache` are the fields of `ContainerResolver`, `rootCache` and
`paths` those of `FdPathCache`, `rows` the containers of `ProcessTable`.  `images`
counts the replacements of a process and `heard` the one that the last handled exec
or exit told of: history variables, with which the properties say whether userspace
can know better.  `shown` is the last open with what it really was.
`NamingProofs` proves its safety: the records of opens, what is known of a process,
and the paths that are shown.

`RateBuckets`, `RateTracker`, `EventLog` the rolling windows of `rate.rs`.
`RateTracker` is both a component and the abstract specification of `EventLog`:
the log's total for the root behaves as a tracker does (`TrackerSpec`).
`EventLogProofs` proves that, and all that is checked of the log.

`Browser` the render loop, the keys, the rows and the selections of the terminal
interface. `view` is `ViewState`, `selected` is `selected_file_path`; `ui` says at
which of the loop's locks it is: `draw`, `poll`, `update`, `processes`. Between any
two of them `Record` and `RemoveProcess` stand for the aggregator. Each key is one
`PressKey` (or `DrillIn`, which has its own lock), followed by the update of the
file selection (`ResetCounters`, `SelectAtCursor` or `KeepSelection`) and by
`UpdateProcesses`. `store` is the part of `AppState` that the lists are made from:
what was recorded of each node itself, and of each process there. `Nodes` are the paths
that may be recorded, with those above them; any of them may have activity of its own,
and is a directory as long as something is recorded below it, so that directories are
opened and files become directories (`IsDir`). The
operators that list rows take a store and a view, since a step may list the rows of
the state before it and of the view that it makes. A process has a row as long as a node has a
breakdown for it, which `SinksAgree` of `Ingest` says of the code. One measure
stands for the five that a list can be sorted by, a page has one height, and the
filter editor holds one of a few texts, parsed: no term, one `pid:N`, or one that
does not parse. `kept` is a history variable, the file that the user went to,
forgotten once it is not listed or the view is switched.
`BrowserProofs` proves all of what a passing run checks of it.

`Lemmas` facts about queues, numbers, filters of sequences and sums for the proofs.

`MC*` modules give constants their values; each run is a `.cfg` of one of them.

## What the runs check

| Run | Bounds | What it shows |
|---|---|---|
| FileTree | two processes, two names of one file and a path below it, counters up to 2 | tree, index and aggregates agree; the ledger is implemented; saturation happens |
| Ingest | two processes, three descriptors' worth of events, up to three events in batches of every size, one reported loss, resets | grouping changes no account, sinks agree, no `expect` fails |
| Pipeline | three records, of which the second may not parse (`Malformed`), ring 2, batch 2, channel 2 | order, accounting of losses, ordered shutdown, all buffers drained, every record's turn comes |
| PipelineFaults | three records, ring 1, batch 1, channel 1, tasks that fail or panic with the lock | order and accounting survive failures; the end of a worker, reported or by a panic, ends the program, on an idle system too; a shutdown ends |
| Capture | two threads, stash 1, ring 1, four calls, starts or ends | stash entries have owners, events tell of their own call, losses are counted |
| Attribution | one process and thread, two descriptors, two files and a pipe, five calls, a ring of three that may overflow | a descriptor whose open was seen is never given another file's path, as long as nothing was lost; the cache is current once events are taken, also after a loss that was noticed |
| Naming | one process number, a container with a root of its own and one known by its sandbox, a ring of three; either five calls and one failed discovery, or four calls of a process that looks for files | every record of an open is accepted; paths are true or unresolved; names are of the process that has the number, and arrive in the end |
| EventLog | a directory and a file in it, two processes, window 6 in at most 3 buckets of 3, time to 10, four bytes between resets | the window is exact to a bucket, indexes follow, the root's rate is the global rate |
| Browser | a path with another below it, which may be a directory, a file or one after the other, and a path beside them, two processes, two operations between resets, four keys of all kinds | the selection follows its file, the highlight the selection, Enter in the pane the selected process; a filter hides no match |
| FinalSample, StalePaths, PaneHighlight | small | the three findings below |

Why these bounds are enough for what they are to show.  The races of `Pipeline`
need a buffer of each kind to be full and one more record on its way: three
records over a ring, a batch and a channel of one each (`PipelineFaults`) do that,
and the order of batches in the channel needs capacity 2 (`Pipeline`).  A group of `Ingest` is wrong only if a
lifecycle event comes between two operations of one key: three events.  A stash
of one entry is full when the second thread enters.  Descriptor reuse takes
open, close, open and an operation between inherited and new descriptors: five
calls.  A name outlives its process after an open, its end, a start elsewhere and an
exec: four calls; a relative name goes astray after an open, a change of directory,
a close and another open, four again (`Programs` of `MCNaming` holds both, the
second with names longer than their buffer of four, unreadable, through `..`, below
a descriptor, excluded, and with pipes, memory files and namespaces, whose links are
no paths).  Trimming in `EventLog` would need one bucket more than the limit within a
window, four records of different buckets, and never happens.  In `Browser` two rows change places after
two operations, and four keys suffice to go into a pane or the editor, move, act,
and come back to the files.  Each property of a passing run has
been seen to fail on a mutant of the code (`mutants` in `PROJECT.json`), so the
bounds reach the case it is about.

`CHECK_DEADLOCK FALSE` stands in the configurations because the bounds end every
behaviour and because ncda itself ends; that nobody waits in a circle is
`ShutdownCompletes` instead.

### Fairness

`FairSpec` of `Pipeline` has weak fairness for the reader, the aggregator, the
monitor, discovery, the output's reaction to its flag, and main.  All are tasks
of a multi-threaded tokio runtime or of its blocking pool, all wait only for
conditions of the model, for a timer, or for an external command with a time
limit, and the output polls its flag and takes the state lock at least every 250 ms
(TUI) or every second (stdout), which is `OutputTick`.  Nothing is assumed of the
kernel, of signals, of the user, or of a first panic.

`FairSpec` of `Naming` has weak fairness for a discovery and for its replacement:
`monitor_container_discovery` is a task of its own that starts again every 30
seconds, and the commands it runs are killed after two.  How often a discovery goes
wrong is bounded, so that in the end it does not; nothing is assumed of the
processes, nor that the aggregator handles an event.

## What is proved

For every value of the constants that satisfies the named assumptions:

- `FileTreeProofs`: types (`TypeCorrect`), agreement of the reverse index with the
  breakdowns (`IndexAgrees`), reference counts (`ReferencesAreCounted`), directory
  flags (`TreeStaysClosed`), the aggregates of directories (`AggregatesAreTrue`, of
  `AggregatesMatchSubtree`), and that the tree implements the ledger
  (`ImplementsLedger`). The index invariant is inductive only together with the types
  and with uniqueness, that no process indexes two spellings of one node: without it,
  removing one of the two would leave the other pointing to nothing. Reference counts
  need the index's finiteness too. The refinement needs the index invariant: that the
  end of a process drops all its shares holds because the index misses none. `AggInv`
  is the property for every name, nodes that do not exist included (they hold nothing),
  so that a step may create a node and raise it at once; the sums of the property,
  folds over sets of leaves, are first given a closed form, and saturated additions are
  shown to make a saturated sum.
- `IngestProofs`: `IndexedGroupsStayActive`, `IngestionIsPerEvent` (`PerEventSpec`),
  `CombiningCountsEveryEvent` (`EventsCountForThemselves`) and `SinksStayInStep`
  (`SinksAgree`). The first is an induction over the actions with the types of `groups`
  and `positions`; a new group gets the next index, which is nobody's, and a flush
  takes exactly the slots whose keys it removes. The second is the reason why batches
  may be combined at all. `PromiseInv` adds the types of the accounts; the mapping says
  that what is pending counts as recorded, in the order of the vector, and what the
  proof needs is an algebra of recordings: two groups may be recorded in either order
  (`RecordSwap`), two of one key are one with the sums (`RecordMerge`), and an open,
  close, dup, range close, exec or exit commutes with the recording of each group that
  is not of its descriptors or process (`Spares`, `LifecycleCarried`). The second
  lookup of a descriptor must find what the first found, resolved or not, so the cache
  is a part of it: `Recorded` says what a recording makes of each part of an account,
  given what the descriptor resolves to. From there, by induction over the vector: the
  groups that a lifecycle event flushes may be recorded ahead of the rest whatever the
  order of the map's keys (`RecordingTakes`), the event itself ahead of those that it
  leaves pending (`RecordingLifecycle`), and a read or write that joins its group in
  the middle of the vector is one that is recorded last (`IoCountsForItself`). What
  `/proc` says of a cached descriptor does not matter (`RecordUnderView`); a change for
  a pending one that is not cached is the exception that `PerEventSpec` names
  (`Unsettles`), and `SettledIngestionIsPerEvent` says that without such changes there
  is no exception. The other theorems hold through such changes too. `SinkInv` is
  `SinksAgree` with `PromiseInv`; a sum of saturating counters, saturated, is a
  saturating counter of the sums (`SaturatedSum`), so that the three sinks agree even
  where some of them have saturated and others not.
- `PipelineProofs`: `ShutdownIsOrdered` and `ShutdownDrains`. The first rests on an
  invariant that ties each flag and each task's end to main's position in the shutdown.
  The second adds that nothing is emitted after the detach, that a reader which is done
  found the ring empty in a drain that began after it, and that an aggregator which is
  done found an empty channel whose sender had gone. `PipelineKeepsPromise` is the
  refinement of `Delivery`: what the abstract queue holds is the aggregator's batch,
  the channel's batches, the reader's batch and the ring, one after the other.
  `FlowInv` says that these are in the order of emission, after all that was ingested,
  and accounts for their number; `ShapeInv` says which of them is empty at which point
  of which task. Each action then moves records from one part to the next (a stutter),
  takes from an end, or loses some, which the abstract queue does too (`LossOfPart`: to
  filter a part in the middle of an ascending sequence is to filter the whole).
  `EveryRecordIsAccountedFor` combines it with `ShutdownDrains`. `LossesShownAreReal`
  needs that each counter only grows, so that samples taken one after the other never
  exceed the counters of now.
- `AttributionProofs`, of `Capture`: `Owners` (`StashesHaveOwners`), `ExitsAreOfEntries`
  (`ExitsFollowEntries`), `EventsAreOfTheirCall`, `LossesAreCounted` and `TypeCorrect`.
  The heart is the order of the hooks (`OwnersInv`): stashes are empty until
  `sys_enter` is attached, last of all, and as long as the ends of threads are watched
  each entry is of a thread in the call that it remembers. That exits follow entries is
  a count: entries are exits and the threads in a counted call, summed over a finite
  set of threads, and each step changes it for one thread.
- `AttributionProofs`, of `Attribution`: `AttributionTypeCorrect`, `CapturedOpensFollowed`
  (`CapturedOpensAreFollowed`) and `CacheStaysCurrent` (`CacheIsCurrent`). The property
  relates the kernel's table of now to a cache that is any number of events behind, so
  its invariant is about what lies in between: `FollowedInv` says that a history exists
  of which file is known to be behind each descriptor, before and after each event of
  the ring: it begins with what the cache says, each event changes it as its call
  changed the kernel's table, and it ends with that table, or with the one before a
  call that has acted and not been reported yet (`Told`). A step of the kernel prolongs
  the history at its end (`SystemMoves`: a call is silent, speaks with one event, or is
  struck with a loss), a step of userspace shortens it at its beginning
  (`IngestSteps`). `CurrentInv` does the same after losses: the cache was cleared when
  the last one was noticed, and what it has learnt since is of the events since
  (`Gone`, `Current`, `Clean`).
- `EventLogProofs`: `WindowIsExact` (`WindowIsExactToABucket`), `IndexesAreTrue`
  (`IndexesMatchBuckets`), `RootRateIsATrackers` (`TrackerSpec`) and
  `EventLogTypeCorrect`. `BucketsInv` has two parts. Buckets begin at least
  `BucketWidth` apart (`Spaced`), and `MaxTimeBuckets - 1` widths are no shorter than
  the window, so that the buckets which reach into it never exceed the limit
  (`NeverTooMany`): `trim_rate_buckets` and `trim_event_buckets` never drop anything,
  as long as times only grow. And the four indexes are one function, `IndexOf`, of the
  bytes that the buckets hold of each path and process: an operation (`IndexAdds`), the
  removal of one activity (`IndexSubtracts`), of a bucket (`BucketLeaves`) and of all
  that expired (`BucketsLeave`) each take `IndexOf` of the bytes before to `IndexOf` of
  the bytes after. `KeptInv` adds what was recorded: a bucket holds what was recorded
  in its span, and what lies outside of all spans is older than the window; the total
  of a prefix, a sum by key, is then the sum by time of `RecordedSince` (`SumOfTable`).
  The refinement needs both parts: the bytes of the expired buckets are what the root's
  total loses, and neither side trims.
- `NamingProofs`: `NamesAreLearntAnew` (`NamesAreOfThisProcess`),
  `EveryOpenIsAccepted` (`OpensAreAccepted`) and `PathsAreTrue` (`ShownPathsAreTrue`).
  The first is not inductive: an open of an
  earlier process that is still queued would be recorded for its successor. `NamesInv`
  adds that the events of a process are queued in the order of its images, none older
  than the one that was heard of and none younger than the present one, and that an
  open or close of a process that has ended is of an earlier image. So an event that is
  handled while userspace is up to date is of a process that is alive, and what is
  looked up then is true. The second rests on a lemma about `OpenArgs` and `OpenRecord`
  for names of any length (`RecordIsAccepted`). The third compares two folds over the
  components of a name, the walk of the kernel and the normalisation by `FdPathCache`:
  each is first given the values that it goes through (`WalkSteps`, `NormalizeSteps`),
  and then, by induction over the components, a walk that arrives somewhere began at a
  place (`WalkBegins`) and arrives where the name normalises to (`WalkNormalizes`).
  `PathsInv` says of each process that its working directory and its links are below
  its root (`PlacesOK`), and of each queued open that its file is what the name in the
  record spells (`SubjectsOK`, from `RecordedName`: a record without flags holds the
  name whole). When the open is handled, the root that userspace knows is the right one
  by `NamesInv`, and what it strips is what the kernel put in front (`StrippedRoot`).
- `BrowserProofs`: `TypeCorrect` (`TypeOK`), `SelectionFollows`
  (`SelectionFollowsFile`), `HighlightIsSelection` (`FileHighlightIsSelection`),
  `EnterFilters` (`EnterFiltersSelectedProcess`) and `FilterHidesNothing`
  (`FilterHidesNoMatch`). What the rows are comes first. A list that is sorted has each child
  exactly once (`SortedLists`, `RowOrders`: the orders are total because names and
  process numbers break ties), and the lines of the tree view, a recursive function over
  the depth, have each node once (`LinesExist`, `BlockListing`, `FlattenListing`,
  `TreeLinesListing`), so that a row has one index, which is what a cursor is. Then
  what each key and each reconciliation makes of a view, and with that the types, for
  which a view is one record of sixteen fields. `SelectionFollowsFile` speaks of the
  frames only; `Followed` says in every state of the loop that the file that the user
  went to, as long as there is one, is the one selected, and is listed. `FilterHidesNoMatch`
  holds of any recordings in any order: the sum of a row contains the breakdowns of each
  node below it, its own included (`Below`), and is positive as soon as one of them is.
- `Lemmas` has what these share. The library's induction theorems cannot be
  instantiated here, since they take an operator as a parameter; that every set of
  numbers has a least member can be proved from well-foundedness for sets
  (`LeastNumber`), which gives induction for sets of numbers and of sequences
  (`AllNumbers`, `AllSequences`), and with it the existence of recursive functions
  (`IterationExists`) and of folds (`FoldsDownExists`), and what `Selected` and
  `FlattenSeq` do with `Append` and `\o`. In the same way `AllSubsets` gives induction
  over the subsets of a finite set, and with it sums over finite sets: that
  `SumFunctionOnSet`, a fold that chooses its elements, has a value, which does not
  depend on the choices (`SumExists`, `SumRemove`), and how it goes over unions,
  additions, renamings and tables.

Assumptions: `CounterMaxAssumption`, `FileTreeAssumption`, `AppStateAssumption`,
`IngestAssumption`, `IoEventAssumption`, `LifecycleEventAssumption`,
`PipelineAssumption`, `CaptureAssumption`, `AttributionAssumption`,
`PathNamesAssumption`, `NamingAssumption`, `RateBucketsAssumption`,
`EventLogAssumption`, `BrowserAssumption`, `KeysAssumption`. That of `EventLog` says that
there are finitely many paths and processes, without which there is no sum over them;
that of `Naming`, that directories, files and roots are spelled as the kernel spells
them, without empty components or dots, and that links such as `pipe:[1]` or `net:[1]` lead to
no file. TLC evaluates them in the runs.

Two theorems have a hypothesis besides: `CapturedOpensFollowed` and `CacheStaysCurrent`
are about processes of one thread (`OneThreadEach`), of which there may be any number.
It is needed. A call acts in the kernel before its exit emits the event, and between
the two another thread of the process may act on the same descriptor and emit first;
TLC refutes both properties for two threads of one process and six calls.

Only model-checked: liveness under fairness (`ShutdownCompletes`, `RecordsSettle`,
`WorkerExitEndsProgram`, `NamesArrive`), which is out of this prover's reach
altogether. Every invariant and every action property of a passing run, and each of the
refinements, is a theorem.

## What the checks found

- `FinalSample`: `main.rs` says that the last sample of the loss counters is
  taken after reader and aggregator have stopped.  The monitor looks at the
  shutdown flag after it has sampled, so that a sample from before may be the one
  it returns; the report at exit then misses what was counted after it.
- `StalePaths`: `docs/capture-model.md` says that a loss clears the cache before
  later events are processed.  The cache is cleared when the monitor next
  samples, up to 250 ms later; events from after the loss may be ingested, with
  stale paths, before that.
- `PaneHighlight`: the help says that Enter filters the selected process, and the
  pane highlights the row at `process_cursor` as the selected one.  The list is
  sorted anew for each frame, and the cursor is moved to `selected_process` only
  around a key: after two processes change places, the highlighted process is not
  the one that Enter filters.  For files the loop reconciles before each frame
  (`FileHighlightIsSelection`).

The attempt to prove `CacheIsCurrent` found a mistake in the property rather than in
the code: it had excepted copies of descriptors that were open before the capture,
and not those of descriptors whose open was lost or was taken for a pipe's, which
are looked up in `/proc` late too.  The five calls of the run do not reach that; six
do.  The property now says so.

Each `violation` run checks the one property that states the promise, so that its
counterexample can be read beside the code.

## Assumptions of the model, and what it leaves out

- A file has one name in `Capture` and `Attribution`, which are about descriptors,
  and processes have one thread in `Naming`, which is about names: there reads,
  writes and copies of descriptors are left out.
- `Naming` has no symbolic links.  With one, an absolute name with `..` behind a link
  is normalised to another file than the kernel opens (`bpf.rs:586-594`), since only
  relative names are compared with `/proc`.  The suffix of deleted files is left out,
  and so is the escaping of bytes for display, which is injective.  `/proc` is asked
  once per event; the code reads up to three links, one after the other.
- What `Naming` has and no property forbids: an event of a process that has ended is
  shown as one of the host, since its cgroup is gone; a row keeps the container it was
  first given (`process.rs:99-101`), so that after the discovery the pane shows a
  shortened identifier where the paths show a name; after a change of directory, a
  close and another open, a relative name may be taken for the later file.
- `/proc` may change at any time in `Ingest`.  When it changes a descriptor with
  pending operations that is not cached, combining does change attribution: the
  descriptor is looked up when its group is recorded, and may have been reused by
  then.  Nothing in the code prevents that; it is the one step that `PerEventSpec`
  excepts (`Unsettles`).  `Attribution` has that behaviour too, and promises nothing of
  descriptors whose open was not captured.
- `StashesHaveOwners` and `EventsTellOfTheirCall` speak while `process_exit` is
  attached.  It is detached before `sys_exit`: a thread that dies between the two
  leaves its entry behind, in maps that are dropped next.
- Two things in `Ingest` are one in the model: `rated` stands for the global rate and
  for the event log, which `record_io_group` feeds one after the other (`app.rs:303-305`).
- The process of the `Attribution` runs has one thread, as the theorems suppose.  With
  two, events may reach the ring in another order than the kernel acted, and
  attribution is wrong; see the hazards.  With a pipe among the files, a captured open may be taken for a pipe's when its descriptor
  has become one before the event is processed, and then says nothing of what follows
  (`mistaken`); an open that is lost leaves copies of its descriptor to be looked up
  in `/proc` late, as those of an inherited one are.  `CapturedOpensAreFollowed` is
  about operations before the first of either (`informed`).
- The last thread's `taskstats_exit` kprobe and the exit tracepoint of older
  kernels are one step, `Die`.  Exec is modelled for processes of one thread, in
  which the leader is the thread that runs it.
- Calls of a foreign ABI are left out of `Capture`; scratch buffers and the copying
  of file names are in `PathNames`.  The three kernel loss counters are one in `Pipeline`.
- `EventLog`: times of uses grow, since each batch takes its time under the state
  lock and queries take theirs under it too.  Sums stay below 2^64.  A window of
  zero, with which rates are off, is left out.
- A key of `Browser` acts on the rows of the moment at which it is handled, which may
  have been re-sorted since the frame that the user saw.  That is what the code does;
  no property forbids it, and none promises that the user hits the row they saw.
- After main has returned because the output panicked, the runtime drops the other
  tasks where they are; `Pipeline` stops there (`aborted`), and what a task still does
  while the runtime comes down is not observed.  Panics are modelled where a task has the state
  lock, in the aggregator and in the output, and wherever a lock is found poisoned; one
  of the reader or of the blocking part of discovery, which have no lock, is not.
- Not modelled: drawing, layout, the filter language beyond one process, the parsing
  of JSON, docker's lines and cgroup paths, byte layouts of events, the benchmark
  binary, the build.

## Plan

Done, in this order: `NodeStats`, `FileTree`, `ActivityLedger` with proofs;
`AppState`, `Ingest`, `PerEventIngest` with proofs; `Pipeline`, `Delivery` with
proofs of all safety and of the refinement; `Capture` with proofs; `Attribution` with
proofs; `RateBuckets`, `RateTracker`, `EventLog` with proofs; `PathNames` and `Naming`
with proofs; `Browser` with proofs.

Next:

1. Symbolic links in `Naming`, with the paths that normalisation gives them.
2. `Attribution` for processes of several threads: what the cache still promises when
   events of one descriptor may reach the ring in another order than the calls acted.
