------------------------------- MODULE Capture -------------------------------
(***************************************************************************)
(* The eBPF programs of ncda-ebpf/src/main.rs, the order in which          *)
(* ncda/src/bpf.rs attaches and detaches them, and the kernel they watch.  *)
(*                                                                         *)
(* A system call has three steps that other threads may come between: the  *)
(* sys_enter program remembers the arguments in a stash, the kernel acts   *)
(* on the descriptor table, and the sys_exit program takes the arguments   *)
(* from the stash and emits an event with the result.  The descriptor      *)
(* tables, and the file an operation really acted on, are external: they   *)
(* are what the events are about.                                          *)
(*                                                                         *)
(* Every file has one name.  The per-CPU scratch buffers, which cannot be  *)
(* missing, and calls of another ABI, which the programs leave alone, are  *)
(* not modelled.                                                           *)
(***************************************************************************)
EXTENDS Integers, Sequences, FiniteSets, Functions

CONSTANTS
  Threads,
  ProcessOf,        \* ProcessOf[t]: the process of thread t (its tgid)
  MaxFd,            \* descriptors are 0 .. MaxFd
  Files,
  None,             \* what a closed descriptor refers to
  Inherited,        \* Inherited[fd]: what a new process has open
  Calls,            \* the system calls that threads may make
  StashCapacity,    \* entries of each stash
  RingCapacity,     \* events that fit into EVENTS
  MaxCalls          \* bound on the calls, starts and ends of threads

Fds == 0 .. MaxFd

\* What a system call may be given.
IsCall(call) ==
  \/ call.op \in {"open", "untraced"} /\ call.file \in Files
  \/ call.op \in {"read", "write", "close", "dup"} /\ call.fd \in Fds
  \/ call.op = "dup2" /\ call.fd \in Fds /\ call.to \in Fds
  \/ call.op \in {"fcntl", "close_range"}

ASSUME CaptureAssumption ==
  /\ IsFiniteSet(Threads)
  /\ MaxFd \in Nat
  /\ None \notin Files
  /\ Inherited \in [Fds -> Files \cup {None}]
  /\ \A call \in Calls : IsCall(call)
  /\ {StashCapacity, RingCapacity, MaxCalls} \subseteq Nat

VARIABLES
  hooks,            \* how many of the programs are attached
  detaching,        \* the shutdown has begun to detach them
  threads,          \* what each thread is doing
  tables,           \* tables[process][fd]: the kernel's descriptor tables
  stashes,          \* stashes[kind]: thread -> remembered arguments
  ring,             \* EVENTS
  stats,            \* CAPTURE_STATS
  calls             \* calls, starts and ends so far

vars == <<hooks, detaching, threads, tables, stashes, ring, stats, calls>>

Pids == {ProcessOf[t] : t \in Threads}

--------------------------------------------------------------------------------
\* Attaching and detaching.

\* Entry first: a call may be remembered that nobody takes out again.
EntryFirst == <<"sys_enter", "sys_exit", "process_exit", "exec">>

\* attach_programs; "Entry must attach last so every new stash has an active
\* exit consumer".
AttachOrder == <<"sys_exit", "process_exit", "exec", "sys_enter">>

Attached(program) == \E i \in 1 .. hooks : AttachOrder[i] = program

AttachNext ==
  /\ ~detaching
  /\ hooks < Len(AttachOrder)
  /\ hooks' = hooks + 1
  /\ UNCHANGED <<detaching, threads, tables, stashes, ring, stats, calls>>

\* AttachedPrograms::detach goes through the links in reverse.
DetachNext ==
  /\ hooks > 0
  /\ detaching \/ hooks = Len(AttachOrder)
  /\ detaching' = TRUE
  /\ hooks' = hooks - 1
  /\ UNCHANGED <<threads, tables, stashes, ring, stats, calls>>

--------------------------------------------------------------------------------
\* The kernel (external).

\* How a descriptor came about: by an open that the programs see or another, from
\* before the process's program began, as a copy of one whose open they saw, or as
\* another copy.
Origins == {"none", "opened", "untraced", "inherited", "duplicated", "copied"}

CopyOrigin(origin) == IF origin \in {"opened", "duplicated"} THEN "duplicated" ELSE "copied"

NoTable == [fd \in Fds |-> [file |-> None, origin |-> "none"]]

InheritedTable ==
  [fd \in Fds |-> IF Inherited[fd] = None THEN NoTable[fd]
                  ELSE [file |-> Inherited[fd], origin |-> "inherited"]]

IsOpen(table, fd) == table[fd].file # None

\* A new descriptor is the lowest free one.
Free(table) == {fd \in Fds : ~IsOpen(table, fd)}
LowestFree(table) == CHOOSE fd \in Free(table) : \A other \in Free(table) : fd <= other

Dead == [pc |-> "dead"]
User == [pc |-> "user"]

Live(pid) == {t \in Threads : ProcessOf[t] = pid /\ threads[t] # Dead}

\* What a call does to a table, and its result: the new descriptor of an open or
\* a dup, 0 for another success, -1 for a failure that proves the descriptor to
\* be invalid or that changes nothing.
Open(table, file, origin) ==
  IF Free(table) = {} THEN [result |-> -1, table |-> table]
  ELSE [result |-> LowestFree(table),
        table |-> [table EXCEPT ![LowestFree(table)] = [file |-> file, origin |-> origin]]]

Outcome(table, call) ==
  CASE call.op = "open" -> Open(table, call.file, "opened")
    [] call.op = "untraced" -> Open(table, call.file, "untraced")
    [] call.op \in {"read", "write"} ->
         [result |-> IF IsOpen(table, call.fd) THEN 0 ELSE -1, table |-> table]
    [] call.op = "close" ->
         IF IsOpen(table, call.fd)
         THEN [result |-> 0, table |-> [table EXCEPT ![call.fd] = NoTable[call.fd]]]
         ELSE [result |-> -1, table |-> table]
    [] call.op = "dup" ->
         IF IsOpen(table, call.fd) THEN Open(table, table[call.fd].file, CopyOrigin(table[call.fd].origin))
         ELSE [result |-> -1, table |-> table]
    [] call.op = "dup2" ->
         IF IsOpen(table, call.fd)
         THEN [result |-> call.to,
               table |-> IF call.to = call.fd THEN table
                         ELSE [table EXCEPT ![call.to] =
                                 [file |-> table[call.fd].file,
                                  origin |-> CopyOrigin(table[call.fd].origin)]]]
         ELSE [result |-> -1, table |-> table]
    [] call.op = "fcntl" -> [result |-> 0, table |-> table]
    [] call.op = "close_range" ->
         [result |-> 0,
          table |-> [fd \in Fds |-> IF ~call.cloexec /\ fd \in call.first .. call.last
                                    THEN NoTable[fd] ELSE table[fd]]]

--------------------------------------------------------------------------------
\* sys_enter.

NoStats == [ringDrops |-> 0, stashFailures |-> 0, entries |-> 0, exits |-> 0]

\* Events lost so far.
Losses(counters) == counters.ringDrops + counters.stashFailures

StashKinds == {"open", "io", "close", "dup", "range"}

\* The stash that the entry of a call fills.
StashOf(call) ==
  CASE call.op = "open" -> {"open"}
    [] call.op \in {"read", "write"} -> {"io"}
    [] call.op = "close" -> {"close"}
    [] call.op \in {"dup", "dup2"} -> {"dup"}
    [] call.op = "close_range" -> {"range"}
    [] call.op \in {"fcntl", "untraced"} -> {}

\* The stash that its exit looks into: any fcntl may have been a dup.
TakenBy(call) == IF call.op = "fcntl" THEN {"dup"} ELSE StashOf(call)

\* A stash that grows.
AlwaysRoom(kind, t) == TRUE

HasRoom(kind, t) ==
  t \in DOMAIN stashes[kind] \/ Cardinality(DOMAIN stashes[kind]) < StashCapacity

Remember(kind, t, call) ==
  IF HasRoom(kind, t)
  THEN /\ stashes' = [stashes EXCEPT ![kind] =
                        [other \in DOMAIN @ \cup {t} |-> IF other = t THEN call ELSE @[other]]]
       /\ stats' = [stats EXCEPT !.entries = @ + (IF kind = "io" THEN 1 ELSE 0)]
  ELSE /\ stats' = [stats EXCEPT !.stashFailures = @ + 1,
                                 !.entries = @ + (IF kind = "io" THEN 1 ELSE 0)]
       /\ UNCHANGED stashes

\* What sys_enter makes of a call; it is kept to say later what was lost.
SeenAtEntry(t, call) ==
  IF ~Attached("sys_enter") \/ StashOf(call) = {} THEN "no"
  ELSE IF \A kind \in StashOf(call) : HasRoom(kind, t) THEN "remembered" ELSE "lost"

Enter(t, call) ==
  /\ threads[t] = User
  /\ calls < MaxCalls
  /\ calls' = calls + 1
  /\ threads' = [threads EXCEPT ![t] = [pc |-> "entered", call |-> call,
                                        seen |-> SeenAtEntry(t, call)]]
  /\ IF SeenAtEntry(t, call) # "no"
     THEN \A kind \in StashOf(call) : Remember(kind, t, call)
     ELSE UNCHANGED <<stashes, stats>>
  /\ UNCHANGED <<hooks, detaching, tables, ring>>

\* The kernel acts.  The file and the origin of the descriptor are kept to say
\* later what the operation was about.
Execute(t) ==
  /\ threads[t].pc = "entered"
  /\ LET pid == ProcessOf[t]
         call == threads[t].call
         outcome == Outcome(tables[pid], call)
         subject == IF call.op \in {"read", "write"} THEN tables[pid][call.fd] ELSE NoTable[0]
     IN  /\ tables' = [tables EXCEPT ![pid] = outcome.table]
         /\ threads' = [threads EXCEPT ![t] =
                          [pc |-> "returned", call |-> call, seen |-> threads[t].seen,
                           result |-> outcome.result, subject |-> subject]]
  /\ UNCHANGED <<hooks, detaching, stashes, ring, stats, calls>>

--------------------------------------------------------------------------------
\* sys_exit.

\* EVENTS.output with a full ring that nobody counts.
OutputSilently(event, counted) ==
  /\ stats' = counted
  /\ IF Len(ring) < RingCapacity THEN ring' = Append(ring, event) ELSE UNCHANGED ring

\* EVENTS.output
Output(event, counted) ==
  IF Len(ring) < RingCapacity
  THEN ring' = Append(ring, event) /\ stats' = counted
  ELSE stats' = [counted EXCEPT !.ringDrops = @ + 1] /\ UNCHANGED ring

\* Whether the result of a call is worth an event; close_releases_fd and the
\* sign tests of the exit_ functions.  A failed read or write is reported too.
Reports(kind, result) == kind = "io" \/ result >= 0

\* The event made of remembered arguments and a result.
EventOf(t, kind, args, result) ==
  LET pid == ProcessOf[t]
  IN  CASE kind = "open"  -> [kind |-> "Open", pid |-> pid, fd |-> result, file |-> args.file,
                              relative |-> args.relative]
        [] kind = "io"    -> [kind |-> "Io", pid |-> pid, fd |-> args.fd, result |-> result,
                              subject |-> threads[t].subject, losses |-> Losses(stats)]
        [] kind = "close" -> [kind |-> "Close", pid |-> pid, fd |-> args.fd]
        [] kind = "dup"   -> [kind |-> "Dup", pid |-> pid, old |-> args.fd, new |-> result]
        [] kind = "range" -> [kind |-> "CloseRange", pid |-> pid, first |-> args.first,
                              last |-> args.last, cloexec |-> args.cloexec]

\* Arguments that are looked at and left in the stash.
Leave(kind, t) == UNCHANGED stashes

TakeOut(kind, t) == stashes' = [stashes EXCEPT ![kind] = Restrict(@, DOMAIN @ \ {t})]

Report(t, kind, result) ==
  LET args == stashes[kind][t]
      counted == [stats EXCEPT !.exits = @ + (IF kind = "io" THEN 1 ELSE 0)]
  IN  /\ TakeOut(kind, t)
      /\ IF Reports(kind, result) THEN Output(EventOf(t, kind, args, result), counted)
         ELSE stats' = counted /\ UNCHANGED ring

\* A sys_exit that counts reads and writes before it knows their entry.
ExitCountedBlindly(t) ==
  /\ threads[t].pc = "returned"
  /\ threads' = [threads EXCEPT ![t] = User]
  /\ LET kinds == {kind \in TakenBy(threads[t].call) : t \in DOMAIN stashes[kind]}
     IN  IF Attached("sys_exit") /\ kinds # {}
         THEN \A kind \in kinds : Report(t, kind, threads[t].result)
         ELSE /\ stats' = [stats EXCEPT
                             !.exits = @ + (IF StashOf(threads[t].call) = {"io"} THEN 1 ELSE 0)]
              /\ UNCHANGED <<stashes, ring>>
  /\ UNCHANGED <<hooks, detaching, tables, calls>>

Exit(t) ==
  /\ threads[t].pc = "returned"
  /\ threads' = [threads EXCEPT ![t] = User]
  /\ LET kinds == {kind \in TakenBy(threads[t].call) : t \in DOMAIN stashes[kind]}
     IN  IF Attached("sys_exit") /\ kinds # {}
         THEN \A kind \in kinds : Report(t, kind, threads[t].result)
         ELSE UNCHANGED <<stashes, ring, stats>>
  /\ UNCHANGED <<hooks, detaching, tables, calls>>

--------------------------------------------------------------------------------
\* Processes.

\* A thread that starts; the first of a process brings a table with it.
Start(t) ==
  /\ threads[t] = Dead
  /\ calls < MaxCalls
  /\ calls' = calls + 1
  /\ threads' = [threads EXCEPT ![t] = User]
  /\ tables' = IF Live(ProcessOf[t]) = {} THEN [tables EXCEPT ![ProcessOf[t]] = InheritedTable]
               ELSE tables
  /\ UNCHANGED <<hooks, detaching, stashes, ring, stats>>

ClearStashes(t) ==
  stashes' = [kind \in StashKinds |-> Restrict(stashes[kind], DOMAIN stashes[kind] \ {t})]

\* A thread dies, perhaps blocked in a call whose exit never comes; the last one
\* of a process reports its end (group_dead).  A signal is not handled between
\* the kernel's action and sys_exit.
Die(t) ==
  LET pid == ProcessOf[t]
      last == Live(pid) = {t}
  IN  /\ threads[t] # Dead
      /\ threads[t].pc # "returned"
      /\ calls < MaxCalls
      /\ calls' = calls + 1
      /\ threads' = [threads EXCEPT ![t] = Dead]
      /\ tables' = IF last THEN [tables EXCEPT ![pid] = NoTable] ELSE tables
      /\ IF Attached("process_exit") THEN ClearStashes(t) ELSE UNCHANGED stashes
      /\ IF Attached("process_exit") /\ last
         THEN Output([kind |-> "ProcessExit", pid |-> pid], stats)
         ELSE UNCHANGED <<ring, stats>>
      /\ UNCHANGED <<hooks, detaching>>

\* A process of one thread replaces its program; descriptors marked to be closed
\* on exec are closed, the others outlive it.
Exec(t, kept) ==
  LET pid == ProcessOf[t]
  IN  /\ threads[t] = User
      /\ Live(pid) = {t}
      /\ calls < MaxCalls
      /\ calls' = calls + 1
      /\ tables' = [tables EXCEPT ![pid] =
                      [fd \in Fds |-> IF fd \in kept /\ IsOpen(@, fd)
                                      THEN [file |-> @[fd].file, origin |-> "inherited"]
                                      ELSE NoTable[fd]]]
      /\ IF Attached("exec") THEN Output([kind |-> "ProcessExec", pid |-> pid], stats)
         ELSE UNCHANGED <<ring, stats>>
      /\ UNCHANGED <<hooks, detaching, threads, stashes>>

--------------------------------------------------------------------------------

InitWith(attached) ==
  /\ hooks = attached
  /\ detaching = FALSE
  /\ threads = [t \in Threads |-> User]
  /\ tables = [pid \in Pids |-> InheritedTable]
  /\ stashes = [kind \in StashKinds |-> <<>>]
  /\ ring = <<>>
  /\ stats = NoStats
  /\ calls = 0

Init == InitWith(0)

System ==
  \/ \E t \in Threads : \E call \in Calls : Enter(t, call)
  \/ \E t \in Threads : Execute(t)
  \/ \E t \in Threads : Exit(t)
  \/ \E t \in Threads : Start(t)
  \/ \E t \in Threads : Die(t)
  \/ \E t \in Threads : \E kept \in SUBSET Fds : Exec(t, kept)

Next ==
  \/ AttachNext
  \/ DetachNext
  \/ System

Spec == Init /\ [][Next]_vars

--------------------------------------------------------------------------------

\* Type invariant.  The stashes and the ring stay within their capacity.
TypeOK ==
  /\ hooks \in 0 .. Len(AttachOrder)
  /\ detaching \in BOOLEAN
  /\ \A t \in Threads : threads[t].pc \in {"dead", "user", "entered", "returned"}
  /\ tables \in [Pids -> [Fds -> [file : Files \cup {None},
                                  origin : Origins]]]
  /\ \A kind \in StashKinds :
       /\ stashes[kind] \in [DOMAIN stashes[kind] -> Calls]
       /\ DOMAIN stashes[kind] \subseteq Threads
       /\ Cardinality(DOMAIN stashes[kind]) <= StashCapacity
  /\ Len(ring) <= RingCapacity
  /\ stats \in [{"ringDrops", "stashFailures", "entries", "exits"} -> 0 .. MaxCalls]

\* "Entry must attach last so every new stash has an active exit consumer": as
\* long as process_exit is attached, what a stash remembers of a thread is the
\* call that this thread is in.  So no thread leaks an entry, whether it dies in
\* a call or not, and no capacity is lost for good.  Between the detaching of
\* process_exit and that of sys_exit, the last two, a thread that dies leaves its
\* entry behind.
StashesHaveOwners ==
  Attached("process_exit") =>
    \A kind \in StashKinds : \A t \in DOMAIN stashes[kind] :
      /\ threads[t].pc \in {"entered", "returned"}
      /\ stashes[kind][t] = threads[t].call

\* An event tells of the call that its thread has just made, with that call's
\* descriptor: no exit takes the arguments of another call, nor of a call that
\* a thread of the same number made before it died.  It speaks of exits while the
\* ends of threads are watched, as StashesHaveOwners does.
EventsTellOfTheirCall ==
  [][\A t \in Threads :
       Attached("process_exit") /\ Exit(t) /\ Len(ring') > Len(ring) =>
         \E kind \in StashOf(threads[t].call) :
           ring'[Len(ring')] = EventOf(t, kind, threads[t].call, threads[t].result)]_vars

\* A call that both programs have seen, and that is worth an event, is in the
\* ring or among the counted losses.
EveryLossIsCounted ==
  [][\A t \in Threads :
       /\ threads[t] = User /\ threads'[t].pc = "entered" /\ threads'[t].seen = "lost" =>
            stats'.stashFailures = stats.stashFailures + 1
       /\ /\ Exit(t) /\ Attached("sys_exit") /\ threads[t].seen = "remembered"
          /\ \E kind \in StashOf(threads[t].call) : Reports(kind, threads[t].result)
          => \/ Len(ring') = Len(ring) + 1
             \/ stats'.ringDrops = stats.ringDrops + 1]_vars

\* An exit is counted only for an entry that was counted before it: read_exits
\* and write_exits never overtake read_entries and write_entries, calls that were
\* under way when the programs were attached included.
ExitsFollowEntries ==
  stats.exits + Cardinality(DOMAIN stashes["io"]) <= stats.entries
=============================================================================
