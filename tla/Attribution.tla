----------------------------- MODULE Attribution -----------------------------
(***************************************************************************)
(* From a descriptor to a path, end to end: the kernel and the programs of *)
(* module Capture, and in userspace the descriptor cache of                *)
(* ncda/src/bpf.rs, which follows the events in their order but asks /proc *)
(* about the present, and the monitor of ncda/src/main.rs, which clears    *)
(* the cache when it sees that the loss counters have grown.               *)
(*                                                                         *)
(* Events are taken one by one; module Ingest shows that taking them in    *)
(* groups comes to the same.  The programs stay attached.                  *)
(***************************************************************************)
EXTENDS Capture

CONSTANTS
  NonFiles,         \* the files that are pipes, sockets and the like: no open names one
  Unresolved        \* the /[unresolved]/ path

ASSUME AttributionAssumption ==
  /\ NonFiles \subseteq Files
  /\ Unresolved \notin Files \cup {None}
  /\ \A call \in Calls : call.op = "open" => call.file \notin NonFiles

VARIABLES
  cache,            \* FdPathCache: <<process, descriptor>> -> path
  dropsSeen,        \* AppState::drop_total
  attributions,     \* what successful operations were attributed to so far
  mistaken,         \* history: an open of a file was taken for one of a pipe
  settled           \* history: the last loss, if any, was noticed with no event buffered

userVars == <<cache, dropsSeen, attributions, mistaken, settled>>

avars == <<vars, userVars>>

--------------------------------------------------------------------------------
\* The cache and /proc.

\* /proc/pid/fd/fd at this moment; None when there is no such descriptor.
ProcTarget(pid, fd) == tables[pid][fd].file

\* FdPathCache::resolve for an absolute path, or a relative one, which must also
\* be where /proc says that the descriptor leads.
ResolveOpen(e) ==
  LET target == ProcTarget(e.pid, e.fd)
  IN  IF target \in NonFiles THEN None
      ELSE IF e.relative /\ target # e.file THEN Unresolved
      ELSE e.file

\* A resolution that takes whatever /proc has for a file.
ResolveFdToAnything(pid, fd) ==
  LET target == ProcTarget(pid, fd)
  IN  IF <<pid, fd>> \in DOMAIN cache THEN cache[<<pid, fd>>]
      ELSE IF target = None THEN Unresolved
      ELSE target

\* resolve_fd_path: the cached path, or what /proc has; None if it is not a file.
ResolveFd(pid, fd) ==
  LET target == ProcTarget(pid, fd)
  IN  IF <<pid, fd>> \in DOMAIN cache THEN cache[<<pid, fd>>]
      ELSE IF target = None THEN Unresolved
      ELSE IF target \in NonFiles THEN None
      ELSE target

\* A path to remember for a descriptor, if there is one.
Stored(known, pid, fd, path) ==
  IF path = None THEN known
  ELSE [d \in DOMAIN known \cup {<<pid, fd>>} |-> IF d = <<pid, fd>> THEN path ELSE known[d]]

Without(known, gone) == Restrict(known, DOMAIN known \ gone)

AllOf(pid) == {pid} \X Fds

--------------------------------------------------------------------------------
\* What the next event does.

\* An operation and the path it was attributed to; informed says that nothing was
\* lost or mistaken until then, unaware that the path was a cached one while a
\* loss from before the operation had not been noticed.
Attribution(e, path) ==
  [subject |-> e.subject, path |-> path,
   informed |-> ~mistaken /\ Losses(stats) = 0,
   unaware |-> <<e.pid, e.fd>> \in DOMAIN cache /\ e.losses > dropsSeen]

IngestOpen(e) ==
  /\ e.kind = "Open"
  /\ cache' = Stored(cache, e.pid, e.fd, ResolveOpen(e))
  /\ mistaken' = (mistaken \/ (ResolveOpen(e) = None /\ e.file \notin NonFiles))
  /\ UNCHANGED attributions

IngestIo(e) ==
  /\ e.kind = "Io"
  /\ UNCHANGED mistaken
  /\ IF e.result < 0 THEN UNCHANGED <<cache, attributions>>
     ELSE LET path == ResolveFd(e.pid, e.fd)
          IN  /\ cache' = Stored(cache, e.pid, e.fd, path)
              /\ attributions' = IF path = None THEN attributions
                                 ELSE attributions \cup {Attribution(e, path)}

\* A close that leaves the path of the descriptor in the cache.
IngestCloseKeeping(e) ==
  /\ e.kind = "Close"
  /\ UNCHANGED <<cache, attributions, mistaken>>

IngestClose(e) ==
  /\ e.kind = "Close"
  /\ cache' = Without(cache, {<<e.pid, e.fd>>})
  /\ UNCHANGED <<attributions, mistaken>>

\* A dup that is not followed to its target.
IngestDupIgnored(e) ==
  /\ e.kind = "Dup"
  /\ UNCHANGED <<cache, attributions, mistaken>>

IngestDup(e) ==
  /\ e.kind = "Dup"
  /\ LET path == ResolveFd(e.pid, e.old)
         resolved == Stored(cache, e.pid, e.old, path)
         closed == IF e.old = e.new THEN resolved ELSE Without(resolved, {<<e.pid, e.new>>})
     IN  cache' = Stored(closed, e.pid, e.new, path)
  /\ UNCHANGED <<attributions, mistaken>>

IngestCloseRange(e) ==
  /\ e.kind = "CloseRange"
  /\ cache' = IF e.cloexec THEN cache
              ELSE Without(cache, {e.pid} \X (Fds \cap e.first .. e.last))
  /\ UNCHANGED <<attributions, mistaken>>

IngestProcess(e) ==
  /\ e.kind \in {"ProcessExec", "ProcessExit"}
  /\ cache' = Without(cache, AllOf(e.pid))
  /\ UNCHANGED <<attributions, mistaken>>

IngestNext ==
  /\ ring # <<>>
  /\ LET e == Head(ring)
     IN  \/ IngestOpen(e)
         \/ IngestIo(e)
         \/ IngestClose(e)
         \/ IngestDup(e)
         \/ IngestCloseRange(e)
         \/ IngestProcess(e)
  /\ ring' = Tail(ring)
  /\ UNCHANGED <<hooks, detaching, threads, tables, stashes, stats, calls, dropsSeen, settled>>

\* A sample that takes note of the losses and leaves the cache as it is.
SampleDropsKeepingCache ==
  /\ Losses(stats) > dropsSeen
  /\ dropsSeen' = Losses(stats)
  /\ settled' = (ring = <<>>)
  /\ UNCHANGED <<vars, cache, attributions, mistaken>>

\* monitor_drop_counters, every 250 ms, whatever the ring still holds.
SampleDrops ==
  /\ Losses(stats) > dropsSeen
  /\ dropsSeen' = Losses(stats)
  /\ cache' = <<>>
  /\ settled' = (ring = <<>>)
  /\ UNCHANGED <<vars, attributions, mistaken>>

--------------------------------------------------------------------------------

AInit ==
  /\ InitWith(Len(AttachOrder))
  /\ cache = <<>>
  /\ dropsSeen = 0
  /\ attributions = {}
  /\ mistaken = FALSE
  /\ settled = TRUE

ASystem ==
  /\ System
  /\ UNCHANGED userVars

ANext ==
  \/ ASystem
  \/ IngestNext
  \/ SampleDrops

ASpec == AInit /\ [][ANext]_avars

--------------------------------------------------------------------------------

\* Type invariant.
ATypeOK ==
  /\ DOMAIN cache \subseteq Pids \X Fds
  /\ \A d \in DOMAIN cache : cache[d] \in (Files \ NonFiles) \cup {Unresolved}
  /\ dropsSeen \in 0 .. Losses(stats)
  /\ {mistaken, settled} \subseteq BOOLEAN
  /\ \A attribution \in attributions :
       attribution.path \in (Files \ NonFiles) \cup {Unresolved}

\* However far userspace lags behind, as long as no event is lost and no open has
\* been taken for a pipe's: an operation on a descriptor whose open was captured,
\* or on a copy of one, is attributed to the file it acted on, or left unresolved.
\* Descriptors are reused, copied over, closed in ranges, and processes end and
\* their numbers are reused meanwhile.
CapturedOpensAreFollowed ==
  \A attribution \in attributions :
    attribution.informed /\ attribution.subject.origin \in {"opened", "duplicated"} =>
      attribution.path \in {attribution.subject.file, Unresolved}

\* Once userspace has taken every event, and no call is in between, the cache
\* holds no path of a descriptor's former life ("Descriptor state is invalidated
\* when a descriptor is replaced or closed, across exec, and after the final
\* thread exits").  This is so after losses too, if the last one was noticed at a
\* moment when nothing was buffered.  Only a copy may have been resolved too
\* late: one of a descriptor that nobody saw being opened, or whose open was
\* forgotten with a loss or taken for one of a pipe.
CacheIsCurrent ==
  (/\ settled /\ dropsSeen = Losses(stats)
   /\ ring = <<>>
   /\ \A t \in Threads : threads[t] \in {User, Dead}) =>
    \A d \in DOMAIN cache :
      LET current == tables[d[1]][d[2]]
      IN  \/ cache[d] \in {current.file, Unresolved}
          \/ current.origin = "copied"
          \/ current.origin = "duplicated" /\ (mistaken \/ Losses(stats) > 0)

\* "It also clears cached descriptor attribution before later events are
\* processed, preventing stale paths from being reused": an operation from after
\* a loss is not given a path that was cached before the loss was noticed, unless
\* it happens to be right.
StalePathsAreNotReused ==
  \A attribution \in attributions :
    attribution.unaware => attribution.path \in {attribution.subject.file, Unresolved}
=============================================================================
