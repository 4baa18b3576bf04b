------------------------------- MODULE Naming -------------------------------
(***************************************************************************)
(* Under which path and which container an open is shown.  Userspace       *)
(* handles events long after the calls, and asks /proc, the process's      *)
(* cgroup and the last discovery of containers (ncda/src/container.rs) at  *)
(* that time.  What it learns of a process it keeps: the root in           *)
(* FdPathCache, the name in ContainerResolver, a row in ProcessTable; the  *)
(* exec and exit events of the process make it forget.                     *)
(*                                                                         *)
(* The processes, their files and the container runtime are external.  A   *)
(* process sees the same tree below its root in every container; there are *)
(* no symbolic links.  Reads, writes and copies of descriptors are in      *)
(* module Attribution.                                                     *)
(***************************************************************************)
EXTENDS PathNames, FiniteSets, Functions

CONSTANTS
  Pids,
  MaxFd,
  Host,             \* what a process is in that is in no container
  Containers,
  CgroupOf,         \* CgroupOf[c]: [by, id], the identifier in the cgroup's path, which
                    \* is that of a container or of the sandbox of its pod
  RootOf,           \* RootOf[home]: where /proc/pid/root leads
  Dirs, Files,      \* the directories and files below a root
  Programs,         \* what processes do in one behaviour or another: [homes, opens, dirs,
                    \* pseudo, calls, disturbances], where opens are records [name, dirfd,
                    \* readable], pseudo the links of descriptors that other calls make, and
                    \* the last two bound the calls and the discoveries without true answer
  ExcludePrefixes,
  Answers,          \* [crictl, docker]: sequences of [id, name, sandbox] that may be listed
  TrueAnswer,       \* what is listed when both commands are well
  None,
  RingCapacity      \* events between the programs and the aggregator

Homes == Containers \cup {Host}

Fds == 0 .. MaxFd

AtFdCwd == -100

\* How the kernel spells a path: components with a name, from the root down.
TruePaths == Seq(STRING \ {"", ".", ".."})

ASSUME NamingAssumption ==
  /\ MaxFd \in Nat
  /\ Host \notin Containers /\ None \notin Homes
  /\ Dirs \cup Files \subseteq TruePaths
  /\ DOMAIN CgroupOf = Containers
  /\ \A c \in Containers : CgroupOf[c].by \in {"containers", "sandboxes"}
  /\ RootOf \in [Homes -> TruePaths]
  /\ \A home \in Homes, path \in Dirs \cup Files : IsPath(RootOf[home] \o path)
  /\ TrueAnswer \in Answers
  /\ \A p \in Programs :
       /\ p.homes \subseteq Homes /\ {p.calls, p.disturbances} \subseteq Nat
       /\ p.dirs \subseteq Dirs
       /\ \A link \in p.pseudo, home \in Homes :
            StripRoot(RootOf[home], link) \notin Dirs \cup Files
       /\ \A open \in p.opens : /\ open.name \in Seq(STRING)
                                /\ Nul \notin Range(open.name)
                                /\ open.dirfd \in Fds \cup {AtFdCwd}
                                /\ open.readable \in BOOLEAN
  /\ RingCapacity \in Nat

VARIABLES
  program,          \* of this behaviour
  procs,            \* procs[pid]: [home, cwd], or Dead
  links,            \* links[pid][fd]: where /proc/pid/fd/fd leads, or NoLink
  images,           \* history: how often the process was replaced, moved or ended
  events,           \* ring and channel
  losses,           \* the sum of the loss counters
  calls,
  names,            \* ContainerResolver's container_names and sandbox_names
  discovered,       \* the resolver that a discovery returned, or Idle
  disturbances,
  pidCache,         \* ContainerResolver::pid_cache
  rootCache,        \* FdPathCache::root_cache
  paths,            \* FdPathCache::map
  rows,             \* ProcessTable: process -> container
  dropTotal,        \* AppState::drop_total
  heard,            \* history: the image that the last exec or exit event told of
  shown             \* history: how the last open was recorded

kernelVars == <<program, procs, links, images, events, losses, calls>>
discoveryVars == <<names, discovered, disturbances>>
stateVars == <<pidCache, rootCache, paths, rows, dropTotal, heard, shown>>

vars == <<kernelVars, discoveryVars, stateVars>>

--------------------------------------------------------------------------------
\* Processes (external).

Dead == [home |-> None, cwd |-> <<>>]
NoLink == <<"">>
NoLinks == [fd \in Fds |-> NoLink]

Alive(pid) == procs[pid] # Dead

Root(pid) == RootOf[procs[pid].home]

Nowhere == <<"..">>

\* What the kernel finds in a directory, or nothing.
Entered(at, component) ==
  IF at \notin Dirs THEN Nowhere
  ELSE CASE component \in {"", "."} -> at
         [] component = ".." -> Cut(at, Len(at) - 1)
         [] OTHER -> LET entry == Append(at, component)
                     IN  IF entry \in Dirs \cup Files THEN entry ELSE Nowhere

\* The kernel's walk from a directory below the root.
Walk(start, name) == FoldLeft(Entered, start, name)

Free(pid) == {fd \in Fds : links[pid][fd] = NoLink}
LowestFree(pid) == CHOOSE fd \in Free(pid) : \A other \in Free(pid) : fd <= other

\* An event reaches userspace, or is counted as lost.
Emit(event) ==
  IF Len(events) < RingCapacity
  THEN events' = Append(events, event) /\ UNCHANGED losses
  ELSE losses' = losses + 1 /\ UNCHANGED events

Calls ==
  /\ calls < program.calls
  /\ calls' = calls + 1
  /\ UNCHANGED program

Start(pid, home) ==
  /\ Calls
  /\ ~Alive(pid)
  /\ procs' = [procs EXCEPT ![pid] = [home |-> home, cwd |-> RootOf[home]]]
  /\ UNCHANGED <<links, images, events, losses, discoveryVars, stateVars>>

\* A runtime prepares a process for a container: new root, new cgroup, and nothing
\* open.  It will exec the container's program.
Join(pid, container) ==
  /\ Calls
  /\ Alive(pid) /\ procs[pid].home = Host
  /\ procs' = [procs EXCEPT ![pid] = [home |-> container, cwd |-> RootOf[container]]]
  /\ links' = [links EXCEPT ![pid] = NoLinks]
  /\ images' = [images EXCEPT ![pid] = @ + 1]
  /\ UNCHANGED <<events, losses, discoveryVars, stateVars>>

Lifecycle(pid, kind) ==
  /\ images' = [images EXCEPT ![pid] = @ + 1]
  /\ Emit([kind |-> kind, pid |-> pid, image |-> images[pid] + 1])

Exec(pid) ==
  /\ Calls
  /\ Alive(pid)
  /\ Lifecycle(pid, "ProcessExec")
  /\ UNCHANGED <<procs, links, discoveryVars, stateVars>>

Exit(pid) ==
  /\ Calls
  /\ Alive(pid)
  /\ procs' = [procs EXCEPT ![pid] = Dead]
  /\ links' = [links EXCEPT ![pid] = NoLinks]
  /\ Lifecycle(pid, "ProcessExit")
  /\ UNCHANGED <<discoveryVars, stateVars>>

Chdir(pid, dir) ==
  /\ Calls
  /\ Alive(pid)
  /\ procs' = [procs EXCEPT ![pid].cwd = Root(pid) \o dir]
  /\ UNCHANGED <<links, images, events, losses, discoveryVars, stateVars>>

\* A pipe, a memory file or a namespace.
OpenPseudo(pid, link) ==
  /\ Calls
  /\ Alive(pid) /\ Free(pid) # {}
  /\ links' = [links EXCEPT ![pid][LowestFree(pid)] = link]
  /\ UNCHANGED <<procs, images, events, losses, discoveryVars, stateVars>>

Base(pid, dirfd) == IF dirfd = AtFdCwd THEN procs[pid].cwd ELSE links[pid][dirfd]

\* A successful openat, from the entry to the exit program; the subject is what
\* it really opened.
Open(pid, name, dirfd, readable, left) ==
  LET base == Base(pid, dirfd)
      start == IF IsAbsolute(name) THEN <<>> ELSE StripRoot(Root(pid), base)
      target == Walk(start, name)
      record == OpenRecord(OpenArgs(name, readable, left))
  IN  /\ Calls
      /\ Alive(pid) /\ Free(pid) # {}
      /\ target \in Dirs \cup Files
      /\ links' = [links EXCEPT ![pid][LowestFree(pid)] = Root(pid) \o target]
      /\ Emit([kind |-> "Open", pid |-> pid, fd |-> LowestFree(pid), dirfd |-> dirfd,
               record |-> record, image |-> images[pid],
               subject |-> [home |-> procs[pid].home, path |-> target, base |-> base]])
      /\ UNCHANGED <<procs, images, discoveryVars, stateVars>>

Close(pid, fd) ==
  /\ Calls
  /\ Alive(pid) /\ links[pid][fd] # NoLink
  /\ links' = [links EXCEPT ![pid][fd] = NoLink]
  /\ Emit([kind |-> "Close", pid |-> pid, fd |-> fd, image |-> images[pid]])
  /\ UNCHANGED <<procs, images, discoveryVars, stateVars>>

Kernel(pid) ==
  \/ \E home \in program.homes : Start(pid, home)
  \/ \E container \in program.homes \ {Host} : Join(pid, container)
  \/ Exec(pid)
  \/ Exit(pid)
  \/ \E dir \in program.dirs : Chdir(pid, dir)
  \/ \E link \in program.pseudo : OpenPseudo(pid, link)
  \/ \E open, other \in program.opens :
       Open(pid, open.name, open.dirfd, open.readable, other.name)
  \/ \E fd \in Fds : Close(pid, fd)

--------------------------------------------------------------------------------
\* Discovery.

Idle == [containers |-> None]

NoNames == [containers |-> <<>>, sandboxes |-> <<>>]

Ids(listing) == {listing[i].id : i \in DOMAIN listing}

\* Entries of one identifier: the last one stays.
ByContainer(listing) ==
  [id \in Ids(listing) |->
     listing[CHOOSE i \in DOMAIN listing :
               /\ listing[i].id = id
               /\ \A j \in DOMAIN listing : listing[j].id = id => j <= i].name]

\* "First container name wins for the sandbox."
BySandbox(listing) ==
  [sandbox \in {listing[i].sandbox : i \in DOMAIN listing} \ {None} |->
     listing[CHOOSE i \in DOMAIN listing :
               /\ listing[i].sandbox = sandbox
               /\ \A j \in DOMAIN listing : listing[j].sandbox = sandbox => i <= j].name]

\* discover_blocking; a command that fails, or takes too long, lists nothing.
Discovery(answer) ==
  IF answer.crictl # <<>>
  THEN [containers |-> ByContainer(answer.crictl), sandboxes |-> BySandbox(answer.crictl)]
  ELSE [NoNames EXCEPT !.containers = ByContainer(answer.docker)]

StartDiscovery(answer) ==
  /\ discovered = Idle
  /\ answer # TrueAnswer => disturbances < program.disturbances
  /\ disturbances' = disturbances + (IF answer = TrueAnswer THEN 0 ELSE 1)
  /\ discovered' = Discovery(answer)
  /\ UNCHANGED <<kernelVars, names, stateVars>>

\* New names for those that have no name yet.
ReplaceDiscoveryKeepingCache ==
  /\ discovered # Idle
  /\ names' = discovered
  /\ discovered' = Idle
  /\ UNCHANGED <<kernelVars, disturbances, stateVars>>

ReplaceDiscovery ==
  /\ discovered # Idle
  /\ names' = discovered
  /\ discovered' = Idle
  /\ pidCache' = <<>>
  /\ UNCHANGED <<kernelVars, disturbances, rootCache, paths, rows, dropTotal, heard, shown>>

--------------------------------------------------------------------------------
\* Names of processes.

With(map, key, value) == [k \in DOMAIN map \cup {key} |-> IF k = key THEN value ELSE map[k]]

\* The name of a cgroup by some tables: an identifier that they lack stands for
\* itself, shortened.
Label(tables, home) ==
  IF home = Host THEN None
  ELSE LET group == CgroupOf[home]
           table == tables[group.by]
       IN  IF group.id \in DOMAIN table THEN table[group.id] ELSE group.id

\* lookup_pid: there is no cgroup to be read of a process that is gone.
LookupPid(pid) == IF Alive(pid) THEN Label(names, procs[pid].home) ELSE None

\* ContainerResolver::resolve
Resolved(pid) == IF pid \in DOMAIN pidCache THEN pidCache[pid] ELSE LookupPid(pid)

\* ProcessTable::record_stats_with_context
RowNamed(row, label) == IF row = None THEN label ELSE row

\* What every recorded operation does to what is known of its process.
RecordProcess(pid) ==
  /\ pidCache' = With(pidCache, pid, Resolved(pid))
  /\ rows' = With(rows, pid, RowNamed(IF pid \in DOMAIN rows THEN rows[pid] ELSE None,
                                      Resolved(pid)))

--------------------------------------------------------------------------------
\* Paths.

FileAt(path) == [space |-> "files", path |-> path]
MemoryFile(name) == [space |-> "memory", path |-> name]
Unresolved(pid, fd, name) ==
  [space |-> "unresolved", pid |-> pid, fd |-> fd, path |-> Normalize(name)]
NotAFile == [space |-> "ignored"]
Missing == [space |-> "missing"]

ReadRoot(pid) == IF Alive(pid) THEN Root(pid) ELSE <<>>

KnownRoot(pid) == IF pid \in DOMAIN rootCache THEN rootCache[pid] ELSE ReadRoot(pid)

\* resolve_proc_target
ProcTarget(pid, fd) ==
  LET link == links[pid][fd]
  IN  IF link = NoLink THEN Missing
      ELSE CASE Kind(link) = "ignored" -> NotAFile
             [] Kind(link) = "memory" -> MemoryFile(link)
             [] OTHER -> IF IsPath(link)
                         THEN FileAt(Normalize(StripRoot(KnownRoot(pid), link)))
                         ELSE Missing

\* The directory that a relative name begins at, as /proc shows it now.
BaseNow(e) == IF Alive(e.pid) THEN Base(e.pid, e.dirfd) ELSE NoLink

\* A relative name that is believed like an absolute one.
ResolveRelativeUnchecked(e, name) ==
  IF BaseNow(e) # NoLink
  THEN FileAt(Normalize(StripRoot(KnownRoot(e.pid), BaseNow(e) \o name)))
  ELSE Unresolved(e.pid, e.fd, name)

\* A relative name must lead to where /proc says that the descriptor leads.
ResolveRelative(e, name) ==
  LET expected == FileAt(Normalize(StripRoot(KnownRoot(e.pid), BaseNow(e) \o name)))
      target == ProcTarget(e.pid, e.fd)
  IN  IF BaseNow(e) # NoLink /\ (target \in {expected, NotAFile} \/ target.space = "memory")
      THEN target
      ELSE Unresolved(e.pid, e.fd, name)

\* An absolute name is believed, unless the descriptor leads to no file.
ResolveAbsolute(e, name) ==
  IF ProcTarget(e.pid, e.fd) = NotAFile THEN NotAFile ELSE FileAt(Normalize(name))

\* FdPathCache::resolve
Resolve(e) ==
  LET name == NameIn(e.record)
  IN  CASE e.record.flags # {} -> Unresolved(e.pid, e.fd, name)
        [] e.record.flags = {} /\ Kind(name) = "ignored" -> NotAFile
        [] e.record.flags = {} /\ Kind(name) = "memory" -> MemoryFile(name)
        [] e.record.flags = {} /\ Kind(name) = "ordinary" ->
             IF IsAbsolute(name) THEN ResolveAbsolute(e, name) ELSE ResolveRelative(e, name)

\* The resolution of an open asks for the root of the process.
AsksForRoot(e) ==
  LET name == NameIn(e.record)
      link == links[e.pid][e.fd]
  IN  /\ e.record.flags = {} /\ Kind(name) = "ordinary"
      /\ IF IsAbsolute(name) THEN link # NoLink /\ Kind(link) = "ordinary" /\ IsPath(link)
         ELSE BaseNow(e) # NoLink

IsExcluded(place) == place.space = "files" /\ IsUnder(place.path, ExcludePrefixes)

--------------------------------------------------------------------------------
\* The aggregator.

\* What the open was about, how it was recorded, and whether userspace was up to
\* date: the process is the one that opened the file, its last exec or exit has
\* been handled, and a relative name still begins at the same directory, or the
\* descriptor still leads to the file.
Showing(e, place) ==
  [subject |-> e.subject, label |-> Resolved(e.pid), place |-> place,
   current |-> /\ Alive(e.pid)
               /\ heard[e.pid] = images[e.pid] /\ e.image = images[e.pid]
               /\ \/ IsAbsolute(NameIn(e.record))
                  \/ BaseNow(e) = e.subject.base
                  \/ links[e.pid][e.fd] = Root(e.pid) \o e.subject.path]

HandleOpen(e) ==
  /\ e.kind = "Open"
  /\ rootCache' = IF AsksForRoot(e) THEN With(rootCache, e.pid, KnownRoot(e.pid))
                  ELSE rootCache
  /\ LET place == Resolve(e)
     IN  IF place = NotAFile THEN UNCHANGED <<paths, pidCache, rows, shown>>
         ELSE /\ paths' = With(paths, <<e.pid, e.fd>>, place)
              /\ IF IsExcluded(place) THEN UNCHANGED <<pidCache, rows, shown>>
                 ELSE RecordProcess(e.pid) /\ shown' = Showing(e, place)
  /\ UNCHANGED heard

HandleClose(e) ==
  /\ e.kind = "Close"
  /\ IF <<e.pid, e.fd>> \in DOMAIN paths /\ ~IsExcluded(paths[<<e.pid, e.fd>>])
     THEN RecordProcess(e.pid)
     ELSE UNCHANGED <<pidCache, rows>>
  /\ paths' = Restrict(paths, DOMAIN paths \ {<<e.pid, e.fd>>})
  /\ UNCHANGED <<rootCache, heard, shown>>

\* An exec or exit that leaves the name of the process as it is.
HandleLifecycleKeepingName(e) ==
  /\ e.kind \in {"ProcessExec", "ProcessExit"}
  /\ paths' = Restrict(paths, {key \in DOMAIN paths : key[1] # e.pid})
  /\ rootCache' = Restrict(rootCache, DOMAIN rootCache \ {e.pid})
  /\ rows' = Restrict(rows, DOMAIN rows \ {e.pid})
  /\ heard' = [heard EXCEPT ![e.pid] = e.image]
  /\ UNCHANGED <<pidCache, shown>>

HandleLifecycle(e) ==
  /\ e.kind \in {"ProcessExec", "ProcessExit"}
  /\ paths' = Restrict(paths, {key \in DOMAIN paths : key[1] # e.pid})
  /\ rootCache' = Restrict(rootCache, DOMAIN rootCache \ {e.pid})
  /\ pidCache' = Restrict(pidCache, DOMAIN pidCache \ {e.pid})
  /\ rows' = Restrict(rows, DOMAIN rows \ {e.pid})
  /\ heard' = [heard EXCEPT ![e.pid] = e.image]
  /\ UNCHANGED shown

Handle ==
  /\ events # <<>>
  /\ events' = Tail(events)
  /\ LET e == Head(events)
     IN  \/ HandleOpen(e)
         \/ HandleClose(e)
         \/ HandleLifecycle(e)
  /\ UNCHANGED <<program, procs, links, images, losses, calls, discoveryVars, dropTotal>>

\* AppState::update_drop_total, of the drop monitor.
UpdateDropTotal ==
  /\ losses > dropTotal
  /\ dropTotal' = losses
  /\ paths' = <<>>
  /\ rootCache' = <<>>
  /\ UNCHANGED <<kernelVars, discoveryVars, pidCache, rows, heard, shown>>

--------------------------------------------------------------------------------

Nothing == [current |-> FALSE]

Init ==
  /\ program \in Programs
  /\ procs \in [Pids -> {Dead} \cup
                        {[home |-> home, cwd |-> RootOf[home]] : home \in program.homes}]
  /\ links = [pid \in Pids |-> NoLinks]
  /\ images = [pid \in Pids |-> 0]
  /\ events = <<>>
  /\ losses = 0
  /\ calls = 0
  /\ names = NoNames
  /\ discovered = Idle
  /\ disturbances = 0
  /\ pidCache = <<>>
  /\ rootCache = <<>>
  /\ paths = <<>>
  /\ rows = <<>>
  /\ dropTotal = 0
  /\ heard = [pid \in Pids |-> 0]
  /\ shown = Nothing

Next ==
  \/ \E pid \in Pids : Kernel(pid)
  \/ \E answer \in Answers : StartDiscovery(answer)
  \/ ReplaceDiscovery
  \/ Handle
  \/ UpdateDropTotal

Spec == Init /\ [][Next]_vars

\* monitor_container_discovery is a task of its own, and its commands have two
\* seconds.
FairSpec ==
  /\ Spec
  /\ WF_vars(\E answer \in Answers : StartDiscovery(answer))
  /\ WF_vars(ReplaceDiscovery)

--------------------------------------------------------------------------------

\* Type invariant of the queue.  Whatever an earlier open left in the buffer of
\* the CPU, and whether the name was read, cut or not read at all, the record of
\* an open is one that parse_open_event accepts.
OpensAreAccepted ==
  \A i \in DOMAIN events : events[i].kind = "Open" => Accepted(events[i].record)

\* The tables of names that there may be, and the labels they give.
Tables == {NoNames} \cup {Discovery(answer) : answer \in Answers}
Labels(home) == {Label(tables, home) : tables \in Tables}

\* An open that is shown as one of a file is shown under the path that the
\* process knows the file by, whatever its root, its working directory and the
\* length of the name, and as one of the process's own container; where that
\* cannot be told, under no path.
ShownPathsAreTrue ==
  shown.current =>
    /\ shown.place.space = "files" => shown.place.path = shown.subject.path
    /\ shown.label \in Labels(shown.subject.home)

\* Nothing that was learned of a process outlives it.  Once the last exec or exit
\* of a process has been handled, what is known of it (its name, its root, and
\* the container of its row) is true of the process that now has its number: of
\* none, when it has ended.
NamesAreOfThisProcess ==
  \A pid \in Pids : heard[pid] = images[pid] =>
    IF Alive(pid)
    THEN /\ pid \in DOMAIN pidCache => pidCache[pid] = Label(names, procs[pid].home)
         /\ pid \in DOMAIN rootCache => rootCache[pid] = Root(pid)
         /\ pid \in DOMAIN rows => rows[pid] \in Labels(procs[pid].home)
    ELSE pid \notin DOMAIN pidCache \cup DOMAIN rootCache \cup DOMAIN rows

\* A process in a container is named after it in the end, and for good, even
\* when it was seen before the container was discovered, when its events were
\* lost, or when a discovery failed.
NamesArrive ==
  \A pid \in Pids, container \in Containers :
    <>[](procs[pid].home = container =>
           Resolved(pid) = Label(Discovery(TrueAnswer), container))
=============================================================================
