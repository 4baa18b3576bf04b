---------------------------- MODULE NamingProofs ----------------------------
(***************************************************************************)
(* Proofs about Naming, for any processes, programs, containers, answers   *)
(* and capacities: every record that an open program sends is accepted;    *)
(* what is known of a process is true of it as soon as its last exec or    *)
(* exit has been handled; and a file is then shown under its true path.    *)
(***************************************************************************)
EXTENDS Naming, Lemmas, SequenceTheorems, TLAPS

\* Every process has a home, and its image is never behind the one heard of.
ProcessesOK ==
  /\ DOMAIN procs = Pids
  /\ \A pid \in Pids : procs[pid] # Dead =>
       DOMAIN procs[pid] = {"home", "cwd"} /\ procs[pid].home # None
  /\ {images, heard} \subseteq [Pids -> Nat]
  /\ \A pid \in Pids : heard[pid] <= images[pid]

\* The events of a process are queued in the order of its images, none older than
\* the one heard of; what a process did that has ended, an earlier image did.
QueueOK ==
  /\ IsQueue(events)
  /\ \A i \in DOMAIN events :
       LET e == events[i]
       IN  /\ e.pid \in Pids /\ e.image \in Nat
           /\ heard[e.pid] <= e.image /\ e.image <= images[e.pid]
           /\ e.kind \in {"Open", "Close"} /\ ~Alive(e.pid) => e.image < images[e.pid]
  /\ \A i, j \in DOMAIN events :
       i <= j /\ events[i].pid = events[j].pid => events[i].image <= events[j].image

DiscoveryOK ==
  /\ program \in Programs
  /\ names \in Tables
  /\ discovered \in Tables \cup {Idle}

\* The strengthening of NamesAreOfThisProcess that every step preserves.
NamesInv == ProcessesOK /\ QueueOK /\ DiscoveryOK /\ NamesAreOfThisProcess

--------------------------------------------------------------------------------
\* Records.

\* The record of an open: at most as long as the buffer, with the flags that
\* userspace knows, and with nothing after the name.
LEMMA RecordIsAccepted ==
  ASSUME NEW name \in Seq(STRING), Nul \notin Range(name), NEW readable \in BOOLEAN, NEW left
  PROVE  Accepted(OpenRecord(OpenArgs(name, readable, left)))
<1> DEFINE args == OpenArgs(name, readable, left)
           read == IF readable THEN Cut(name, MaxNameLen + 1) ELSE <<>>
           record == OpenRecord(args)
<1>1. MaxNameLen \in Nat
  BY PathNamesAssumption DEF PathNamesAssumption
<1>2. /\ Len(read) \in Nat
      /\ \A i \in 1 .. Len(read) : read[i] # Nul
  <2>1. Len(name) \in Nat /\ DOMAIN name = 1 .. Len(name)
    BY LenProperties
  <2>2. \A i \in 1 .. Len(name) : name[i] # Nul
    BY <2>1 DEF Range
  <2>3. Len(<<>>) = 0
    BY EmptySeq
  <2>4. CASE ~readable
    BY <2>3, <2>4
  <2>5. CASE readable
    <3> DEFINE n == Shorter(Len(name), MaxNameLen + 1)
    <3>1. n \in 0 .. Len(name)
      BY <1>1, <2>1 DEF Shorter
    <3>2. read = SubSeq(name, 1, n)
      BY <2>5 DEF Cut
    <3>. HIDE DEF n, read
    <3>3. Len(read) = n /\ \A i \in 1 .. n : read[i] = name[i]
      BY <2>1, <3>1, <3>2, SubSeqProperties
    <3>. QED
      BY <2>1, <2>2, <3>1, <3>3
  <2>. QED
    BY <2>4, <2>5
<1>3. ~readable => Len(read) = 0
  BY EmptySeq
<1>4. /\ args.length = Shorter(Len(read), MaxNameLen)
      /\ args.fname = Overwritten(read, left)
      /\ args.flags = IF ~readable THEN {"read_failed"}
                      ELSE IF Len(read) > MaxNameLen THEN {"truncated"} ELSE {}
  BY DEF OpenArgs
<1>5. /\ record.length = args.length
      /\ record.flags = args.flags
      /\ record.fname = [i \in 1 .. MaxNameLen |->
                           IF i <= args.length THEN args.fname[i] ELSE Nul]
  BY DEF OpenRecord, OpenArgs
<1>. HIDE DEF read, args, record
<1>6. args.length \in 0 .. MaxNameLen /\ args.length <= Len(read)
  BY <1>1, <1>2, <1>4 DEF Shorter
<1>7. \A i \in 1 .. MaxNameLen : i <= args.length => args.fname[i] # Nul
  BY <1>1, <1>2, <1>4, <1>6 DEF Overwritten
<1>8. record.flags \subseteq KnownFlags
  BY <1>4, <1>5 DEF KnownFlags
<1>9. "read_failed" \in record.flags => record.length = 0
  BY <1>1, <1>3, <1>4, <1>5 DEF Shorter
<1>10. \A i \in 1 .. MaxNameLen : (record.fname[i] = Nul) <=> (i > record.length)
  BY <1>1, <1>5, <1>6, <1>7
<1>. QED
  BY <1>5, <1>6, <1>8, <1>9, <1>10 DEF Accepted, record, args

\* Every record in the queue is the record of an open of the program.
RecordsInv ==
  /\ program \in Programs
  /\ IsQueue(events)
  /\ OpensAreAccepted

\* Events that are not opens, and opens with a record that is accepted, may follow.
LEMMA EmitKeepsRecords ==
  ASSUME RecordsInv, NEW e, Emit(e), e.kind = "Open" => Accepted(e.record),
         program' = program
  PROVE  RecordsInv'
<1>1. CASE UNCHANGED events
  BY <1>1 DEF RecordsInv, OpensAreAccepted
<1>2. CASE events' = Append(events, e)
  <2>1. /\ IsQueue(events') /\ DOMAIN events' = 1 .. Len(events) + 1
        /\ Len(events) \in Nat /\ DOMAIN events = 1 .. Len(events)
        /\ \A i \in DOMAIN events : events'[i] = events[i]
        /\ events'[Len(events) + 1] = e
    BY <1>2, AppendedQueue, QueueDomain DEF RecordsInv
  <2>2. \A i \in DOMAIN events' : events'[i].kind = "Open" => Accepted(events'[i].record)
    BY <2>1 DEF RecordsInv, OpensAreAccepted
  <2>. QED
    BY <2>1, <2>2 DEF RecordsInv, OpensAreAccepted
<1>. QED
  BY <1>1, <1>2 DEF Emit

LEMMA HandlingKeepsRecords ==
  ASSUME RecordsInv, events # <<>>, events' = Tail(events), program' = program
  PROVE  RecordsInv'
<1>1. /\ IsQueue(events') /\ DOMAIN events' = 1 .. Len(events) - 1
      /\ Len(events) \in Nat \ {0} /\ DOMAIN events = 1 .. Len(events)
      /\ \A i \in DOMAIN events' : events'[i] = events[i + 1]
  BY RestOfQueue DEF RecordsInv
<1>2. \A i \in DOMAIN events' : events'[i].kind = "Open" => Accepted(events'[i].record)
  BY <1>1 DEF RecordsInv, OpensAreAccepted
<1>. QED
  BY <1>1, <1>2 DEF RecordsInv, OpensAreAccepted

LEMMA KernelKeepsRecords ==
  ASSUME RecordsInv, NEW pid \in Pids, Kernel(pid)
  PROVE  RecordsInv'
<1>. USE DEF Calls
<1>0. ASSUME UNCHANGED <<program, events>>
      PROVE  RecordsInv'
  BY <1>0 DEF RecordsInv, OpensAreAccepted
<1>1. CASE \E home \in program.homes : Start(pid, home)
  BY <1>0, <1>1 DEF Start
<1>2. CASE \E container \in program.homes \ {Host} : Join(pid, container)
  BY <1>0, <1>2 DEF Join
<1>3. CASE Exec(pid)
  BY <1>3, EmitKeepsRecords DEF Exec, Lifecycle
<1>4. CASE Exit(pid)
  BY <1>4, EmitKeepsRecords DEF Exit, Lifecycle
<1>5. CASE \E dir \in program.dirs : Chdir(pid, dir)
  BY <1>0, <1>5 DEF Chdir
<1>6. CASE \E link \in program.pseudo : OpenPseudo(pid, link)
  BY <1>0, <1>6 DEF OpenPseudo
<1>7. ASSUME NEW open \in program.opens, NEW other \in program.opens,
             Open(pid, open.name, open.dirfd, open.readable, other.name)
      PROVE  RecordsInv'
  <2>1. open.name \in Seq(STRING) /\ Nul \notin Range(open.name) /\ open.readable \in BOOLEAN
    BY NamingAssumption DEF RecordsInv, NamingAssumption
  <2>2. Accepted(OpenRecord(OpenArgs(open.name, open.readable, other.name)))
    BY <2>1, RecordIsAccepted
  <2>. QED
    BY <1>7, <2>2, EmitKeepsRecords DEF Open
<1>8. CASE \E fd \in Fds : Close(pid, fd)
  BY <1>8, EmitKeepsRecords DEF Close
<1>. QED
  BY <1>1, <1>2, <1>3, <1>4, <1>5, <1>6, <1>7, <1>8 DEF Kernel

\* The parser accepts the record of every open, for names of any length.
THEOREM EveryOpenIsAccepted == Spec => []OpensAreAccepted
<1>1. Init => RecordsInv
  BY EmptyQueue DEF Init, RecordsInv, OpensAreAccepted
<1>2. RecordsInv /\ [Next]_vars => RecordsInv'
  <2>. SUFFICES ASSUME RecordsInv, [Next]_vars PROVE RecordsInv'
    OBVIOUS
  <2>0. ASSUME UNCHANGED <<program, events>>
        PROVE  RecordsInv'
    BY <2>0 DEF RecordsInv, OpensAreAccepted
  <2>1. CASE \E pid \in Pids : Kernel(pid)
    BY <2>1, KernelKeepsRecords
  <2>2. CASE \E answer \in Answers : StartDiscovery(answer)
    BY <2>0, <2>2 DEF StartDiscovery, kernelVars
  <2>3. CASE ReplaceDiscovery
    BY <2>0, <2>3 DEF ReplaceDiscovery, kernelVars
  <2>4. CASE Handle
    BY <2>4, HandlingKeepsRecords DEF Handle
  <2>5. CASE UpdateDropTotal
    BY <2>0, <2>5 DEF UpdateDropTotal, kernelVars
  <2>6. CASE UNCHANGED vars
    BY <2>0, <2>6 DEF vars, kernelVars
  <2>. QED
    BY <2>1, <2>2, <2>3, <2>4, <2>5, <2>6 DEF Next
<1>3. RecordsInv => OpensAreAccepted
  BY DEF RecordsInv
<1>. QED
  BY <1>1, <1>2, <1>3, PTL DEF Spec

--------------------------------------------------------------------------------
\* What a call does to the processes and to the queue, said of the process, its
\* home and its image alone.

LEMMA HomeTellsAlive ==
  ASSUME ProcessesOK
  PROVE  \A pid \in Pids : Alive(pid) <=> procs[pid].home # None
BY DEF ProcessesOK, Alive, Dead

\* Images never fall; the image of a process that ends, or moves, rises.
Kept ==
  /\ UNCHANGED heard
  /\ images' \in [Pids -> Nat]
  /\ \A q \in Pids : images[q] <= images'[q]
  /\ \A q \in Pids : Alive(q) /\ images[q] = images'[q] => procs'[q].home = procs[q].home

LEMMA KeptProcesses ==
  ASSUME ProcessesOK, Kept, DOMAIN procs' = Pids,
         \A q \in Pids : procs'[q] # Dead =>
           DOMAIN procs'[q] = {"home", "cwd"} /\ procs'[q].home # None
  PROVE  ProcessesOK'
BY DEF ProcessesOK, Kept

\* The event of a call, if it is not lost, is of the newest image of its process.
IsTold(e) ==
  /\ events' = Append(events, e)
  /\ e.pid \in Pids /\ e.image = images'[e.pid]
  /\ e.kind \in {"Open", "Close"} => procs'[e.pid] # Dead

LEMMA KeptQueue ==
  ASSUME ProcessesOK, ProcessesOK', QueueOK, Kept, NEW e, events' = events \/ IsTold(e)
  PROVE  QueueOK'
<1>1. \A q \in Pids : images[q] \in Nat /\ images'[q] \in Nat /\ heard[q] \in Nat
                     /\ images[q] <= images'[q] /\ heard'[q] = heard[q]
                     /\ heard[q] <= images[q]
  BY DEF ProcessesOK, Kept
<1>2. \A q \in Pids : procs'[q] = Dead => ~Alive(q) \/ images[q] < images'[q]
  BY <1>1, HomeTellsAlive DEF ProcessesOK, Kept, Alive, Dead
<1>3. \A i \in DOMAIN events :
        /\ events[i].pid \in Pids /\ events[i].image \in Nat
        /\ heard'[events[i].pid] <= events[i].image
        /\ events[i].image <= images[events[i].pid]
        /\ events[i].image <= images'[events[i].pid]
        /\ events[i].kind \in {"Open", "Close"} /\ procs'[events[i].pid] = Dead =>
             events[i].image < images'[events[i].pid]
  BY <1>1, <1>2 DEF QueueOK
<1>4. CASE events' = events
  BY <1>3, <1>4 DEF QueueOK, Alive
<1>5. CASE IsTold(e)
  <2>1. /\ IsQueue(events') /\ DOMAIN events' = 1 .. Len(events) + 1
        /\ Len(events) \in Nat /\ DOMAIN events = 1 .. Len(events)
        /\ \A i \in DOMAIN events : events'[i] = events[i]
        /\ events'[Len(events) + 1] = e
    BY <1>5, AppendedQueue, QueueDomain DEF QueueOK, IsTold
  <2>2. \A i \in DOMAIN events' : i \in DOMAIN events \/ i = Len(events) + 1
    BY <2>1
  <2>3. /\ heard'[e.pid] <= e.image /\ e.image = images'[e.pid]
        /\ e.image \in Nat /\ e.pid \in Pids
        /\ e.kind \in {"Open", "Close"} => procs'[e.pid] # Dead
    BY <1>1, <1>5 DEF IsTold
  <2>4. ASSUME NEW i \in DOMAIN events'
        PROVE  LET f == events'[i]
               IN  /\ f.pid \in Pids /\ f.image \in Nat
                   /\ heard'[f.pid] <= f.image /\ f.image <= images'[f.pid]
                   /\ f.kind \in {"Open", "Close"} /\ procs'[f.pid] = Dead =>
                        f.image < images'[f.pid]
    BY <1>3, <2>1, <2>2, <2>3
  <2>5. ASSUME NEW i \in DOMAIN events', NEW j \in DOMAIN events', i <= j,
               events'[i].pid = events'[j].pid
        PROVE  events'[i].image <= events'[j].image
    <3>1. CASE j \in DOMAIN events
      <4>1. i \in DOMAIN events
        BY <2>1, <2>5, <3>1
      <4>. QED
        BY <2>1, <2>5, <3>1, <4>1 DEF QueueOK
    <3>2. CASE j = Len(events) + 1
      BY <1>1, <1>3, <2>1, <2>2, <2>3, <2>5, <3>2
    <3>. QED
      BY <2>2, <3>1, <3>2
  <2>. QED
    BY <2>1, <2>4, <2>5 DEF QueueOK, Alive
<1>. QED
  BY <1>4, <1>5

LEMMA KeptNames ==
  ASSUME ProcessesOK, ProcessesOK', Kept, NamesAreOfThisProcess,
         UNCHANGED <<names, pidCache, rootCache, rows>>
  PROVE  NamesAreOfThisProcess'
<1>. SUFFICES ASSUME NEW pid \in Pids, heard'[pid] = images'[pid]
              PROVE  IF Alive(pid)'
                     THEN /\ pid \in DOMAIN pidCache =>
                               pidCache[pid] = Label(names, procs'[pid].home)
                          /\ pid \in DOMAIN rootCache => rootCache[pid] = RootOf[procs'[pid].home]
                          /\ pid \in DOMAIN rows => rows[pid] \in Labels(procs'[pid].home)
                     ELSE pid \notin DOMAIN pidCache \cup DOMAIN rootCache \cup DOMAIN rows
  BY DEF NamesAreOfThisProcess, Root
<1>1. heard[pid] = images[pid] /\ images'[pid] = images[pid]
  BY DEF ProcessesOK, Kept
<1>2. CASE Alive(pid)
  <2>1. procs'[pid].home = procs[pid].home
    BY <1>1, <1>2 DEF Kept
  <2>2. Alive(pid)'
    BY <1>2, <2>1, HomeTellsAlive DEF Alive, Dead
  <2>. QED
    BY <1>1, <1>2, <2>1, <2>2 DEF NamesAreOfThisProcess, Root
<1>3. CASE ~Alive(pid)
  BY <1>1, <1>3 DEF NamesAreOfThisProcess
<1>. QED
  BY <1>2, <1>3

LEMMA KeptInv ==
  ASSUME NamesInv, Kept, NEW e, events' = events \/ IsTold(e),
         DOMAIN procs' = Pids,
         \A q \in Pids : procs'[q] # Dead =>
           DOMAIN procs'[q] = {"home", "cwd"} /\ procs'[q].home # None,
         UNCHANGED <<program, names, discovered, pidCache, rootCache, rows>>
  PROVE  NamesInv'
<1>1. ProcessesOK'
  BY KeptProcesses DEF NamesInv
<1>2. QueueOK'
  BY <1>1, KeptQueue DEF NamesInv
<1>3. DiscoveryOK'
  BY DEF NamesInv, DiscoveryOK, Tables, NoNames, Discovery, ByContainer, BySandbox, Ids, Idle
<1>4. NamesAreOfThisProcess'
  BY <1>1, KeptNames DEF NamesInv
<1>. QED
  BY <1>1, <1>2, <1>3, <1>4 DEF NamesInv

LEMMA KernelKeepsNames ==
  ASSUME NamesInv, NEW pid \in Pids, Kernel(pid)
  PROVE  NamesInv' /\ Kept
<1>. USE DEF Calls, discoveryVars, stateVars
<1>1. /\ DOMAIN procs = Pids
      /\ \A q \in Pids : procs[q] # Dead =>
           DOMAIN procs[q] = {"home", "cwd"} /\ procs[q].home # None
      /\ images \in [Pids -> Nat]
      /\ program \in Programs
  BY DEF NamesInv, ProcessesOK, DiscoveryOK
<1>2. \A home \in program.homes : home # None
  BY <1>1, NamingAssumption DEF NamingAssumption
<1>3. ASSUME NEW home \in program.homes, Start(pid, home)
      PROVE  NamesInv' /\ Kept
  <2>1. Kept
    BY <1>1, <1>3 DEF Start, Kept, Alive
  <2>. QED
    BY <1>1, <1>2, <1>3, <2>1, KeptInv DEF Start
<1>4. ASSUME NEW container \in program.homes \ {Host}, Join(pid, container)
      PROVE  NamesInv' /\ Kept
  <2>1. Kept
    BY <1>1, <1>4 DEF Join, Kept
  <2>. QED
    BY <1>1, <1>2, <1>4, <2>1, KeptInv DEF Join
<1>5. CASE Exec(pid)
  <2> DEFINE e == [kind |-> "ProcessExec", pid |-> pid, image |-> images[pid] + 1]
  <2>1. Kept
    BY <1>1, <1>5 DEF Exec, Lifecycle, Kept
  <2>2. events' = events \/ IsTold(e)
    BY <1>1, <1>5 DEF Exec, Lifecycle, Emit, IsTold
  <2>. QED
    BY <1>1, <1>5, <2>1, <2>2, KeptInv DEF Exec
<1>6. CASE Exit(pid)
  <2> DEFINE e == [kind |-> "ProcessExit", pid |-> pid, image |-> images[pid] + 1]
  <2>1. Kept
    BY <1>1, <1>6 DEF Exit, Lifecycle, Kept
  <2>2. events' = events \/ IsTold(e)
    BY <1>1, <1>6 DEF Exit, Lifecycle, Emit, IsTold
  <2>. QED
    BY <1>1, <1>6, <2>1, <2>2, KeptInv DEF Exit
<1>7. ASSUME NEW dir \in program.dirs, Chdir(pid, dir)
      PROVE  NamesInv' /\ Kept
  <2>1. /\ DOMAIN procs' = Pids
        /\ \A q \in Pids : q # pid => procs'[q] = procs[q]
        /\ procs'[pid].home = procs[pid].home /\ DOMAIN procs'[pid] = {"home", "cwd"}
    BY <1>1, <1>7 DEF Chdir, Alive
  <2>2. Kept
    BY <1>1, <1>7, <2>1 DEF Chdir, Kept
  <2>. QED
    BY <1>1, <1>7, <2>1, <2>2, KeptInv DEF Chdir, Alive
<1>8. ASSUME NEW link \in program.pseudo, OpenPseudo(pid, link)
      PROVE  NamesInv' /\ Kept
  <2>1. Kept
    BY <1>1, <1>8 DEF OpenPseudo, Kept
  <2>. QED
    BY <1>1, <1>8, <2>1, KeptInv DEF OpenPseudo
<1>9. ASSUME NEW name, NEW dirfd, NEW readable, NEW left, Open(pid, name, dirfd, readable, left)
      PROVE  NamesInv' /\ Kept
  <2>1. Kept
    BY <1>1, <1>9 DEF Open, Kept
  <2>2. PICK e : Emit(e) /\ e.pid = pid /\ e.image = images[pid]
    BY <1>9 DEF Open
  <2>3. events' = events \/ IsTold(e)
    BY <1>1, <1>9, <2>2 DEF Open, Emit, IsTold, Alive
  <2>. QED
    BY <1>1, <1>9, <2>1, <2>3, KeptInv DEF Open
<1>10. ASSUME NEW fd \in Fds, Close(pid, fd)
       PROVE  NamesInv' /\ Kept
  <2> DEFINE e == [kind |-> "Close", pid |-> pid, fd |-> fd, image |-> images[pid]]
  <2>1. Kept
    BY <1>1, <1>10 DEF Close, Kept
  <2>2. events' = events \/ IsTold(e)
    BY <1>1, <1>10 DEF Close, Emit, IsTold, Alive
  <2>. QED
    BY <1>1, <1>10, <2>1, <2>2, KeptInv DEF Close
<1>. QED
  BY <1>3, <1>4, <1>5, <1>6, <1>7, <1>8, <1>9, <1>10 DEF Kernel

--------------------------------------------------------------------------------
\* What the aggregator does.

\* The rest of the queue is in order, and not older than what its head tells.
LEMMA RestOK ==
  ASSUME ProcessesOK, QueueOK, events # <<>>, events' = Tail(events),
         UNCHANGED <<procs, images>>,
         \/ UNCHANGED heard
         \/ heard' = [heard EXCEPT ![Head(events).pid] = Head(events).image]
  PROVE  ProcessesOK' /\ QueueOK'
<1> DEFINE e == Head(events)
<1>1. /\ IsQueue(events') /\ DOMAIN events' = 1 .. Len(events) - 1
      /\ Len(events) \in Nat \ {0} /\ DOMAIN events = 1 .. Len(events)
      /\ \A i \in DOMAIN events' : events'[i] = events[i + 1]
      /\ e = events[1]
  BY RestOfQueue DEF QueueOK
<1>2. \A i \in DOMAIN events :
        /\ events[i].pid \in Pids /\ events[i].image \in Nat
        /\ heard[events[i].pid] <= events[i].image
        /\ events[i].image <= images[events[i].pid]
        /\ events[i].kind \in {"Open", "Close"} /\ procs[events[i].pid] = Dead =>
             events[i].image < images[events[i].pid]
        /\ e.pid = events[i].pid => e.image <= events[i].image
  BY <1>1 DEF QueueOK, Alive
<1>3. e.pid \in Pids /\ e.image \in Nat /\ e.image <= images[e.pid]
  BY <1>1, <1>2
<1>. HIDE DEF e
<1>4. /\ DOMAIN heard = Pids /\ heard \in [Pids -> Nat]
      /\ \A pid \in Pids : heard[pid] <= images[pid]
      /\ images \in [Pids -> Nat]
  BY DEF ProcessesOK
<1>5. heard' = heard \/ heard' = [heard EXCEPT ![e.pid] = e.image]
  BY DEF e
<1>6. /\ heard' \in [Pids -> Nat]
      /\ \A pid \in Pids : heard'[pid] <= images[pid]
      /\ \A pid \in Pids : heard'[pid] = heard[pid] \/ (pid = e.pid /\ heard'[pid] = e.image)
  BY <1>3, <1>4, <1>5
<1>7. ProcessesOK'
  BY <1>4, <1>6 DEF ProcessesOK
<1>8. ASSUME NEW i \in DOMAIN events'
      PROVE  LET f == events'[i]
             IN  /\ f.pid \in Pids /\ f.image \in Nat
                 /\ heard'[f.pid] <= f.image /\ f.image <= images'[f.pid]
                 /\ f.kind \in {"Open", "Close"} /\ procs'[f.pid] = Dead =>
                      f.image < images'[f.pid]
  <2>1. i + 1 \in DOMAIN events /\ events'[i] = events[i + 1]
    BY <1>1
  <2>. QED
    BY <1>2, <1>6, <2>1
<1>9. ASSUME NEW i \in DOMAIN events', NEW j \in DOMAIN events', i <= j,
             events'[i].pid = events'[j].pid
      PROVE  events'[i].image <= events'[j].image
  <2>1. /\ i + 1 \in DOMAIN events /\ j + 1 \in DOMAIN events /\ i + 1 <= j + 1
        /\ events'[i] = events[i + 1] /\ events'[j] = events[j + 1]
    BY <1>1, <1>9
  <2>. QED
    BY <1>9, <2>1 DEF QueueOK
<1>. QED
  BY <1>1, <1>7, <1>8, <1>9 DEF QueueOK, Alive

\* What is looked up of a process that is heard of is true of it.
LEMMA RecordedNames ==
  ASSUME NamesInv, NEW pid \in Pids, heard[pid] = images[pid], Alive(pid), RecordProcess(pid)
  PROVE  /\ pidCache'[pid] = Label(names, procs[pid].home)
         /\ rows'[pid] \in Labels(procs[pid].home)
<1>1. Resolved(pid) = Label(names, procs[pid].home)
  BY DEF NamesInv, NamesAreOfThisProcess, Resolved, LookupPid
<1>2. Resolved(pid) \in Labels(procs[pid].home)
  BY <1>1 DEF NamesInv, DiscoveryOK, Labels
<1>3. rows'[pid] \in {Resolved(pid)} \cup (IF pid \in DOMAIN rows THEN {rows[pid]} ELSE {})
  BY DEF RecordProcess, With, RowNamed
<1>4. pid \in DOMAIN rows => rows[pid] \in Labels(procs[pid].home)
  BY DEF NamesInv, NamesAreOfThisProcess
<1>. QED
  BY <1>1, <1>2, <1>3, <1>4 DEF RecordProcess, With

LEMMA RecordKeepsOthers ==
  ASSUME NEW pid, NEW q, q # pid, RecordProcess(pid)
  PROVE  /\ (q \in DOMAIN pidCache') <=> (q \in DOMAIN pidCache)
         /\ q \in DOMAIN pidCache => pidCache'[q] = pidCache[q]
         /\ (q \in DOMAIN rows') <=> (q \in DOMAIN rows)
         /\ q \in DOMAIN rows => rows'[q] = rows[q]
BY DEF RecordProcess, With

\* What the handlers keep of the names: each process has the ones it had, or none,
\* or is the one of the event and recorded.
LEMMA OpenOrCloseKeepsNames ==
  ASSUME NamesInv, events # <<>>, NEW e, e = Head(events), e.kind \in {"Open", "Close"},
         \/ RecordProcess(e.pid)
         \/ UNCHANGED <<pidCache, rows>>,
         \/ rootCache' = With(rootCache, e.pid, KnownRoot(e.pid))
         \/ UNCHANGED rootCache,
         UNCHANGED <<procs, images, heard, names>>
  PROVE  NamesAreOfThisProcess'
<1>1. e = events[1] /\ 1 \in DOMAIN events
  BY RestOfQueue DEF NamesInv, QueueOK
<1>2. /\ e.pid \in Pids /\ e.image \in Nat /\ heard[e.pid] <= e.image
      /\ ~Alive(e.pid) => e.image < images[e.pid]
      /\ e.image <= images[e.pid]
      /\ images[e.pid] \in Nat /\ heard[e.pid] \in Nat
  BY <1>1 DEF NamesInv, QueueOK, ProcessesOK
<1>. SUFFICES ASSUME NEW pid \in Pids, heard[pid] = images[pid]
              PROVE  IF Alive(pid)
                     THEN /\ pid \in DOMAIN pidCache' =>
                               pidCache'[pid] = Label(names, procs[pid].home)
                          /\ pid \in DOMAIN rootCache' => rootCache'[pid] = Root(pid)
                          /\ pid \in DOMAIN rows' => rows'[pid] \in Labels(procs[pid].home)
                     ELSE pid \notin DOMAIN pidCache' \cup DOMAIN rootCache' \cup DOMAIN rows'
  BY DEF NamesAreOfThisProcess, Alive, Root
<1>3. IF Alive(pid)
      THEN /\ pid \in DOMAIN pidCache => pidCache[pid] = Label(names, procs[pid].home)
           /\ pid \in DOMAIN rootCache => rootCache[pid] = Root(pid)
           /\ pid \in DOMAIN rows => rows[pid] \in Labels(procs[pid].home)
      ELSE pid \notin DOMAIN pidCache \cup DOMAIN rootCache \cup DOMAIN rows
  BY DEF NamesInv, NamesAreOfThisProcess
<1>4. CASE pid # e.pid
  <2>1. /\ (pid \in DOMAIN rootCache') <=> (pid \in DOMAIN rootCache)
        /\ pid \in DOMAIN rootCache => rootCache'[pid] = rootCache[pid]
    BY <1>4 DEF With
  <2>2. /\ (pid \in DOMAIN pidCache') <=> (pid \in DOMAIN pidCache)
        /\ pid \in DOMAIN pidCache => pidCache'[pid] = pidCache[pid]
        /\ (pid \in DOMAIN rows') <=> (pid \in DOMAIN rows)
        /\ pid \in DOMAIN rows => rows'[pid] = rows[pid]
    BY <1>4, RecordKeepsOthers
  <2>. QED
    BY <1>3, <2>1, <2>2
<1>5. CASE pid = e.pid
  <2>1. Alive(pid)
    BY <1>2, <1>5
  <2>2. pid \in DOMAIN rootCache' => rootCache'[pid] = Root(pid)
    BY <1>3, <1>5, <2>1 DEF With, KnownRoot, ReadRoot
  <2>3. /\ pid \in DOMAIN pidCache' => pidCache'[pid] = Label(names, procs[pid].home)
        /\ pid \in DOMAIN rows' => rows'[pid] \in Labels(procs[pid].home)
    BY <1>3, <1>5, <2>1, RecordedNames
  <2>. QED
    BY <2>1, <2>2, <2>3
<1>. QED
  BY <1>4, <1>5

LEMMA LifecycleKeepsNames ==
  ASSUME NamesInv, NEW e, HandleLifecycle(e),
         UNCHANGED <<procs, images, names>>
  PROVE  NamesAreOfThisProcess'
<1>1. heard \in [Pids -> Nat]
  BY DEF NamesInv, ProcessesOK
<1>. SUFFICES ASSUME NEW pid \in Pids, heard'[pid] = images[pid]
              PROVE  IF Alive(pid)
                     THEN /\ pid \in DOMAIN pidCache' =>
                               pidCache'[pid] = Label(names, procs[pid].home)
                          /\ pid \in DOMAIN rootCache' => rootCache'[pid] = Root(pid)
                          /\ pid \in DOMAIN rows' => rows'[pid] \in Labels(procs[pid].home)
                     ELSE pid \notin DOMAIN pidCache' \cup DOMAIN rootCache' \cup DOMAIN rows'
  BY DEF NamesAreOfThisProcess, Alive, Root
<1>2. CASE pid = e.pid
  BY <1>2 DEF HandleLifecycle, Restrict
<1>3. CASE pid # e.pid
  <2>1. heard[pid] = images[pid]
    BY <1>1, <1>3 DEF HandleLifecycle
  <2>2. /\ (pid \in DOMAIN pidCache') <=> (pid \in DOMAIN pidCache)
        /\ pid \in DOMAIN pidCache => pidCache'[pid] = pidCache[pid]
        /\ (pid \in DOMAIN rootCache') <=> (pid \in DOMAIN rootCache)
        /\ pid \in DOMAIN rootCache => rootCache'[pid] = rootCache[pid]
        /\ (pid \in DOMAIN rows') <=> (pid \in DOMAIN rows)
        /\ pid \in DOMAIN rows => rows'[pid] = rows[pid]
    BY <1>3 DEF HandleLifecycle, Restrict
  <2>. QED
    BY <2>1, <2>2 DEF NamesInv, NamesAreOfThisProcess
<1>. QED
  BY <1>2, <1>3

LEMMA HandleKeepsNames ==
  ASSUME NamesInv, Handle
  PROVE  NamesInv'
<1> DEFINE e == Head(events)
<1>1. /\ events # <<>> /\ events' = Tail(events)
      /\ HandleOpen(e) \/ HandleClose(e) \/ HandleLifecycle(e)
      /\ UNCHANGED <<program, procs, links, images, names, discovered>>
  BY DEF Handle, discoveryVars
<1>. HIDE DEF e
<1>2. UNCHANGED heard \/ heard' = [heard EXCEPT ![e.pid] = e.image]
  BY <1>1 DEF HandleOpen, HandleClose, HandleLifecycle
<1>3. ProcessesOK' /\ QueueOK'
  BY <1>1, <1>2, RestOK DEF NamesInv, e
<1>4. DiscoveryOK'
  BY <1>1 DEF NamesInv, DiscoveryOK, Tables, NoNames, Discovery, ByContainer, BySandbox, Ids, Idle
<1>5. NamesAreOfThisProcess'
  <2>1. CASE HandleOpen(e)
    <3>1. /\ e.kind = "Open" /\ UNCHANGED heard
          /\ RecordProcess(e.pid) \/ UNCHANGED <<pidCache, rows>>
          /\ rootCache' = With(rootCache, e.pid, KnownRoot(e.pid)) \/ UNCHANGED rootCache
      BY <2>1 DEF HandleOpen
    <3>. QED
      BY <1>1, <3>1, OpenOrCloseKeepsNames DEF e
  <2>2. CASE HandleClose(e)
    <3>1. /\ e.kind = "Close" /\ UNCHANGED heard
          /\ RecordProcess(e.pid) \/ UNCHANGED <<pidCache, rows>>
          /\ UNCHANGED rootCache
      BY <2>2 DEF HandleClose
    <3>. QED
      BY <1>1, <3>1, OpenOrCloseKeepsNames DEF e
  <2>3. CASE HandleLifecycle(e)
    BY <1>1, <2>3, LifecycleKeepsNames
  <2>. QED
    BY <1>1, <2>1, <2>2, <2>3
<1>. QED
  BY <1>3, <1>4, <1>5 DEF NamesInv

--------------------------------------------------------------------------------

LEMMA NamesInvInitially == Init => NamesInv
<1>. SUFFICES ASSUME Init PROVE NamesInv
  OBVIOUS
<1>1. ProcessesOK
  <2>1. \A home \in program.homes : home # None
    BY NamingAssumption DEF Init, NamingAssumption
  <2>. QED
    BY <2>1 DEF Init, ProcessesOK, Dead
<1>2. QueueOK
  BY EmptyQueue DEF Init, QueueOK
<1>3. DiscoveryOK
  BY DEF Init, DiscoveryOK, Tables
<1>4. NamesAreOfThisProcess
  BY EmptyQueue DEF Init, NamesAreOfThisProcess
<1>. QED
  BY <1>1, <1>2, <1>3, <1>4 DEF NamesInv

\* A step that touches no process, and at most the root of processes.
LEMMA OtherStepsKeepNames ==
  ASSUME NamesInv, DiscoveryOK',
         UNCHANGED <<procs, images, events, heard, rows>>,
         \/ UNCHANGED <<names, pidCache>>
         \/ pidCache' = <<>>,
         rootCache' \in {rootCache, <<>>}
  PROVE  NamesInv'
<1>1. ProcessesOK' /\ QueueOK'
  BY DEF NamesInv, ProcessesOK, QueueOK, Alive
<1>2. NamesAreOfThisProcess'
  <2>1. DOMAIN <<>> = {}
    BY EmptyQueue
  <2>2. \A pid : pid \in DOMAIN rootCache' =>
          pid \in DOMAIN rootCache /\ rootCache'[pid] = rootCache[pid]
    BY <2>1
  <2>3. \A pid : pid \in DOMAIN pidCache' =>
          pid \in DOMAIN pidCache /\ pidCache'[pid] = pidCache[pid] /\ names' = names
    BY <2>1
  <2>. QED
    BY <2>2, <2>3 DEF NamesInv, NamesAreOfThisProcess, Alive, Root
<1>. QED
  BY <1>1, <1>2 DEF NamesInv

LEMMA NamesInvKept == NamesInv /\ [Next]_vars => NamesInv'
<1>. SUFFICES ASSUME NamesInv, [Next]_vars PROVE NamesInv'
  OBVIOUS
<1>. USE DEF kernelVars, discoveryVars, stateVars
<1>1. CASE \E pid \in Pids : Kernel(pid)
  BY <1>1, KernelKeepsNames
<1>2. CASE \E answer \in Answers : StartDiscovery(answer)
  <2>1. PICK answer \in Answers : StartDiscovery(answer)
    BY <1>2
  <2>2. discovered' \in Tables
    BY <2>1 DEF StartDiscovery, Tables
  <2>3. DiscoveryOK'
    BY <2>1, <2>2 DEF StartDiscovery, NamesInv, DiscoveryOK
  <2>. QED
    BY <2>1, <2>3, OtherStepsKeepNames DEF StartDiscovery
<1>3. CASE ReplaceDiscovery
  <2>1. DiscoveryOK'
    BY <1>3 DEF ReplaceDiscovery, NamesInv, DiscoveryOK
  <2>. QED
    BY <1>3, <2>1, OtherStepsKeepNames DEF ReplaceDiscovery
<1>4. CASE Handle
  BY <1>4, HandleKeepsNames
<1>5. CASE UpdateDropTotal
  <2>1. DiscoveryOK'
    BY <1>5 DEF UpdateDropTotal, NamesInv, DiscoveryOK
  <2>. QED
    BY <1>5, <2>1, OtherStepsKeepNames DEF UpdateDropTotal
<1>6. CASE UNCHANGED vars
  <2>1. DiscoveryOK'
    BY <1>6 DEF vars, NamesInv, DiscoveryOK
  <2>. QED
    BY <1>6, <2>1, OtherStepsKeepNames DEF vars
<1>. QED
  BY <1>1, <1>2, <1>3, <1>4, <1>5, <1>6 DEF Next

\* For any processes, containers and answers, losses and delays: once the last
\* exec or exit of a process has been handled, no name, root or row of an earlier
\* process of its number is left.
THEOREM NamesAreLearntAnew == Spec => []NamesAreOfThisProcess
<1>1. NamesInv => NamesAreOfThisProcess
  BY DEF NamesInv
<1>. QED
  BY <1>1, NamesInvInitially, NamesInvKept, PTL DEF Spec

--------------------------------------------------------------------------------
\* Walking and normalising, one component after the other.

\* What names are made of; the provers do not know that ".." is a string.
Components == STRING \cup {".."}

LEMMA CutType ==
  ASSUME NEW X, NEW s \in Seq(X), NEW k \in Int
  PROVE  Cut(s, k) \in Seq(X)
<1>1. Len(s) \in Nat
  BY LenProperties
<1>2. PICK m : m = Shorter(Len(s), k)
  OBVIOUS
<1>3. m \in Int /\ m <= Len(s)
  BY <1>1, <1>2 DEF Shorter
<1>4. CASE m < 1
  BY <1>2, <1>3, <1>4, SubSeqEmpty, EmptySeq DEF Cut
<1>5. CASE m >= 1
  <2>1. SubSeq(s, 1, m) \in Seq(X)
    BY <1>1, <1>3, <1>5, SubSeqProperties
  <2>. QED
    BY <1>2, <2>1 DEF Cut
<1>. QED
  BY <1>3, <1>4, <1>5

LEMMA SteppedType ==
  ASSUME NEW path \in Seq(Components), NEW component \in Components
  PROVE  Stepped(path, component) \in Seq(Components)
<1>1. Len(path) - 1 \in Int
  BY LenProperties
<1>2. Cut(path, Len(path) - 1) \in Seq(Components)
  BY <1>1, CutType
<1>3. Append(path, component) \in Seq(Components)
  BY AppendProperties
<1>. QED
  BY <1>2, <1>3 DEF Stepped

\* Where files are, no component is of the kind that a walk treats apart.
LEMMA TruePathFacts ==
  /\ TruePaths \subseteq Seq(Components)
  /\ \A path \in TruePaths : \A i \in 1 .. Len(path) : path[i] \in STRING \ {"", ".", ".."}
  /\ Dirs \cup Files \subseteq TruePaths
  /\ Nowhere \notin Dirs \cup Files /\ Nowhere \in Seq(Components)
  /\ <<>> \in TruePaths
<1>1. \A path \in TruePaths : /\ path \in Seq(Components)
                               /\ \A i \in 1 .. Len(path) : path[i] \in STRING \ {"", ".", ".."}
  <2>1. TruePaths \subseteq Seq(Components)
    BY SeqMonotonic DEF TruePaths, Components
  <2>. QED
    BY <2>1, LenProperties DEF TruePaths
<1>2. Dirs \cup Files \subseteq TruePaths
  BY NamingAssumption DEF NamingAssumption
<1>3. Nowhere \in Seq(Components) /\ Len(Nowhere) = 1 /\ Nowhere[1] = ".."
  <2>1. Len(<<"..">>) = 1 /\ <<"..">>[1] = ".."
    OBVIOUS
  <2>2. ".." \in Components
    BY DEF Components
  <2>3. <<"..">> \in Seq(Components)
    BY <2>2
  <2>. QED
    BY <2>1, <2>3 DEF Nowhere
<1>4. Nowhere \notin TruePaths
  <2>1. SUFFICES ASSUME Nowhere \in TruePaths PROVE FALSE
    OBVIOUS
  <2>2. 1 \in 1 .. Len(Nowhere)
    BY <1>3
  <2>. QED
    BY <1>1, <1>3, <2>1, <2>2
<1>5. <<>> \in TruePaths
  BY EmptySeq DEF TruePaths
<1>. QED
  BY <1>1, <1>2, <1>3, <1>4, <1>5

LEMMA EnteredType ==
  ASSUME NEW at, NEW component \in Components
  PROVE  Entered(at, component) \in Seq(Components)
<1>1. CASE at \notin Dirs
  BY <1>1, TruePathFacts DEF Entered
<1>2. CASE at \in Dirs
  <2>1. at \in Seq(Components)
    BY <1>2, TruePathFacts
  <2>2. Len(at) - 1 \in Int
    BY <2>1, LenProperties
  <2>3. Cut(at, Len(at) - 1) \in Seq(Components)
    BY <2>1, <2>2, CutType
  <2>4. Append(at, component) \in Seq(Components)
    BY <2>1, AppendProperties
  <2>. QED
    BY <1>2, <2>1, <2>3, <2>4, TruePathFacts DEF Entered
<1>. QED
  BY <1>1, <1>2

\* What Stepped goes through, from a beginning.
IsNormalizing(f, start, name) ==
  /\ f[0] = start
  /\ \A i \in 1 .. Len(name) : f[i] = Stepped(f[i - 1], name[i])

LEMMA NormalizeSteps ==
  ASSUME NEW name \in Seq(Components)
  PROVE  \E f : IsNormalizing(f, <<>>, name) /\ Normalize(name) = f[Len(name)]
<1> DEFINE A == Seq(Components)
           n == Len(name)
           F == [p \in A \X (1 .. n) |-> Stepped(p[1], name[p[2]])]
           Eq(h) == h = [s \in SUBSET DOMAIN name |->
                           IF s = {} THEN <<>> ELSE Stepped(h[s \ {Max(s)}], name[Max(s)])]
           h == CHOOSE x : Eq(x)
<1>1. n \in Nat /\ DOMAIN name = 1 .. n /\ (\A i \in 1 .. n : name[i] \in Components) /\ <<>> \in A
  BY LenProperties, EmptySeq
<1>2. Normalize(name) = h[DOMAIN name]
  BY DEF Normalize, FoldLeft, MapThenFoldSet
<1>. HIDE DEF n
<1>3. \A b \in A, i \in 1 .. n : Stepped(b, name[i]) \in A
  BY <1>1, SteppedType
<1>. HIDE DEF A
<1>4. F \in [A \X (1 .. n) -> A] /\ \A b \in A, i \in 1 .. n : F[<<b, i>>] = Stepped(b, name[i])
  BY <1>3
<1>. HIDE DEF F
<1>5. PICK k \in [SUBSET (1 .. n) -> A] : FoldsDown(k, n, F, <<>>)
  BY <1>1, <1>4, FoldsDownExists
<1>6. Eq(k)
  <2>1. k = [s \in SUBSET (1 .. n) |-> k[s]]
    BY <1>5
  <2>2. ASSUME NEW s \in SUBSET (1 .. n)
        PROVE  k[s] = IF s = {} THEN <<>> ELSE Stepped(k[s \ {Max(s)}], name[Max(s)])
    <3>1. k[s] = IF s = {} THEN <<>> ELSE F[<<k[s \ {Max(s)}], Max(s)>>]
      BY <1>5, Zenon DEF FoldsDown
    <3>2. CASE s = {}
      BY <3>1, <3>2
    <3>3. CASE s # {}
      <4>1. Max(s) \in s
        <5>1. s \in SUBSET (0 .. n)
          OBVIOUS
        <5>. QED
          BY <1>1, <3>3, <5>1, LargestNumber
      <4>2. PICK m \in 1 .. n, r \in SUBSET (1 .. n) : m = Max(s) /\ r = s \ {Max(s)}
        BY <4>1
      <4>3. k[r] \in A
        BY <1>5
      <4>4. F[<<k[r], m>>] = Stepped(k[r], name[m])
        BY <1>4, <4>3
      <4>. QED
        BY <3>1, <3>3, <4>2, <4>4
    <3>. QED
      BY <3>2, <3>3
  <2>. QED
    BY <1>1, <2>1, <2>2, Zenon
<1>7. Eq(h)
  BY <1>6, Zenon
<1>. HIDE DEF h
<1>8. \A s \in SUBSET (1 .. n) :
        h[s] = IF s = {} THEN <<>> ELSE Stepped(h[s \ {Max(s)}], name[Max(s)])
  BY <1>1, <1>7, Zenon
<1>9. h[{}] = <<>>
  <2>1. {} \in SUBSET (1 .. n)
    OBVIOUS
  <2>. QED
    BY <1>8, <2>1, Zenon
<1>10. ASSUME NEW i \in 1 .. n PROVE h[1 .. i] = Stepped(h[1 .. i - 1], name[i])
  <2>1. PICK s, r : /\ s = 1 .. i /\ s # {} /\ r = 1 .. i - 1
                    /\ Max(s) = i /\ s \ {i} = r /\ s \in SUBSET (1 .. n)
    <3>1. /\ 1 .. i \in SUBSET (1 .. n) /\ 1 .. i # {}
          /\ Max(1 .. i) = i /\ (1 .. i) \ {i} = 1 .. i - 1
      BY <1>1, PrefixLast
    <3>. QED
      BY <3>1
  <2>2. h[s] = Stepped(h[s \ {Max(s)}], name[Max(s)])
    BY <1>8, <2>1, Zenon
  <2>. QED
    BY <2>1, <2>2
<1> DEFINE f == [i \in 0 .. n |-> h[1 .. i]]
<1>11. f[0] = <<>>
  <2>1. 0 \in 0 .. n /\ 1 .. 0 = {}
    BY <1>1
  <2>. QED
    BY <1>9, <2>1
<1>12. ASSUME NEW i \in 1 .. n PROVE f[i] = Stepped(f[i - 1], name[i])
  <2>1. i \in 0 .. n /\ i - 1 \in 0 .. n
    BY <1>1
  <2>2. f[i] = h[1 .. i] /\ f[i - 1] = h[1 .. i - 1]
    BY <2>1
  <2>. QED
    BY <1>10, <2>2
<1>13. Normalize(name) = f[n]
  BY <1>1, <1>2
<1>. HIDE DEF f
<1>. QED
  BY <1>11, <1>12, <1>13 DEF IsNormalizing, n

\* What Entered goes through, from a beginning.
IsWalk(f, start, name) ==
  /\ f[0] = start
  /\ \A i \in 1 .. Len(name) : f[i] = Entered(f[i - 1], name[i])

LEMMA WalkSteps ==
  ASSUME NEW start, NEW name \in Seq(Components)
  PROVE  \E f : IsWalk(f, start, name) /\ Walk(start, name) = f[Len(name)]
<1> DEFINE A == Seq(Components) \cup {start}
           n == Len(name)
           F == [p \in A \X (1 .. n) |-> Entered(p[1], name[p[2]])]
           Eq(h) == h = [s \in SUBSET DOMAIN name |->
                           IF s = {} THEN start ELSE Entered(h[s \ {Max(s)}], name[Max(s)])]
           h == CHOOSE x : Eq(x)
<1>1. n \in Nat /\ DOMAIN name = 1 .. n /\ (\A i \in 1 .. n : name[i] \in Components) /\ start \in A
  BY LenProperties, EmptySeq
<1>2. Walk(start, name) = h[DOMAIN name]
  BY DEF Walk, FoldLeft, MapThenFoldSet
<1>. HIDE DEF n
<1>3. \A b \in A, i \in 1 .. n : Entered(b, name[i]) \in A
  BY <1>1, EnteredType
<1>. HIDE DEF A
<1>4. F \in [A \X (1 .. n) -> A] /\ \A b \in A, i \in 1 .. n : F[<<b, i>>] = Entered(b, name[i])
  BY <1>3
<1>. HIDE DEF F
<1>5. PICK k \in [SUBSET (1 .. n) -> A] : FoldsDown(k, n, F, start)
  BY <1>1, <1>4, FoldsDownExists
<1>6. Eq(k)
  <2>1. k = [s \in SUBSET (1 .. n) |-> k[s]]
    BY <1>5
  <2>2. ASSUME NEW s \in SUBSET (1 .. n)
        PROVE  k[s] = IF s = {} THEN start ELSE Entered(k[s \ {Max(s)}], name[Max(s)])
    <3>1. k[s] = IF s = {} THEN start ELSE F[<<k[s \ {Max(s)}], Max(s)>>]
      BY <1>5, Zenon DEF FoldsDown
    <3>2. CASE s = {}
      BY <3>1, <3>2
    <3>3. CASE s # {}
      <4>1. Max(s) \in s
        <5>1. s \in SUBSET (0 .. n)
          OBVIOUS
        <5>. QED
          BY <1>1, <3>3, <5>1, LargestNumber
      <4>2. PICK m \in 1 .. n, r \in SUBSET (1 .. n) : m = Max(s) /\ r = s \ {Max(s)}
        BY <4>1
      <4>3. k[r] \in A
        BY <1>5
      <4>4. F[<<k[r], m>>] = Entered(k[r], name[m])
        BY <1>4, <4>3
      <4>. QED
        BY <3>1, <3>3, <4>2, <4>4
    <3>. QED
      BY <3>2, <3>3
  <2>. QED
    BY <1>1, <2>1, <2>2, Zenon
<1>7. Eq(h)
  BY <1>6, Zenon
<1>. HIDE DEF h
<1>8. \A s \in SUBSET (1 .. n) :
        h[s] = IF s = {} THEN start ELSE Entered(h[s \ {Max(s)}], name[Max(s)])
  BY <1>1, <1>7, Zenon
<1>9. h[{}] = start
  <2>1. {} \in SUBSET (1 .. n)
    OBVIOUS
  <2>. QED
    BY <1>8, <2>1, Zenon
<1>10. ASSUME NEW i \in 1 .. n PROVE h[1 .. i] = Entered(h[1 .. i - 1], name[i])
  <2>1. PICK s, r : /\ s = 1 .. i /\ s # {} /\ r = 1 .. i - 1
                    /\ Max(s) = i /\ s \ {i} = r /\ s \in SUBSET (1 .. n)
    <3>1. /\ 1 .. i \in SUBSET (1 .. n) /\ 1 .. i # {}
          /\ Max(1 .. i) = i /\ (1 .. i) \ {i} = 1 .. i - 1
      BY <1>1, PrefixLast
    <3>. QED
      BY <3>1
  <2>2. h[s] = Entered(h[s \ {Max(s)}], name[Max(s)])
    BY <1>8, <2>1, Zenon
  <2>. QED
    BY <2>1, <2>2
<1> DEFINE f == [i \in 0 .. n |-> h[1 .. i]]
<1>11. f[0] = start
  <2>1. 0 \in 0 .. n /\ 1 .. 0 = {}
    BY <1>1
  <2>. QED
    BY <1>9, <2>1
<1>12. ASSUME NEW i \in 1 .. n PROVE f[i] = Entered(f[i - 1], name[i])
  <2>1. i \in 0 .. n /\ i - 1 \in 0 .. n
    BY <1>1
  <2>2. f[i] = h[1 .. i] /\ f[i - 1] = h[1 .. i - 1]
    BY <2>1
  <2>. QED
    BY <1>10, <2>2
<1>13. Walk(start, name) = f[n]
  BY <1>1, <1>2
<1>. HIDE DEF f
<1>. QED
  BY <1>11, <1>12, <1>13 DEF IsWalk, n

LEMMA EnteredSteps ==
  ASSUME NEW at, NEW component, Entered(at, component) # Nowhere
  PROVE  at \in Dirs /\ Entered(at, component) = Stepped(at, component)
BY DEF Entered, Stepped

LEMMA BeginningOf ==
  ASSUME NEW X, NEW s \in Seq(X), NEW i \in 0 .. Len(s)
  PROVE  /\ SubSeq(s, 1, i) \in Seq(X) /\ Len(SubSeq(s, 1, i)) = i
         /\ \A j \in 1 .. i : SubSeq(s, 1, i)[j] = s[j]
<1>1. Len(s) \in Nat /\ \A j \in 1 .. Len(s) : s[j] \in X
  BY LenProperties
<1>2. i \in Int /\ \A j \in 1 .. i : s[j] \in X
  BY <1>1
<1>3. PICK u : u = SubSeq(s, 1, i)
  OBVIOUS
<1>4. /\ u \in Seq(X) /\ Len(u) = IF 1 <= i THEN i - 1 + 1 ELSE 0
      /\ \A j \in 1 .. i - 1 + 1 : u[j] = s[1 + j - 1]
  BY <1>2, <1>3, SubSeqProperties
<1>5. Len(u) = i /\ \A j \in 1 .. i : u[j] = s[j]
  BY <1>1, <1>4
<1>. QED
  BY <1>3, <1>4, <1>5

\* A true path that a name begins with is what its first components come to.
LEMMA TrueBeginning ==
  ASSUME NEW t \in TruePaths, NEW q \in Seq(Components), Len(t) <= Len(q),
         \A i \in 1 .. Len(t) : q[i] = t[i],
         NEW f, IsNormalizing(f, <<>>, q)
  PROVE  f[Len(t)] = t
<1>1. /\ t \in Seq(Components) /\ Len(t) \in Nat /\ Len(q) \in Nat
      /\ \A i \in 1 .. Len(t) : t[i] \in Components /\ t[i] \notin {"", ".", ".."}
  BY TruePathFacts, LenProperties
<1>2. PICK n \in Nat : n = Len(t)
  BY <1>1
<1>3. \A i \in 1 .. n : i \in 1 .. Len(q)
  <2>1. PICK m \in Nat : m = Len(q)
    BY <1>1
  <2>2. n <= m
    BY <1>2, <2>1
  <2>3. \A i \in 1 .. n : i \in 1 .. m
    BY <2>2
  <2>. QED
    BY <2>1, <2>3
<1> DEFINE T == {i \in Nat : i <= n => f[i] = SubSeq(t, 1, i)}
<1>4. 0 \in T
  <2>1. f[0] = <<>>
    BY DEF IsNormalizing
  <2>2. SubSeq(t, 1, 0) = <<>>
    BY SubSeqEmpty
  <2>. QED
    BY <2>1, <2>2
<1>5. ASSUME NEW i \in Nat, i \in T PROVE i + 1 \in T
  <2>1. SUFFICES ASSUME i + 1 <= n PROVE f[i + 1] = SubSeq(t, 1, i + 1)
    OBVIOUS
  <2>2. i + 1 \in 1 .. n /\ i + 1 \in 0 .. n /\ i \in 0 .. n /\ (i + 1) - 1 = i /\ i <= n
    BY <2>1
  <2>3. f[i + 1] = Stepped(f[i], t[i + 1])
    <3>1. i + 1 \in 1 .. Len(q) /\ q[i + 1] = t[i + 1]
      BY <1>2, <1>3, <2>2
    <3>. QED
      BY <2>2, <3>1 DEF IsNormalizing
  <2>4. f[i + 1] = Append(SubSeq(t, 1, i), t[i + 1])
    <3>1. f[i] = SubSeq(t, 1, i)
      BY <1>5, <2>2
    <3>2. t[i + 1] \notin {"", ".", ".."}
      BY <1>1, <1>2, <2>2
    <3>. QED
      BY <2>3, <3>1, <3>2 DEF Stepped
  <2>5. Append(SubSeq(t, 1, i), t[i + 1]) = SubSeq(t, 1, i + 1)
    <3> DEFINE a == SubSeq(t, 1, i)
               b == SubSeq(t, 1, i + 1)
               c == Append(a, t[i + 1])
    <3>1. a \in Seq(Components) /\ Len(a) = i /\ \A j \in 1 .. i : a[j] = t[j]
      BY <1>1, <1>2, <2>2, BeginningOf
    <3>2. b \in Seq(Components) /\ Len(b) = i + 1 /\ \A j \in 1 .. i + 1 : b[j] = t[j]
      BY <1>1, <1>2, <2>2, BeginningOf
    <3>3. t[i + 1] \in Components
      BY <1>1, <1>2, <2>2
    <3>. HIDE DEF a, b
    <3>4. /\ c \in Seq(Components) /\ Len(c) = i + 1
          /\ \A j \in 1 .. i : c[j] = a[j]
          /\ c[i + 1] = t[i + 1]
      BY <3>1, <3>3, AppendProperties
    <3>. HIDE DEF c
    <3>5. \A j \in 1 .. i + 1 : c[j] = b[j]
      <4>1. \A j \in 1 .. i + 1 : j \in 1 .. i \/ j = i + 1
        BY <1>5
      <4>. QED
        BY <3>1, <3>2, <3>4, <4>1
    <3>6. c = b
      BY <3>2, <3>4, <3>5, SeqEqual
    <3>. QED
      BY <3>6 DEF a, b, c
  <2>. QED
    BY <2>4, <2>5
<1>. HIDE DEF T
<1>6. n \in T
  BY <1>4, <1>5, AllNumbers
<1>7. SubSeq(t, 1, Len(t)) = t
  BY <1>1, SubSeqFull
<1>. QED
  BY <1>2, <1>6, <1>7 DEF T

LEMMA TruePathsNormal ==
  ASSUME NEW t \in TruePaths
  PROVE  Normalize(t) = t
<1>1. t \in Seq(Components) /\ Len(t) \in Nat
  BY TruePathFacts, LenProperties
<1>2. PICK f : IsNormalizing(f, <<>>, t) /\ Normalize(t) = f[Len(t)]
  BY <1>1, NormalizeSteps
<1>. QED
  BY <1>1, <1>2, TrueBeginning

\* A walk that arrives began at a place.
LEMMA WalkBegins ==
  ASSUME NEW start, NEW name \in Seq(Components), Walk(start, name) \in Dirs \cup Files
  PROVE  start \in Dirs \cup Files
<1>1. PICK w : IsWalk(w, start, name) /\ Walk(start, name) = w[Len(name)]
  BY WalkSteps
<1>2. Len(name) \in Nat /\ w[0] = start
  BY <1>1, LenProperties DEF IsWalk
<1>3. SUFFICES ASSUME start \notin Dirs PROVE start \in Files
  OBVIOUS
<1> DEFINE T == {i \in Nat : i \in 1 .. Len(name) => w[i] = Nowhere}
<1>4. 0 \in T
  OBVIOUS
<1>5. ASSUME NEW i \in Nat, i \in T PROVE i + 1 \in T
  <2>1. SUFFICES ASSUME i + 1 \in 1 .. Len(name) PROVE w[i + 1] = Nowhere
    OBVIOUS
  <2>2. (i + 1) - 1 = i /\ (i = 0 \/ i \in 1 .. Len(name))
    BY <1>2, <2>1
  <2>3. w[i + 1] = Entered(w[i], name[i + 1])
    BY <1>1, <2>1, <2>2 DEF IsWalk
  <2>4. w[i] \notin Dirs
    BY <1>2, <1>3, <1>5, <2>2, TruePathFacts
  <2>. QED
    BY <2>3, <2>4 DEF Entered
<1>. HIDE DEF T
<1>6. Len(name) \in T
  BY <1>2, <1>4, <1>5, AllNumbers
<1>7. Len(name) = 0 \/ w[Len(name)] = Nowhere
  BY <1>2, <1>6 DEF T
<1>. QED
  BY <1>1, <1>2, <1>3, <1>7, TruePathFacts

\* A walk that arrives, arrives where the name normalises to.
LEMMA WalkNormalizes ==
  ASSUME NEW start \in TruePaths, NEW name \in Seq(Components),
         Walk(start, name) \in Dirs \cup Files
  PROVE  Walk(start, name) = Normalize(start \o name)
<1>1. PICK w : IsWalk(w, start, name) /\ Walk(start, name) = w[Len(name)]
  BY WalkSteps
<1>2. start \in Seq(Components) /\ Len(start) \in Nat /\ Len(name) \in Nat
  BY TruePathFacts, LenProperties
<1>3. PICK q : q = start \o name
  OBVIOUS
<1>4. /\ q \in Seq(Components) /\ Len(q) = Len(start) + Len(name)
      /\ \A i \in 1 .. Len(start) + Len(name) :
           q[i] = IF i <= Len(start) THEN start[i] ELSE name[i - Len(start)]
  BY <1>2, <1>3, ConcatProperties
<1>5. PICK f : IsNormalizing(f, <<>>, q) /\ Normalize(q) = f[Len(q)]
  BY <1>4, NormalizeSteps
<1>6. f[Len(start)] = start
  <2>1. Len(start) <= Len(q) /\ \A i \in 1 .. Len(start) : q[i] = start[i]
    BY <1>2, <1>4
  <2>. QED
    BY <1>4, <1>5, <2>1, TrueBeginning
<1>7. ASSUME NEW i \in Nat, i + 1 \in 1 .. Len(name)
      PROVE  f[Len(start) + (i + 1)] = Stepped(f[Len(start) + i], name[i + 1])
  <2>1. PICK k \in 1 .. Len(q) : k = Len(start) + (i + 1)
    BY <1>2, <1>4, <1>7
  <2>2. k - 1 = Len(start) + i /\ ~(k <= Len(start)) /\ k - Len(start) = i + 1
    BY <1>2, <2>1
  <2>3. q[k] = name[i + 1]
    BY <1>4, <2>1, <2>2
  <2>4. f[k] = Stepped(f[k - 1], q[k])
    BY <1>5 DEF IsNormalizing
  <2>. QED
    BY <2>1, <2>2, <2>3, <2>4
<1> DEFINE T == {i \in Nat : i <= Len(name) => w[i] \in {Nowhere, f[Len(start) + i]}}
<1>8. 0 \in T
  <2>1. Len(start) + 0 = Len(start)
    BY <1>2
  <2>. QED
    BY <1>1, <1>6, <2>1 DEF IsWalk
<1>9. ASSUME NEW i \in Nat, i \in T PROVE i + 1 \in T
  <2>1. SUFFICES ASSUME i + 1 <= Len(name), w[i + 1] # Nowhere
                 PROVE  w[i + 1] = f[Len(start) + (i + 1)]
    OBVIOUS
  <2>2. i + 1 \in 1 .. Len(name) /\ (i + 1) - 1 = i /\ i <= Len(name)
    BY <1>2, <2>1
  <2>3. w[i + 1] = Entered(w[i], name[i + 1])
    BY <1>1, <2>2 DEF IsWalk
  <2>4. w[i] \in Dirs /\ w[i + 1] = Stepped(w[i], name[i + 1])
    BY <2>1, <2>3, EnteredSteps
  <2>5. w[i] = f[Len(start) + i]
    BY <1>9, <2>2, <2>4, TruePathFacts
  <2>. QED
    BY <1>7, <2>2, <2>4, <2>5
<1>. HIDE DEF T
<1>10. Len(name) \in T
  BY <1>2, <1>8, <1>9, AllNumbers
<1>11. w[Len(name)] = f[Len(q)]
  <2>1. w[Len(name)] \in {Nowhere, f[Len(start) + Len(name)]}
    BY <1>2, <1>10 DEF T
  <2>. QED
    BY <1>1, <1>4, <2>1, TruePathFacts
<1>. QED
  BY <1>1, <1>3, <1>5, <1>11

\* What is below a root, without it.
LEMMA StrippedRoot ==
  ASSUME NEW root \in Seq(Components), NEW s \in Seq(Components)
  PROVE  StripRoot(root, root \o s) = s
<1>1. PICK q, n, m : q = root \o s /\ n = Len(root) /\ m = Len(s)
  OBVIOUS
<1>2. /\ q \in Seq(Components) /\ n \in Nat /\ m \in Nat /\ Len(q) = n + m
      /\ \A i \in 1 .. n + m : q[i] = IF i <= n THEN root[i] ELSE s[i - n]
  BY <1>1, ConcatProperties, LenProperties
<1>3. \A i \in 1 .. n + m : q[i] \in Components
  BY <1>2, LenProperties
<1>4. SubSeq(q, 1, n) = root
  <2>1. PICK u : u = SubSeq(q, 1, n)
    OBVIOUS
  <2>2. \A i \in 1 .. n : q[i] \in Components
    BY <1>2, <1>3
  <2>3. u \in Seq(Components) /\ Len(u) = n /\ \A i \in 1 .. n : u[i] = q[1 + i - 1]
    BY <1>2, <2>1, <2>2, SubSeqProperties
  <2>4. \A i \in 1 .. n : u[i] = root[i]
    BY <1>2, <2>3
  <2>. QED
    BY <1>1, <2>1, <2>3, <2>4, SeqEqual
<1>5. SubSeq(q, n + 1, n + m) = s
  <2>1. PICK u : u = SubSeq(q, n + 1, n + m)
    OBVIOUS
  <2>2. \A i \in n + 1 .. n + m : q[i] \in Components
    BY <1>2, <1>3
  <2>3. n + 1 \in Int /\ n + m \in Int
    BY <1>2
  <2>4. /\ u \in Seq(Components)
        /\ Len(u) = IF n + 1 <= n + m THEN (n + m) - (n + 1) + 1 ELSE 0
        /\ \A i \in 1 .. (n + m) - (n + 1) + 1 : u[i] = q[(n + 1) + i - 1]
    BY <2>1, <2>2, <2>3, SubSeqProperties
  <2>5. Len(u) = m /\ (n + m) - (n + 1) + 1 = m
    BY <1>2, <2>4
  <2>6. \A i \in 1 .. m : u[i] = s[i]
    BY <1>2, <2>4, <2>5
  <2>. QED
    BY <1>1, <2>1, <2>4, <2>5, <2>6, SeqEqual
<1>6. SubSeq(root, 1, n) = root
  BY <1>1, SubSeqFull
<1>7. IsPrefix(root, q)
  BY <1>1, <1>2, <1>4, <1>6 DEF IsPrefix
<1>. QED
  BY <1>1, <1>2, <1>5, <1>7 DEF StripRoot

LEMMA StrippedRootOf ==
  ASSUME NEW root \in Seq(Components), NEW base \in Seq(Components), NEW name \in Seq(Components)
  PROVE  StripRoot(root, (root \o base) \o name) = base \o name
<1>1. (root \o base) \o name = root \o (base \o name)
  BY ConcatAssociative
<1>2. base \o name \in Seq(Components)
  BY ConcatProperties
<1>. QED
  BY <1>1, <1>2, StrippedRoot

\* No link leads to a place when there is none.
LEMMA NoLinkIsNoPlace ==
  ASSUME NEW root \in TruePaths
  PROVE  StripRoot(root, NoLink) \notin Dirs \cup Files
<1>1. PICK one \in Nat : one = 1
  OBVIOUS
<1>2. root \in Seq(Components) /\ Len(root) \in Nat
  BY TruePathFacts, LenProperties
<1>3. PICK n \in Nat : n = Len(root)
  BY <1>2
<1>4. PICK q : q = NoLink
  OBVIOUS
<1>5. q \in Seq({""}) /\ Len(q) = one /\ q[one] = ""
  <2>1. <<"">> \in Seq({""}) /\ Len(<<"">>) = 1 /\ <<"">>[1] = ""
    OBVIOUS
  <2>. QED
    BY <1>1, <1>4, <2>1 DEF NoLink
<1>6. one \in 1 .. one
  BY <1>1
<1>7. q \notin Dirs \cup Files /\ (one \in 1 .. n => root[one] # "")
  BY <1>3, <1>5, <1>6, TruePathFacts
<1>8. SubSeq(q, 1, one) = q /\ SubSeq(root, 1, n) = root
  BY <1>2, <1>3, <1>5, SubSeqFull
<1>9. IsPrefix(root, q) => n = 0
  <2>1. SUFFICES ASSUME IsPrefix(root, q), n # 0 PROVE FALSE
    OBVIOUS
  <2>2. n <= one /\ SubSeq(root, 1, n) = SubSeq(q, 1, n)
    BY <1>3, <1>5, <2>1 DEF IsPrefix
  <2>3. n = one
    BY <1>1, <2>1, <2>2
  <2>. QED
    BY <1>5, <1>6, <1>7, <1>8, <2>2, <2>3
<1>10. n = 0 => SubSeq(q, n + 1, Len(q)) = q
  <2>1. n = 0 => n + 1 = 1
    OBVIOUS
  <2>. QED
    BY <1>5, <1>8, <2>1
<1>11. StripRoot(root, q) = q
  BY <1>3, <1>9, <1>10 DEF StripRoot
<1>. QED
  BY <1>4, <1>7, <1>11

\* A record without flags holds the name that the process passed.
LEMMA RecordedName ==
  ASSUME NEW name \in Seq(STRING), NEW readable \in BOOLEAN, NEW left,
         NEW record, record = OpenRecord(OpenArgs(name, readable, left)), record.flags = {}
  PROVE  NameIn(record) = name
<1>1. PICK n, read, args :
        /\ n = Len(name)
        /\ read = IF readable THEN Cut(name, MaxNameLen + 1) ELSE <<>>
        /\ args = OpenArgs(name, readable, left)
  OBVIOUS
<1>2. n \in Nat /\ MaxNameLen \in Nat /\ \A i \in 1 .. n : name[i] \in STRING
  BY <1>1, LenProperties, PathNamesAssumption DEF PathNamesAssumption
<1>3. /\ args.length = Shorter(Len(read), MaxNameLen)
      /\ args.fname = Overwritten(read, left)
      /\ args.flags = IF ~readable THEN {"read_failed"}
                      ELSE IF Len(read) > MaxNameLen THEN {"truncated"} ELSE {}
  BY <1>1 DEF OpenArgs
<1>4. /\ record.length = args.length
      /\ record.flags = args.flags
      /\ record.fname = [i \in 1 .. MaxNameLen |->
                           IF i <= args.length THEN args.fname[i] ELSE Nul]
  BY <1>1 DEF OpenRecord, OpenArgs
<1>5. readable /\ ~(Len(read) > MaxNameLen)
  BY <1>3, <1>4
<1>6. PICK k \in Int : k = Shorter(n, MaxNameLen + 1) /\ k \in 0 .. n
  BY <1>2 DEF Shorter
<1>7. read = SubSeq(name, 1, k)
  BY <1>1, <1>5, <1>6 DEF Cut
<1>8. Len(read) = k
  BY <1>1, <1>6, <1>7, BeginningOf
<1>9. k = n /\ n <= MaxNameLen
  BY <1>2, <1>5, <1>6, <1>8 DEF Shorter
<1>10. read = name
  BY <1>1, <1>7, <1>9, SubSeqFull
<1>11. record.length = n
  BY <1>1, <1>2, <1>3, <1>4, <1>9, <1>10 DEF Shorter
<1>12. \A i \in 1 .. n : record.fname[i] = name[i]
  BY <1>1, <1>2, <1>3, <1>4, <1>9, <1>10, <1>11 DEF Overwritten
<1>13. PICK u : u = NameIn(record) /\ u = SubSeq(record.fname, 1, n)
  BY <1>11 DEF NameIn
<1>14. /\ u \in Seq(STRING) /\ Len(u) = IF 1 <= n THEN n - 1 + 1 ELSE 0
       /\ \A i \in 1 .. n - 1 + 1 : u[i] = record.fname[1 + i - 1]
  <2>1. \A i \in 1 .. n : record.fname[i] \in STRING
    BY <1>2, <1>12
  <2>. QED
    BY <1>2, <1>13, <2>1, SubSeqProperties
<1>15. Len(u) = n /\ \A i \in 1 .. n : u[i] = name[i]
  BY <1>2, <1>12, <1>14
<1>. QED
  BY <1>1, <1>13, <1>14, <1>15, SeqEqual

--------------------------------------------------------------------------------
\* Where processes are, and what the opens in the queue were about.

\* What a descriptor of a process of a home may lead to.
Behind(home) ==
  {NoLink} \cup program.pseudo \cup {RootOf[home] \o path : path \in Dirs \cup Files}

\* A process works in a directory below its root, and its files are below it.
PlacesOK ==
  /\ links \in [Pids -> [Fds -> UNION {Behind(home) : home \in Homes}]]
  /\ \A pid \in Pids :
       IF Alive(pid)
       THEN /\ procs[pid].home \in Homes
            /\ \E dir \in TruePaths : procs[pid].cwd = Root(pid) \o dir
            /\ \A fd \in Fds : links[pid][fd] \in Behind(procs[pid].home)
       ELSE links[pid] = NoLinks

\* An open whose name is known whole was one of the file that the name spells, from
\* the root or from the directory where it began.
SubjectOK(e) ==
  LET name == NameIn(e.record)
      subject == e.subject
  IN  /\ subject.path \in Dirs \cup Files
      /\ e.record.flags = {} =>
           /\ name \in Seq(Components)
           /\ IF IsAbsolute(name) THEN subject.path = Normalize(name)
              ELSE \E base \in TruePaths :
                     /\ subject.base = RootOf[subject.home] \o base
                     /\ subject.path = Normalize(base \o name)

\* The opens of an image are opens in its home.
SubjectsOK ==
  \A i \in DOMAIN events :
    LET e == events[i]
    IN  e.kind = "Open" =>
          /\ SubjectOK(e)
          /\ Alive(e.pid) /\ e.image = images[e.pid] => e.subject.home = procs[e.pid].home

\* The strengthening of ShownPathsAreTrue that every step preserves.
PathsInv == NamesInv /\ PlacesOK /\ SubjectsOK /\ ShownPathsAreTrue

LEMMA RootFacts ==
  ASSUME NEW home \in Homes
  PROVE  /\ RootOf[home] \in TruePaths
         /\ RootOf[home] \o <<>> = RootOf[home]
         /\ \A path \in TruePaths : StripRoot(RootOf[home], RootOf[home] \o path) = path
<1>1. RootOf[home] \in TruePaths
  BY NamingAssumption DEF NamingAssumption
<1>2. RootOf[home] \in Seq(Components) /\ TruePaths \subseteq Seq(Components)
  BY <1>1, TruePathFacts
<1>. QED
  BY <1>1, <1>2, ConcatEmptySeq, StrippedRoot

LEMMA LowestIsFree ==
  ASSUME NEW pid, Free(pid) # {}
  PROVE  LowestFree(pid) \in Fds
<1>1. Free(pid) \subseteq Fds /\ Fds \subseteq Nat
  BY NamingAssumption DEF Free, Fds, NamingAssumption
<1>2. \E fd \in Free(pid) : \A other \in Free(pid) : fd <= other
  BY <1>1, LeastNumber
<1>. QED
  BY <1>1, <1>2 DEF LowestFree

\* What a process opens is what the name in its record spells.
LEMMA OpenedSubject ==
  ASSUME PlacesOK, DiscoveryOK, NEW pid \in Pids, NEW open \in program.opens, NEW left,
         Open(pid, open.name, open.dirfd, open.readable, left),
         NEW e, e.record = OpenRecord(OpenArgs(open.name, open.readable, left)),
         NEW target, NEW base,
         base = Base(pid, open.dirfd),
         target = Walk(IF IsAbsolute(open.name) THEN <<>> ELSE StripRoot(Root(pid), base),
                       open.name),
         target \in Dirs \cup Files,
         e.subject = [home |-> procs[pid].home, path |-> target, base |-> base]
  PROVE  SubjectOK(e)
<1>1. PICK name : name = open.name
  OBVIOUS
<1>2. /\ name \in Seq(STRING) /\ open.readable \in BOOLEAN
      /\ open.dirfd \in Fds \cup {AtFdCwd}
      /\ Seq(STRING) \subseteq Seq(Components)
  <2>1. Seq(STRING) \subseteq Seq(Components)
    BY SeqMonotonic DEF Components
  <2>. QED
    BY <1>1, <2>1, NamingAssumption DEF DiscoveryOK, NamingAssumption
<1>3. PICK home : home = procs[pid].home
  OBVIOUS
<1>4. /\ Alive(pid) /\ home \in Homes /\ Root(pid) = RootOf[home]
      /\ \E dir \in TruePaths : procs[pid].cwd = RootOf[home] \o dir
      /\ \A fd \in Fds : links[pid][fd] \in Behind(home)
  BY <1>3 DEF PlacesOK, Open, Root
<1>5. CASE IsAbsolute(name)
  <2>1. target = Normalize(<<>> \o name)
    BY <1>1, <1>2, <1>5, WalkNormalizes, TruePathFacts
  <2>2. target = Normalize(name)
    BY <1>2, <2>1, ConcatEmptySeq
  <2>3. e.record.flags = {} => NameIn(e.record) = name
    BY <1>1, <1>2, RecordedName
  <2>. QED
    BY <1>2, <1>5, <2>2, <2>3 DEF SubjectOK
<1>6. CASE ~IsAbsolute(name)
  <2>1. PICK start : start = StripRoot(RootOf[home], base)
    OBVIOUS
  <2>2. target = Walk(start, name) /\ start \in Dirs \cup Files
    BY <1>1, <1>2, <1>4, <1>6, <2>1, WalkBegins
  <2>3. start \in TruePaths /\ base = RootOf[home] \o start
    <3>1. CASE open.dirfd = AtFdCwd
      BY <1>4, <2>1, <3>1, RootFacts DEF Base
    <3>2. CASE open.dirfd # AtFdCwd
      <4>1. base \in Behind(home)
        BY <1>2, <1>4, <3>2 DEF Base
      <4>2. base # NoLink
        BY <1>4, <2>1, <2>2, RootFacts, NoLinkIsNoPlace
      <4>3. base \notin program.pseudo
        BY <1>4, <2>1, <2>2, NamingAssumption DEF DiscoveryOK, NamingAssumption
      <4>4. PICK path \in Dirs \cup Files : base = RootOf[home] \o path
        BY <4>1, <4>2, <4>3 DEF Behind
      <4>. QED
        BY <1>4, <2>1, <4>4, RootFacts, TruePathFacts
    <3>. QED
      BY <3>1, <3>2
  <2>4. target = Normalize(start \o name)
    BY <1>2, <2>2, <2>3, WalkNormalizes
  <2>5. e.record.flags = {} => NameIn(e.record) = name
    BY <1>1, <1>2, RecordedName
  <2>6. \E place \in TruePaths : /\ e.subject.base = RootOf[e.subject.home] \o place
                                 /\ e.subject.path = Normalize(place \o name)
    <3>1. e.subject.home = home /\ e.subject.base = base /\ e.subject.path = target
      BY <1>3
    <3>2. start \in TruePaths /\ base = RootOf[home] \o start /\ target = Normalize(start \o name)
      BY <2>3, <2>4
    <3>. QED
      BY <3>1, <3>2, Zenon
  <2>7. e.subject.path \in Dirs \cup Files /\ name \in Seq(Components)
    BY <1>2
  <2>. QED
    BY <1>6, <2>5, <2>6, <2>7 DEF SubjectOK
<1>. QED
  BY <1>5, <1>6

\* A step that leaves processes and descriptors, and at most drops an event.
LEMMA SamePlaces ==
  ASSUME PlacesOK, UNCHANGED <<program, procs, links>>
  PROVE  PlacesOK'
<1>1. \A home : Behind(home)' = Behind(home)
  BY DEF Behind
<1>. QED
  BY <1>1 DEF PlacesOK, Alive, Root

LEMMA KernelKeepsPlaces ==
  ASSUME PlacesOK, NamesInv, NEW pid \in Pids, Kernel(pid)
  PROVE  PlacesOK'
<1> DEFINE Links == UNION {Behind(home) : home \in Homes}
<1>1. /\ program \in Programs /\ program' = program
      /\ DOMAIN procs = Pids
      /\ \A q \in Pids : procs[q] # Dead => DOMAIN procs[q] = {"home", "cwd"}
  BY DEF NamesInv, ProcessesOK, DiscoveryOK, Kernel, Calls, Start, Join, Exec, Exit, Chdir,
         OpenPseudo, Open, Close
<1>2. /\ links \in [Pids -> [Fds -> Links]]
      /\ \A q \in Pids :
           IF Alive(q)
           THEN /\ procs[q].home \in Homes
                /\ \E dir \in TruePaths : procs[q].cwd = Root(q) \o dir
                /\ \A fd \in Fds : links[q][fd] \in Behind(procs[q].home)
           ELSE links[q] = NoLinks
  BY DEF PlacesOK
<1>3. /\ program.homes \subseteq Homes
      /\ \A dir \in program.dirs : dir \in TruePaths
      /\ Host \in Homes /\ None \notin Homes
  BY <1>1, NamingAssumption DEF NamingAssumption, Homes
<1>4. \A home \in Homes : /\ NoLink \in Behind(home)
                          /\ program.pseudo \subseteq Behind(home)
                          /\ \A path \in Dirs \cup Files : RootOf[home] \o path \in Behind(home)
                          /\ Behind(home) \subseteq Links
                          /\ Behind(home)' = Behind(home)
  BY <1>1 DEF Behind
<1>5. NoLinks \in [Fds -> Links] /\ \A fd \in Fds : NoLinks[fd] = NoLink
  BY <1>3, <1>4 DEF NoLinks
<1>. HIDE DEF Links
\* All that is to be shown: of each process, what it is now, by itself.
<1>6. ASSUME links' \in [Pids -> [Fds -> Links]],
             \A q \in Pids :
               IF procs'[q] # Dead
               THEN /\ procs'[q].home \in Homes
                    /\ \E dir \in TruePaths : procs'[q].cwd = RootOf[procs'[q].home] \o dir
                    /\ \A fd \in Fds : links'[q][fd] \in Behind(procs'[q].home)
               ELSE links'[q] = NoLinks
      PROVE  PlacesOK'
  <2>1. Links' = Links
    BY <1>1 DEF Links, Behind
  <2>. QED
    BY <1>4, <1>6, <2>1 DEF PlacesOK, Alive, Root, Links
\* A process that starts or moves begins with nothing open, in its root.
<1>7. ASSUME NEW home \in Homes,
             procs' = [procs EXCEPT ![pid] = [home |-> home, cwd |-> RootOf[home]]],
             links' = [links EXCEPT ![pid] = NoLinks]
      PROVE  PlacesOK'
  <2>1. /\ procs'[pid] = [home |-> home, cwd |-> RootOf[home]]
        /\ links'[pid] = NoLinks
        /\ \A q \in Pids \ {pid} : procs'[q] = procs[q] /\ links'[q] = links[q]
        /\ links' \in [Pids -> [Fds -> Links]]
    BY <1>1, <1>2, <1>5, <1>7
  <2>2. procs'[pid].home = home /\ procs'[pid].cwd = RootOf[home]
    BY <2>1
  <2>3. \E dir \in TruePaths : procs'[pid].cwd = RootOf[procs'[pid].home] \o dir
    <3>1. RootOf[home] = RootOf[home] \o <<>> /\ <<>> \in TruePaths
      BY <1>7, RootFacts, TruePathFacts
    <3>. QED
      BY <2>2, <3>1
  <2>4. \A fd \in Fds : links'[pid][fd] \in Behind(procs'[pid].home)
    BY <1>4, <1>5, <2>1, <2>2
  <2>5. ASSUME NEW q \in Pids
        PROVE  IF procs'[q] # Dead
               THEN /\ procs'[q].home \in Homes
                    /\ \E dir \in TruePaths : procs'[q].cwd = RootOf[procs'[q].home] \o dir
                    /\ \A fd \in Fds : links'[q][fd] \in Behind(procs'[q].home)
               ELSE links'[q] = NoLinks
    <3>1. CASE q = pid
      BY <1>7, <2>1, <2>2, <2>3, <2>4, <3>1
    <3>2. CASE q # pid
      BY <1>2, <2>1, <3>2 DEF Alive, Root
    <3>. QED
      BY <3>1, <3>2
  <2>. QED
    BY <1>6, <2>1, <2>5
\* A descriptor of a process comes to lead elsewhere below its root.
<1>8. ASSUME procs' = procs, Alive(pid), NEW fd \in Fds, NEW link \in Behind(procs[pid].home),
             links' = [links EXCEPT ![pid][fd] = link]
      PROVE  PlacesOK'
  <2>1. link \in Links
    BY <1>2, <1>4, <1>8
  <2>2. /\ links' \in [Pids -> [Fds -> Links]]
        /\ \A q \in Pids, other \in Fds : links'[q][other] \in {links[q][other], link}
        /\ \A q \in Pids \ {pid} : links'[q] = links[q]
    BY <1>2, <1>8, <2>1
  <2>3. \A other \in Fds : links'[pid][other] \in Behind(procs[pid].home)
    BY <1>2, <1>8, <2>2
  <2>. QED
    BY <1>2, <1>6, <1>8, <2>2, <2>3 DEF Alive, Root
<1>9. ASSUME NEW home \in program.homes, Start(pid, home)
      PROVE  PlacesOK'
  <2>1. links[pid] = NoLinks
    BY <1>2, <1>9 DEF Start
  <2>2. links' = [links EXCEPT ![pid] = NoLinks]
    BY <1>2, <1>9, <2>1 DEF Start
  <2>. QED
    BY <1>3, <1>7, <1>9, <2>2 DEF Start
<1>10. ASSUME NEW container \in program.homes \ {Host}, Join(pid, container)
       PROVE  PlacesOK'
  BY <1>3, <1>7, <1>10 DEF Join
<1>11. CASE Exec(pid)
  BY <1>1, <1>11, SamePlaces DEF Exec
<1>12. CASE Exit(pid)
  <2>1. /\ procs'[pid] = Dead /\ links'[pid] = NoLinks
        /\ \A q \in Pids \ {pid} : procs'[q] = procs[q] /\ links'[q] = links[q]
        /\ links' \in [Pids -> [Fds -> Links]]
    BY <1>1, <1>2, <1>5, <1>12 DEF Exit
  <2>. QED
    BY <1>2, <1>6, <2>1 DEF Alive, Root
<1>13. ASSUME NEW dir \in program.dirs, Chdir(pid, dir)
       PROVE  PlacesOK'
  <2>1. /\ procs'[pid].home = procs[pid].home /\ procs'[pid].cwd = Root(pid) \o dir
        /\ procs[pid] # Dead
        /\ \A q \in Pids \ {pid} : procs'[q] = procs[q]
        /\ links' = links
    BY <1>1, <1>13 DEF Chdir, Alive
  <2>2. \A fd \in Fds : links'[pid][fd] \in Behind(procs'[pid].home)
    BY <1>2, <2>1 DEF Alive
  <2>3. procs'[pid].home \in Homes /\ Root(pid) = RootOf[procs'[pid].home]
    BY <1>2, <2>1 DEF Alive, Root
  <2>4. \E place \in TruePaths : procs'[pid].cwd = RootOf[procs'[pid].home] \o place
    BY <1>3, <2>1, <2>3
  <2>5. ASSUME NEW q \in Pids
        PROVE  IF procs'[q] # Dead
               THEN /\ procs'[q].home \in Homes
                    /\ \E place \in TruePaths : procs'[q].cwd = RootOf[procs'[q].home] \o place
                    /\ \A fd \in Fds : links'[q][fd] \in Behind(procs'[q].home)
               ELSE links'[q] = NoLinks
    <3>1. CASE q = pid
      BY <1>3, <2>2, <2>3, <2>4, <3>1, SMTT(60) DEF Dead
    <3>2. CASE q # pid
      BY <1>2, <2>1, <3>2 DEF Alive, Root
    <3>. QED
      BY <3>1, <3>2
  <2>. QED
    BY <1>2, <1>6, <2>1, <2>5
<1>14. ASSUME NEW link \in program.pseudo, OpenPseudo(pid, link)
       PROVE  PlacesOK'
  <2>1. /\ procs' = procs /\ Alive(pid) /\ LowestFree(pid) \in Fds
        /\ links' = [links EXCEPT ![pid][LowestFree(pid)] = link]
    BY <1>14, LowestIsFree DEF OpenPseudo
  <2>2. link \in Behind(procs[pid].home)
    BY <1>2, <1>4, <2>1
  <2>. QED
    BY <1>8, <2>1, <2>2
<1>15. ASSUME NEW name, NEW dirfd, NEW readable, NEW left, Open(pid, name, dirfd, readable, left)
       PROVE  PlacesOK'
  <2>1. PICK target \in Dirs \cup Files :
          /\ procs' = procs /\ Alive(pid) /\ LowestFree(pid) \in Fds
          /\ links' = [links EXCEPT ![pid][LowestFree(pid)] = Root(pid) \o target]
    BY <1>15, LowestIsFree DEF Open
  <2>2. Root(pid) \o target \in Behind(procs[pid].home)
    BY <1>2, <1>4, <2>1 DEF Root
  <2>. QED
    BY <1>8, <2>1, <2>2
<1>16. ASSUME NEW fd \in Fds, Close(pid, fd)
       PROVE  PlacesOK'
  <2>1. /\ procs' = procs /\ Alive(pid)
        /\ links' = [links EXCEPT ![pid][fd] = NoLink]
    BY <1>16 DEF Close
  <2>2. NoLink \in Behind(procs[pid].home)
    BY <1>2, <1>4, <2>1
  <2>. QED
    BY <1>8, <2>1, <2>2
<1>. QED
  BY <1>9, <1>10, <1>11, <1>12, <1>13, <1>14, <1>15, <1>16 DEF Kernel

LEMMA KeptSubjects ==
  ASSUME NamesInv, SubjectsOK, Kept, NEW e,
         events' = events \/ events' = Append(events, e),
         e.kind = "Open" => SubjectOK(e) /\ e.subject.home = procs'[e.pid].home
  PROVE  SubjectsOK'
<1>1. /\ IsQueue(events)
      /\ \A i \in DOMAIN events :
           events[i].kind = "Open" =>
             /\ events[i].pid \in Pids /\ events[i].image \in Nat
             /\ events[i].image <= images[events[i].pid]
             /\ ~Alive(events[i].pid) => events[i].image < images[events[i].pid]
  BY DEF NamesInv, QueueOK
<1>2. /\ images \in [Pids -> Nat] /\ images' \in [Pids -> Nat]
      /\ \A q \in Pids : images[q] <= images'[q]
      /\ \A q \in Pids : Alive(q) /\ images[q] = images'[q] => procs'[q].home = procs[q].home
  BY DEF NamesInv, ProcessesOK, Kept
<1>3. ASSUME NEW i \in DOMAIN events, events[i].kind = "Open"
      PROVE  /\ SubjectOK(events[i])
             /\ events[i].image = images'[events[i].pid] =>
                  events[i].subject.home = procs'[events[i].pid].home
  <2>1. PICK q \in Pids, n \in Nat : /\ q = events[i].pid /\ n = events[i].image
                                      /\ n <= images[q] /\ (~Alive(q) => n < images[q])
    BY <1>1, <1>3
  <2>2. n = images'[q] => images[q] = images'[q] /\ n = images[q] /\ Alive(q)
    BY <1>2, <2>1
  <2>. QED
    BY <1>2, <1>3, <2>1, <2>2 DEF SubjectsOK
<1>4. CASE events' = events
  BY <1>3, <1>4 DEF SubjectsOK
<1>5. CASE events' = Append(events, e)
  <2>1. /\ DOMAIN events' = 1 .. Len(events) + 1
        /\ Len(events) \in Nat /\ DOMAIN events = 1 .. Len(events)
        /\ \A i \in DOMAIN events : events'[i] = events[i]
        /\ events'[Len(events) + 1] = e
    BY <1>1, <1>5, AppendedQueue, QueueDomain
  <2>2. \A i \in DOMAIN events' : i \in DOMAIN events \/ i = Len(events) + 1
    BY <2>1
  <2>. QED
    BY <1>3, <2>1, <2>2 DEF SubjectsOK
<1>. QED
  BY <1>4, <1>5

LEMMA KernelKeepsSubjects ==
  ASSUME NamesInv, PlacesOK, SubjectsOK, NEW pid \in Pids, Kernel(pid)
  PROVE  SubjectsOK'
<1>1. Kept
  BY KernelKeepsNames
<1>2. ASSUME UNCHANGED events
      PROVE  SubjectsOK'
  <2>1. PICK e : e = [kind |-> "None"]
    OBVIOUS
  <2>. QED
    BY <1>1, <1>2, <2>1, KeptSubjects
<1>3. ASSUME NEW e, Emit(e), e.kind # "Open"
      PROVE  SubjectsOK'
  BY <1>1, <1>3, KeptSubjects DEF Emit
<1>4. ASSUME NEW open \in program.opens, NEW left,
             Open(pid, open.name, open.dirfd, open.readable, left)
      PROVE  SubjectsOK'
  <2> DEFINE name == open.name
             base == Base(pid, open.dirfd)
             target == Walk(IF IsAbsolute(name) THEN <<>> ELSE StripRoot(Root(pid), base), name)
             e == [kind |-> "Open", pid |-> pid, fd |-> LowestFree(pid), dirfd |-> open.dirfd,
                   record |-> OpenRecord(OpenArgs(name, open.readable, left)),
                   image |-> images[pid],
                   subject |-> [home |-> procs[pid].home, path |-> target, base |-> base]]
  <2>1. target \in Dirs \cup Files /\ Emit(e) /\ procs' = procs
    BY <1>4 DEF Open
  <2>2. DiscoveryOK
    BY DEF NamesInv
  <2>3. /\ e.pid = pid /\ e.record = OpenRecord(OpenArgs(name, open.readable, left))
        /\ e.subject = [home |-> procs[pid].home, path |-> target, base |-> base]
    OBVIOUS
  <2>. HIDE DEF e
  <2>4. SubjectOK(e)
    BY <1>4, <2>1, <2>2, <2>3, OpenedSubject
  <2>. QED
    BY <1>1, <2>1, <2>3, <2>4, KeptSubjects DEF Emit
<1>. QED
  BY <1>2, <1>3, <1>4 DEF Kernel, Start, Join, Exec, Exit, Chdir, OpenPseudo, Close, Lifecycle

LEMMA HandlingKeepsSubjects ==
  ASSUME NamesInv, SubjectsOK, events # <<>>, events' = Tail(events),
         UNCHANGED <<procs, images>>
  PROVE  SubjectsOK'
<1>1. /\ DOMAIN events' = 1 .. Len(events) - 1
      /\ Len(events) \in Nat \ {0} /\ DOMAIN events = 1 .. Len(events)
      /\ \A i \in DOMAIN events' : events'[i] = events[i + 1]
  BY RestOfQueue DEF NamesInv, QueueOK
<1>2. \A i \in DOMAIN events' : i + 1 \in DOMAIN events
  BY <1>1
<1>. QED
  BY <1>1, <1>2 DEF SubjectsOK, Alive

\* What is shown of an open when userspace is up to date.  A name that is relative
\* counts only where the link of the descriptor confirms it; so it does not matter
\* which of the two has stayed.
LEMMA ShownIsTrue ==
  ASSUME NamesInv, PlacesOK, NEW e, SubjectOK(e), e.pid \in Pids,
         Alive(e.pid) /\ e.image = images[e.pid] => e.subject.home = procs[e.pid].home,
         NEW place, place = Resolve(e), place # NotAFile, Showing(e, place).current
  PROVE  /\ place.space = "files" => place.path = e.subject.path
         /\ Resolved(e.pid) \in Labels(e.subject.home)
<1>1. PICK pid, home, path : pid = e.pid /\ home = procs[pid].home /\ path = e.subject.path
  OBVIOUS
<1>2. /\ pid \in Pids /\ Alive(pid) /\ heard[pid] = images[pid]
      /\ e.subject.home = home /\ home \in Homes /\ Root(pid) = RootOf[home]
      /\ path \in Dirs \cup Files
      /\ \/ IsAbsolute(NameIn(e.record))
         \/ BaseNow(e) = e.subject.base
         \/ links[pid][e.fd] = RootOf[home] \o path
  BY <1>1 DEF Showing, PlacesOK, Root, SubjectOK
<1>3. Resolved(pid) \in Labels(home)
  <2>1. Resolved(pid) = Label(names, home)
    BY <1>1, <1>2 DEF NamesInv, NamesAreOfThisProcess, Resolved, LookupPid
  <2>. QED
    BY <2>1 DEF NamesInv, DiscoveryOK, Labels
<1>4. KnownRoot(pid) = RootOf[home]
  BY <1>2 DEF NamesInv, NamesAreOfThisProcess, KnownRoot, ReadRoot
<1>5. ASSUME place.space = "files"
      PROVE  place.path = path
  <2> DEFINE name == NameIn(e.record)
  <2>1. /\ e.record.flags = {} /\ Kind(name) = "ordinary"
        /\ place = IF IsAbsolute(name) THEN ResolveAbsolute(e, name) ELSE ResolveRelative(e, name)
    BY <1>5 DEF Resolve, Unresolved, NotAFile, MemoryFile, Kind
  <2>2. CASE IsAbsolute(name)
    <3>1. place = FileAt(Normalize(name))
      BY <2>1, <2>2 DEF ResolveAbsolute
    <3>. QED
      BY <1>1, <2>1, <2>2, <3>1 DEF FileAt, SubjectOK
  <2>3. CASE ~IsAbsolute(name)
    <3>1. /\ place = FileAt(Normalize(StripRoot(RootOf[home], BaseNow(e) \o name)))
          /\ place = ProcTarget(pid, e.fd)
      BY <1>1, <1>4, <1>5, <2>1, <2>3 DEF ResolveRelative, Unresolved, NotAFile
    <3>2. PICK base \in TruePaths : /\ e.subject.base = RootOf[home] \o base
                                    /\ path = Normalize(base \o name)
                                    /\ name \in Seq(Components)
      BY <1>1, <1>2, <2>1, <2>3 DEF SubjectOK
    <3>3. CASE BaseNow(e) = e.subject.base
      <4>1. /\ RootOf[home] \in Seq(Components) /\ base \in Seq(Components)
            /\ name \in Seq(Components)
        BY <1>2, <3>2, RootFacts, TruePathFacts
      <4>2. StripRoot(RootOf[home], (RootOf[home] \o base) \o name) = base \o name
        BY <4>1, StrippedRootOf
      <4>. QED
        BY <3>1, <3>2, <3>3, <4>2 DEF FileAt
    <3>4. CASE links[pid][e.fd] = RootOf[home] \o path
      <4>1. place = FileAt(Normalize(StripRoot(RootOf[home], links[pid][e.fd])))
        BY <1>4, <1>5, <3>1 DEF ProcTarget, Missing, NotAFile, MemoryFile
      <4>2. path \in TruePaths
        BY <1>2, TruePathFacts
      <4>3. Normalize(StripRoot(RootOf[home], links[pid][e.fd])) = path
        BY <1>2, <3>4, <4>2, RootFacts, TruePathsNormal
      <4>. QED
        BY <4>1, <4>3 DEF FileAt
    <3>. QED
      BY <1>2, <2>3, <3>3, <3>4
  <2>. QED
    BY <2>2, <2>3
<1>. QED
  BY <1>1, <1>2, <1>3, <1>5

LEMMA HandleKeepsShown ==
  ASSUME NamesInv, PlacesOK, SubjectsOK, ShownPathsAreTrue, Handle
  PROVE  ShownPathsAreTrue'
<1>1. PICK e : e = Head(events)
  OBVIOUS
<1>2. /\ e = events[1] /\ 1 \in DOMAIN events /\ e.pid \in Pids
      /\ HandleOpen(e) \/ HandleClose(e) \/ HandleLifecycle(e)
  BY <1>1, RestOfQueue DEF Handle, NamesInv, QueueOK
<1>3. CASE UNCHANGED shown
  BY <1>3 DEF ShownPathsAreTrue
<1>4. CASE ~UNCHANGED shown
  <2>1. PICK place : /\ e.kind = "Open" /\ place = Resolve(e) /\ place # NotAFile
                     /\ shown' = Showing(e, place)
    BY <1>2, <1>4 DEF HandleOpen, HandleClose, HandleLifecycle
  <2>2. SubjectOK(e) /\ (Alive(e.pid) /\ e.image = images[e.pid] =>
                           e.subject.home = procs[e.pid].home)
    BY <1>2, <2>1 DEF SubjectsOK
  <2>3. Showing(e, place).current =>
          /\ place.space = "files" => place.path = e.subject.path
          /\ Resolved(e.pid) \in Labels(e.subject.home)
    BY <1>2, <2>1, <2>2, ShownIsTrue
  <2>4. /\ Showing(e, place).place = place /\ Showing(e, place).label = Resolved(e.pid)
        /\ Showing(e, place).subject = e.subject
    BY DEF Showing
  <2>. QED
    BY <2>1, <2>3, <2>4 DEF ShownPathsAreTrue
<1>. QED
  BY <1>3, <1>4

LEMMA PathsInvInitially == Init => PathsInv
<1>. SUFFICES ASSUME Init PROVE PathsInv
  OBVIOUS
<1>1. NamesInv
  BY NamesInvInitially
<1>2. PlacesOK
  <2>1. /\ program \in Programs /\ links = [pid \in Pids |-> NoLinks]
        /\ \A pid \in Pids : Alive(pid) =>
             \E home \in program.homes : procs[pid] = [home |-> home, cwd |-> RootOf[home]]
    BY DEF Init, Alive
  <2>2. program.homes \subseteq Homes /\ Host \in Homes
    BY <2>1, NamingAssumption DEF NamingAssumption, Homes
  <2>3. \A home \in Homes : NoLink \in Behind(home)
    BY DEF Behind
  <2>4. links \in [Pids -> [Fds -> UNION {Behind(home) : home \in Homes}]]
    BY <2>1, <2>2, <2>3 DEF NoLinks
  <2>5. ASSUME NEW pid \in Pids, Alive(pid)
        PROVE  /\ procs[pid].home \in Homes
               /\ \E dir \in TruePaths : procs[pid].cwd = Root(pid) \o dir
               /\ \A fd \in Fds : links[pid][fd] \in Behind(procs[pid].home)
    <3>1. PICK home \in Homes : procs[pid].home = home /\ procs[pid].cwd = RootOf[home]
      <4>1. PICK home \in Homes : procs[pid] = [home |-> home, cwd |-> RootOf[home]]
        BY <2>1, <2>2, <2>5
      <4>. QED
        BY <4>1
    <3>2. RootOf[home] = RootOf[home] \o <<>> /\ <<>> \in TruePaths
      BY RootFacts, TruePathFacts
    <3>. QED
      BY <2>1, <2>3, <3>1, <3>2 DEF Root, NoLinks
  <2>. QED
    BY <2>1, <2>4, <2>5 DEF PlacesOK
<1>3. SubjectsOK
  BY EmptyQueue DEF Init, SubjectsOK
<1>4. ShownPathsAreTrue
  BY DEF Init, Nothing, ShownPathsAreTrue
<1>. QED
  BY <1>1, <1>2, <1>3, <1>4 DEF PathsInv

LEMMA KernelShowsNothing ==
  ASSUME NEW pid, Kernel(pid)
  PROVE  UNCHANGED shown
<1>1. UNCHANGED stateVars
  BY DEF Kernel, Start, Join, Exec, Exit, Chdir, OpenPseudo, Open, Close
<1>. QED
  BY <1>1 DEF stateVars

LEMMA PathsInvKept == PathsInv /\ [Next]_vars => PathsInv'
<1>. SUFFICES ASSUME PathsInv, [Next]_vars PROVE PathsInv'
  OBVIOUS
<1>. USE DEF kernelVars, discoveryVars, stateVars
<1>1. NamesInv'
  BY NamesInvKept DEF PathsInv
<1>2. CASE \E pid \in Pids : Kernel(pid)
  <2>1. PlacesOK' /\ SubjectsOK'
    BY <1>2, KernelKeepsPlaces, KernelKeepsSubjects DEF PathsInv
  <2>2. UNCHANGED shown
    BY <1>2, KernelShowsNothing
  <2>. QED
    BY <1>1, <2>1, <2>2 DEF PathsInv, ShownPathsAreTrue
<1>3. CASE Handle
  <2>1. /\ events # <<>> /\ events' = Tail(events)
        /\ UNCHANGED <<program, procs, links, images>>
    BY <1>3 DEF Handle
  <2>. QED
    BY <1>1, <1>3, <2>1, SamePlaces, HandlingKeepsSubjects, HandleKeepsShown DEF PathsInv
<1>4. CASE UNCHANGED <<program, procs, links, images, events, shown>>
  BY <1>1, <1>4, SamePlaces DEF PathsInv, SubjectsOK, ShownPathsAreTrue, Alive
<1>. QED
  BY <1>2, <1>3, <1>4 DEF Next, vars, StartDiscovery, ReplaceDiscovery, UpdateDropTotal

\* For any names, roots, working directories and lengths: the path under which an
\* open of a file is shown, while userspace is up to date, is the one that the
\* kernel walked, and the container is the process's own.
THEOREM PathsAreTrue == Spec => []ShownPathsAreTrue
<1>1. PathsInv => ShownPathsAreTrue
  BY DEF PathsInv
<1>. QED
  BY <1>1, PathsInvInitially, PathsInvKept, PTL DEF Spec
=============================================================================
