------------------------- MODULE AttributionProofs -------------------------
(***************************************************************************)
(* Proofs about Capture and about Attribution, which extends it, for any   *)
(* processes and system calls, any descriptors and files, and any          *)
(* capacities.  The first part is about the programs alone: what is in the *)
(* stashes, what events tell, what is counted.  The second adds userspace: *)
(* its types hold for any threads; that captured opens are followed and    *)
(* that the cache is current is for processes of one thread each, with two *)
(* the order of the events need not be the order of what they tell.        *)
(***************************************************************************)
EXTENDS Attribution, Lemmas, FiniteSetTheorems, SequenceTheorems, TLAPS

--------------------------------------------------------------------------------
\* What is attached when, and which stash belongs to which call.

LEMMA AttachedFrom ==
  ASSUME hooks \in 0 .. 4
  PROVE  /\ Attached("sys_exit") <=> hooks >= 1
         /\ Attached("process_exit") <=> hooks >= 2
         /\ Attached("exec") <=> hooks >= 3
         /\ Attached("sys_enter") <=> hooks = 4
BY DEF Attached, AttachOrder

\* A call fills at most one stash, and its exit looks into that one.
LEMMA OneStash ==
  ASSUME NEW call \in Calls
  PROVE  /\ \E kind \in StashKinds : TakenBy(call) \subseteq {kind}
         /\ StashOf(call) \subseteq TakenBy(call)
         /\ StashOf(call) \subseteq StashKinds
BY CaptureAssumption DEF IsCall, StashOf, TakenBy, StashKinds

--------------------------------------------------------------------------------
\* The stashes.

\* Where a thread is in its call.
InCall(t) == threads[t].pc \in {"entered", "returned"}

\* What is known of the stashes and the threads.
ShapeInv ==
  /\ hooks \in 0 .. 4
  /\ detaching \in BOOLEAN
  /\ DOMAIN threads = Threads
  /\ \A t \in Threads :
       \/ threads[t] \in {Dead, User}
       \/ InCall(t) /\ threads[t].call \in Calls
  /\ DOMAIN stashes = StashKinds
  /\ \A kind \in StashKinds : 
       /\ stashes[kind] \in [DOMAIN stashes[kind] -> Calls]
       /\ DOMAIN stashes[kind] \subseteq Threads

\* Before everything is attached nothing is remembered; while the end of a thread
\* is watched, a stash remembers of it the call that it is in.
OwnersInv ==
  /\ ~detaching /\ hooks < 4 => \A kind \in StashKinds : DOMAIN stashes[kind] = {}
  /\ hooks >= 2 =>
       \A kind \in StashKinds : \A t \in DOMAIN stashes[kind] :
         /\ InCall(t)
         /\ stashes[kind][t] = threads[t].call
         /\ kind \in StashOf(threads[t].call)

\* A call that was remembered is so until its exit.
RememberedInv ==
  \A t \in Threads :
    InCall(t) /\ threads[t].seen = "remembered" =>
      \A kind \in StashOf(threads[t].call) : t \in DOMAIN stashes[kind]

CaptureInv == ShapeInv /\ OwnersInv /\ RememberedInv

LEMMA EmptyStash ==
  ASSUME NEW S
  PROVE  DOMAIN <<>> = {} /\ <<>> \in [DOMAIN <<>> -> S]
<1>1. <<>> \in [1 .. 0 -> S]
  BY EmptySeq
<1>. QED
  BY <1>1

LEMMA CaptureInvInit == ASSUME NEW n \in 0 .. 4, InitWith(n) PROVE CaptureInv
<1> USE DEF InitWith
<1>1. ShapeInv
  BY EmptyStash DEF ShapeInv, InCall, User, Dead
<1>2. OwnersInv
  BY EmptyStash DEF OwnersInv
<1>3. RememberedInv
  BY DEF RememberedInv, InCall, User
<1>. QED
  BY <1>1, <1>2, <1>3 DEF CaptureInv

\* An entry leaves the stashes and the counters alone, or goes to one stash.
LEMMA EntryFills ==
  ASSUME ShapeInv, NEW t \in Threads, NEW call \in Calls, Enter(t, call)
  PROVE  \/ SeenAtEntry(t, call) = "no" /\ UNCHANGED <<stashes, stats>>
         \/ \E kind \in StashKinds :
              /\ hooks = 4
              /\ StashOf(call) = {kind}
              /\ Remember(kind, t, call)
              /\ SeenAtEntry(t, call) = IF HasRoom(kind, t) THEN "remembered" ELSE "lost"
<1>1. CASE SeenAtEntry(t, call) = "no"
  BY <1>1 DEF Enter
<1>2. CASE SeenAtEntry(t, call) # "no"
  <2>1. hooks = 4 /\ StashOf(call) # {}
    BY <1>2, AttachedFrom DEF SeenAtEntry, ShapeInv
  <2>2. PICK kind \in StashKinds : StashOf(call) = {kind}
    BY <2>1, OneStash
  <2>3. Remember(kind, t, call)
    BY <1>2, <2>2 DEF Enter
  <2>. QED
    BY <1>2, <2>1, <2>2, <2>3 DEF SeenAtEntry
<1>. QED
  BY <1>1, <1>2

\* What is remembered is the call being entered.
LEMMA EntryRemembers ==
  ASSUME ShapeInv, NEW t \in Threads, NEW call \in Calls, Enter(t, call)
  PROVE  \/ UNCHANGED stashes /\ SeenAtEntry(t, call) # "remembered"
         \/ \E kind \in StashKinds :
              /\ hooks = 4
              /\ StashOf(call) = {kind}
              /\ HasRoom(kind, t)
              /\ stashes' = [stashes EXCEPT ![kind] =
                               [other \in DOMAIN stashes[kind] \cup {t} |->
                                  IF other = t THEN call ELSE stashes[kind][other]]]
BY EntryFills DEF Remember

\* A stash shrinks by what sys_exit takes out: the exit of a thread touches only
\* the entry of this thread, and takes it if the program is attached.
LEMMA ExitTakesOut ==
  ASSUME ShapeInv, NEW t \in Threads, Exit(t)
  PROVE  /\ threads[t].call \in Calls
         /\ \/ /\ UNCHANGED <<stashes, ring, stats>>
               /\ hooks >= 1 => \A kind \in TakenBy(threads[t].call) : t \notin DOMAIN stashes[kind]
            \/ \E kind \in StashKinds :
                 /\ hooks >= 1
                 /\ TakenBy(threads[t].call) = {kind}
                 /\ t \in DOMAIN stashes[kind]
                 /\ Report(t, kind, threads[t].result)
<1> DEFINE kinds == {kind \in TakenBy(threads[t].call) : t \in DOMAIN stashes[kind]}
<1>1. threads[t].call \in Calls
  BY DEF Exit, ShapeInv, InCall, User, Dead
<1>2. CASE Attached("sys_exit") /\ kinds # {}
  <2>1. \A kind \in kinds : Report(t, kind, threads[t].result)
    BY <1>2 DEF Exit
  <2>2. PICK kind \in StashKinds : TakenBy(threads[t].call) = {kind} /\ t \in DOMAIN stashes[kind]
    BY <1>1, <1>2, OneStash
  <2>. QED
    BY <1>1, <1>2, <2>1, <2>2, AttachedFrom DEF ShapeInv
<1>3. CASE ~(Attached("sys_exit") /\ kinds # {})
  <2>1. UNCHANGED <<stashes, ring, stats>>
    BY <1>3 DEF Exit
  <2>. QED
    BY <1>1, <1>3, <2>1, AttachedFrom DEF ShapeInv
<1>. QED
  BY <1>2, <1>3

--------------------------------------------------------------------------------
\* Every step keeps the owners of the stashes.

\* The steps that stashes and threads do not notice.
LEMMA AttachingKeeps ==
  ASSUME CaptureInv, AttachNext \/ DetachNext
  PROVE  CaptureInv'
<1>1. /\ UNCHANGED <<threads, stashes>>
      /\ hooks' \in 0 .. 4
      /\ detaching' \in BOOLEAN
      /\ ~detaching' /\ hooks' < 4 => ~detaching /\ hooks < 4
      /\ hooks' >= 2 => hooks >= 2 \/ (~detaching /\ hooks < 4)
  <2>1. Len(AttachOrder) = 4
    BY DEF AttachOrder
  <2>2. CASE AttachNext
    BY <2>1, <2>2 DEF CaptureInv, ShapeInv, AttachNext
  <2>3. CASE DetachNext
    BY <2>1, <2>3 DEF CaptureInv, ShapeInv, DetachNext
  <2>. QED
    BY <2>2, <2>3
<1>2. ShapeInv' /\ RememberedInv'
  BY <1>1 DEF CaptureInv, ShapeInv, RememberedInv, InCall
<1>3. OwnersInv'
  BY <1>1 DEF CaptureInv, OwnersInv, InCall
<1>. QED
  BY <1>2, <1>3 DEF CaptureInv

LEMMA EnterKeeps ==
  ASSUME CaptureInv, NEW t \in Threads, NEW call \in Calls, Enter(t, call)
  PROVE  CaptureInv'
<1> USE DEF CaptureInv
<1>1. /\ threads[t] = User
      /\ threads' = [threads EXCEPT ![t] = [pc |-> "entered", call |-> call,
                                           seen |-> SeenAtEntry(t, call)]]
      /\ UNCHANGED <<hooks, detaching>>
  BY DEF Enter
<1> DEFINE entry == [pc |-> "entered", call |-> call, seen |-> SeenAtEntry(t, call)]
<1>2. /\ DOMAIN threads' = Threads
      /\ threads'[t] = entry
      /\ \A u \in Threads \ {t} : threads'[u] = threads[u]
      /\ InCall(t)'
      /\ ~InCall(t)
      /\ \A u \in Threads \ {t} : InCall(u)' <=> InCall(u)
      /\ threads'[t].call = call /\ threads'[t].seen = SeenAtEntry(t, call)
  BY <1>1 DEF ShapeInv, InCall, User
<1> HIDE DEF entry
<1>3. \A u \in Threads : \/ threads'[u] \in {Dead, User}
                         \/ InCall(u)' /\ threads'[u].call \in Calls
  BY <1>2 DEF ShapeInv
<1>4. CASE /\ UNCHANGED stashes
           /\ SeenAtEntry(t, call) # "remembered"
  <2>1. ShapeInv'
    BY <1>1, <1>2, <1>3, <1>4 DEF ShapeInv
  <2>2. OwnersInv'
    BY <1>1, <1>2, <1>4 DEF OwnersInv, ShapeInv
  <2>3. RememberedInv'
    BY <1>2, <1>4 DEF RememberedInv
  <2>. QED
    BY <2>1, <2>2, <2>3
<1>5. ASSUME NEW kind \in StashKinds,
             hooks = 4, StashOf(call) = {kind},
             stashes' = [stashes EXCEPT ![kind] =
                           [other \in DOMAIN stashes[kind] \cup {t} |->
                              IF other = t THEN call ELSE stashes[kind][other]]]
      PROVE  CaptureInv'
  <2>1. /\ DOMAIN stashes' = StashKinds
        /\ \A k \in StashKinds \ {kind} : stashes'[k] = stashes[k]
        /\ DOMAIN stashes'[kind] = DOMAIN stashes[kind] \cup {t}
        /\ stashes'[kind][t] = call
        /\ \A u \in DOMAIN stashes[kind] \ {t} : stashes'[kind][u] = stashes[kind][u]
        /\ stashes'[kind] \in [DOMAIN stashes'[kind] -> Calls]
    BY <1>5 DEF ShapeInv
  <2>2. ShapeInv'
    BY <1>1, <1>2, <1>3, <2>1 DEF ShapeInv
  <2>3. OwnersInv'
    BY <1>1, <1>2, <1>5, <2>1 DEF OwnersInv, ShapeInv
  <2>4. RememberedInv'
    BY <1>2, <1>5, <2>1, OneStash DEF RememberedInv, ShapeInv
  <2>. QED
    BY <2>2, <2>3, <2>4
<1>. QED
  BY <1>4, <1>5, EntryRemembers

LEMMA ExecuteKeeps ==
  ASSUME CaptureInv, NEW t \in Threads, Execute(t)
  PROVE  CaptureInv'
<1> USE DEF CaptureInv
<1>1. /\ InCall(t) /\ InCall(t)'
      /\ DOMAIN threads' = Threads
      /\ threads'[t].call = threads[t].call
      /\ threads'[t].seen = threads[t].seen
      /\ \A u \in Threads \ {t} : threads'[u] = threads[u]
      /\ UNCHANGED <<hooks, detaching, stashes>>
  BY DEF Execute, ShapeInv, InCall
<1>2. \A u \in Threads : InCall(u)' <=> InCall(u)
  BY <1>1 DEF InCall
<1>3. ShapeInv'
  BY <1>1, <1>2 DEF ShapeInv, InCall, Dead, User
<1>4. OwnersInv'
  BY <1>1, <1>2 DEF OwnersInv, ShapeInv
<1>5. RememberedInv'
  BY <1>1, <1>2 DEF RememberedInv
<1>. QED
  BY <1>3, <1>4, <1>5

\* The entries of one thread, or some of them, are gone.
Forgets(t) ==
  /\ DOMAIN stashes' = StashKinds
  /\ \A kind \in StashKinds :
       /\ DOMAIN stashes'[kind] \subseteq DOMAIN stashes[kind]
       /\ DOMAIN stashes[kind] \ {t} \subseteq DOMAIN stashes'[kind]
       /\ stashes'[kind] = [u \in DOMAIN stashes'[kind] |-> stashes[kind][u]]

LEMMA ForgettingKeeps ==
  ASSUME CaptureInv, NEW t \in Threads, Forgets(t),
         UNCHANGED <<hooks, detaching>>,
         threads' = [threads EXCEPT ![t] = User] \/ threads' = [threads EXCEPT ![t] = Dead],
         hooks >= 2 => \A kind \in StashKinds : t \notin DOMAIN stashes'[kind]
  PROVE  CaptureInv'
<1> USE DEF CaptureInv
<1>1. /\ DOMAIN threads' = Threads
      /\ threads'[t] \in {Dead, User}
      /\ \A u \in Threads \ {t} : threads'[u] = threads[u]
      /\ ~InCall(t)'
      /\ \A u \in Threads \ {t} : InCall(u)' <=> InCall(u)
  BY DEF ShapeInv, InCall, Dead, User
<1>2. ShapeInv'
  BY <1>1 DEF ShapeInv, Forgets
<1>3. OwnersInv'
  BY <1>1 DEF OwnersInv, ShapeInv, Forgets
<1>4. RememberedInv'
  <2>1. SUFFICES ASSUME NEW u \in Threads, InCall(u)', threads'[u].seen = "remembered",
                        NEW kind \in StashOf(threads'[u].call)
                 PROVE  u \in DOMAIN stashes'[kind]
    BY DEF RememberedInv
  <2>2. u # t /\ InCall(u) /\ threads'[u] = threads[u]
    BY <1>1, <2>1
  <2>3. threads[u].call \in Calls
    BY <2>2 DEF ShapeInv, InCall, Dead, User
  <2>4. kind \in StashKinds /\ u \in DOMAIN stashes[kind]
    BY <2>1, <2>2, <2>3, OneStash DEF RememberedInv
  <2>. QED
    BY <2>2, <2>4 DEF Forgets
<1>. QED
  BY <1>2, <1>3, <1>4

LEMMA ExitKeeps ==
  ASSUME CaptureInv, NEW t \in Threads, Exit(t)
  PROVE  Forgets(t) /\ CaptureInv'
<1> USE DEF CaptureInv
<1>1. CASE /\ UNCHANGED <<stashes, ring, stats>>
           /\ hooks >= 1 => \A kind \in TakenBy(threads[t].call) : t \notin DOMAIN stashes[kind]
  <2>1. Forgets(t)
    BY <1>1 DEF Forgets, ShapeInv
  <2>2. hooks >= 2 => \A kind \in StashKinds : t \notin DOMAIN stashes'[kind]
    BY <1>1, ExitTakesOut, OneStash DEF OwnersInv, ShapeInv
  <2>. QED
    BY <2>1, <2>2, ForgettingKeeps DEF Exit
<1>2. ASSUME NEW kind \in StashKinds, TakenBy(threads[t].call) = {kind},
             Report(t, kind, threads[t].result), hooks >= 1
      PROVE  Forgets(t) /\ CaptureInv'
  <2>1. stashes' = [stashes EXCEPT ![kind] = Restrict(stashes[kind], DOMAIN stashes[kind] \ {t})]
    BY <1>2 DEF Report, TakeOut
  <2>2. Forgets(t) /\ t \notin DOMAIN stashes'[kind]
    BY <2>1 DEF Forgets, ShapeInv, Restrict
  <2>3. hooks >= 2 => \A k \in StashKinds : t \notin DOMAIN stashes'[k]
    BY <1>2, <2>2, ExitTakesOut, OneStash DEF OwnersInv, ShapeInv, Forgets
  <2>. QED
    BY <2>2, <2>3, ForgettingKeeps DEF Exit
<1>. QED
  BY <1>1, <1>2, ExitTakesOut

LEMMA DieKeeps ==
  ASSUME CaptureInv, NEW t \in Threads, Die(t)
  PROVE  Forgets(t) /\ CaptureInv'
<1> USE DEF CaptureInv
<1>1. CASE Attached("process_exit")
  <2>1. ClearStashes(t)
    BY <1>1 DEF Die
  <2>2. Forgets(t) /\ \A kind \in StashKinds : t \notin DOMAIN stashes'[kind]
    BY <2>1 DEF ClearStashes, Forgets, ShapeInv, Restrict
  <2>. QED
    BY <2>2, ForgettingKeeps DEF Die
<1>2. CASE ~Attached("process_exit")
  <2>1. UNCHANGED stashes /\ ~(hooks >= 2)
    BY <1>2, AttachedFrom DEF Die, ShapeInv
  <2>2. Forgets(t)
    BY <2>1 DEF Forgets, ShapeInv
  <2>. QED
    BY <2>1, <2>2, ForgettingKeeps DEF Die
<1>. QED
  BY <1>1, <1>2

LEMMA StartKeeps ==
  ASSUME CaptureInv, NEW t \in Threads, Start(t)
  PROVE  CaptureInv'
<1> USE DEF CaptureInv
<1>1. /\ threads' = [threads EXCEPT ![t] = User]
      /\ UNCHANGED <<hooks, detaching, stashes>>
      /\ ~InCall(t)
  BY DEF Start, InCall, Dead
<1>2. Forgets(t)
  BY <1>1 DEF Forgets, ShapeInv
<1>. QED
  BY <1>1, <1>2, ForgettingKeeps DEF OwnersInv

LEMMA CaptureInvStep == CaptureInv /\ [Next]_vars => CaptureInv'
<1> SUFFICES ASSUME CaptureInv, [Next]_vars PROVE CaptureInv'
  OBVIOUS
<1>1. CASE AttachNext \/ DetachNext
  BY <1>1, AttachingKeeps
<1>2. ASSUME NEW t \in Threads, NEW call \in Calls, Enter(t, call) PROVE CaptureInv'
  BY <1>2, EnterKeeps
<1>3. ASSUME NEW t \in Threads, Execute(t) PROVE CaptureInv'
  BY <1>3, ExecuteKeeps
<1>4. ASSUME NEW t \in Threads, Exit(t) PROVE CaptureInv'
  BY <1>4, ExitKeeps
<1>5. ASSUME NEW t \in Threads, Start(t) PROVE CaptureInv'
  BY <1>5, StartKeeps
<1>6. ASSUME NEW t \in Threads, Die(t) PROVE CaptureInv'
  BY <1>6, DieKeeps
<1>7. ASSUME NEW t \in Threads, NEW kept \in SUBSET Fds, Exec(t, kept) PROVE CaptureInv'
  BY <1>7 DEF Exec, CaptureInv, ShapeInv, OwnersInv, RememberedInv, InCall
<1>8. CASE UNCHANGED vars
  BY <1>8 DEF vars, CaptureInv, ShapeInv, OwnersInv, RememberedInv, InCall
<1>. QED
  BY <1>1, <1>2, <1>3, <1>4, <1>5, <1>6, <1>7, <1>8 DEF Next, System

LEMMA CaptureInvHolds == Spec => []CaptureInv
<1>1. Init => CaptureInv
  BY CaptureInvInit DEF Init
<1>. QED
  BY <1>1, CaptureInvStep, PTL DEF Spec

\* With the programs attached in AttachOrder and detached in its reverse, as
\* attach_programs and AttachedPrograms::detach do: what a stash remembers of a
\* thread is the call it is in, while process_exit is attached.
THEOREM Owners == Spec => []StashesHaveOwners
<1>1. CaptureInv => StashesHaveOwners
  BY AttachedFrom DEF CaptureInv, ShapeInv, OwnersInv, StashesHaveOwners, InCall
<1>. QED
  BY <1>1, CaptureInvHolds, PTL

--------------------------------------------------------------------------------
\* The ring.

RingInv == IsQueue(ring) /\ Len(ring) <= RingCapacity

\* EVENTS.output appends one event or counts one lost.
LEMMA OutputOrDrop ==
  ASSUME RingInv, NEW event, NEW counted, Output(event, counted)
  PROVE  /\ RingInv'
         /\ \/ /\ ring' = Append(ring, event)
               /\ Len(ring') = Len(ring) + 1
               /\ ring'[Len(ring')] = event
               /\ stats' = counted
            \/ /\ UNCHANGED ring
               /\ stats' = [counted EXCEPT !.ringDrops = @ + 1]
<1>1. CASE Len(ring) < RingCapacity
  <2>1. ring' = Append(ring, event) /\ stats' = counted
    BY <1>1 DEF Output
  <2>2. Len(ring) \in Nat /\ IsQueue(ring') /\ DOMAIN ring' = 1 .. Len(ring) + 1
        /\ ring'[Len(ring) + 1] = event
    BY <2>1, QueueDomain, AppendedQueue DEF RingInv
  <2>3. Len(ring') = Len(ring) + 1
    BY <2>2, QueueDomain
  <2>. QED
    BY <1>1, <2>1, <2>2, <2>3, CaptureAssumption DEF RingInv
<1>2. CASE ~(Len(ring) < RingCapacity)
  BY <1>2 DEF Output, RingInv
<1>. QED
  BY <1>1, <1>2

LEMMA ReportOutputs ==
  ASSUME RingInv, NEW t, NEW kind, NEW result, Report(t, kind, result)
  PROVE  RingInv'
<1>1. CASE Reports(kind, result)
  BY <1>1, OutputOrDrop DEF Report
<1>2. CASE ~Reports(kind, result)
  BY <1>2 DEF Report, RingInv
<1>. QED
  BY <1>1, <1>2

\* The arguments in a stash are those of the call, so the event is of this call.
LEMMA ExitTellsOfItsCall ==
  ASSUME CaptureInv, RingInv, NEW t \in Threads, Exit(t),
         Attached("process_exit"), Len(ring') > Len(ring)
  PROVE  \E kind \in StashOf(threads[t].call) :
           ring'[Len(ring')] = EventOf(t, kind, threads[t].call, threads[t].result)
<1>1. Len(ring) \in Nat
  BY QueueDomain DEF RingInv
<1>2. ring' # ring
  BY <1>1
<1>3. hooks >= 2
  BY AttachedFrom DEF CaptureInv, ShapeInv
<1>4. PICK kind \in StashKinds : t \in DOMAIN stashes[kind] /\ Report(t, kind, threads[t].result)
  BY <1>2, ExitTakesOut DEF CaptureInv
<1>5. stashes[kind][t] = threads[t].call /\ kind \in StashOf(threads[t].call)
  BY <1>3, <1>4 DEF CaptureInv, OwnersInv
<1>6. Reports(kind, threads[t].result)
  BY <1>2, <1>4 DEF Report
<1>7. \E counted : Output(EventOf(t, kind, threads[t].call, threads[t].result), counted)
  BY <1>4, <1>5, <1>6 DEF Report
<1>8. ring'[Len(ring')] = EventOf(t, kind, threads[t].call, threads[t].result)
  BY <1>2, <1>7, OutputOrDrop
<1>. QED
  BY <1>5, <1>8

LEMMA RingInvStep == CaptureInv /\ RingInv /\ [Next]_vars => RingInv'
<1> SUFFICES ASSUME CaptureInv, RingInv, [Next]_vars PROVE RingInv'
  OBVIOUS
<1>1. CASE UNCHANGED ring
  BY <1>1 DEF RingInv
<1>2. ASSUME NEW t \in Threads, Exit(t) PROVE RingInv'
  BY <1>1, <1>2, ExitTakesOut, ReportOutputs DEF CaptureInv
<1>3. ASSUME NEW t \in Threads, Die(t) PROVE RingInv'
  BY <1>1, <1>3, OutputOrDrop DEF Die
<1>4. ASSUME NEW t \in Threads, NEW kept \in SUBSET Fds, Exec(t, kept) PROVE RingInv'
  BY <1>1, <1>4, OutputOrDrop DEF Exec
<1>. QED
  BY <1>1, <1>2, <1>3, <1>4 DEF Next, System, AttachNext, DetachNext, Enter, Execute, Start, vars

LEMMA RingInvHolds == Spec => []RingInv
<1>1. Init => RingInv
  BY EmptyQueue, EmptySeq, CaptureAssumption DEF Init, InitWith, RingInv
<1>. QED
  BY <1>1, CaptureInvHolds, RingInvStep, PTL DEF Spec

\* No event carries the arguments of another call than the one that its thread
\* has just made, while process_exit is attached: the handlers of sys_exit in
\* ncda-ebpf.
THEOREM EventsAreOfTheirCall == Spec => EventsTellOfTheirCall
<1>1. CaptureInv /\ RingInv =>
        \A t \in Threads :
          Attached("process_exit") /\ Exit(t) /\ Len(ring') > Len(ring) =>
            \E kind \in StashOf(threads[t].call) :
              ring'[Len(ring')] = EventOf(t, kind, threads[t].call, threads[t].result)
  BY ExitTellsOfItsCall
<1>. QED
  BY <1>1, CaptureInvHolds, RingInvHolds, PTL DEF EventsTellOfTheirCall

--------------------------------------------------------------------------------
\* The counters.

Callers == {t \in Threads : InCall(t)}

\* Every count is covered by calls: a drop by the call, start or end that it was
\* the report of, and an exit by its entry.
CountInv ==
  /\ calls \in 0 .. MaxCalls
  /\ stats \in [{"ringDrops", "stashFailures", "entries", "exits"} -> Nat]
  /\ stats.entries <= calls
  /\ stats.stashFailures <= calls
  /\ stats.ringDrops + Cardinality(Callers) <= calls
  /\ ExitsFollowEntries

\* The stashes stay within their capacity.
CapacityInv ==
  \A kind \in StashKinds : Cardinality(DOMAIN stashes[kind]) <= StashCapacity

LEMMA FiniteStashes ==
  ASSUME ShapeInv
  PROVE  \A kind \in StashKinds :
           IsFiniteSet(DOMAIN stashes[kind]) /\ Cardinality(DOMAIN stashes[kind]) \in Nat
BY CaptureAssumption, FS_Subset, FS_CardinalityType DEF ShapeInv

LEMMA FiniteCallers ==
  /\ IsFiniteSet(Callers) /\ Cardinality(Callers) \in Nat
  /\ IsFiniteSet(Callers') /\ Cardinality(Callers') \in Nat
<1>1. Callers \in SUBSET Threads /\ Callers' \in SUBSET Threads
  BY DEF Callers
<1>. QED
  BY <1>1, CaptureAssumption, FS_Subset, FS_CardinalityType

\* An output adds to the drops at most, and one at most.
LEMMA OutputCounts ==
  ASSUME NEW event, NEW counted \in [{"ringDrops", "stashFailures", "entries", "exits"} -> Nat],
         Output(event, counted)
  PROVE  /\ stats' \in [{"ringDrops", "stashFailures", "entries", "exits"} -> Nat]
         /\ stats'.ringDrops <= counted.ringDrops + 1
         /\ stats'.stashFailures = counted.stashFailures
         /\ stats'.entries = counted.entries
         /\ stats'.exits = counted.exits
BY DEF Output

LEMMA EnterCounts ==
  ASSUME CaptureInv, CountInv, CapacityInv, NEW t \in Threads, NEW call \in Calls, Enter(t, call)
  PROVE  CountInv' /\ CapacityInv'
<1> USE DEF CaptureInv
<1>1. calls' \in 0 .. MaxCalls /\ calls' = calls + 1
  BY CaptureAssumption DEF Enter, CountInv
<1>2. Callers' = Callers \cup {t}
  BY DEF Enter, Callers, InCall, ShapeInv
<1>3. Cardinality(Callers') <= Cardinality(Callers) + 1
  BY <1>2, FiniteCallers, FS_AddElement
<1>4. CASE UNCHANGED <<stashes, stats>>
  BY <1>1, <1>3, <1>4, FiniteCallers DEF CountInv, CapacityInv, ExitsFollowEntries
<1>5. ASSUME NEW kind \in StashKinds, Remember(kind, t, call)
      PROVE  CountInv' /\ CapacityInv'
  <2>1. /\ stats' \in [{"ringDrops", "stashFailures", "entries", "exits"} -> Nat]
        /\ stats'.ringDrops = stats.ringDrops
        /\ stats'.exits = stats.exits
        /\ stats'.entries = IF kind = "io" THEN stats.entries + 1 ELSE stats.entries
        /\ stats'.stashFailures <= stats.stashFailures + 1
    <3> DEFINE n == IF kind = "io" THEN 1 ELSE 0
    <3>1. /\ n \in Nat
          /\ \/ stats' = [stats EXCEPT !.entries = @ + n]
             \/ stats' = [stats EXCEPT !.stashFailures = @ + 1, !.entries = @ + n]
      BY <1>5 DEF Remember
    <3>. HIDE DEF n
    <3>2. /\ stats' \in [{"ringDrops", "stashFailures", "entries", "exits"} -> Nat]
          /\ stats'.ringDrops = stats.ringDrops
          /\ stats'.exits = stats.exits
          /\ stats'.entries = stats.entries + n
          /\ stats'.stashFailures <= stats.stashFailures + 1
      <4>1. /\ stats \in [{"ringDrops", "stashFailures", "entries", "exits"} -> Nat]
            /\ stats.entries + n \in Nat /\ stats.stashFailures + 1 \in Nat
        BY <3>1 DEF CountInv
      <4>2. CASE stats' = [stats EXCEPT !.entries = @ + n]
        BY <4>1, <4>2
      <4>3. CASE stats' = [stats EXCEPT !.stashFailures = @ + 1, !.entries = @ + n]
        <5> DEFINE failed == [stats EXCEPT !.stashFailures = @ + 1]
        <5>1. /\ failed \in [{"ringDrops", "stashFailures", "entries", "exits"} -> Nat]
              /\ failed.stashFailures = stats.stashFailures + 1
              /\ failed.ringDrops = stats.ringDrops
              /\ failed.exits = stats.exits
              /\ failed.entries = stats.entries
          BY <4>1
        <5>2. stats' = [failed EXCEPT !.entries = stats.entries + n]
          BY <4>3, <5>1
        <5>. HIDE DEF failed
        <5>. QED
          BY <4>1, <5>1, <5>2
      <4>. QED
        BY <3>1, <4>2, <4>3
    <3>3. stats.entries \in Nat
      BY DEF CountInv
    <3>. QED
      BY <3>2, <3>3 DEF n
  <2>2. /\ DOMAIN stashes'[kind] \in {DOMAIN stashes[kind], DOMAIN stashes[kind] \cup {t}}
        /\ \A k \in StashKinds \ {kind} : stashes'[k] = stashes[k]
        /\ DOMAIN stashes'[kind] # DOMAIN stashes[kind] => HasRoom(kind, t)
    BY <1>5 DEF Remember, ShapeInv
  <2>3. /\ Cardinality(DOMAIN stashes'[kind]) \in Nat
        /\ Cardinality(DOMAIN stashes'[kind]) <= Cardinality(DOMAIN stashes[kind]) + 1
        /\ DOMAIN stashes'[kind] # DOMAIN stashes[kind] =>
             t \notin DOMAIN stashes[kind]
    <3> DEFINE D == DOMAIN stashes[kind]
    <3>1. IsFiniteSet(D) /\ Cardinality(D) \in Nat
      BY FiniteStashes
    <3>2. Cardinality(D \cup {t}) = IF t \in D THEN Cardinality(D) ELSE Cardinality(D) + 1
      BY <3>1, FS_AddElement
    <3>3. t \in D => D \cup {t} = D
      OBVIOUS
    <3>4. DOMAIN stashes'[kind] \in {D, D \cup {t}}
      BY <2>2
    <3>. HIDE DEF D
    <3>5. /\ Cardinality(DOMAIN stashes'[kind]) \in Nat
          /\ Cardinality(DOMAIN stashes'[kind]) <= Cardinality(D) + 1
          /\ DOMAIN stashes'[kind] # D => t \notin D
      BY <3>1, <3>2, <3>3, <3>4
    <3>. QED
      BY <3>5 DEF D
  <2>4. CapacityInv'
    <3>1. Cardinality(DOMAIN stashes'[kind]) <= StashCapacity
      BY <2>2, <2>3, FiniteStashes, CaptureAssumption DEF HasRoom, CapacityInv
    <3>. QED
      BY <2>2, <3>1 DEF CapacityInv
  <2>5. ExitsFollowEntries'
    BY <2>1, <2>2, <2>3, FiniteStashes DEF ExitsFollowEntries, CountInv, StashKinds
  <2>. QED
    BY <1>1, <1>3, <2>1, <2>4, <2>5, FiniteCallers DEF CountInv
<1>. QED
  BY <1>4, <1>5, EntryFills

\* Entries that are forgotten make room.
LEMMA ForgettingMakesRoom ==
  ASSUME CaptureInv, CapacityInv, NEW t \in Threads, Forgets(t)
  PROVE  /\ CapacityInv'
         /\ Cardinality(DOMAIN stashes'["io"]) \in Nat
         /\ Cardinality(DOMAIN stashes'["io"]) <= Cardinality(DOMAIN stashes["io"])
<1>1. ASSUME NEW kind \in StashKinds
      PROVE  /\ Cardinality(DOMAIN stashes'[kind]) \in Nat
             /\ Cardinality(DOMAIN stashes'[kind]) <= Cardinality(DOMAIN stashes[kind])
  BY FiniteStashes, FS_Subset, FS_CardinalityType DEF CaptureInv, Forgets
<1>2. CapacityInv'
  BY <1>1, FiniteStashes, CaptureAssumption DEF CapacityInv, CaptureInv
<1>. QED
  BY <1>1, <1>2 DEF StashKinds

LEMMA ExitCounts ==
  ASSUME CaptureInv, CountInv, CapacityInv, NEW t \in Threads, Exit(t)
  PROVE  CountInv' /\ CapacityInv'
<1> USE DEF CaptureInv
<1>1. Forgets(t)
  BY ExitKeeps
<1>2. t \in Callers /\ Callers' = Callers \ {t}
  BY DEF Exit, Callers, InCall, ShapeInv, User
<1>3. Cardinality(Callers') = Cardinality(Callers) - 1
  BY <1>2, FiniteCallers, FS_RemoveElement
<1>4. CASE UNCHANGED <<stashes, ring, stats>>
  BY <1>3, <1>4, FiniteCallers DEF CountInv, CapacityInv, ExitsFollowEntries, Exit
<1>5. ASSUME NEW kind \in StashKinds, t \in DOMAIN stashes[kind], Report(t, kind, threads[t].result)
      PROVE  CountInv' /\ CapacityInv'
  <2> DEFINE counted == [stats EXCEPT !.exits = @ + (IF kind = "io" THEN 1 ELSE 0)]
  <2>1. /\ counted \in [{"ringDrops", "stashFailures", "entries", "exits"} -> Nat]
        /\ counted.ringDrops = stats.ringDrops
        /\ counted.stashFailures = stats.stashFailures
        /\ counted.entries = stats.entries
        /\ counted.exits = stats.exits + IF kind = "io" THEN 1 ELSE 0
    BY DEF CountInv
  <2>2. \/ stats' = counted
        \/ \E event : Output(event, counted)
    BY <1>5 DEF Report
  <2>. HIDE DEF counted
  <2>3. /\ stats' \in [{"ringDrops", "stashFailures", "entries", "exits"} -> Nat]
        /\ stats'.ringDrops <= stats.ringDrops + 1
        /\ stats'.stashFailures = stats.stashFailures
        /\ stats'.entries = stats.entries
        /\ stats'.exits = stats.exits + IF kind = "io" THEN 1 ELSE 0
    BY <2>1, <2>2, OutputCounts
  <2>4. DOMAIN stashes'[kind] = DOMAIN stashes[kind] \ {t}
    BY <1>5 DEF Report, TakeOut, Restrict, ShapeInv
  <2>5. Cardinality(DOMAIN stashes'[kind]) = Cardinality(DOMAIN stashes[kind]) - 1
    BY <1>5, <2>4, FiniteStashes, FS_RemoveElement
  <2>6. ExitsFollowEntries'
    BY <1>1, <2>3, <2>5, ForgettingMakesRoom, FiniteStashes
       DEF ExitsFollowEntries, CountInv, StashKinds
  <2>. QED
    BY <1>1, <1>3, <2>3, <2>6, ForgettingMakesRoom, FiniteCallers DEF CountInv, Exit
<1>. QED
  BY <1>4, <1>5, ExitTakesOut

LEMMA DieCounts ==
  ASSUME CaptureInv, CountInv, CapacityInv, NEW t \in Threads, Die(t)
  PROVE  CountInv' /\ CapacityInv'
<1>1. Forgets(t)
  BY DieKeeps
<1>2. Callers' \in SUBSET Callers
  BY DEF Die, Callers, InCall, Dead, CaptureInv, ShapeInv
<1>3. Cardinality(Callers') <= Cardinality(Callers)
  BY <1>2, FiniteCallers, FS_Subset
<1>4. calls' \in 0 .. MaxCalls /\ calls' = calls + 1
  BY CaptureAssumption DEF Die, CountInv
<1>5. /\ stats' \in [{"ringDrops", "stashFailures", "entries", "exits"} -> Nat]
      /\ stats'.ringDrops <= stats.ringDrops + 1
      /\ stats'.stashFailures = stats.stashFailures
      /\ stats'.entries = stats.entries
      /\ stats'.exits = stats.exits
  BY OutputCounts DEF Die, CountInv
<1>6. ExitsFollowEntries'
  BY <1>1, <1>5, ForgettingMakesRoom, FiniteStashes DEF ExitsFollowEntries, CountInv, StashKinds,
     CaptureInv
<1>. QED
  BY <1>1, <1>3, <1>4, <1>5, <1>6, ForgettingMakesRoom, FiniteCallers DEF CountInv

LEMMA CountInvStep == CaptureInv /\ CountInv /\ CapacityInv /\ [Next]_vars => CountInv' /\ CapacityInv'
<1> SUFFICES ASSUME CaptureInv, CountInv, CapacityInv, [Next]_vars
             PROVE  CountInv' /\ CapacityInv'
  OBVIOUS
<1>1. CASE AttachNext \/ DetachNext \/ UNCHANGED vars
  BY <1>1 DEF AttachNext, DetachNext, vars, CountInv, CapacityInv, ExitsFollowEntries, Callers,
              InCall
<1>2. ASSUME NEW t \in Threads, NEW call \in Calls, Enter(t, call) PROVE CountInv' /\ CapacityInv'
  BY <1>2, EnterCounts
<1>3. ASSUME NEW t \in Threads, Execute(t) PROVE CountInv' /\ CapacityInv'
  <2>1. Callers' = Callers
    BY <1>3 DEF Execute, Callers, InCall, CaptureInv, ShapeInv
  <2>. QED
    BY <1>3, <2>1 DEF Execute, CountInv, CapacityInv, ExitsFollowEntries
<1>4. ASSUME NEW t \in Threads, Exit(t) PROVE CountInv' /\ CapacityInv'
  BY <1>4, ExitCounts
<1>5. ASSUME NEW t \in Threads, Start(t) PROVE CountInv' /\ CapacityInv'
  <2>1. Callers' = Callers
    BY <1>5 DEF Start, Callers, InCall, Dead, User, CaptureInv, ShapeInv
  <2>. QED
    BY <1>5, <2>1, FiniteCallers, CaptureAssumption
       DEF Start, CountInv, CapacityInv, ExitsFollowEntries
<1>6. ASSUME NEW t \in Threads, Die(t) PROVE CountInv' /\ CapacityInv'
  BY <1>6, DieCounts
<1>7. ASSUME NEW t \in Threads, NEW kept \in SUBSET Fds, Exec(t, kept)
      PROVE  CountInv' /\ CapacityInv'
  <2>1. calls' \in 0 .. MaxCalls /\ calls' = calls + 1
    BY <1>7, CaptureAssumption DEF Exec, CountInv
  <2>2. /\ stats' \in [{"ringDrops", "stashFailures", "entries", "exits"} -> Nat]
        /\ stats'.ringDrops <= stats.ringDrops + 1
        /\ stats'.stashFailures = stats.stashFailures
        /\ stats'.entries = stats.entries
        /\ stats'.exits = stats.exits
    BY <1>7, OutputCounts DEF Exec, CountInv
  <2>3. UNCHANGED <<threads, stashes>> /\ Callers' = Callers
    BY <1>7 DEF Exec, Callers, InCall
  <2>. QED
    BY <2>1, <2>2, <2>3, FiniteCallers DEF CountInv, CapacityInv, ExitsFollowEntries
<1>. QED
  BY <1>1, <1>2, <1>3, <1>4, <1>5, <1>6, <1>7 DEF Next, System

LEMMA CountInvInit == ASSUME NEW n \in 0 .. 4, InitWith(n) PROVE CountInv /\ CapacityInv
<1>1. Callers = {} /\ \A kind \in StashKinds : DOMAIN stashes[kind] = {}
  BY EmptyStash DEF InitWith, Callers, InCall, User
<1>. QED
  BY <1>1, FS_EmptySet, CaptureAssumption
     DEF InitWith, CountInv, CapacityInv, ExitsFollowEntries, NoStats, StashKinds

LEMMA CountInvHolds == Spec => [](CountInv /\ CapacityInv)
<1>1. Init => CountInv /\ CapacityInv
  BY CountInvInit DEF Init
<1>. QED
  BY <1>1, CaptureInvHolds, CountInvStep, PTL DEF Spec

\* read_exits and write_exits never overtake read_entries and write_entries, with
\* one to spare for every call under way.
THEOREM ExitsAreOfEntries == Spec => []ExitsFollowEntries
BY CountInvHolds, PTL DEF CountInv

--------------------------------------------------------------------------------
\* Losses are counted.

LEMMA LostEntryIsCounted ==
  ASSUME CaptureInv, CountInv, [Next]_vars, NEW t \in Threads,
         threads[t] = User, threads'[t].pc = "entered", threads'[t].seen = "lost"
  PROVE  stats'.stashFailures = stats.stashFailures + 1
<1> USE DEF CaptureInv
<1>1. PICK call \in Calls : Enter(t, call)
  <2>1. threads'[t] # threads[t] /\ threads'[t] \notin {User, Dead}
    BY DEF User, Dead
  <2>2. ASSUME NEW u \in Threads, NEW call \in Calls, Enter(u, call) PROVE u = t
    BY <2>1, <2>2 DEF Enter, ShapeInv
  <2>3. ASSUME NEW u \in Threads, Execute(u) PROVE FALSE
    BY <2>1, <2>3 DEF Execute, ShapeInv, User
  <2>4. ASSUME NEW u \in Threads, Exit(u) \/ Start(u) \/ Die(u) PROVE FALSE
    BY <2>1, <2>4 DEF Exit, Start, Die, ShapeInv
  <2>5. ~(AttachNext \/ DetachNext \/ UNCHANGED vars)
    BY <2>1 DEF AttachNext, DetachNext, vars
  <2>6. ASSUME NEW u \in Threads, NEW kept \in SUBSET Fds, Exec(u, kept) PROVE FALSE
    BY <2>1, <2>6 DEF Exec
  <2>. QED
    BY <2>2, <2>3, <2>4, <2>5, <2>6 DEF Next, System
<1>2. SeenAtEntry(t, call) = "lost"
  BY <1>1 DEF Enter, ShapeInv
<1>3. PICK kind \in StashKinds : Remember(kind, t, call) /\ ~HasRoom(kind, t)
  BY <1>1, <1>2, EntryFills
<1> DEFINE n == IF kind = "io" THEN 1 ELSE 0
<1>4. stats' = [stats EXCEPT !.stashFailures = @ + 1, !.entries = @ + n]
  BY <1>3 DEF Remember
<1>. HIDE DEF n
<1>. QED
  BY <1>4 DEF CountInv

LEMMA RememberedCallIsReported ==
  ASSUME CaptureInv, CountInv, RingInv, NEW t \in Threads, Exit(t), Attached("sys_exit"),
         threads[t].seen = "remembered",
         \E kind \in StashOf(threads[t].call) : Reports(kind, threads[t].result)
  PROVE  \/ Len(ring') = Len(ring) + 1
         \/ stats'.ringDrops = stats.ringDrops + 1
<1>1. threads[t].call \in Calls /\ InCall(t) /\ hooks >= 1
  BY ExitTakesOut, AttachedFrom DEF CaptureInv, ShapeInv, Exit, InCall
<1>2. PICK kind \in StashOf(threads[t].call) : Reports(kind, threads[t].result)
  OBVIOUS
<1>3. t \in DOMAIN stashes[kind] /\ kind \in TakenBy(threads[t].call)
  BY <1>1, <1>2, OneStash DEF CaptureInv, RememberedInv
<1>4. Report(t, kind, threads[t].result)
  BY <1>1, <1>3, ExitTakesOut DEF CaptureInv
<1> DEFINE n == IF kind = "io" THEN 1 ELSE 0
           counted == [stats EXCEPT !.exits = @ + n]
<1>5. n \in Nat
  OBVIOUS
<1>6. PICK event : Output(event, counted)
  BY <1>2, <1>4 DEF Report
<1>. HIDE DEF n
<1>7. /\ counted \in [{"ringDrops", "stashFailures", "entries", "exits"} -> Nat]
      /\ counted.ringDrops = stats.ringDrops
  BY <1>5 DEF CountInv
<1>. HIDE DEF counted
<1>. QED
  BY <1>6, <1>7, OutputOrDrop

\* What both programs of a call have seen of it is an event in EVENTS, or one more
\* of CAPTURE_STATS.
THEOREM LossesAreCounted == Spec => EveryLossIsCounted
<1> DEFINE P(t) ==
       /\ threads[t] = User /\ threads'[t].pc = "entered" /\ threads'[t].seen = "lost" =>
            stats'.stashFailures = stats.stashFailures + 1
       /\ /\ Exit(t) /\ Attached("sys_exit") /\ threads[t].seen = "remembered"
          /\ \E kind \in StashOf(threads[t].call) : Reports(kind, threads[t].result)
          => \/ Len(ring') = Len(ring) + 1
             \/ stats'.ringDrops = stats.ringDrops + 1
<1>1. CaptureInv /\ CountInv /\ RingInv /\ [Next]_vars => \A t \in Threads : P(t)
  BY LostEntryIsCounted, RememberedCallIsReported
<1>. QED
  BY <1>1, CaptureInvHolds, CountInvHolds, RingInvHolds, PTL DEF Spec, EveryLossIsCounted

--------------------------------------------------------------------------------
\* The descriptor tables, and the type invariant.

Entries == [file : Files \cup {None}, origin : Origins]

TablesOK == tables \in [Pids -> [Fds -> Entries]]

LEMMA KnownTables == NoTable \in [Fds -> Entries] /\ InheritedTable \in [Fds -> Entries]
BY CaptureAssumption DEF NoTable, InheritedTable, Entries, Origins

LEMMA OpenKeepsType ==
  ASSUME NEW table \in [Fds -> Entries], NEW file \in Files \cup {None}, NEW origin \in Origins
  PROVE  Open(table, file, origin).table \in [Fds -> Entries]
BY DEF Open, Entries

\* Whatever a system call does to a descriptor table leaves one.
LEMMA OutcomeKeepsType ==
  ASSUME NEW table \in [Fds -> Entries], NEW call \in Calls
  PROVE  Outcome(table, call).table \in [Fds -> Entries]
<1>1. IsCall(call)
  BY CaptureAssumption
<1>2. \A fd \in Fds : /\ table[fd].file \in Files \cup {None}
                      /\ CopyOrigin(table[fd].origin) \in Origins
  BY DEF Entries, CopyOrigin, Origins
<1>3. CASE call.op \in {"open", "untraced"}
  BY <1>1, <1>3, OpenKeepsType DEF IsCall, Outcome, Origins
<1>4. CASE call.op \in {"read", "write", "fcntl"}
  BY <1>4 DEF Outcome
<1>5. CASE call.op = "close"
  BY <1>1, <1>5, KnownTables DEF IsCall, Outcome
<1>6. CASE call.op = "dup"
  BY <1>1, <1>2, <1>6, OpenKeepsType DEF IsCall, Outcome
<1>7. CASE call.op = "dup2"
  BY <1>1, <1>2, <1>7 DEF IsCall, Outcome, Entries
<1>8. CASE call.op = "close_range"
  BY <1>8, KnownTables DEF Outcome
<1>. QED
  BY <1>1, <1>3, <1>4, <1>5, <1>6, <1>7, <1>8 DEF IsCall

LEMMA TablesOKStep == CaptureInv /\ TablesOK /\ [Next]_vars => TablesOK'
<1> SUFFICES ASSUME CaptureInv, TablesOK, [Next]_vars PROVE TablesOK'
  OBVIOUS
<1>0. \A t \in Threads : ProcessOf[t] \in Pids
  BY DEF Pids
<1>1. ASSUME NEW t \in Threads, Execute(t) PROVE TablesOK'
  <2>1. threads[t].call \in Calls
    BY <1>1 DEF Execute, CaptureInv, ShapeInv, User, Dead
  <2>2. tables' = [tables EXCEPT ![ProcessOf[t]] = Outcome(tables[ProcessOf[t]], threads[t].call).table]
    BY <1>1 DEF Execute
  <2>. QED
    BY <1>0, <2>1, <2>2, OutcomeKeepsType DEF TablesOK
<1>2. ASSUME NEW t \in Threads, Start(t) PROVE TablesOK'
  BY <1>2, KnownTables DEF Start, TablesOK
<1>3. ASSUME NEW t \in Threads, Die(t) PROVE TablesOK'
  BY <1>3, KnownTables DEF Die, TablesOK
<1>4. ASSUME NEW t \in Threads, NEW kept \in SUBSET Fds, Exec(t, kept) PROVE TablesOK'
  <2> DEFINE pid == ProcessOf[t]
             table == [fd \in Fds |-> IF fd \in kept /\ IsOpen(tables[pid], fd)
                                     THEN [file |-> tables[pid][fd].file, origin |-> "inherited"]
                                     ELSE NoTable[fd]]
  <2>1. tables' = [tables EXCEPT ![pid] = table]
    BY <1>4 DEF Exec
  <2>2. table \in [Fds -> Entries]
    BY <1>0, KnownTables DEF TablesOK, Entries, Origins
  <2>. HIDE DEF table
  <2>. QED
    BY <2>1, <2>2 DEF TablesOK
<1>. QED
  BY <1>1, <1>2, <1>3, <1>4
     DEF Next, System, AttachNext, DetachNext, Enter, Exit, vars, TablesOK

LEMMA TablesOKHolds == Spec => []TablesOK
<1>1. Init => TablesOK
  BY KnownTables DEF Init, InitWith, TablesOK
<1>. QED
  BY <1>1, CaptureInvHolds, TablesOKStep, PTL DEF Spec

\* The types of the state, no stash and no ring beyond its capacity, and no count
\* that calls do not account for.
THEOREM TypeCorrect == Spec => []TypeOK
<1>1. CaptureInv /\ CountInv /\ CapacityInv /\ RingInv /\ TablesOK => TypeOK
  <2> SUFFICES ASSUME CaptureInv, CountInv, CapacityInv, RingInv, TablesOK PROVE TypeOK
    OBVIOUS
  <2>1. hooks \in 0 .. Len(AttachOrder) /\ detaching \in BOOLEAN
    BY DEF CaptureInv, ShapeInv, AttachOrder
  <2>2. \A t \in Threads : threads[t].pc \in {"dead", "user", "entered", "returned"}
    BY DEF CaptureInv, ShapeInv, InCall, Dead, User
  <2>3. tables \in [Pids -> [Fds -> [file : Files \cup {None}, origin : Origins]]]
    BY DEF TablesOK, Entries
  <2>4. \A kind \in StashKinds :
          /\ stashes[kind] \in [DOMAIN stashes[kind] -> Calls]
          /\ DOMAIN stashes[kind] \subseteq Threads
          /\ Cardinality(DOMAIN stashes[kind]) <= StashCapacity
    BY DEF CaptureInv, ShapeInv, CapacityInv
  <2>5. stats \in [{"ringDrops", "stashFailures", "entries", "exits"} -> 0 .. MaxCalls]
    <3>1. Cardinality(DOMAIN stashes["io"]) \in Nat
      BY FiniteStashes DEF CaptureInv, StashKinds
    <3>2. stats.exits <= stats.entries
      BY <3>1 DEF CountInv, ExitsFollowEntries
    <3>3. stats.ringDrops <= calls
      BY FiniteCallers DEF CountInv
    <3>4. \A counter \in {"ringDrops", "stashFailures", "entries", "exits"} :
            stats[counter] \in 0 .. MaxCalls
      BY <3>2, <3>3, CaptureAssumption DEF CountInv
    <3>. QED
      BY <3>4 DEF CountInv
  <2>6. Len(ring) <= RingCapacity
    BY DEF RingInv
  <2>. QED
    BY <2>1, <2>2, <2>3, <2>4, <2>5, <2>6 DEF TypeOK
<1>. QED
  BY <1>1, CaptureInvHolds, CountInvHolds, RingInvHolds, TablesOKHolds, PTL

--------------------------------------------------------------------------------
\* The programs of Capture with userspace beside them.

\* Everything is attached, for good, and what is known of Capture holds.
KernelInv ==
  /\ CaptureInv
  /\ RingInv
  /\ CountInv
  /\ CapacityInv
  /\ TablesOK
  /\ hooks = 4
  /\ ~detaching

LEMMA KernelInvInit == AInit => KernelInv
<1>1. Len(AttachOrder) = 4
  BY DEF AttachOrder
<1>2. AInit => InitWith(4)
  BY <1>1 DEF AInit
<1>3. ASSUME InitWith(4) PROVE RingInv /\ TablesOK /\ hooks = 4 /\ ~detaching
  BY <1>3, EmptyQueue, EmptySeq, CaptureAssumption, KnownTables DEF InitWith, RingInv, TablesOK
<1>. QED
  BY <1>2, <1>3, CaptureInvInit, CountInvInit DEF KernelInv

\* Userspace takes events from the ring and changes nothing else of the kernel's.
LEMMA IngestTakes ==
  ASSUME KernelInv, IngestNext
  PROVE  /\ UNCHANGED <<hooks, detaching, threads, tables, stashes, stats, calls, dropsSeen, settled>>
         /\ IsQueue(ring) /\ ring # <<>>
         /\ Len(ring) \in Nat \ {0} /\ DOMAIN ring = 1 .. Len(ring)
         /\ ring' = Tail(ring) /\ IsQueue(ring') /\ Len(ring') = Len(ring) - 1
         /\ Head(ring) = ring[1]
         /\ \A i \in 1 .. Len(ring') : ring'[i] = ring[i + 1]
<1>1. ring' = Tail(ring) /\ ring # <<>> /\ IsQueue(ring)
  BY DEF IngestNext, KernelInv, RingInv
<1>2. /\ IsQueue(ring')
      /\ Len(ring) \in Nat \ {0} /\ DOMAIN ring = 1 .. Len(ring)
      /\ DOMAIN ring' = 1 .. Len(ring) - 1
      /\ \A i \in DOMAIN ring' : ring'[i] = ring[i + 1]
      /\ Head(ring) = ring[1]
  BY <1>1, RestOfQueue
<1>3. Len(ring') \in Nat /\ DOMAIN ring' = 1 .. Len(ring')
  BY <1>2, QueueDomain
<1>4. Len(ring') = Len(ring) - 1
  <2> DEFINE n == Len(ring) - 1
             m == Len(ring')
  <2>0. 1 .. n = 1 .. m
    BY <1>2, <1>3, Zenon
  <2>a. Len(ring) \in Nat \ {0}
    BY <1>2, Zenon
  <2>b. n \in Nat
    BY <2>a
  <2>c. m \in Nat
    BY <1>3, Zenon
  <2>1. n \in Nat /\ m \in Nat /\ 1 .. n = 1 .. m
    BY <2>0, <2>b, <2>c, Zenon
  <2>. HIDE DEF n, m
  <2>2. (n \in 1 .. n \/ n = 0) /\ (m \in 1 .. m \/ m = 0)
    BY <2>1
  <2>3. n = m
    BY <2>1, <2>2
  <2>. QED
    BY <2>3 DEF n, m
<1>. QED
  BY <1>1, <1>2, <1>3, <1>4 DEF IngestNext

LEMMA KernelInvStep == KernelInv /\ [ANext]_avars => KernelInv'
<1> SUFFICES ASSUME KernelInv, [ANext]_avars PROVE KernelInv'
  OBVIOUS
<1>1. CASE ASystem
  <2>1. [Next]_vars /\ System
    BY <1>1 DEF ASystem, Next
  <2>2. UNCHANGED <<hooks, detaching>>
    BY <2>1 DEF System, Enter, Execute, Exit, Start, Die, Exec
  <2>. QED
    BY <2>1, <2>2, CaptureInvStep, RingInvStep, CountInvStep, TablesOKStep DEF KernelInv
<1>2. CASE IngestNext
  <2>1. RingInv'
    <3>1. /\ IsQueue(ring') /\ Len(ring') = Len(ring) - 1 /\ Len(ring) \in Nat
          /\ Len(ring) <= RingCapacity /\ RingCapacity \in Nat
      BY <1>2, IngestTakes, CaptureAssumption DEF KernelInv, RingInv
    <3>. QED
      BY <3>1 DEF RingInv
  <2>2. UNCHANGED <<hooks, detaching, threads, tables, stashes, stats, calls>>
    BY <1>2, IngestTakes
  <2>. QED
    BY <2>1, <2>2 DEF KernelInv, CaptureInv, ShapeInv, OwnersInv, RememberedInv, InCall,
       CountInv, ExitsFollowEntries, Callers, CapacityInv, TablesOK
<1>3. CASE UNCHANGED vars
  BY <1>3 DEF vars, KernelInv, CaptureInv, ShapeInv, OwnersInv, RememberedInv, InCall,
     RingInv, IsQueue, CountInv, ExitsFollowEntries, Callers, CapacityInv, TablesOK
<1>. QED
  BY <1>1, <1>2, <1>3 DEF ANext, SampleDrops, avars

LEMMA KernelInvHolds == ASpec => []KernelInv
BY KernelInvInit, KernelInvStep, PTL DEF ASpec

--------------------------------------------------------------------------------
\* What the steps of the kernel tell, and lose.

Counters == [{"ringDrops", "stashFailures", "entries", "exits"} -> Nat]

\* An event that comes into the ring, or is counted as lost.
Emits(e) ==
  \/ ring' = Append(ring, e) /\ Losses(stats') = Losses(stats)
  \/ UNCHANGED ring /\ Losses(stats') = Losses(stats) + 1

TellsNothing == UNCHANGED ring /\ Losses(stats') = Losses(stats)

LEMMA LossesAreNumbers == ASSUME NEW s \in Counters PROVE Losses(s) \in Nat
BY DEF Counters, Losses

LEMMA OutputEmits ==
  ASSUME RingInv, NEW e, NEW counted \in Counters, Losses(counted) = Losses(stats),
         Output(e, counted)
  PROVE  Emits(e)
<1>1. CASE ring' = Append(ring, e) /\ stats' = counted
  BY <1>1 DEF Emits
<1>2. CASE UNCHANGED ring /\ stats' = [counted EXCEPT !.ringDrops = @ + 1]
  BY <1>2 DEF Emits, Losses, Counters
<1>. QED
  BY <1>1, <1>2, OutputOrDrop

\* An entry that is lost is counted at once, and leaves nothing in a stash.
LEMMA EnterTells ==
  ASSUME KernelInv, NEW t \in Threads, NEW call \in Calls, Enter(t, call)
  PROVE  /\ UNCHANGED ring
         /\ SeenAtEntry(t, call) \in {"no", "remembered", "lost"}
         /\ SeenAtEntry(t, call) = "no" <=> StashOf(call) = {}
         /\ SeenAtEntry(t, call) # "lost" => Losses(stats') = Losses(stats)
         /\ SeenAtEntry(t, call) = "lost" =>
              /\ Losses(stats') = Losses(stats) + 1
              /\ \A kind \in StashKinds : t \notin DOMAIN stashes'[kind]
<1>1. /\ UNCHANGED ring
      /\ SeenAtEntry(t, call) \in {"no", "remembered", "lost"}
      /\ SeenAtEntry(t, call) = "no" <=> StashOf(call) = {}
  BY AttachedFrom DEF Enter, SeenAtEntry, KernelInv
<1>2. stats \in Counters
  BY DEF KernelInv, CountInv, Counters
<1>3. CASE SeenAtEntry(t, call) = "no" /\ UNCHANGED <<stashes, stats>>
  BY <1>1, <1>3
<1>4. ASSUME NEW kind \in StashKinds, Remember(kind, t, call),
             SeenAtEntry(t, call) = IF HasRoom(kind, t) THEN "remembered" ELSE "lost"
      PROVE  /\ SeenAtEntry(t, call) # "lost" => Losses(stats') = Losses(stats)
             /\ SeenAtEntry(t, call) = "lost" =>
                  /\ Losses(stats') = Losses(stats) + 1
                  /\ \A k \in StashKinds : t \notin DOMAIN stashes'[k]
  <2> DEFINE n == IF kind = "io" THEN 1 ELSE 0
  <2>1. n \in Nat
    OBVIOUS
  <2>2. CASE HasRoom(kind, t)
    <3>1. stats' = [stats EXCEPT !.entries = @ + n]
      BY <1>4, <2>2 DEF Remember
    <3>. HIDE DEF n
    <3>. QED
      BY <1>2, <1>4, <2>1, <2>2, <3>1 DEF Counters, Losses
  <2>3. CASE ~HasRoom(kind, t)
    <3>1. stats' = [stats EXCEPT !.stashFailures = @ + 1, !.entries = @ + n]
          /\ UNCHANGED stashes
      BY <1>4, <2>3 DEF Remember
    <3>. HIDE DEF n
    <3>2. Losses(stats') = Losses(stats) + 1
      BY <1>2, <2>1, <3>1 DEF Counters, Losses
    <3>3. \A k \in StashKinds : t \notin DOMAIN stashes[k]
      BY DEF KernelInv, CaptureInv, OwnersInv, InCall, Enter, User
    <3>. QED
      BY <1>4, <2>3, <3>1, <3>2, <3>3
  <2>. QED
    BY <2>2, <2>3
<1>. QED
  BY <1>1, <1>3, <1>4, EntryFills DEF KernelInv, CaptureInv

\* What is known of the calls under way.
ProgressInv ==
  \A t \in Threads :
    /\ InCall(t) =>
         /\ threads[t].seen \in {"no", "remembered", "lost"}
         /\ threads[t].seen = "no" <=> StashOf(threads[t].call) = {}
         /\ threads[t].seen = "lost" =>
              /\ Losses(stats) > 0
              /\ \A kind \in StashKinds : t \notin DOMAIN stashes[kind]
    /\ threads[t].pc = "returned" => threads[t].result \in Fds \cup {-1}

\* A call that the kernel has made and whose exit will make an event of it.
Reporting(t) ==
  /\ threads[t].pc = "returned"
  /\ threads[t].seen = "remembered"
  /\ \E kind \in StashOf(threads[t].call) : Reports(kind, threads[t].result)

KindOf(call) == CHOOSE kind \in StashOf(call) : TRUE

Upcoming(t) == EventOf(t, KindOf(threads[t].call), threads[t].call, threads[t].result)

LEMMA OnlyStash ==
  ASSUME NEW call \in Calls, NEW kind \in StashOf(call)
  PROVE  StashOf(call) = {kind} /\ TakenBy(call) = {kind} /\ KindOf(call) = kind
BY OneStash DEF KindOf

LEMMA ExitTells ==
  ASSUME KernelInv, ProgressInv, NEW t \in Threads, Exit(t)
  PROVE  IF Reporting(t) THEN Emits(Upcoming(t)) ELSE TellsNothing
<1> DEFINE call == threads[t].call
           n(kind) == IF kind = "io" THEN 1 ELSE 0
           counted(kind) == [stats EXCEPT !.exits = @ + n(kind)]
<1>1. /\ call \in Calls /\ InCall(t) /\ threads[t].pc = "returned"
      /\ threads[t].seen \in {"no", "remembered", "lost"}
      /\ stats \in Counters
  BY ExitTakesOut DEF KernelInv, CaptureInv, Exit, InCall, ProgressInv, CountInv, Counters
<1>2. ASSUME NEW kind \in StashKinds
      PROVE  counted(kind) \in Counters /\ Losses(counted(kind)) = Losses(stats)
  <2>1. n(kind) \in Nat
    OBVIOUS
  <2>. HIDE DEF n
  <2>. QED
    BY <1>1, <2>1 DEF Counters, Losses
<1>3. CASE threads[t].seen = "remembered"
  <2>1. StashOf(call) # {}
    BY <1>1, <1>3 DEF ProgressInv
  <2>2. PICK kind \in StashKinds : StashOf(call) = {kind} /\ TakenBy(call) = {kind} /\ KindOf(call) = kind
    BY <1>1, <2>1, OneStash, OnlyStash
  <2>3. t \in DOMAIN stashes[kind] /\ stashes[kind][t] = call
    BY <1>1, <1>3, <2>2 DEF KernelInv, CaptureInv, RememberedInv, OwnersInv
  <2>4. Report(t, kind, threads[t].result)
    BY <2>2, <2>3, ExitTakesOut DEF KernelInv, CaptureInv
  <2>5. CASE Reports(kind, threads[t].result)
    <3>1. Reporting(t) /\ Upcoming(t) = EventOf(t, kind, call, threads[t].result)
      BY <1>1, <1>3, <2>2, <2>5 DEF Reporting, Upcoming
    <3>2. Output(EventOf(t, kind, call, threads[t].result), counted(kind))
      BY <2>3, <2>4, <2>5 DEF Report
    <3>. HIDE DEF counted, call
    <3>. QED
      BY <1>2, <3>1, <3>2, OutputEmits DEF KernelInv
  <2>6. CASE ~Reports(kind, threads[t].result)
    <3>1. ~Reporting(t)
      BY <2>2, <2>6 DEF Reporting
    <3>2. stats' = counted(kind) /\ UNCHANGED ring
      BY <2>4, <2>6 DEF Report
    <3>. HIDE DEF counted, call
    <3>. QED
      BY <1>2, <3>1, <3>2 DEF TellsNothing
  <2>. QED
    BY <2>5, <2>6
<1>4. CASE threads[t].seen # "remembered"
  <2>1. ~Reporting(t)
    BY <1>4 DEF Reporting
  <2>2. \A kind \in StashKinds : t \notin DOMAIN stashes[kind]
    BY <1>1, <1>4 DEF ProgressInv, KernelInv, CaptureInv, OwnersInv
  <2>3. UNCHANGED <<ring, stats>>
    BY <2>2, ExitTakesOut DEF KernelInv, CaptureInv
  <2>. QED
    BY <2>1, <2>3 DEF TellsNothing
<1>. QED
  BY <1>3, <1>4

\* The end of a thread is told if it was the last of its process.
LEMMA DieTells ==
  ASSUME KernelInv, NEW t \in Threads, Die(t)
  PROVE  IF Live(ProcessOf[t]) = {t} THEN Emits([kind |-> "ProcessExit", pid |-> ProcessOf[t]])
         ELSE TellsNothing
<1>1. Attached("process_exit") /\ stats \in Counters
  BY AttachedFrom DEF KernelInv, CountInv, Counters
<1>2. CASE Live(ProcessOf[t]) = {t}
  BY <1>1, <1>2, OutputEmits DEF Die, KernelInv
<1>3. CASE Live(ProcessOf[t]) # {t}
  BY <1>1, <1>3 DEF Die, TellsNothing
<1>. QED
  BY <1>2, <1>3

LEMMA ExecTells ==
  ASSUME KernelInv, NEW t \in Threads, NEW kept \in SUBSET Fds, Exec(t, kept)
  PROVE  Emits([kind |-> "ProcessExec", pid |-> ProcessOf[t]])
<1>1. Attached("exec") /\ stats \in Counters
  BY AttachedFrom DEF KernelInv, CountInv, Counters
<1>. QED
  BY <1>1, OutputEmits DEF Exec, KernelInv

--------------------------------------------------------------------------------
\* What calls return.

LEMMA LowestFreeIsFree ==
  ASSUME NEW table, Free(table) # {}
  PROVE  LowestFree(table) \in Free(table)
<1>1. Free(table) \in SUBSET Nat
  BY CaptureAssumption DEF Free, Fds
<1>2. \E fd \in Free(table) : \A other \in Free(table) : fd <= other
  BY <1>1, LeastNumber
<1>. QED
  BY <1>2 DEF LowestFree

LEMMA OpenResult ==
  ASSUME NEW table, NEW file, NEW origin
  PROVE  Open(table, file, origin).result \in Fds \cup {-1}
<1>1. CASE Free(table) = {}
  BY <1>1 DEF Open
<1>2. CASE Free(table) # {}
  <2>1. LowestFree(table) \in Fds
    BY <1>2, LowestFreeIsFree DEF Free
  <2>. QED
    BY <1>2, <2>1 DEF Open
<1>. QED
  BY <1>1, <1>2

LEMMA OutcomeResult ==
  ASSUME NEW table, NEW call \in Calls
  PROVE  Outcome(table, call).result \in Fds \cup {-1}
<1>1. IsCall(call) /\ 0 \in Fds
  BY CaptureAssumption DEF Fds
<1>2. CASE call.op \in {"open", "untraced"}
  BY <1>2, OpenResult DEF Outcome
<1>3. CASE call.op \in {"read", "write", "fcntl", "close", "close_range"}
  BY <1>1, <1>3 DEF Outcome
<1>4. CASE call.op = "dup"
  BY <1>4, OpenResult DEF Outcome
<1>5. CASE call.op = "dup2"
  BY <1>1, <1>5 DEF Outcome, IsCall
<1>. QED
  BY <1>1, <1>2, <1>3, <1>4, <1>5 DEF IsCall

\* Losses are never forgotten.
LEMMA LossesGrow ==
  ASSUME KernelInv, ProgressInv, [ANext]_avars
  PROVE  /\ Losses(stats) \in Nat
         /\ Losses(stats') \in {Losses(stats), Losses(stats) + 1}
<1>1. Losses(stats) \in Nat
  BY LossesAreNumbers DEF KernelInv, CountInv, Counters
<1>2. CASE System
  <2>1. ASSUME NEW t \in Threads, NEW call \in Calls, Enter(t, call)
        PROVE  Losses(stats') \in {Losses(stats), Losses(stats) + 1}
    BY <2>1, EnterTells
  <2>2. ASSUME NEW t \in Threads, Execute(t) \/ Start(t) PROVE UNCHANGED stats
    BY <2>2 DEF Execute, Start
  <2>3. ASSUME NEW t \in Threads, Exit(t)
        PROVE  Losses(stats') \in {Losses(stats), Losses(stats) + 1}
    BY <2>3, ExitTells DEF Emits, TellsNothing
  <2>4. ASSUME NEW t \in Threads, Die(t)
        PROVE  Losses(stats') \in {Losses(stats), Losses(stats) + 1}
    BY <2>4, DieTells DEF Emits, TellsNothing
  <2>5. ASSUME NEW t \in Threads, NEW kept \in SUBSET Fds, Exec(t, kept)
        PROVE  Losses(stats') \in {Losses(stats), Losses(stats) + 1}
    BY <2>5, ExecTells DEF Emits
  <2>. QED
    BY <1>1, <1>2, <2>1, <2>2, <2>3, <2>4, <2>5 DEF System
<1>3. CASE UNCHANGED stats
  BY <1>1, <1>3
<1>. QED
  BY <1>1, <1>2, <1>3, IngestTakes DEF ANext, ASystem, SampleDrops, avars, vars

LEMMA ProgressInvStep == KernelInv /\ ProgressInv /\ [ANext]_avars => ProgressInv'
<1> SUFFICES ASSUME KernelInv, ProgressInv, [ANext]_avars PROVE ProgressInv'
  OBVIOUS
<1> DEFINE P(t) == /\ InCall(t) =>
                        /\ threads[t].seen \in {"no", "remembered", "lost"}
                        /\ threads[t].seen = "no" <=> StashOf(threads[t].call) = {}
                        /\ threads[t].seen = "lost" =>
                             /\ Losses(stats) > 0
                             /\ \A kind \in StashKinds : t \notin DOMAIN stashes[kind]
                   /\ threads[t].pc = "returned" => threads[t].result \in Fds \cup {-1}
<1>0. /\ Losses(stats) \in Nat
      /\ Losses(stats') \in Nat
      /\ Losses(stats) > 0 => Losses(stats') > 0
      /\ DOMAIN threads = Threads /\ DOMAIN stashes = StashKinds
  BY LossesGrow DEF KernelInv, CaptureInv, ShapeInv
\* A thread that the step is not about.
<1>1. ASSUME NEW t \in Threads, threads'[t] = threads[t],
             \A kind \in StashKinds : DOMAIN stashes'[kind] \subseteq DOMAIN stashes[kind] \cup (Threads \ {t})
      PROVE  P(t)'
  BY <1>0, <1>1 DEF ProgressInv, InCall
<1>2. ASSUME NEW t \in Threads, threads'[t] \in {User, Dead} PROVE P(t)'
  BY <1>2 DEF InCall, User, Dead
<1>3. ASSUME UNCHANGED <<threads, stashes>> PROVE ProgressInv'
  BY <1>0, <1>3 DEF ProgressInv, InCall
<1>4. ASSUME NEW t \in Threads, NEW call \in Calls, Enter(t, call) PROVE ProgressInv'
  <2>1. /\ threads'[t] = [pc |-> "entered", call |-> call, seen |-> SeenAtEntry(t, call)]
        /\ \A u \in Threads \ {t} : threads'[u] = threads[u]
    BY <1>0, <1>4 DEF Enter
  <2>2. P(t)'
    BY <1>0, <1>4, <2>1, EnterTells DEF InCall
  <2>3. \A kind \in StashKinds : DOMAIN stashes'[kind] \subseteq DOMAIN stashes[kind] \cup {t}
    <3> DEFINE filled(kind) == [other \in DOMAIN stashes[kind] \cup {t} |->
                                 IF other = t THEN call ELSE stashes[kind][other]]
    <3>1. \A kind : DOMAIN filled(kind) = DOMAIN stashes[kind] \cup {t}
      OBVIOUS
    <3>2. \/ UNCHANGED stashes
          \/ \E kind \in StashKinds : stashes' = [stashes EXCEPT ![kind] = filled(kind)]
      BY <1>4, EntryRemembers DEF KernelInv, CaptureInv
    <3>. HIDE DEF filled
    <3>. QED
      BY <1>0, <3>1, <3>2
  <2>. HIDE DEF P
  <2>4. ASSUME NEW u \in Threads \ {t} PROVE P(u)'
    BY <1>1, <2>1, <2>3
  <2>5. \A u \in Threads : P(u)'
    BY <2>2, <2>4
  <2>. QED
    BY <2>5 DEF P, ProgressInv
<1>5. ASSUME NEW t \in Threads, Execute(t) PROVE ProgressInv'
  <2>1. /\ InCall(t)
        /\ threads'[t].pc = "returned"
        /\ threads'[t].call = threads[t].call
        /\ threads'[t].seen = threads[t].seen
        /\ threads'[t].result = Outcome(tables[ProcessOf[t]], threads[t].call).result
        /\ \A u \in Threads \ {t} : threads'[u] = threads[u]
        /\ UNCHANGED <<stashes, stats>>
    BY <1>0, <1>5 DEF Execute, InCall
  <2>2. threads[t].call \in Calls
    BY <2>1 DEF KernelInv, CaptureInv, ShapeInv, InCall, User, Dead
  <2>3. P(t)'
    BY <2>1, <2>2, OutcomeResult DEF InCall, ProgressInv
  <2>. HIDE DEF P
  <2>4. ASSUME NEW u \in Threads \ {t} PROVE P(u)'
    BY <1>1, <2>1
  <2>5. \A u \in Threads : P(u)'
    BY <2>3, <2>4
  <2>. QED
    BY <2>5 DEF P, ProgressInv
<1>6. ASSUME NEW t \in Threads, Forgets(t),
             threads' = [threads EXCEPT ![t] = User] \/ threads' = [threads EXCEPT ![t] = Dead]
      PROVE  ProgressInv'
  <2>1. /\ threads'[t] \in {User, Dead}
        /\ \A u \in Threads \ {t} : threads'[u] = threads[u]
    BY <1>0, <1>6
  <2>2. \A kind \in StashKinds : DOMAIN stashes'[kind] \subseteq DOMAIN stashes[kind]
    BY <1>6 DEF Forgets
  <2>. HIDE DEF P
  <2>3. ASSUME NEW u \in Threads \ {t} PROVE P(u)'
    BY <1>1, <2>1, <2>2
  <2>4. \A u \in Threads : P(u)'
    BY <1>2, <2>1, <2>3
  <2>. QED
    BY <2>4 DEF P, ProgressInv
<1>. HIDE DEF P
<1>7. ASSUME NEW t \in Threads, Exit(t) \/ Die(t) PROVE ProgressInv'
  BY <1>6, <1>7, ExitKeeps, DieKeeps DEF KernelInv, Exit, Die
<1>8. ASSUME NEW t \in Threads, Start(t) PROVE ProgressInv'
  BY <1>0, <1>6, <1>8 DEF Start, Forgets, KernelInv, CaptureInv, ShapeInv
<1>9. ASSUME NEW t \in Threads, NEW kept \in SUBSET Fds, Exec(t, kept) PROVE ProgressInv'
  BY <1>3, <1>9 DEF Exec
<1>10. CASE IngestNext \/ SampleDrops \/ UNCHANGED avars
  BY <1>3, <1>10, IngestTakes DEF SampleDrops, avars, vars
<1>. QED
  BY <1>4, <1>5, <1>7, <1>8, <1>9, <1>10 DEF ANext, ASystem, System

LEMMA ProgressInvHolds == ASpec => []ProgressInv
<1>1. AInit => ProgressInv
  BY DEF AInit, InitWith, ProgressInv, InCall, User
<1>. QED
  BY <1>1, KernelInvHolds, ProgressInvStep, PTL DEF ASpec

--------------------------------------------------------------------------------
\* Types.

Descriptors == Pids \X Fds

Paths == (Files \ NonFiles) \cup {Unresolved}

IsEvent(e) ==
  /\ e.pid \in Pids
  /\ \/ e.kind = "Open" /\ e.fd \in Fds /\ e.file \in Files \ NonFiles
     \/ e.kind \in {"Io", "Close"} /\ e.fd \in Fds
     \/ e.kind = "Dup" /\ e.old \in Fds /\ e.new \in Fds
     \/ e.kind \in {"CloseRange", "ProcessExec", "ProcessExit"}

EventsInv == \A i \in 1 .. Len(ring) : IsEvent(ring[i])

\* The events of a call, by the stash that remembers it.
LEMMA UpcomingIsEvent ==
  ASSUME KernelInv, ProgressInv, NEW t \in Threads, Reporting(t)
  PROVE  IsEvent(Upcoming(t))
<1> DEFINE call == threads[t].call
           r == threads[t].result
<1>1. call \in Calls /\ IsCall(call) /\ r \in Fds \cup {-1} /\ ProcessOf[t] \in Pids
  BY CaptureAssumption DEF Reporting, KernelInv, CaptureInv, ShapeInv, InCall, User, Dead,
     ProgressInv, Pids
<1>2. PICK kind \in StashOf(call) : Reports(kind, r) /\ Upcoming(t) = EventOf(t, kind, call, r)
  BY <1>1, OnlyStash DEF Reporting, Upcoming
<1>3. call.op = "open" => call.file \in Files \ NonFiles
  BY <1>1, AttributionAssumption DEF IsCall
<1>4. kind # "io" => r \in Fds
  <2>1. ~(-1 >= 0)
    OBVIOUS
  <2>. QED
    BY <1>1, <1>2, <2>1 DEF Reports
<1>. HIDE DEF call, r
<1>5. CASE call.op = "open"
  BY <1>1, <1>2, <1>3, <1>4, <1>5 DEF StashOf, EventOf, IsEvent
<1>6. CASE call.op \in {"read", "write"}
  BY <1>1, <1>2, <1>6 DEF StashOf, EventOf, IsEvent, IsCall
<1>7. CASE call.op = "close"
  BY <1>1, <1>2, <1>7 DEF StashOf, EventOf, IsEvent, IsCall
<1>8. CASE call.op \in {"dup", "dup2"}
  BY <1>1, <1>2, <1>4, <1>8 DEF StashOf, EventOf, IsEvent, IsCall
<1>9. CASE call.op = "close_range"
  BY <1>1, <1>2, <1>9 DEF StashOf, EventOf, IsEvent
<1>10. CASE call.op \in {"fcntl", "untraced"}
  BY <1>2, <1>10 DEF StashOf
<1>. QED
  BY <1>1, <1>5, <1>6, <1>7, <1>8, <1>9, <1>10 DEF IsCall

LEMMA AppendKeepsEvents ==
  ASSUME RingInv, EventsInv, NEW e, IsEvent(e), Emits(e)
  PROVE  EventsInv'
<1>1. CASE ring' = Append(ring, e)
  <2>1. /\ Len(ring) \in Nat /\ DOMAIN ring = 1 .. Len(ring)
        /\ \A i \in DOMAIN ring : ring'[i] = ring[i]
        /\ ring'[Len(ring) + 1] = e
    BY <1>1, AppendedQueue, QueueDomain DEF RingInv
  <2>2. Len(ring') = Len(ring) + 1
    <3>1. ring \in Seq(Range(ring) \cup {e})
      BY DEF RingInv, IsQueue, Range
    <3>. QED
      BY <1>1, <3>1, AppendProperties
  <2>. QED
    BY <2>1, <2>2 DEF EventsInv
<1>2. CASE UNCHANGED ring
  BY <1>2 DEF EventsInv
<1>. QED
  BY <1>1, <1>2 DEF Emits

LEMMA EventsInvStep ==
  KernelInv /\ ProgressInv /\ EventsInv /\ [ANext]_avars => EventsInv'
<1> SUFFICES ASSUME KernelInv, ProgressInv, EventsInv, [ANext]_avars PROVE EventsInv'
  OBVIOUS
<1>0. RingInv /\ \A t \in Threads : ProcessOf[t] \in Pids
  BY DEF KernelInv, Pids
<1>1. CASE UNCHANGED ring
  BY <1>1 DEF EventsInv
<1>2. ASSUME NEW t \in Threads, Exit(t) PROVE EventsInv'
  BY <1>0, <1>1, <1>2, ExitTells, UpcomingIsEvent, AppendKeepsEvents DEF TellsNothing
<1>3. ASSUME NEW t \in Threads, Die(t) PROVE EventsInv'
  <2> DEFINE e == [kind |-> "ProcessExit", pid |-> ProcessOf[t]]
  <2>1. IsEvent(e)
    BY <1>0 DEF IsEvent
  <2>2. Emits(e) \/ TellsNothing
    BY <1>3, DieTells
  <2>. HIDE DEF e
  <2>. QED
    BY <1>0, <1>1, <2>1, <2>2, AppendKeepsEvents DEF TellsNothing
<1>4. ASSUME NEW t \in Threads, NEW kept \in SUBSET Fds, Exec(t, kept) PROVE EventsInv'
  <2> DEFINE e == [kind |-> "ProcessExec", pid |-> ProcessOf[t]]
  <2>1. IsEvent(e)
    BY <1>0 DEF IsEvent
  <2>2. Emits(e)
    BY <1>4, ExecTells
  <2>. HIDE DEF e
  <2>. QED
    BY <1>0, <2>1, <2>2, AppendKeepsEvents
<1>5. CASE IngestNext
  <2>1. /\ Len(ring) \in Nat \ {0} /\ Len(ring') = Len(ring) - 1
        /\ \A i \in 1 .. Len(ring') : ring'[i] = ring[i + 1]
    BY <1>5, IngestTakes
  <2>2. \A i \in 1 .. Len(ring') : i + 1 \in 1 .. Len(ring)
    BY <2>1
  <2>. QED
    BY <2>1, <2>2 DEF EventsInv
<1>6. ASSUME NEW t \in Threads, NEW call \in Calls, Enter(t, call) PROVE UNCHANGED ring
  BY <1>6 DEF Enter
<1>7. ASSUME NEW t \in Threads, Execute(t) \/ Start(t) PROVE UNCHANGED ring
  BY <1>7 DEF Execute, Start
<1>. QED
  BY <1>1, <1>2, <1>3, <1>4, <1>5, <1>6, <1>7 DEF ANext, ASystem, System, SampleDrops, avars, vars

\* What the cache and the attributions hold, and what the monitor has seen.
CacheInv ==
  /\ DOMAIN cache \subseteq Descriptors
  /\ \A d \in DOMAIN cache : cache[d] \in Paths

MonitorInv ==
  /\ dropsSeen \in Nat
  /\ dropsSeen <= Losses(stats)
  /\ mistaken \in BOOLEAN
  /\ settled \in BOOLEAN

AttributedInv == \A attribution \in attributions : attribution.path \in Paths

UserInv == CacheInv /\ MonitorInv /\ AttributedInv

LEMMA StoredPath ==
  ASSUME NEW known, NEW pid \in Pids, NEW fd \in Fds, NEW path \in Paths \cup {None},
         DOMAIN known \subseteq Descriptors, \A d \in DOMAIN known : known[d] \in Paths
  PROVE  /\ DOMAIN Stored(known, pid, fd, path) \subseteq Descriptors
         /\ \A d \in DOMAIN Stored(known, pid, fd, path) : Stored(known, pid, fd, path)[d] \in Paths
BY DEF Stored, Descriptors

LEMMA WithoutPath ==
  ASSUME NEW known, NEW gone, DOMAIN known \subseteq Descriptors, \A d \in DOMAIN known : known[d] \in Paths
  PROVE  /\ DOMAIN Without(known, gone) \subseteq Descriptors
         /\ \A d \in DOMAIN Without(known, gone) : Without(known, gone)[d] \in Paths
BY DEF Without, Restrict

\* What is behind a descriptor at the time of asking: nothing, a pipe or a path.
LEMMA ResolvedFd ==
  ASSUME KernelInv, CacheInv, NEW pid \in Pids, NEW fd \in Fds
  PROVE  ResolveFd(pid, fd) \in Paths \cup {None}
BY DEF KernelInv, TablesOK, Entries, CacheInv, ResolveFd, ProcTarget, Paths

LEMMA UserInvStep ==
  KernelInv /\ ProgressInv /\ EventsInv /\ UserInv /\ [ANext]_avars => UserInv'
<1> SUFFICES ASSUME KernelInv, ProgressInv, EventsInv, UserInv, [ANext]_avars PROVE UserInv'
  OBVIOUS
<1> USE DEF UserInv
<1>1. CASE UNCHANGED userVars
  BY <1>1, LossesGrow DEF userVars, CacheInv, MonitorInv, AttributedInv
<1>2. CASE SampleDrops
  <2>1. (ring = <<>>) \in BOOLEAN /\ settled' = (ring = <<>>)
    BY <1>2 DEF SampleDrops
  <2>2. settled' \in BOOLEAN
    BY <2>1, Zenon
  <2>3. DOMAIN cache' = {}
    BY <1>2, EmptyQueue DEF SampleDrops
  <2>. QED
    BY <1>2, <2>2, <2>3, LossesGrow DEF SampleDrops, vars, CacheInv, MonitorInv, AttributedInv
<1>3. CASE IngestNext
  <2> DEFINE e == Head(ring)
  <2>1. IsEvent(e)
    BY <1>3, IngestTakes DEF EventsInv
  <2>2. \/ IngestOpen(e) \/ IngestIo(e) \/ IngestClose(e)
        \/ IngestDup(e) \/ IngestCloseRange(e) \/ IngestProcess(e)
    BY <1>3 DEF IngestNext
  <2>3. UNCHANGED <<stats, dropsSeen, settled>>
    BY <1>3, IngestTakes
  <2>. HIDE DEF e
  <2>4. CASE IngestOpen(e)
    <3>1. ResolveOpen(e) \in Paths \cup {None} /\ e.pid \in Pids /\ e.fd \in Fds
      BY <2>1, <2>4 DEF IngestOpen, IsEvent, ResolveOpen, Paths
    <3>2. CacheInv'
      BY <2>4, <3>1, StoredPath DEF IngestOpen, CacheInv
    <3>3. mistaken' = (mistaken \/ (ResolveOpen(e) = None /\ e.file \notin NonFiles))
      BY <2>4 DEF IngestOpen
    <3>4. (mistaken \/ (ResolveOpen(e) = None /\ e.file \notin NonFiles)) \in BOOLEAN
      OBVIOUS
    <3>5. mistaken' \in BOOLEAN
      BY <3>3, <3>4, Zenon
    <3>. QED
      BY <2>3, <2>4, <3>2, <3>5 DEF IngestOpen, MonitorInv, AttributedInv
  <2>5. CASE IngestIo(e)
    <3>1. e.pid \in Pids /\ e.fd \in Fds
      BY <2>1, <2>5 DEF IngestIo, IsEvent
    <3>2. CASE e.result < 0
      BY <2>3, <2>5, <3>2 DEF IngestIo, CacheInv, MonitorInv, AttributedInv
    <3>3. CASE ~(e.result < 0)
      <4> DEFINE path == ResolveFd(e.pid, e.fd)
      <4>1. path \in Paths \cup {None}
        BY <3>1, ResolvedFd
      <4>2. cache' = Stored(cache, e.pid, e.fd, path)
        BY <2>5, <3>3 DEF IngestIo
      <4>3. attributions' = IF path = None THEN attributions
                            ELSE attributions \cup {Attribution(e, path)}
        BY <2>5, <3>3 DEF IngestIo
      <4>4. Attribution(e, path).path = path
        BY DEF Attribution
      <4>. HIDE DEF path
      <4>5. CacheInv'
        BY <3>1, <4>1, <4>2, StoredPath DEF CacheInv
      <4>. QED
        BY <2>3, <2>5, <4>1, <4>3, <4>4, <4>5 DEF IngestIo, MonitorInv, AttributedInv
    <3>. QED
      BY <3>2, <3>3
  <2>6. CASE IngestDup(e)
    <3> DEFINE path == ResolveFd(e.pid, e.old)
               resolved == Stored(cache, e.pid, e.old, path)
               closed == IF e.old = e.new THEN resolved ELSE Without(resolved, {<<e.pid, e.new>>})
    <3>1. e.pid \in Pids /\ e.old \in Fds /\ e.new \in Fds
      BY <2>1, <2>6 DEF IngestDup, IsEvent
    <3>2. path \in Paths \cup {None}
      BY <3>1, ResolvedFd
    <3>3. cache' = Stored(closed, e.pid, e.new, path)
      BY <2>6 DEF IngestDup
    <3>. HIDE DEF path
    <3>4. DOMAIN resolved \subseteq Descriptors /\ \A d \in DOMAIN resolved : resolved[d] \in Paths
      BY <3>1, <3>2, StoredPath DEF CacheInv
    <3>. HIDE DEF resolved
    <3>5. DOMAIN closed \subseteq Descriptors /\ \A d \in DOMAIN closed : closed[d] \in Paths
      BY <3>4, WithoutPath
    <3>. HIDE DEF closed
    <3>6. CacheInv'
      BY <3>1, <3>2, <3>3, <3>5, StoredPath DEF CacheInv
    <3>. QED
      BY <2>3, <2>6, <3>6 DEF IngestDup, MonitorInv, AttributedInv
  <2>7. CASE IngestClose(e) \/ IngestCloseRange(e) \/ IngestProcess(e)
    <3>1. cache' = cache \/ \E gone : cache' = Without(cache, gone)
      BY <2>7 DEF IngestClose, IngestCloseRange, IngestProcess
    <3>2. CacheInv'
      BY <3>1, WithoutPath DEF CacheInv
    <3>. QED
      BY <2>3, <2>7, <3>2 DEF IngestClose, IngestCloseRange, IngestProcess, MonitorInv, AttributedInv
  <2>. QED
    BY <2>2, <2>4, <2>5, <2>6, <2>7
<1>. QED
  BY <1>1, <1>2, <1>3 DEF ANext, ASystem, avars, userVars

LEMMA UserInvHolds == ASpec => [](EventsInv /\ UserInv)
<1>1. AInit => EventsInv /\ UserInv
  <2>1. ASSUME AInit PROVE EventsInv /\ UserInv
    <3>1. /\ ring = <<>> /\ stats = NoStats /\ cache = <<>> /\ dropsSeen = 0
          /\ attributions = {} /\ mistaken = FALSE /\ settled = TRUE
      BY <2>1 DEF AInit, InitWith
    <3>2. DOMAIN cache = {} /\ Len(ring) = 0
      BY <3>1, EmptyQueue, EmptySeq, Zenon
    <3>3. Losses(stats) = 0
      BY <3>1 DEF NoStats, Losses
    <3>4. EventsInv
      BY <3>2 DEF EventsInv
    <3>5. CacheInv
      BY <3>2 DEF CacheInv
    <3>6. AttributedInv
      BY <3>1 DEF AttributedInv
    <3>7. mistaken \in BOOLEAN /\ settled \in BOOLEAN
      BY <3>1, Zenon
    <3>8. MonitorInv
      BY <3>1, <3>3, <3>7 DEF MonitorInv
    <3>. QED
      BY <3>4, <3>5, <3>6, <3>8 DEF UserInv
  <2>. QED
    BY <2>1
<1>. QED
  BY <1>1, KernelInvHolds, ProgressInvHolds, EventsInvStep, UserInvStep, PTL DEF ASpec

\* The cache holds paths of descriptors, never a pipe's nor the absence of one,
\* and the monitor has not seen more losses than there were.
THEOREM AttributionTypeCorrect == ASpec => []ATypeOK
<1>1. KernelInv /\ UserInv => ATypeOK
  <2>1. ASSUME KernelInv, UserInv PROVE ATypeOK
    <3>1. Losses(stats) \in Nat
      BY <2>1, LossesAreNumbers DEF KernelInv, CountInv, Counters
    <3>. QED
      BY <2>1, <3>1 DEF UserInv, CacheInv, MonitorInv, AttributedInv, Descriptors, Paths, ATypeOK
  <2>. QED
    BY <2>1
<1>. QED
  BY <1>1, KernelInvHolds, UserInvHolds, PTL

--------------------------------------------------------------------------------
\* What an event tells of a descriptor table.

\* Descriptor d gets or loses a file; it is taken away; it is there to be used.
Touches(e, d) ==
  /\ e.pid = d[1]
  /\ \/ e.kind \in {"Open", "Close"} /\ e.fd = d[2]
     \/ e.kind = "Dup" /\ e.new = d[2] /\ e.old # e.new
     \/ e.kind = "CloseRange" /\ ~e.cloexec /\ d[2] \in e.first .. e.last
     \/ e.kind \in {"ProcessExec", "ProcessExit"}

Removes(e, d) == Touches(e, d) /\ e.kind \notin {"Open", "Dup"}

Uses(e, d) ==
  /\ e.pid = d[1]
  /\ \/ e.kind = "Io" /\ e.fd = d[2] /\ ~(e.result < 0)
     \/ e.kind = "Dup" /\ e.old = d[2]

Mentions(e, d) == Touches(e, d) \/ Uses(e, d)

Table == [Fds -> Entries]

\* Nothing is behind a closed descriptor, and something behind an open one.
Proper(table) == \A fd \in Fds : table[fd].file = None <=> table[fd].origin = "none"

\* What is known of a table after an event, from the table before it.
Explains(e, before, after) ==
  \A fd \in Fds :
    LET d == <<e.pid, fd>>
    IN  /\ ~Touches(e, d) => after[fd] = before[fd]
        /\ Touches(e, d) /\ e.kind = "Open" =>
             before[fd].file = None /\ after[fd].file = e.file /\ after[fd].origin = "opened"
        /\ Touches(e, d) /\ e.kind = "Dup" =>
             /\ after[fd].file = before[e.old].file
             /\ after[fd].origin = CopyOrigin(before[e.old].origin)
        /\ Removes(e, d) => after[fd].origin \in {"none", "inherited"}
        /\ Uses(e, d) => before[fd].file # None
        /\ e.kind = "Io" /\ e.fd = fd => e.subject = before[fd]

\* An event made of a call that has returned, in a process.
Tells(e, pid, thread) ==
  LET call == thread.call
  IN  /\ e.pid = pid
      /\ \/ call.op = "open" /\ e.kind = "Open" /\ e.fd = thread.result /\ e.file = call.file
         \/ /\ call.op \in {"read", "write"} /\ e.kind = "Io" /\ e.fd = call.fd
            /\ e.result = thread.result /\ e.subject = thread.subject
         \/ call.op = "close" /\ e.kind = "Close" /\ e.fd = call.fd
         \/ call.op \in {"dup", "dup2"} /\ e.kind = "Dup" /\ e.old = call.fd /\ e.new = thread.result
         \/ /\ call.op = "close_range" /\ e.kind = "CloseRange"
            /\ e.first = call.first /\ e.last = call.last /\ e.cloexec = call.cloexec

LEMMA UpcomingTells ==
  KernelInv /\ ProgressInv =>
    \A t \in Threads : Reporting(t) => Tells(Upcoming(t), ProcessOf[t], threads[t])
<1> SUFFICES ASSUME KernelInv, ProgressInv, NEW t \in Threads, Reporting(t)
             PROVE  Tells(Upcoming(t), ProcessOf[t], threads[t])
  OBVIOUS
<1> DEFINE call == threads[t].call
           r == threads[t].result
<1>1. call \in Calls /\ IsCall(call)
  BY CaptureAssumption DEF Reporting, KernelInv, CaptureInv, ShapeInv, InCall, User, Dead
<1>2. PICK kind \in StashOf(call) : Upcoming(t) = EventOf(t, kind, call, r)
  BY <1>1, OnlyStash DEF Reporting, Upcoming
<1>3. CASE call.op = "open"
  BY <1>1, <1>2, <1>3 DEF StashOf, EventOf, Tells
<1>4. CASE call.op \in {"read", "write"}
  BY <1>1, <1>2, <1>4 DEF StashOf, EventOf, Tells
<1>5. CASE call.op = "close"
  BY <1>1, <1>2, <1>5 DEF StashOf, EventOf, Tells
<1>6. CASE call.op \in {"dup", "dup2"}
  BY <1>1, <1>2, <1>6 DEF StashOf, EventOf, Tells
<1>7. CASE call.op = "close_range"
  BY <1>1, <1>2, <1>7 DEF StashOf, EventOf, Tells
<1>8. CASE call.op \in {"fcntl", "untraced"}
  BY <1>2, <1>8 DEF StashOf
<1>. QED
  BY <1>1, <1>3, <1>4, <1>5, <1>6, <1>7, <1>8 DEF IsCall

LEMMA OpenOutcome ==
  ASSUME NEW table \in Table, NEW file, NEW origin, NEW outcome, outcome = Open(table, file, origin)
  PROVE  \/ outcome.result = -1 /\ outcome.table = table
         \/ /\ outcome.result \in Fds
            /\ table[outcome.result].file = None
            /\ outcome.table = [table EXCEPT ![outcome.result] = [file |-> file, origin |-> origin]]
<1>1. CASE Free(table) = {}
  BY <1>1 DEF Open
<1>2. CASE Free(table) # {}
  <2>1. LowestFree(table) \in Fds /\ table[LowestFree(table)].file = None
    BY <1>2, LowestFreeIsFree DEF Free, IsOpen
  <2>. QED
    BY <1>2, <2>1 DEF Open
<1>. QED
  BY <1>1, <1>2

\* Every outcome of a call, spelled out.
LEMMA Outcomes ==
  ASSUME NEW T \in Table, NEW call \in Calls, NEW U, NEW r,
         Outcome(T, call).table = U, Outcome(T, call).result = r
  PROVE  \/ U = T /\ r = -1 /\ call.op # "fcntl" /\ call.op # "close_range"
         \/ /\ call.op \in {"open", "untraced"} /\ r \in Fds /\ T[r].file = None
            /\ U = [T EXCEPT ![r] = [file |-> call.file,
                                     origin |-> IF call.op = "open" THEN "opened" ELSE "untraced"]]
         \/ call.op \in {"read", "write"} /\ r = 0 /\ U = T /\ T[call.fd].file # None
         \/ /\ call.op = "close" /\ r = 0 /\ T[call.fd].file # None
            /\ U = [T EXCEPT ![call.fd] = [file |-> None, origin |-> "none"]]
         \/ /\ call.op \in {"dup", "dup2"} /\ r \in Fds /\ T[call.fd].file # None
            /\ r # call.fd
            /\ call.op = "dup" => T[r].file = None
            /\ U = [T EXCEPT ![r] = [file |-> T[call.fd].file, origin |-> CopyOrigin(T[call.fd].origin)]]
         \/ call.op = "dup2" /\ r = call.fd /\ T[call.fd].file # None /\ U = T
         \/ call.op = "fcntl" /\ r = 0 /\ U = T
         \/ /\ call.op = "close_range" /\ r = 0
            /\ U = [fd \in Fds |-> IF ~call.cloexec /\ fd \in call.first .. call.last
                                    THEN [file |-> None, origin |-> "none"] ELSE T[fd]]
<1>1. IsCall(call)
  BY CaptureAssumption
<1>a. ASSUME NEW file, NEW origin,
             Open(T, file, origin).table = U, Open(T, file, origin).result = r
      PROVE  \/ r = -1 /\ U = T
             \/ r \in Fds /\ T[r].file = None /\ U = [T EXCEPT ![r] = [file |-> file, origin |-> origin]]
  <2> DEFINE outcome == Open(T, file, origin)
  <2>1. \/ outcome.result = -1 /\ outcome.table = T
        \/ /\ outcome.result \in Fds
           /\ T[outcome.result].file = None
           /\ outcome.table = [T EXCEPT ![outcome.result] = [file |-> file, origin |-> origin]]
    BY OpenOutcome
  <2>2. outcome.table = U /\ outcome.result = r
    BY <1>a
  <2>. HIDE DEF outcome
  <2>. QED
    BY <2>1, <2>2
<1>2. CASE call.op = "open"
  <2>1. Open(T, call.file, "opened").table = U /\ Open(T, call.file, "opened").result = r
    BY <1>2 DEF Outcome
  <2>2. \/ r = -1 /\ U = T
        \/ /\ r \in Fds /\ T[r].file = None
           /\ U = [T EXCEPT ![r] = [file |-> call.file, origin |-> "opened"]]
    BY <1>a, <2>1
  <2>. QED
    BY <1>2, <2>2
<1>3. CASE call.op = "untraced"
  <2>1. Open(T, call.file, "untraced").table = U /\ Open(T, call.file, "untraced").result = r
    BY <1>3 DEF Outcome
  <2>2. \/ r = -1 /\ U = T
        \/ /\ r \in Fds /\ T[r].file = None
           /\ U = [T EXCEPT ![r] = [file |-> call.file, origin |-> "untraced"]]
    BY <1>a, <2>1
  <2>. QED
    BY <1>3, <2>2
<1>4. CASE call.op \in {"read", "write"}
  BY <1>4 DEF Outcome, IsOpen
<1>5. CASE call.op = "close"
  <2>1. call.fd \in Fds /\ NoTable[call.fd] = [file |-> None, origin |-> "none"]
    BY <1>1, <1>5 DEF IsCall, NoTable
  <2>. QED
    BY <1>5, <2>1 DEF Outcome, IsOpen
<1>6. CASE call.op = "dup"
  <2>1. CASE T[call.fd].file = None
    BY <1>6, <2>1 DEF Outcome, IsOpen
  <2>2. CASE T[call.fd].file # None
    <3>1. /\ Open(T, T[call.fd].file, CopyOrigin(T[call.fd].origin)).table = U
          /\ Open(T, T[call.fd].file, CopyOrigin(T[call.fd].origin)).result = r
      BY <1>6, <2>2 DEF Outcome, IsOpen
    <3> DEFINE file == T[call.fd].file
               origin == CopyOrigin(T[call.fd].origin)
    <3>2. \/ r = -1 /\ U = T
          \/ r \in Fds /\ T[r].file = None /\ U = [T EXCEPT ![r] = [file |-> file, origin |-> origin]]
      BY <1>a, <3>1
    <3>. HIDE DEF origin
    <3>3. \/ r = -1 /\ U = T
          \/ /\ call.op \in {"dup", "dup2"} /\ r \in Fds /\ T[call.fd].file # None
             /\ r # call.fd /\ (call.op = "dup" => T[r].file = None)
             /\ U = [T EXCEPT ![r] = [file |-> T[call.fd].file, origin |-> origin]]
      BY <1>6, <2>2, <3>2
    <3>. QED
      BY <1>6, <3>3 DEF origin
  <2>. QED
    BY <2>1, <2>2
<1>7. CASE call.op = "dup2"
  BY <1>1, <1>7 DEF Outcome, IsOpen, IsCall
<1>8. CASE call.op = "fcntl"
  BY <1>8 DEF Outcome
<1>9. CASE call.op = "close_range"
  <2>1. \A fd \in Fds : NoTable[fd] = [file |-> None, origin |-> "none"]
    BY DEF NoTable
  <2>. QED
    BY <1>9, <2>1 DEF Outcome
<1>. QED
  BY <1>1, <1>2, <1>3, <1>4, <1>5, <1>6, <1>7, <1>8, <1>9 DEF IsCall

LEMMA OutcomeProper ==
  ASSUME NEW T \in Table, Proper(T), NEW call \in Calls
  PROVE  Proper(Outcome(T, call).table)
<1> DEFINE U == Outcome(T, call).table
           r == Outcome(T, call).result
           copied == CopyOrigin(T[call.fd].origin)
<1>1. IsCall(call) /\ copied # "none" /\ None \notin Files
  BY CaptureAssumption DEF CopyOrigin
<1>2. Outcome(T, call).table = U /\ Outcome(T, call).result = r
  OBVIOUS
<1>. SUFFICES Proper(U)
  OBVIOUS
<1>. HIDE DEF U, r, copied
<1>3. CASE U = T
  BY <1>3 DEF Proper
<1>4. ASSUME NEW fd \in Fds, NEW file, NEW origin, U = [T EXCEPT ![fd] = [file |-> file, origin |-> origin]],
             file = None <=> origin = "none"
      PROVE  Proper(U)
  BY <1>4 DEF Proper, Table
<1>5. CASE /\ call.op \in {"open", "untraced"} /\ r \in Fds
           /\ U = [T EXCEPT ![r] = [file |-> call.file,
                                   origin |-> IF call.op = "open" THEN "opened" ELSE "untraced"]]
  <2>1. call.file # None
    BY <1>1, <1>5 DEF IsCall
  <2>. QED
    BY <1>4, <1>5, <2>1
<1>6. CASE /\ call.op = "close"
           /\ U = [T EXCEPT ![call.fd] = [file |-> None, origin |-> "none"]]
  BY <1>1, <1>4, <1>6 DEF IsCall
<1>7. CASE /\ call.op \in {"dup", "dup2"} /\ r \in Fds /\ T[call.fd].file # None
           /\ U = [T EXCEPT ![r] = [file |-> T[call.fd].file, origin |-> CopyOrigin(T[call.fd].origin)]]
  <2>1. U = [T EXCEPT ![r] = [file |-> T[call.fd].file, origin |-> copied]]
    BY <1>7 DEF copied
  <2>. QED
    BY <1>1, <1>4, <1>7, <2>1
<1>8. CASE U = [fd \in Fds |-> IF ~call.cloexec /\ fd \in call.first .. call.last
                               THEN [file |-> None, origin |-> "none"] ELSE T[fd]]
  BY <1>8 DEF Proper
<1>9. \/ U = T
      \/ /\ call.op \in {"open", "untraced"} /\ r \in Fds
         /\ U = [T EXCEPT ![r] = [file |-> call.file,
                                  origin |-> IF call.op = "open" THEN "opened" ELSE "untraced"]]
      \/ call.op = "close" /\ U = [T EXCEPT ![call.fd] = [file |-> None, origin |-> "none"]]
      \/ /\ call.op \in {"dup", "dup2"} /\ r \in Fds /\ T[call.fd].file # None
         /\ U = [T EXCEPT ![r] = [file |-> T[call.fd].file, origin |-> CopyOrigin(T[call.fd].origin)]]
      \/ U = [fd \in Fds |-> IF ~call.cloexec /\ fd \in call.first .. call.last
                             THEN [file |-> None, origin |-> "none"] ELSE T[fd]]
  BY <1>2, Outcomes
<1>. QED
  BY <1>3, <1>5, <1>6, <1>7, <1>8, <1>9, Zenon

\* What a thread has when its call has returned: the kernel has made of the table
\* what the call makes of it.
Made(thread, before, after) ==
  /\ thread.call \in Calls
  /\ Outcome(before, thread.call).table = after
  /\ Outcome(before, thread.call).result = thread.result
  /\ thread.call.op \in {"read", "write"} => thread.subject = before[thread.call.fd]

Worth(thread) == \E kind \in StashOf(thread.call) : Reports(kind, thread.result)

\* The event of a call explains what has become of the table.
LEMMA CallExplained ==
  ASSUME NEW T \in Table, Proper(T), NEW thread, NEW U, Made(thread, T, U), Worth(thread),
         NEW pid, NEW e, Tells(e, pid, thread)
  PROVE  Explains(e, T, U)
<1> DEFINE call == thread.call
           r == thread.result
           origin == CopyOrigin(T[call.fd].origin)
<1>1. /\ call \in Calls /\ IsCall(call) /\ None \notin Files
      /\ Outcome(T, call).table = U /\ Outcome(T, call).result = r
      /\ e.pid = pid /\ T \in Table
  BY CaptureAssumption DEF Made, Tells
<1>2. call.op \notin {"read", "write"} => r # -1
  <2>1. ~(-1 >= 0)
    OBVIOUS
  <2>. QED
    BY <1>1, <2>1 DEF Worth, Reports, StashOf, IsCall
<1>3. CASE call.op = "open"
  <2>1. e.kind = "Open" /\ e.fd = r /\ e.file = call.file
    BY <1>3 DEF Tells
  <2>2. /\ r \in Fds /\ T[r].file = None
        /\ U = [T EXCEPT ![r] = [file |-> call.file, origin |-> "opened"]]
    BY <1>1, <1>2, <1>3, Outcomes
  <2>3. U[r].file = call.file /\ U[r].origin = "opened" /\ \A fd \in Fds \ {r} : U[fd] = T[fd]
    BY <2>2 DEF Table
  <2>. HIDE DEF call, r
  <2>. QED
    BY <1>1, <2>1, <2>2, <2>3 DEF Explains, Touches, Removes, Uses
<1>4. CASE call.op \in {"read", "write"}
  <2>1. e.kind = "Io" /\ e.fd = call.fd /\ e.result = r /\ e.subject = T[call.fd]
    BY <1>4 DEF Tells, Made
  <2>2. U = T /\ (r = -1 \/ T[call.fd].file # None)
    BY <1>1, <1>4, Outcomes
  <2>3. r = -1 => r < 0
    OBVIOUS
  <2>. HIDE DEF call, r
  <2>. QED
    BY <1>1, <2>1, <2>2, <2>3 DEF Explains, Touches, Removes, Uses
<1>5. CASE call.op = "close"
  <2>1. e.kind = "Close" /\ e.fd = call.fd
    BY <1>5 DEF Tells
  <2>2. call.fd \in Fds /\ U = [T EXCEPT ![call.fd] = [file |-> None, origin |-> "none"]]
    BY <1>1, <1>2, <1>5, Outcomes DEF IsCall
  <2>3. U[call.fd].origin = "none" /\ \A fd \in Fds \ {call.fd} : U[fd] = T[fd]
    BY <2>2 DEF Table
  <2>. HIDE DEF call, r
  <2>. QED
    BY <1>1, <2>1, <2>3 DEF Explains, Touches, Removes, Uses
<1>6. CASE call.op \in {"dup", "dup2"}
  <2>1. e.kind = "Dup" /\ e.old = call.fd /\ e.new = r
    BY <1>6 DEF Tells
  <2>2. /\ T[call.fd].file # None
        /\ \/ r = call.fd /\ U = T
           \/ r \in Fds /\ r # call.fd /\ U = [T EXCEPT ![r] = [file |-> T[call.fd].file, origin |-> origin]]
    BY <1>1, <1>2, <1>6, Outcomes
  <2>. HIDE DEF call, r
  <2>3. CASE r = call.fd /\ U = T
    BY <1>1, <2>1, <2>2, <2>3 DEF Explains, Touches, Removes, Uses
  <2>4. CASE r \in Fds /\ r # call.fd /\ U = [T EXCEPT ![r] = [file |-> T[call.fd].file, origin |-> origin]]
    <3>1. /\ U[r].file = T[call.fd].file /\ U[r].origin = CopyOrigin(T[call.fd].origin)
          /\ \A fd \in Fds \ {r} : U[fd] = T[fd]
      <4>. HIDE DEF origin
      <4>1. U[r].file = T[call.fd].file /\ U[r].origin = origin /\ \A fd \in Fds \ {r} : U[fd] = T[fd]
        BY <2>4 DEF Table
      <4>. QED
        BY <4>1 DEF origin
    <3>. HIDE DEF origin
    <3>. QED
      BY <1>1, <2>1, <2>2, <2>4, <3>1 DEF Explains, Touches, Removes, Uses
  <2>. QED
    BY <2>2, <2>3, <2>4
<1>7. CASE call.op = "close_range"
  <2>1. e.kind = "CloseRange" /\ e.first = call.first /\ e.last = call.last /\ e.cloexec = call.cloexec
    BY <1>7 DEF Tells
  <2>2. U = [fd \in Fds |-> IF ~call.cloexec /\ fd \in call.first .. call.last
                            THEN [file |-> None, origin |-> "none"] ELSE T[fd]]
    BY <1>1, <1>2, <1>7, Outcomes
  <2>. HIDE DEF call, r
  <2>. QED
    BY <1>1, <2>1, <2>2 DEF Explains, Touches, Removes, Uses
<1>8. CASE call.op \in {"fcntl", "untraced"}
  BY <1>8 DEF Worth, StashOf
<1>. QED
  BY <1>1, <1>3, <1>4, <1>5, <1>6, <1>7, <1>8 DEF IsCall

\* What no event tells of is the open of a descriptor by a call that is not traced.
LEMMA CallUnexplained ==
  ASSUME NEW T \in Table, NEW thread, NEW U, Made(thread, T, U), ~Worth(thread)
  PROVE  \A fd \in Fds : U[fd] = T[fd] \/ (T[fd].file = None /\ U[fd].origin = "untraced")
<1> DEFINE call == thread.call
           r == thread.result
<1>1. /\ call \in Calls /\ IsCall(call)
      /\ Outcome(T, call).table = U /\ Outcome(T, call).result = r
  BY CaptureAssumption DEF Made
<1>2. call.op \notin {"fcntl", "untraced"} => r \notin Fds
  <2>1. \A fd \in Fds : fd >= 0
    BY CaptureAssumption DEF Fds
  <2>. QED
    BY <1>1, <2>1 DEF Worth, Reports, StashOf, IsCall
<1>3. 0 \in Fds
  BY CaptureAssumption DEF Fds
<1>4. CASE call.op = "untraced"
  <2>1. \/ U = T
        \/ r \in Fds /\ T[r].file = None /\ U = [T EXCEPT ![r] = [file |-> call.file, origin |-> "untraced"]]
    BY <1>1, <1>4, Outcomes
  <2>. QED
    BY <2>1 DEF Table
<1>5. CASE call.op # "untraced"
  <2>1. U = T
    BY <1>1, <1>2, <1>3, <1>5, Outcomes DEF IsCall
  <2>. QED
    BY <2>1
<1>. QED
  BY <1>4, <1>5

--------------------------------------------------------------------------------
\* Processes of one thread.

OneThreadEach == \A t, u \in Threads : ProcessOf[t] = ProcessOf[u] => t = u

\* A table is as it was left by the one thread that there is.
AloneInv ==
  /\ \A pid \in Pids : Proper(tables[pid])
  /\ \A t \in Threads :
       /\ threads[t] = Dead => tables[ProcessOf[t]] = NoTable
       /\ threads[t].pc = "returned" =>
            \E T \in Table : Proper(T) /\ Made(threads[t], T, tables[ProcessOf[t]])

LEMMA KernelTables ==
  ASSUME KernelInv
  PROVE  /\ tables \in [Pids -> Table]
         /\ DOMAIN threads = Threads
         /\ \A t \in Threads : ProcessOf[t] \in Pids
         /\ \A pid \in Pids : \E t \in Threads : pid = ProcessOf[t]
         /\ \A t \in Threads : threads[t].pc \in {"entered", "returned"} => threads[t].call \in Calls
BY DEF KernelInv, TablesOK, Table, CaptureInv, ShapeInv, InCall, User, Dead, Pids

\* The others do not notice what a thread does.
LEMMA OneThreadMoves ==
  ASSUME OneThreadEach, KernelInv, NEW t \in Threads,
         NEW thread, NEW table, threads' = [threads EXCEPT ![t] = thread],
         tables' = [tables EXCEPT ![ProcessOf[t]] = table]
  PROVE  /\ threads'[t] = thread /\ tables'[ProcessOf[t]] = table
         /\ \A u \in Threads \ {t} :
              /\ threads'[u] = threads[u]
              /\ ProcessOf[u] # ProcessOf[t]
              /\ tables'[ProcessOf[u]] = tables[ProcessOf[u]]
BY KernelTables DEF OneThreadEach

LEMMA ExecuteMakes ==
  ASSUME KernelInv, NEW t \in Threads, Execute(t)
  PROVE  \E thread, table :
           /\ threads' = [threads EXCEPT ![t] = thread]
           /\ tables' = [tables EXCEPT ![ProcessOf[t]] = table]
           /\ threads[t].pc = "entered" /\ thread.pc = "returned"
           /\ thread.call = threads[t].call /\ thread.seen = threads[t].seen
           /\ Made(thread, tables[ProcessOf[t]], table)
           /\ UNCHANGED <<hooks, detaching, stashes, ring, stats, calls>>
<1> DEFINE pid == ProcessOf[t]
           call == threads[t].call
           outcome == Outcome(tables[pid], call)
           subject == IF call.op \in {"read", "write"} THEN tables[pid][call.fd] ELSE NoTable[0]
           thread == [pc |-> "returned", call |-> call, seen |-> threads[t].seen,
                      result |-> outcome.result, subject |-> subject]
<1>1. /\ threads' = [threads EXCEPT ![t] = thread]
      /\ tables' = [tables EXCEPT ![pid] = outcome.table]
      /\ threads[t].pc = "entered"
      /\ UNCHANGED <<hooks, detaching, stashes, ring, stats, calls>>
  BY DEF Execute
<1>2. /\ thread.pc = "returned" /\ thread.call = call /\ thread.seen = threads[t].seen
      /\ thread.result = outcome.result
      /\ call.op \in {"read", "write"} => thread.subject = tables[pid][call.fd]
  OBVIOUS
<1>3. call \in Calls
  BY <1>1, KernelTables
<1>. HIDE DEF thread, call
<1>4. Made(thread, tables[pid], outcome.table)
  BY <1>2, <1>3 DEF Made
<1>. QED
  BY <1>1, <1>2, <1>4 DEF call

LEMMA AloneInvStep ==
  ASSUME OneThreadEach, KernelInv, AloneInv, [ANext]_avars
  PROVE  AloneInv'
<1> DEFINE P(t) == /\ Proper(tables[ProcessOf[t]])
                   /\ threads[t] = Dead => tables[ProcessOf[t]] = NoTable
                   /\ threads[t].pc = "returned" =>
                        \E T \in Table : Proper(T) /\ Made(threads[t], T, tables[ProcessOf[t]])
<1>0. /\ tables \in [Pids -> Table] /\ DOMAIN threads = Threads
      /\ \A t \in Threads : ProcessOf[t] \in Pids /\ P(t)
      /\ \A pid \in Pids : \E t \in Threads : pid = ProcessOf[t]
  BY KernelTables DEF AloneInv
<1>1. ASSUME NEW t \in Threads, threads'[t] = threads[t],
             tables'[ProcessOf[t]] = tables[ProcessOf[t]]
      PROVE  P(t)'
  BY <1>0, <1>1
<1>2. ASSUME \A t \in Threads : P(t)' PROVE AloneInv'
  BY <1>0, <1>2 DEF AloneInv
\* One thread moves, and its table may become another.
<1>3. ASSUME NEW t \in Threads, NEW thread, NEW table,
             threads' = [threads EXCEPT ![t] = thread],
             tables' = [tables EXCEPT ![ProcessOf[t]] = table],
             Proper(table), thread = Dead => table = NoTable,
             thread.pc = "returned" => \E T \in Table : Proper(T) /\ Made(thread, T, table)
      PROVE  AloneInv'
  <2>0. threads'[t] = thread /\ tables'[ProcessOf[t]] = table
    BY <1>0, <1>3
  <2>1. P(t)'
    BY <1>3, <2>0
  <2>. HIDE DEF P
  <2>2. ASSUME NEW u \in Threads \ {t} PROVE P(u)'
    BY <1>1, <1>3, OneThreadMoves
  <2>. QED
    BY <1>2, <2>1, <2>2
<1>4. NoTable \in Table /\ Proper(NoTable) /\ Proper(InheritedTable) /\ User # Dead
  BY KnownTables, CaptureAssumption DEF Proper, NoTable, InheritedTable, Table, User, Dead
<1>5. ASSUME NEW t \in Threads, NEW call \in Calls, Enter(t, call) PROVE AloneInv'
  <2> DEFINE thread == [pc |-> "entered", call |-> call, seen |-> SeenAtEntry(t, call)]
  <2>1. threads' = [threads EXCEPT ![t] = thread] /\ tables' = [tables EXCEPT ![ProcessOf[t]] = tables[ProcessOf[t]]]
    BY <1>0, <1>5 DEF Enter
  <2>2. thread.pc = "entered" /\ thread # Dead
    BY DEF Dead
  <2>. HIDE DEF thread
  <2>. QED
    BY <1>0, <1>3, <2>1, <2>2
<1>6. ASSUME NEW t \in Threads, Execute(t) PROVE AloneInv'
  <2>1. PICK thread, table :
           /\ threads' = [threads EXCEPT ![t] = thread]
           /\ tables' = [tables EXCEPT ![ProcessOf[t]] = table]
           /\ thread.pc = "returned" /\ Made(thread, tables[ProcessOf[t]], table)
    BY <1>6, ExecuteMakes
  <2>2. Proper(table) /\ thread # Dead
    BY <1>0, <2>1, OutcomeProper DEF Made, Dead
  <2>. QED
    BY <1>0, <1>3, <2>1, <2>2
<1>7. ASSUME NEW t \in Threads, Exit(t) PROVE AloneInv'
  <2>1. threads' = [threads EXCEPT ![t] = User] /\ tables' = [tables EXCEPT ![ProcessOf[t]] = tables[ProcessOf[t]]]
    BY <1>0, <1>7 DEF Exit
  <2>. QED
    BY <1>0, <1>3, <1>4, <2>1 DEF User
<1>8. ASSUME NEW t \in Threads, Start(t) PROVE AloneInv'
  <2>1. \/ tables' = [tables EXCEPT ![ProcessOf[t]] = InheritedTable]
        \/ tables' = [tables EXCEPT ![ProcessOf[t]] = tables[ProcessOf[t]]]
    BY <1>0, <1>8 DEF Start
  <2>2. threads' = [threads EXCEPT ![t] = User]
    BY <1>8 DEF Start
  <2>. QED
    BY <1>0, <1>3, <1>4, <2>1, <2>2 DEF User
<1>9. ASSUME NEW t \in Threads, Die(t) PROVE AloneInv'
  <2>1. Live(ProcessOf[t]) = {t}
    BY <1>9 DEF Live, Die, OneThreadEach
  <2>2. threads' = [threads EXCEPT ![t] = Dead] /\ tables' = [tables EXCEPT ![ProcessOf[t]] = NoTable]
    BY <1>9, <2>1 DEF Die
  <2>. QED
    BY <1>3, <1>4, <2>2 DEF Dead
<1>10. ASSUME NEW t \in Threads, NEW kept \in SUBSET Fds, Exec(t, kept) PROVE AloneInv'
  <2> DEFINE T == tables[ProcessOf[t]]
             table == [fd \in Fds |-> IF fd \in kept /\ IsOpen(T, fd)
                                     THEN [file |-> T[fd].file, origin |-> "inherited"]
                                     ELSE NoTable[fd]]
  <2>1. tables' = [tables EXCEPT ![ProcessOf[t]] = table]
    BY <1>10 DEF Exec
  <2>2. threads[t] = User /\ UNCHANGED threads
    BY <1>10 DEF Exec
  <2>3. Proper(table)
    <3>1. \A fd \in Fds : NoTable[fd].file = None /\ NoTable[fd].origin = "none"
      BY DEF NoTable
    <3>2. \A fd \in Fds :
            \/ table[fd] = NoTable[fd]
            \/ table[fd].file # None /\ table[fd].origin = "inherited"
      BY DEF IsOpen
    <3>. HIDE DEF table
    <3>. QED
      BY <3>1, <3>2 DEF Proper
  <2>. HIDE DEF table
  <2>4. tables'[ProcessOf[t]] = table /\ threads'[t] = User
    BY <1>0, <2>1, <2>2
  <2>5. P(t)'
    BY <1>4, <2>3, <2>4 DEF User
  <2>. HIDE DEF P
  <2>6. ASSUME NEW u \in Threads \ {t} PROVE P(u)'
    <3>1. ProcessOf[u] # ProcessOf[t]
      BY DEF OneThreadEach
    <3>. QED
      BY <1>0, <1>1, <2>1, <2>2, <3>1
  <2>. QED
    BY <1>2, <2>5, <2>6
<1>11. CASE IngestNext \/ SampleDrops \/ UNCHANGED avars
  <2>1. UNCHANGED <<threads, tables>>
    BY <1>11, IngestTakes DEF SampleDrops, avars, vars
  <2>. QED
    BY <1>1, <1>2, <2>1
<1>. QED
  BY <1>5, <1>6, <1>7, <1>8, <1>9, <1>10, <1>11 DEF ANext, ASystem, System

LEMMA AloneInvHolds ==
  ASSUME OneThreadEach
  PROVE  ASpec => []AloneInv
<1>1. AInit => AloneInv
  <2>1. Proper(InheritedTable)
    BY CaptureAssumption DEF Proper, NoTable, InheritedTable
  <2>. QED
    BY <2>1 DEF AInit, InitWith, AloneInv, User, Dead
<1>2. KernelInv /\ AloneInv /\ [ANext]_avars => AloneInv'
  BY AloneInvStep
<1>. QED
  BY <1>1, <1>2, KernelInvHolds, PTL DEF ASpec

\* The table that the events emitted so far tell of: when a call has returned and
\* its event is still to come, the table before the call.
Told(t, T) ==
  /\ T \in Table
  /\ Proper(T)
  /\ IF Reporting(t) THEN Made(threads[t], T, tables[ProcessOf[t]])
     ELSE T = tables[ProcessOf[t]]

\* A call of which the programs remember nothing, and that was counted as lost.
Lost(t) == InCall(t) /\ threads[t].seen = "lost"

Bystanders(t) ==
  \A u \in Threads \ {t} :
    /\ ProcessOf[u] # ProcessOf[t]
    /\ threads'[u] = threads[u]
    /\ tables'[ProcessOf[u]] = tables[ProcessOf[u]]

\* A step that no event tells of: the table that events tell of is what it was,
\* but for descriptors that were closed.
Silent(t) ==
  /\ UNCHANGED ring
  /\ ~Reporting(t)
  /\ \E T : /\ Told(t, T)'
            /\ \A fd \in Fds :
                 \/ T[fd] = tables[ProcessOf[t]][fd]
                 \/ /\ tables[ProcessOf[t]][fd].file = None
                    /\ T[fd].origin \in {"none", "inherited", "untraced"}

\* A step with an event that explains what has become of the table.
Speaks(t) ==
  /\ ~Reporting(t)'
  /\ ~Lost(t)'
  /\ \E e : /\ IsEvent(e) /\ e.pid = ProcessOf[t]
            /\ ring' = Append(ring, e)
            /\ \A T : Told(t, T) => Explains(e, T, tables'[ProcessOf[t]])
            /\ \A fd \in Fds :
                 ~Touches(e, <<e.pid, fd>>) => tables'[ProcessOf[t]][fd] = tables[ProcessOf[t]][fd]

\* The kernel makes a call that the programs have lost.
Struck(t) == UNCHANGED ring /\ Lost(t) /\ ~Reporting(t) /\ ~Reporting(t)'

Moves(t) ==
  /\ Bystanders(t)
  /\ Lost(t)' => Lost(t)
  /\ Silent(t) \/ Speaks(t) \/ Struck(t)

LEMMA BystandersKeep ==
  ASSUME KernelInv, NEW t \in Threads, Bystanders(t), NEW u \in Threads \ {t}
  PROVE  /\ Reporting(u)' <=> Reporting(u)
         /\ Lost(u)' <=> Lost(u)
         /\ \A T : Told(u, T)' <=> Told(u, T)
BY DEF Bystanders, Reporting, Lost, InCall, Told

\* A table that no call has gone over is the one that events tell of.
LEMMA ToldNow ==
  ASSUME KernelInv, AloneInv, NEW t \in Threads, ~Reporting(t)
  PROVE  Told(t, tables[ProcessOf[t]])
BY KernelTables DEF AloneInv, Told

LEMMA TablesAreProper ==
  KernelInv /\ AloneInv => \A pid \in Pids : tables[pid] \in Table /\ Proper(tables[pid])
BY KernelTables DEF AloneInv

LEMMA TablesStayProper ==
  KernelInv' /\ AloneInv' => \A pid \in Pids : tables'[pid] \in Table /\ Proper(tables'[pid])
<1>1. (KernelInv /\ AloneInv => \A pid \in Pids : tables[pid] \in Table /\ Proper(tables[pid]))'
  BY TablesAreProper, PTL
<1>. QED
  BY <1>1

LEMMA ToldNext ==
  ASSUME KernelInv', AloneInv', NEW t \in Threads, ~Reporting(t)',
         NEW T, T = tables'[ProcessOf[t]]
  PROVE  Told(t, T)'
BY TablesStayProper DEF Told, Pids

LEMMA EnterMoves ==
  ASSUME OneThreadEach, KernelInv, KernelInv', AloneInv, AloneInv', Losses(stats') = Losses(stats),
         NEW t \in Threads, NEW call \in Calls, Enter(t, call)
  PROVE  Moves(t)
<1> DEFINE thread == [pc |-> "entered", call |-> call, seen |-> SeenAtEntry(t, call)]
<1>1. /\ threads[t] = User /\ UNCHANGED <<tables, ring>>
      /\ threads' = [threads EXCEPT ![t] = thread]
      /\ tables' = [tables EXCEPT ![ProcessOf[t]] = tables[ProcessOf[t]]]
  BY KernelTables DEF Enter
<1>2. Losses(stats) \in Nat
  BY LossesAreNumbers DEF KernelInv, CountInv, Counters
<1>3. thread.pc = "entered" /\ thread.seen # "lost"
  BY <1>2, EnterTells
<1>. HIDE DEF thread
<1>4. Bystanders(t) /\ threads'[t] = thread /\ tables'[ProcessOf[t]] = tables[ProcessOf[t]]
  BY <1>1, OneThreadMoves, ZenonT(150) DEF Bystanders
<1>5. ~Reporting(t) /\ ~Reporting(t)' /\ ~Lost(t)'
  BY <1>1, <1>3, <1>4 DEF Reporting, Lost, User
<1>6. Silent(t)
  BY <1>1, <1>4, <1>5, ToldNext DEF Silent
<1>. QED
  BY <1>4, <1>5, <1>6 DEF Moves

LEMMA ExecuteMoves ==
  ASSUME OneThreadEach, KernelInv, KernelInv', ProgressInv, AloneInv, AloneInv',
         NEW t \in Threads, Execute(t)
  PROVE  Moves(t)
<1>0. PICK T : T = tables[ProcessOf[t]]
  OBVIOUS
<1>1. PICK thread, U :
        /\ threads' = [threads EXCEPT ![t] = thread]
        /\ tables' = [tables EXCEPT ![ProcessOf[t]] = U]
        /\ threads[t].pc = "entered" /\ thread.pc = "returned"
        /\ thread.call = threads[t].call /\ thread.seen = threads[t].seen
        /\ Made(thread, T, U)
        /\ UNCHANGED ring
  BY <1>0, ExecuteMakes
<1>2. Bystanders(t) /\ threads'[t] = thread /\ tables'[ProcessOf[t]] = U
  BY <1>1, OneThreadMoves, ZenonT(150) DEF Bystanders
<1>3. ~Reporting(t) /\ (Lost(t)' <=> Lost(t)) /\ InCall(t)
  BY <1>1, <1>2 DEF Reporting, Lost, InCall
<1>4. T \in Table /\ Proper(T)
  BY <1>0, TablesAreProper DEF Pids
<1>5. CASE Lost(t)
  <2>1. ~Reporting(t)'
    BY <1>3, <1>5 DEF Lost, Reporting
  <2>. QED
    BY <1>1, <1>2, <1>3, <1>5, <2>1 DEF Moves, Struck
<1>6. CASE Reporting(t)'
  <2>1. Told(t, T)'
    BY <1>1, <1>2, <1>4, <1>6 DEF Told
  <2>. QED
    BY <1>0, <1>1, <1>2, <1>3, <2>1 DEF Moves, Silent
<1>7. CASE ~Lost(t) /\ ~Reporting(t)'
  <2>1. ~Worth(thread)
    BY <1>1, <1>2, <1>3, <1>7 DEF Worth, Reporting, Lost, ProgressInv
  <2>2. \A fd \in Fds : U[fd] = T[fd] \/ (T[fd].file = None /\ U[fd].origin = "untraced")
    BY <1>1, <1>4, <2>1, CallUnexplained
  <2>3. Told(t, U)'
    BY <1>2, <1>7, ToldNext
  <2>4. Silent(t)
    BY <1>0, <1>1, <1>3, <2>2, <2>3 DEF Silent
  <2>. QED
    BY <1>2, <1>3, <2>4 DEF Moves
<1>. QED
  BY <1>5, <1>6, <1>7

LEMMA ExitMoves ==
  ASSUME OneThreadEach, KernelInv, KernelInv', ProgressInv, AloneInv, AloneInv',
         Losses(stats') = Losses(stats), NEW t \in Threads, Exit(t)
  PROVE  Moves(t)
<1>1. /\ threads[t].pc = "returned"
      /\ threads' = [threads EXCEPT ![t] = User]
      /\ tables' = [tables EXCEPT ![ProcessOf[t]] = tables[ProcessOf[t]]]
  BY KernelTables DEF Exit
<1>2. /\ Bystanders(t) /\ threads'[t] = User
      /\ tables'[ProcessOf[t]] = tables[ProcessOf[t]]
  BY <1>1, OneThreadMoves DEF Bystanders
<1>3. ~Reporting(t)' /\ ~Lost(t)'
  BY <1>2 DEF Reporting, Lost, InCall, User
<1>4. CASE Reporting(t)
  <2>1. PICK e : e = Upcoming(t)
    OBVIOUS
  <2>2. Losses(stats) \in Nat
    BY LossesAreNumbers DEF KernelInv, CountInv, Counters
  <2>3. ring' = Append(ring, e)
    BY <1>4, <2>1, <2>2, ExitTells DEF Emits
  <2>4. IsEvent(e) /\ Tells(e, ProcessOf[t], threads[t])
    BY <1>4, <2>1, UpcomingIsEvent, UpcomingTells
  <2>5. ASSUME NEW T, Told(t, T) PROVE Explains(e, T, tables'[ProcessOf[t]])
    <3>1. /\ T \in Table /\ Proper(T) /\ Made(threads[t], T, tables'[ProcessOf[t]])
          /\ Worth(threads[t])
      BY <1>2, <1>4, <2>5 DEF Told, Reporting, Worth
    <3>. QED
      BY <2>4, <3>1, CallExplained
  <2>6. Speaks(t)
    BY <1>2, <1>3, <2>3, <2>4, <2>5 DEF Speaks, Tells
  <2>. QED
    BY <1>2, <1>3, <2>6 DEF Moves
<1>5. CASE ~Reporting(t)
  <2>1. UNCHANGED ring
    BY <1>5, ExitTells DEF TellsNothing
  <2>2. PICK T : T = tables'[ProcessOf[t]]
    OBVIOUS
  <2>3. Told(t, T)'
    BY <1>3, <2>2, ToldNext
  <2>4. Silent(t)
    BY <1>2, <1>5, <2>1, <2>2, <2>3 DEF Silent
  <2>. QED
    BY <1>2, <1>3, <2>4 DEF Moves
<1>. QED
  BY <1>4, <1>5

LEMMA StartMoves ==
  ASSUME OneThreadEach, KernelInv, KernelInv', AloneInv, AloneInv', NEW t \in Threads, Start(t)
  PROVE  Moves(t)
<1>1. Live(ProcessOf[t]) = {}
  BY DEF Start, Live, OneThreadEach
<1>2. /\ threads[t] = Dead /\ UNCHANGED ring
      /\ threads' = [threads EXCEPT ![t] = User]
      /\ tables' = [tables EXCEPT ![ProcessOf[t]] = InheritedTable]
  BY <1>1 DEF Start
<1>3. Bystanders(t) /\ threads'[t] = User /\ tables'[ProcessOf[t]] = InheritedTable
  <2>1. PICK thread, U : thread = User /\ U = InheritedTable
    OBVIOUS
  <2>2. /\ threads' = [threads EXCEPT ![t] = thread]
        /\ tables' = [tables EXCEPT ![ProcessOf[t]] = U]
    BY <1>2, <2>1
  <2>3. Bystanders(t) /\ threads'[t] = thread /\ tables'[ProcessOf[t]] = U
    BY <2>2, KernelTables DEF Bystanders, OneThreadEach
  <2>. QED
    BY <2>1, <2>3
<1>4. ~Reporting(t) /\ ~Reporting(t)' /\ ~Lost(t)'
  BY <1>2, <1>3 DEF Reporting, Lost, InCall, User, Dead
<1>5. PICK T : T = InheritedTable
  OBVIOUS
<1>6. Told(t, T)'
  BY <1>3, <1>4, <1>5, ToldNext
<1>7. \A fd \in Fds : tables[ProcessOf[t]][fd].file = None /\ T[fd].origin \in {"none", "inherited"}
  BY <1>2, <1>5 DEF AloneInv, NoTable, InheritedTable
<1>8. Silent(t)
  BY <1>2, <1>4, <1>6, <1>7 DEF Silent
<1>. QED
  BY <1>3, <1>4, <1>8 DEF Moves

\* The end of a process, or of its program, explains any table with nothing left
\* that a call has opened.
LEMMA EndExplains ==
  ASSUME NEW T, NEW U, NEW e, e.kind \in {"ProcessExec", "ProcessExit"},
         \A fd \in Fds : U[fd].origin \in {"none", "inherited"}
  PROVE  Explains(e, T, U) /\ \A fd : Touches(e, <<e.pid, fd>>)
BY DEF Explains, Touches, Removes, Uses

LEMMA DieMoves ==
  ASSUME OneThreadEach, KernelInv, KernelInv', AloneInv, AloneInv',
         Losses(stats') = Losses(stats), NEW t \in Threads, Die(t)
  PROVE  Moves(t)
<1>1. Live(ProcessOf[t]) = {t}
  BY DEF Live, Die, OneThreadEach
<1>2. /\ threads' = [threads EXCEPT ![t] = Dead]
      /\ tables' = [tables EXCEPT ![ProcessOf[t]] = NoTable]
  BY <1>1 DEF Die
<1>3. Bystanders(t) /\ threads'[t] = Dead /\ tables'[ProcessOf[t]] = NoTable
  <2>1. PICK thread, U : thread = Dead /\ U = NoTable
    OBVIOUS
  <2>2. /\ threads' = [threads EXCEPT ![t] = thread]
        /\ tables' = [tables EXCEPT ![ProcessOf[t]] = U]
    BY <1>2, <2>1
  <2>3. Bystanders(t) /\ threads'[t] = thread /\ tables'[ProcessOf[t]] = U
    BY <2>2, KernelTables DEF Bystanders, OneThreadEach
  <2>. QED
    BY <2>1, <2>3
<1>4. ~Reporting(t)' /\ ~Lost(t)'
  BY <1>3 DEF Reporting, Lost, InCall, Dead
<1>5. PICK e : e = [kind |-> "ProcessExit", pid |-> ProcessOf[t]]
  OBVIOUS
<1>6. Losses(stats) \in Nat
  BY LossesAreNumbers DEF KernelInv, CountInv, Counters
<1>7. Emits(e)
  BY <1>1, <1>5, DieTells
<1>8. ring' = Append(ring, e)
  BY <1>6, <1>7 DEF Emits
<1>9. IsEvent(e) /\ e.kind = "ProcessExit" /\ e.pid = ProcessOf[t]
  BY <1>5, KernelTables DEF IsEvent
<1>10. \A fd \in Fds : NoTable[fd].origin = "none"
  BY DEF NoTable
<1>11. (\A T : Explains(e, T, tables'[ProcessOf[t]])) /\ \A fd : Touches(e, <<e.pid, fd>>)
  BY <1>3, <1>9, <1>10, EndExplains
<1>12. Speaks(t)
  BY <1>4, <1>8, <1>9, <1>11 DEF Speaks
<1>. QED
  BY <1>3, <1>4, <1>12 DEF Moves

LEMMA ExecMoves ==
  ASSUME OneThreadEach, KernelInv, KernelInv', AloneInv, AloneInv',
         Losses(stats') = Losses(stats), NEW t \in Threads, NEW kept \in SUBSET Fds, Exec(t, kept)
  PROVE  Moves(t)
<1>1. threads[t] = User /\ UNCHANGED threads
  BY DEF Exec
<1> DEFINE U == [fd \in Fds |-> IF fd \in kept /\ IsOpen(tables[ProcessOf[t]], fd)
                                THEN [file |-> tables[ProcessOf[t]][fd].file, origin |-> "inherited"]
                                ELSE NoTable[fd]]
<1>2. tables' = [tables EXCEPT ![ProcessOf[t]] = U]
  BY KernelTables DEF Exec
<1>3. \A fd \in Fds : U[fd].origin \in {"none", "inherited"}
  <2>1. \A fd \in Fds : NoTable[fd].origin = "none"
    BY DEF NoTable
  <2>. QED
    BY <2>1
<1>. HIDE DEF U
<1>4. Bystanders(t) /\ tables'[ProcessOf[t]] = U
  BY <1>1, <1>2, KernelTables DEF Bystanders, OneThreadEach
<1>5. ~Reporting(t)' /\ ~Lost(t)'
  BY <1>1 DEF Reporting, Lost, InCall, User
<1>6. PICK e : e = [kind |-> "ProcessExec", pid |-> ProcessOf[t]]
  OBVIOUS
<1>7. Losses(stats) \in Nat
  BY LossesAreNumbers DEF KernelInv, CountInv, Counters
<1>8. Emits(e)
  BY <1>6, ExecTells
<1>9. ring' = Append(ring, e)
  BY <1>7, <1>8 DEF Emits
<1>10. IsEvent(e) /\ e.kind = "ProcessExec" /\ e.pid = ProcessOf[t]
  BY <1>6, KernelTables DEF IsEvent
<1>11. (\A T : Explains(e, T, tables'[ProcessOf[t]])) /\ \A fd : Touches(e, <<e.pid, fd>>)
  BY <1>3, <1>4, <1>10, EndExplains
<1>12. Speaks(t)
  BY <1>5, <1>9, <1>10, <1>11 DEF Speaks
<1>. QED
  BY <1>4, <1>5, <1>12 DEF Moves

\* As long as nothing is lost, the events explain what the kernel does.
LEMMA SystemMoves ==
  ASSUME OneThreadEach, KernelInv, KernelInv', ProgressInv, AloneInv, AloneInv',
         Losses(stats') = Losses(stats), System
  PROVE  \E t \in Threads : Moves(t)
BY EnterMoves, ExecuteMoves, ExitMoves, StartMoves, DieMoves, ExecMoves DEF System

--------------------------------------------------------------------------------
\* What an event does to the cache.

\* Two caches have the same for a descriptor.
SameAt(c1, c2, d) ==
  /\ d \in DOMAIN c1 <=> d \in DOMAIN c2
  /\ d \in DOMAIN c1 => c2[d] = c1[d]

LEMMA StoredAt ==
  ASSUME NEW known, NEW pid, NEW fd, NEW path, NEW d
  PROVE  /\ path = None => SameAt(known, Stored(known, pid, fd, path), d)
         /\ path # None /\ d = <<pid, fd>> =>
              d \in DOMAIN Stored(known, pid, fd, path) /\ Stored(known, pid, fd, path)[d] = path
         /\ d # <<pid, fd>> => SameAt(known, Stored(known, pid, fd, path), d)
BY DEF Stored, SameAt

LEMMA WithoutAt ==
  ASSUME NEW known, NEW gone, NEW d
  PROVE  /\ d \in gone => d \notin DOMAIN Without(known, gone)
         /\ d \notin gone => SameAt(known, Without(known, gone), d)
BY DEF Without, Restrict, SameAt

\* A path that is resolved now: the cached one, or what /proc has.
Found(d, path) ==
  IF d \in DOMAIN cache THEN path = cache[d]
  ELSE path \in {tables[d[1]][d[2]].file, Unresolved, None}

LEMMA ResolvedNow ==
  ASSUME NEW pid, NEW fd, NEW d, d = <<pid, fd>>
  PROVE  Found(d, ResolveFd(pid, fd))
BY DEF ResolveFd, ProcTarget, Found

\* The cache at a descriptor after an event.
Step(e, d) ==
  /\ ~Mentions(e, d) => SameAt(cache, cache', d)
  /\ Removes(e, d) => d \notin DOMAIN cache'
  /\ Uses(e, d) =>
       IF d \in DOMAIN cache THEN SameAt(cache, cache', d)
       ELSE d \in DOMAIN cache' => cache'[d] \in {tables[d[1]][d[2]].file, Unresolved}
  /\ Touches(e, d) /\ e.kind = "Open" =>
       \/ d \in DOMAIN cache' /\ cache'[d] \in {e.file, Unresolved}
       \/ SameAt(cache, cache', d) /\ mistaken'
  /\ Touches(e, d) /\ e.kind = "Dup" =>
       LET old == <<e.pid, e.old>>
       IN  IF old \in DOMAIN cache THEN d \in DOMAIN cache' /\ cache'[d] = cache[old]
           ELSE d \in DOMAIN cache' => cache'[d] \in {tables[e.pid][e.old].file, Unresolved}

LEMMA OpenStep ==
  ASSUME NEW e, IsEvent(e), IngestOpen(e), NEW d \in Descriptors
  PROVE  Step(e, d)
<1> DEFINE path == ResolveOpen(e)
<1>1. /\ e.kind = "Open" /\ e.file \in Files \ NonFiles
      /\ cache' = Stored(cache, e.pid, e.fd, path)
      /\ path = None /\ e.file \notin NonFiles => mistaken'
      /\ path \in {None, Unresolved, e.file}
  BY DEF IngestOpen, IsEvent, ResolveOpen
<1>. HIDE DEF path
<1>2. d = <<e.pid, e.fd>> <=> Touches(e, d)
  BY <1>1 DEF Touches, Descriptors
<1>3. /\ path = None => SameAt(cache, cache', d)
      /\ path # None /\ d = <<e.pid, e.fd>> => d \in DOMAIN cache' /\ cache'[d] = path
      /\ d # <<e.pid, e.fd>> => SameAt(cache, cache', d)
  BY <1>1, StoredAt
<1>. QED
  BY <1>1, <1>2, <1>3 DEF Step, Mentions, Removes, Uses

LEMMA IoStep ==
  ASSUME CacheInv, NEW e, IsEvent(e), IngestIo(e), NEW d \in Descriptors
  PROVE  Step(e, d)
<1> DEFINE path == ResolveFd(e.pid, e.fd)
<1>1. e.kind = "Io" /\ ~Touches(e, d)
  BY DEF IngestIo, Touches
<1>2. CASE e.result < 0
  BY <1>1, <1>2 DEF IngestIo, Step, Mentions, Removes, Uses, SameAt
<1>3. CASE ~(e.result < 0)
  <2>1. d = <<e.pid, e.fd>> <=> Uses(e, d)
    BY <1>1, <1>3 DEF Uses, Descriptors
  <2>2. d = <<e.pid, e.fd>> => Found(d, path)
    BY ResolvedNow
  <2>3. cache' = Stored(cache, e.pid, e.fd, path)
    BY <1>3 DEF IngestIo
  <2>. HIDE DEF path
  <2>4. /\ path = None => SameAt(cache, cache', d)
        /\ path # None /\ d = <<e.pid, e.fd>> => d \in DOMAIN cache' /\ cache'[d] = path
        /\ d # <<e.pid, e.fd>> => SameAt(cache, cache', d)
    BY <2>3, StoredAt
  <2>5. None \notin Paths
    BY CaptureAssumption, AttributionAssumption DEF Paths
  <2>. QED
    BY <1>1, <2>1, <2>2, <2>4, <2>5 DEF Step, Mentions, Removes, Found, SameAt, CacheInv
<1>. QED
  BY <1>2, <1>3

LEMMA DupStep ==
  ASSUME CacheInv, NEW e, IsEvent(e), IngestDup(e), NEW d \in Descriptors
  PROVE  Step(e, d)
<1> DEFINE path == ResolveFd(e.pid, e.old)
           old == <<e.pid, e.old>>
           new == <<e.pid, e.new>>
           resolved == Stored(cache, e.pid, e.old, path)
           closed == IF e.old = e.new THEN resolved ELSE Without(resolved, {new})
<1>1. /\ e.kind = "Dup" /\ e.old \in Fds /\ e.new \in Fds
      /\ cache' = Stored(closed, e.pid, e.new, path)
  BY DEF IngestDup, IsEvent
<1>2. /\ Uses(e, d) <=> d = old
      /\ Touches(e, d) <=> d = new /\ d # old
      /\ ~Removes(e, d)
      /\ old = new <=> e.old = e.new
  BY <1>1 DEF Uses, Touches, Removes, Descriptors
<1>3. Found(old, path)
  BY ResolvedNow
<1>4. None \notin Paths /\ \A x \in DOMAIN cache : cache[x] \in Paths
  BY CaptureAssumption, AttributionAssumption DEF Paths, CacheInv
<1>. HIDE DEF path
<1>5. /\ path = None => SameAt(cache, resolved, d)
      /\ path # None /\ d = old => d \in DOMAIN resolved /\ resolved[d] = path
      /\ d # old => SameAt(cache, resolved, d)
  BY StoredAt
<1>. HIDE DEF resolved
<1>6. IF e.old # e.new /\ d = new THEN d \notin DOMAIN closed ELSE SameAt(resolved, closed, d)
  BY WithoutAt DEF SameAt
<1>. HIDE DEF closed
<1>7. /\ path = None => SameAt(closed, cache', d)
      /\ path # None /\ d = new => d \in DOMAIN cache' /\ cache'[d] = path
      /\ d # new => SameAt(closed, cache', d)
  <2> DEFINE stored == Stored(closed, e.pid, e.new, path)
  <2>1. /\ path = None => SameAt(closed, stored, d)
        /\ path # None /\ d = new => d \in DOMAIN stored /\ stored[d] = path
        /\ d # new => SameAt(closed, stored, d)
    BY StoredAt
  <2>2. cache' = stored
    BY <1>1
  <2>. HIDE DEF stored
  <2>. QED
    BY <2>1, <2>2
<1>8. CASE d # old /\ d # new
  BY <1>1, <1>2, <1>5, <1>6, <1>7, <1>8 DEF Step, Mentions, SameAt
<1>9. CASE d = old
  <2>1. IF d \in DOMAIN cache THEN SameAt(cache, cache', d)
        ELSE d \in DOMAIN cache' => cache'[d] \in {tables[d[1]][d[2]].file, Unresolved}
    BY <1>2, <1>3, <1>4, <1>5, <1>6, <1>7, <1>9 DEF Found, SameAt
  <2>. QED
    BY <1>1, <1>2, <1>9, <2>1 DEF Step, Mentions
<1>10. CASE d = new /\ d # old
  <2>1. IF old \in DOMAIN cache THEN d \in DOMAIN cache' /\ cache'[d] = cache[old]
        ELSE d \in DOMAIN cache' => cache'[d] \in {tables[e.pid][e.old].file, Unresolved}
    BY <1>2, <1>3, <1>4, <1>6, <1>7, <1>10 DEF Found, SameAt
  <2>. QED
    BY <1>1, <1>2, <1>10, <2>1 DEF Step, Mentions
<1>. QED
  BY <1>8, <1>9, <1>10

LEMMA ClosingStep ==
  ASSUME NEW e, IsEvent(e), IngestClose(e) \/ IngestCloseRange(e) \/ IngestProcess(e),
         NEW d \in Descriptors
  PROVE  Step(e, d)
<1>1. ~Uses(e, d) /\ e.kind \notin {"Open", "Dup"}
  BY DEF IngestClose, IngestCloseRange, IngestProcess, Uses
<1>2. IF Touches(e, d) THEN d \notin DOMAIN cache' ELSE SameAt(cache, cache', d)
  <2>1. CASE IngestClose(e)
    <3>1. Touches(e, d) <=> d \in {<<e.pid, e.fd>>}
      BY <2>1 DEF IngestClose, Touches, Descriptors
    <3>. QED
      BY <2>1, <3>1, WithoutAt DEF IngestClose
  <2>2. CASE IngestCloseRange(e) /\ e.cloexec
    BY <2>2 DEF IngestCloseRange, Touches, SameAt
  <2>3. CASE IngestCloseRange(e) /\ ~e.cloexec
    <3> DEFINE gone == {e.pid} \X (Fds \cap e.first .. e.last)
    <3>1. e.kind = "CloseRange" /\ cache' = Without(cache, gone)
      BY <2>3 DEF IngestCloseRange
    <3>2. Touches(e, d) <=> d \in gone
      BY <2>3, <3>1 DEF Touches, Descriptors
    <3>. HIDE DEF gone
    <3>. QED
      BY <3>1, <3>2, WithoutAt
  <2>4. CASE IngestProcess(e)
    <3>1. Touches(e, d) <=> d \in AllOf(e.pid)
      BY <2>4 DEF IngestProcess, Touches, Descriptors, AllOf
    <3>. QED
      BY <2>4, <3>1, WithoutAt DEF IngestProcess
  <2>. QED
    BY <2>1, <2>2, <2>3, <2>4
<1>. QED
  BY <1>1, <1>2 DEF Step, Mentions, Removes

LEMMA IngestSteps ==
  ASSUME KernelInv, EventsInv, CacheInv, IngestNext
  PROVE  IsEvent(ring[1]) /\ \A d \in Descriptors : Step(ring[1], d)
<1>1. /\ IsEvent(ring[1]) /\ Head(ring) = ring[1]
  BY IngestTakes DEF EventsInv
<1>2. PICK e : e = Head(ring)
  OBVIOUS
<1>3. \/ IngestOpen(e) \/ IngestIo(e) \/ IngestClose(e)
      \/ IngestDup(e) \/ IngestCloseRange(e) \/ IngestProcess(e)
  BY <1>2 DEF IngestNext
<1>4. \A d \in Descriptors : Step(e, d)
  BY <1>1, <1>2, <1>3, OpenStep, IoStep, DupStep, ClosingStep
<1>. QED
  BY <1>1, <1>2, <1>4

\* What is new among the attributions after an event.
Attributed(e, attribution) ==
  /\ e.kind = "Io" /\ ~(e.result < 0)
  /\ attribution.subject = e.subject
  /\ attribution.informed => ~mistaken /\ Losses(stats) = 0
  /\ Found(<<e.pid, e.fd>>, attribution.path)

LEMMA IngestAttributes ==
  ASSUME KernelInv, MonitorInv, IngestNext
  PROVE  /\ mistaken => mistaken'
         /\ \A attribution \in attributions' :
              attribution \in attributions \/ Attributed(ring[1], attribution)
<1>1. Head(ring) = ring[1] /\ mistaken \in BOOLEAN
  BY IngestTakes DEF MonitorInv
<1>2. PICK e : e = Head(ring)
  OBVIOUS
<1>3. \/ IngestOpen(e) \/ IngestIo(e) \/ IngestClose(e)
      \/ IngestDup(e) \/ IngestCloseRange(e) \/ IngestProcess(e)
  BY <1>2 DEF IngestNext
<1>4. CASE ~IngestIo(e)
  BY <1>1, <1>3, <1>4 DEF IngestOpen, IngestClose, IngestDup, IngestCloseRange, IngestProcess
<1>5. CASE IngestIo(e) /\ e.result < 0
  BY <1>5 DEF IngestIo
<1>6. CASE IngestIo(e) /\ ~(e.result < 0)
  <2>1. PICK path : path = ResolveFd(e.pid, e.fd)
    OBVIOUS
  <2>2. Found(<<e.pid, e.fd>>, path)
    BY <2>1, ResolvedNow
  <2>3. /\ UNCHANGED mistaken
        /\ attributions' \subseteq attributions \cup {Attribution(e, path)}
    BY <1>6, <2>1 DEF IngestIo
  <2>4. /\ Attribution(e, path).subject = e.subject
        /\ Attribution(e, path).path = path
    BY DEF Attribution
  <2>5. Attribution(e, path).informed => ~mistaken /\ Losses(stats) = 0
    <3>1. Attribution(e, path).informed = (~mistaken /\ Losses(stats) = 0)
      BY DEF Attribution
    <3>. QED
      BY <3>1, Zenon
  <2>6. Attributed(e, Attribution(e, path))
    BY <1>6, <2>2, <2>4, <2>5 DEF Attributed, IngestIo
  <2>. QED
    BY <1>1, <1>2, <2>3, <2>6
<1>. QED
  BY <1>4, <1>5, <1>6

--------------------------------------------------------------------------------
\* The files that the events say to be behind a descriptor.

FromOpen(entry) == entry.origin \in {"opened", "duplicated"}

\* A descriptor whose open was captured, or a copy of one, has a file that is known.
Known(entry) == IF FromOpen(entry) THEN entry.file ELSE None

Ledgers == [Descriptors -> Files \cup {None}]

\* What is known after an event.
Followed(e, known) ==
  [d \in Descriptors |->
     IF ~Touches(e, d) THEN known[d]
     ELSE IF e.kind = "Open" THEN e.file
     ELSE IF e.kind = "Dup" THEN known[<<e.pid, e.old>>]
     ELSE None]

\* An operation on a file that is known is one on that file.
Informs(e, known) ==
  e.kind = "Io" /\ FromOpen(e.subject) =>
    e.subject.file # None /\ known[<<e.pid, e.fd>>] = e.subject.file

\* What was known before and after each of the events of q, which find cache c.
History(h, q, c) ==
  /\ h \in [0 .. Len(q) -> Ledgers]
  /\ \A i \in 1 .. Len(q) : h[i] = Followed(q[i], h[i - 1]) /\ Informs(q[i], h[i - 1])
  /\ \A d \in Descriptors : h[0][d] # None => d \in DOMAIN c /\ c[d] \in {h[0][d], Unresolved}

Agrees(known, pid, T) == \A fd \in Fds : known[<<pid, fd>>] = Known(T[fd])

AllAgree(known) == \A t \in Threads : \E T : Told(t, T) /\ Agrees(known, ProcessOf[t], T)

\* While nothing was lost or mistaken, the events say for every descriptor what
\* the kernel has done to it since the cache was up to date.
FollowedInv ==
  Losses(stats) = 0 /\ ~mistaken =>
    \E h : History(h, ring, cache) /\ AllAgree(h[Len(ring)])

LEMMA FollowedLedger ==
  ASSUME NEW e, IsEvent(e), NEW known \in Ledgers
  PROVE  Followed(e, known) \in Ledgers
<1>1. \A d \in Descriptors : Touches(e, d) =>
        /\ e.kind = "Open" => e.file \in Files
        /\ e.kind = "Dup" => <<e.pid, e.old>> \in Descriptors
  BY DEF IsEvent, Touches, Descriptors
<1>. QED
  BY <1>1 DEF Followed, Ledgers

LEMMA FollowedAgrees ==
  ASSUME NEW e, IsEvent(e), NEW known \in Ledgers, NEW pid, NEW T \in Table, Proper(T), NEW U \in Table,
         e.pid = pid, Explains(e, T, U), Agrees(known, pid, T)
  PROVE  Agrees(Followed(e, known), pid, U) /\ Informs(e, known)
<1>1. ASSUME NEW fd \in Fds PROVE Followed(e, known)[<<pid, fd>>] = Known(U[fd])
  <2> DEFINE d == <<e.pid, fd>>
  <2>1. d \in Descriptors /\ e.pid = pid /\ known[d] = Known(T[fd])
    BY DEF Descriptors, IsEvent, Agrees
  <2>2. CASE ~Touches(e, d)
    <3>1. U[fd] = T[fd]
      BY <2>2 DEF Explains
    <3>. QED
      BY <2>1, <2>2, <3>1 DEF Followed
  <2>3. CASE Touches(e, d) /\ e.kind = "Open"
    <3>1. U[fd].file = e.file /\ U[fd].origin = "opened"
      BY <2>3 DEF Explains
    <3>. QED
      BY <2>1, <2>3, <3>1 DEF Followed, Known, FromOpen
  <2>4. CASE Touches(e, d) /\ e.kind = "Dup"
    <3>1. U[fd].file = T[e.old].file /\ U[fd].origin = CopyOrigin(T[e.old].origin)
      BY <2>4 DEF Explains
    <3>2. e.old \in Fds /\ known[<<e.pid, e.old>>] = Known(T[e.old])
      BY <2>4 DEF IsEvent, Agrees
    <3>. QED
      BY <2>1, <2>4, <3>1, <3>2 DEF Followed, Known, FromOpen, CopyOrigin
  <2>5. CASE Touches(e, d) /\ e.kind \notin {"Open", "Dup"}
    <3>1. U[fd].origin \in {"none", "inherited"}
      BY <2>5 DEF Explains, Removes
    <3>. QED
      BY <2>1, <2>5, <3>1 DEF Followed, Known, FromOpen
  <2>. QED
    BY <2>2, <2>3, <2>4, <2>5
<1>2. ASSUME e.kind = "Io", FromOpen(e.subject)
      PROVE  e.subject.file # None /\ known[<<e.pid, e.fd>>] = e.subject.file
  <2>1. e.fd \in Fds
    BY <1>2 DEF IsEvent
  <2>2. e.subject = T[e.fd]
    BY <1>2, <2>1 DEF Explains
  <2>. QED
    BY <1>2, <2>1, <2>2 DEF Proper, Agrees, Known, FromOpen
<1>. QED
  BY <1>1, <1>2 DEF Agrees, Informs

\* The other processes do not notice.
LEMMA FollowedElsewhere ==
  ASSUME NEW e, IsEvent(e), NEW known \in Ledgers, NEW pid \in Pids, pid # e.pid, NEW T,
         Agrees(known, pid, T)
  PROVE  Agrees(Followed(e, known), pid, T)
BY DEF Agrees, Followed, Touches, Descriptors

LEMMA HistoryGrows ==
  ASSUME NEW q, NEW c, NEW h, IsQueue(q), History(h, q, c), NEW e, IsEvent(e), Informs(e, h[Len(q)])
  PROVE  \E g : /\ History(g, Append(q, e), c)
                /\ g[Len(Append(q, e))] = Followed(e, h[Len(q)])
<1> DEFINE r == Append(q, e)
           n == Len(q)
           K == Followed(e, h[n])
           g == [i \in 0 .. n + 1 |-> IF i = n + 1 THEN K ELSE h[i]]
<1>1. n \in Nat /\ Len(r) = n + 1 /\ r[n + 1] = e /\ \A i \in 1 .. n : r[i] = q[i]
  <2>1. q \in Seq(Range(q) \cup {e})
    BY DEF IsQueue, Range
  <2>. QED
    BY <2>1, AppendProperties
<1>2. /\ h \in [0 .. n -> Ledgers]
      /\ \A i \in 1 .. n : h[i] = Followed(q[i], h[i - 1]) /\ Informs(q[i], h[i - 1])
      /\ \A d \in Descriptors : h[0][d] # None => d \in DOMAIN c /\ c[d] \in {h[0][d], Unresolved}
  BY DEF History
<1>3. K \in Ledgers
  BY <1>1, <1>2, FollowedLedger
<1>. HIDE DEF r, n
<1>4. K = Followed(e, h[n]) /\ Informs(e, h[n])
  BY DEF n
<1>. HIDE DEF K
<1>5. /\ g \in [0 .. n + 1 -> Ledgers] /\ g[n + 1] = K
      /\ \A i \in 0 .. n : g[i] = h[i]
  BY <1>1, <1>2, <1>3
<1>. HIDE DEF g
<1>6. ASSUME NEW i \in 1 .. n + 1 PROVE g[i] = Followed(r[i], g[i - 1]) /\ Informs(r[i], g[i - 1])
  <2>1. CASE i = n + 1
    BY <1>1, <1>4, <1>5, <2>1
  <2>2. CASE i \in 1 .. n
    <3>1. i - 1 \in 0 .. n /\ i \in 0 .. n
      BY <1>1, <2>2
    <3>. QED
      BY <1>1, <1>2, <1>5, <2>2, <3>1
  <2>. QED
    BY <1>1, <2>1, <2>2
<1>7. g[0] = h[0]
  BY <1>1, <1>5
<1>8. History(g, r, c)
  BY <1>1, <1>2, <1>5, <1>6, <1>7 DEF History
<1>. QED
  BY <1>1, <1>4, <1>5, <1>8 DEF r, n

LEMMA BystandersAgree ==
  ASSUME KernelInv, NEW t \in Threads, Bystanders(t), NEW u \in Threads \ {t}, NEW known,
         \E T : Told(u, T) /\ Agrees(known, ProcessOf[u], T)
  PROVE  \E T : Told(u, T)' /\ Agrees(known, ProcessOf[u], T)
BY BystandersKeep

LEMMA SilentAgrees ==
  ASSUME KernelInv, AloneInv, NEW t \in Threads, Silent(t), NEW known,
         \E T : Told(t, T) /\ Agrees(known, ProcessOf[t], T)
  PROVE  \E T : Told(t, T)' /\ Agrees(known, ProcessOf[t], T)
<1> DEFINE now == tables[ProcessOf[t]]
<1>1. PICK T : /\ Told(t, T)'
               /\ \A fd \in Fds : \/ T[fd] = now[fd]
                                  \/ now[fd].file = None /\ T[fd].origin \in {"none", "inherited", "untraced"}
  BY DEF Silent
<1>2. Agrees(known, ProcessOf[t], now) /\ Proper(now)
  BY TablesAreProper DEF Silent, Told, Pids
<1>. HIDE DEF now
<1>3. Agrees(known, ProcessOf[t], T)
  BY <1>1, <1>2 DEF Agrees, Known, FromOpen, Proper
<1>. QED
  BY <1>1, <1>3

LEMMA SpeakingAgrees ==
  ASSUME KernelInv, KernelInv', AloneInv', NEW t \in Threads, NEW e, IsEvent(e), e.pid = ProcessOf[t],
         ~Reporting(t)', \A T : Told(t, T) => Explains(e, T, tables'[ProcessOf[t]]),
         NEW known \in Ledgers, \E T : Told(t, T) /\ Agrees(known, ProcessOf[t], T)
  PROVE  /\ \E T : Told(t, T)' /\ Agrees(Followed(e, known), ProcessOf[t], T)
         /\ Informs(e, known)
<1>1. PICK T : Told(t, T) /\ Agrees(known, ProcessOf[t], T)
  OBVIOUS
<1>2. PICK U : U = tables'[ProcessOf[t]]
  OBVIOUS
<1>3. Told(t, U)' /\ U \in Table
  BY <1>2, ToldNext, TablesStayProper DEF Pids
<1>4. T \in Table /\ Proper(T) /\ Explains(e, T, U)
  BY <1>1, <1>2 DEF Told
<1>5. Agrees(Followed(e, known), ProcessOf[t], U) /\ Informs(e, known)
  BY <1>1, <1>3, <1>4, FollowedAgrees
<1>. QED
  BY <1>3, <1>5

LEMMA SystemFollows ==
  ASSUME KernelInv, KernelInv', ProgressInv, AloneInv, AloneInv', FollowedInv,
         NEW t \in Threads, Moves(t), Losses(stats') = Losses(stats), UNCHANGED <<cache, mistaken>>
  PROVE  FollowedInv'
<1> SUFFICES ASSUME Losses(stats) = 0, ~mistaken
             PROVE  \E h : History(h, ring', cache') /\ AllAgree(h[Len(ring)])'
  BY DEF FollowedInv
<1>1. PICK h : History(h, ring, cache) /\ AllAgree(h[Len(ring)])
  BY DEF FollowedInv
<1>2. PICK K : K = h[Len(ring)]
  OBVIOUS
<1>3. K \in Ledgers
  BY <1>1, <1>2, QueueDomain DEF KernelInv, RingInv, History
<1>4. \A u \in Threads : \E T : Told(u, T) /\ Agrees(K, ProcessOf[u], T)
  BY <1>1, <1>2 DEF AllAgree
<1>5. Bystanders(t) /\ ~Struck(t)
  BY DEF Moves, Struck, Lost, ProgressInv
<1>6. CASE Silent(t)
  <2>1. ASSUME NEW u \in Threads PROVE \E T : Told(u, T)' /\ Agrees(K, ProcessOf[u], T)
    BY <1>4, <1>5, <1>6, SilentAgrees, BystandersAgree
  <2>2. AllAgree(K)'
    BY <2>1 DEF AllAgree
  <2>3. UNCHANGED ring
    BY <1>6 DEF Silent
  <2>. QED
    BY <1>1, <1>2, <2>2, <2>3
<1>7. CASE Speaks(t)
  <2>1. PICK e : /\ IsEvent(e) /\ e.pid = ProcessOf[t]
                 /\ ring' = Append(ring, e)
                 /\ \A T : Told(t, T) => Explains(e, T, tables'[ProcessOf[t]])
    BY <1>7 DEF Speaks
  <2>2. PICK L : L = Followed(e, K)
    OBVIOUS
  <2>3. Informs(e, K) /\ \E T : Told(t, T)' /\ Agrees(L, ProcessOf[t], T)
    BY <1>3, <1>4, <1>7, <2>1, <2>2, SpeakingAgrees DEF Speaks
  <2>4. ASSUME NEW u \in Threads \ {t} PROVE \E T : Told(u, T)' /\ Agrees(L, ProcessOf[u], T)
    <3>1. PICK T : Told(u, T)' /\ Agrees(K, ProcessOf[u], T)
      BY <1>4, <1>5, BystandersAgree
    <3>2. ProcessOf[u] \in Pids /\ ProcessOf[u] # e.pid
      BY <1>5, <2>1 DEF Bystanders, Pids
    <3>3. Agrees(L, ProcessOf[u], T)
      BY <1>3, <2>1, <2>2, <3>1, <3>2, FollowedElsewhere
    <3>. QED
      BY <3>1, <3>3
  <2>5. AllAgree(L)'
    BY <2>3, <2>4 DEF AllAgree
  <2>6. PICK g : History(g, Append(ring, e), cache) /\ g[Len(Append(ring, e))] = L
    BY <1>1, <1>2, <2>1, <2>2, <2>3, HistoryGrows DEF KernelInv, RingInv
  <2>. QED
    BY <2>1, <2>5, <2>6
<1>. QED
  BY <1>5, <1>6, <1>7 DEF Moves

LEMMA CacheFollows ==
  ASSUME CacheInv, NEW e, IsEvent(e), \A d \in Descriptors : Step(e, d), ~mistaken',
         NEW known \in Ledgers,
         \A d \in Descriptors : known[d] # None => d \in DOMAIN cache /\ cache[d] \in {known[d], Unresolved}
  PROVE  \A d \in Descriptors :
           Followed(e, known)[d] # None =>
             d \in DOMAIN cache' /\ cache'[d] \in {Followed(e, known)[d], Unresolved}
<1> SUFFICES ASSUME NEW d \in Descriptors, NEW file, file = Followed(e, known)[d], file # None
             PROVE  d \in DOMAIN cache' /\ cache'[d] \in {file, Unresolved}
  OBVIOUS
<1>1. Step(e, d)
  OBVIOUS
<1>2. file = IF ~Touches(e, d) THEN known[d]
             ELSE IF e.kind = "Open" THEN e.file
             ELSE IF e.kind = "Dup" THEN known[<<e.pid, e.old>>]
             ELSE None
  BY DEF Followed
<1>3. CASE ~Touches(e, d)
  <2>1. file = known[d] /\ d \in DOMAIN cache /\ cache[d] \in {file, Unresolved}
    BY <1>2, <1>3
  <2>2. SameAt(cache, cache', d)
    BY <1>1, <1>3, <2>1 DEF Step, Mentions
  <2>. QED
    BY <2>1, <2>2 DEF SameAt
<1>4. CASE Touches(e, d) /\ e.kind = "Open"
  BY <1>1, <1>2, <1>4 DEF Step
<1>5. CASE Touches(e, d) /\ e.kind = "Dup"
  <2>1. file = known[<<e.pid, e.old>>] /\ <<e.pid, e.old>> \in Descriptors
    BY <1>2, <1>5 DEF IsEvent, Descriptors
  <2>. QED
    BY <1>1, <1>5, <2>1 DEF Step
<1>6. CASE Touches(e, d) /\ e.kind \notin {"Open", "Dup"}
  BY <1>2, <1>6
<1>. QED
  BY <1>3, <1>4, <1>5, <1>6

LEMMA HistoryShrinks ==
  ASSUME KernelInv, IngestNext, NEW h, NEW c, NEW b, History(h, ring, c),
         \A d \in Descriptors : h[1][d] # None => d \in DOMAIN b /\ b[d] \in {h[1][d], Unresolved}
  PROVE  \E g : History(g, ring', b) /\ g[Len(ring')] = h[Len(ring)]
<1> DEFINE n == Len(ring')
           g == [i \in 0 .. n |-> h[i + 1]]
<1>1. /\ n \in Nat /\ Len(ring) = n + 1
      /\ \A i \in 1 .. n : ring'[i] = ring[i + 1]
  <2>1. /\ Len(ring) \in Nat \ {0} /\ n = Len(ring) - 1
        /\ \A i \in 1 .. n : ring'[i] = ring[i + 1]
    BY IngestTakes
  <2>. HIDE DEF n
  <2>. QED
    BY <2>1
<1>. HIDE DEF n
<1>2. /\ h \in [0 .. n + 1 -> Ledgers]
      /\ \A i \in 1 .. n + 1 : h[i] = Followed(ring[i], h[i - 1]) /\ Informs(ring[i], h[i - 1])
  BY <1>1 DEF History
<1>3. \A i \in 0 .. n : i + 1 \in 0 .. n + 1 /\ i + 1 \in 1 .. n + 1
  BY <1>1
<1>4. g \in [0 .. n -> Ledgers] /\ \A i \in 0 .. n : g[i] = h[i + 1]
  BY <1>2, <1>3
<1>. HIDE DEF g
<1>5. ASSUME NEW i \in 1 .. n PROVE g[i] = Followed(ring'[i], g[i - 1]) /\ Informs(ring'[i], g[i - 1])
  <2>1. /\ i \in 0 .. n /\ i - 1 \in 0 .. n /\ (i - 1) + 1 = i /\ (i + 1) - 1 = i
        /\ i + 1 \in 1 .. n + 1
    BY <1>1
  <2>2. g[i] = h[i + 1] /\ g[i - 1] = h[i]
    BY <1>4, <2>1
  <2>3. h[i + 1] = Followed(ring[i + 1], h[i]) /\ Informs(ring[i + 1], h[i])
    BY <1>2, <2>1
  <2>. QED
    BY <1>1, <2>2, <2>3
<1>6. g[0] = h[1] /\ g[n] = h[n + 1]
  BY <1>1, <1>4
<1>7. History(g, ring', b)
  BY <1>4, <1>5, <1>6 DEF History, n
<1>. QED
  BY <1>1, <1>6, <1>7 DEF n

LEMMA IngestFollows ==
  ASSUME KernelInv, EventsInv, UserInv, FollowedInv, IngestNext
  PROVE  FollowedInv'
<1>0. /\ UNCHANGED <<threads, tables, stats>> /\ (mistaken => mistaken')
      /\ Len(ring) \in Nat \ {0}
  BY IngestTakes, IngestAttributes DEF UserInv
<1> SUFFICES ASSUME Losses(stats) = 0, ~mistaken'
             PROVE  \E h : History(h, ring', cache') /\ AllAgree(h[Len(ring)])'
  BY <1>0 DEF FollowedInv
<1>1. PICK h : History(h, ring, cache) /\ AllAgree(h[Len(ring)])
  BY <1>0 DEF FollowedInv
<1>2. PICK e : e = ring[1] /\ IsEvent(e) /\ \A d \in Descriptors : Step(e, d)
  BY IngestSteps DEF UserInv
<1>3. /\ 0 \in 0 .. Len(ring) /\ 1 \in 1 .. Len(ring) /\ h[1] = Followed(ring[1], h[0])
      /\ h[0] \in Ledgers
  <2>1. 0 \in 0 .. Len(ring) /\ 1 \in 1 .. Len(ring) /\ 1 - 1 = 0
    BY <1>0
  <2>. QED
    BY <1>1, <2>1 DEF History
<1>4. PICK K : K = h[0]
  OBVIOUS
<1>5. \A d \in Descriptors : K[d] # None => d \in DOMAIN cache /\ cache[d] \in {K[d], Unresolved}
  BY <1>1, <1>4 DEF History
<1>6. \A d \in Descriptors :
        Followed(e, K)[d] # None => d \in DOMAIN cache' /\ cache'[d] \in {Followed(e, K)[d], Unresolved}
  BY <1>2, <1>3, <1>4, <1>5, CacheFollows DEF UserInv
<1>7. PICK g : History(g, ring', cache') /\ g[Len(ring')] = h[Len(ring)]
  BY <1>1, <1>2, <1>3, <1>4, <1>6, HistoryShrinks
<1>8. PICK L : L = h[Len(ring)]
  OBVIOUS
<1>9. ASSUME NEW t \in Threads, NEW T PROVE Told(t, T)' <=> Told(t, T)
  BY <1>0 DEF Told, Reporting
<1>10. AllAgree(L)'
  BY <1>1, <1>8, <1>9 DEF AllAgree
<1>. QED
  BY <1>7, <1>8, <1>10

\* An operation is attributed to the file that is known.
LEMMA IngestAttributesKnown ==
  ASSUME KernelInv, EventsInv, UserInv, FollowedInv, CapturedOpensAreFollowed, IngestNext
  PROVE  CapturedOpensAreFollowed'
<1> SUFFICES ASSUME NEW a \in attributions', a.informed, FromOpen(a.subject)
             PROVE  a.path \in {a.subject.file, Unresolved}
  BY DEF CapturedOpensAreFollowed, FromOpen
<1>1. CASE a \in attributions
  BY <1>1 DEF CapturedOpensAreFollowed, FromOpen
<1>2. CASE Attributed(ring[1], a)
  <2>1. PICK e : e = ring[1] /\ IsEvent(e)
    BY IngestSteps DEF UserInv
  <2>2. /\ e.kind = "Io" /\ a.subject = e.subject /\ ~mistaken /\ Losses(stats) = 0
        /\ Found(<<e.pid, e.fd>>, a.path)
    BY <1>2, <2>1 DEF Attributed
  <2>3. PICK h : History(h, ring, cache)
    BY <2>2 DEF FollowedInv
  <2>4. PICK K : K = h[0]
    OBVIOUS
  <2>5. Informs(e, K)
    <3>1. 1 \in 1 .. Len(ring) /\ 1 - 1 = 0
      BY IngestTakes
    <3>. QED
      BY <2>1, <2>3, <2>4, <3>1 DEF History
  <2>6. \A d \in Descriptors : K[d] # None => d \in DOMAIN cache /\ cache[d] \in {K[d], Unresolved}
    BY <2>3, <2>4 DEF History
  <2>7. <<e.pid, e.fd>> \in Descriptors
    BY <2>1, <2>2 DEF IsEvent, Descriptors
  <2>8. e.subject.file # None /\ K[<<e.pid, e.fd>>] = e.subject.file
    BY <2>2, <2>5 DEF Informs
  <2>. QED
    BY <2>2, <2>6, <2>7, <2>8 DEF Found
<1>. QED
  BY <1>1, <1>2, IngestAttributes DEF UserInv

LEMMA FollowedInvStep ==
  ASSUME OneThreadEach, KernelInv, KernelInv', ProgressInv, EventsInv, UserInv, AloneInv, AloneInv',
         FollowedInv, CapturedOpensAreFollowed, [ANext]_avars
  PROVE  FollowedInv' /\ CapturedOpensAreFollowed'
<1>1. /\ Losses(stats) \in Nat
      /\ Losses(stats') = Losses(stats) \/ Losses(stats') = Losses(stats) + 1
  BY LossesGrow
<1>2. CASE ASystem
  <2>1. CapturedOpensAreFollowed'
    BY <1>2 DEF ASystem, userVars, CapturedOpensAreFollowed
  <2>2. CASE Losses(stats') = Losses(stats)
    BY <1>2, <2>1, <2>2, SystemMoves, SystemFollows DEF ASystem, userVars
  <2>3. CASE Losses(stats') = Losses(stats) + 1
    BY <1>1, <2>1, <2>3 DEF FollowedInv
  <2>. QED
    BY <1>1, <2>2, <2>3
<1>3. CASE IngestNext
  BY <1>3, IngestFollows, IngestAttributesKnown
<1>4. CASE SampleDrops
  <2>1. Losses(stats) # 0 /\ UNCHANGED <<stats, attributions>>
    BY <1>1, <1>4 DEF SampleDrops, vars, UserInv, MonitorInv
  <2>. QED
    BY <2>1 DEF FollowedInv, CapturedOpensAreFollowed
<1>5. CASE UNCHANGED avars
  <2>1. UNCHANGED <<threads, tables, ring, stats, cache, mistaken, attributions>>
    BY <1>5 DEF avars, vars, userVars
  <2>2. ASSUME NEW t \in Threads, NEW T PROVE Told(t, T)' <=> Told(t, T)
    BY <2>1 DEF Told, Reporting
  <2>. QED
    BY <2>1, <2>2 DEF FollowedInv, AllAgree, CapturedOpensAreFollowed
<1>. QED
  BY <1>2, <1>3, <1>4, <1>5 DEF ANext

LEMMA CapturedOpensHold ==
  ASSUME OneThreadEach
  PROVE  ASpec => [](FollowedInv /\ CapturedOpensAreFollowed)
<1>1. AInit => FollowedInv /\ CapturedOpensAreFollowed
  <2> SUFFICES ASSUME AInit PROVE FollowedInv /\ CapturedOpensAreFollowed
    OBVIOUS
  <2>1. /\ ring = <<>> /\ Len(ring) = 0 /\ attributions = {}
        /\ threads = [t \in Threads |-> User]
        /\ tables = [pid \in Pids |-> InheritedTable]
    BY EmptySeq DEF AInit, InitWith
  <2>2. PICK K : K = [d \in Descriptors |-> None]
    OBVIOUS
  <2>3. PICK h : h = [i \in 0 .. 0 |-> K]
    OBVIOUS
  <2>4. K \in Ledgers /\ h[0] = K /\ h \in [0 .. 0 -> Ledgers]
    BY <2>2, <2>3 DEF Ledgers
  <2>5. History(h, ring, cache)
    BY <2>1, <2>2, <2>4 DEF History
  <2>6. ASSUME NEW t \in Threads PROVE \E T : Told(t, T) /\ Agrees(K, ProcessOf[t], T)
    <3>1. PICK T : T = tables[ProcessOf[t]]
      OBVIOUS
    <3>2. ProcessOf[t] \in Pids /\ T = InheritedTable /\ ~Reporting(t)
      BY <2>1, <3>1 DEF Pids, Reporting, User
    <3>3. T \in Table /\ Proper(T)
      BY <3>2, KnownTables, CaptureAssumption DEF Proper, NoTable, InheritedTable, Table
    <3>4. \A fd \in Fds : T[fd].origin \in {"none", "inherited"}
      BY <3>2 DEF InheritedTable, NoTable
    <3>5. Told(t, T)
      BY <3>1, <3>2, <3>3 DEF Told
    <3>6. Agrees(K, ProcessOf[t], T)
      BY <2>2, <3>2, <3>4 DEF Agrees, Known, FromOpen, Descriptors
    <3>. QED
      BY <3>5, <3>6
  <2>7. AllAgree(h[Len(ring)])
    BY <2>1, <2>4, <2>6 DEF AllAgree
  <2>. QED
    BY <2>1, <2>5, <2>7 DEF FollowedInv, CapturedOpensAreFollowed
<1>. QED
  BY <1>1, KernelInvHolds, ProgressInvHolds, UserInvHolds, AloneInvHolds, FollowedInvStep, PTL DEF ASpec

\* However far userspace lags behind, and whatever becomes of descriptors and of
\* processes meanwhile: as long as no event is lost and no open is taken for one
\* of a pipe, operations on descriptors whose opens were captured are attributed
\* to the files they acted on, or left unresolved (FdPathCache in ncda/src/bpf.rs
\* fed by ncda-ebpf), for any number of processes of one thread each.
THEOREM CapturedOpensFollowed ==
  ASSUME OneThreadEach
  PROVE  ASpec => []CapturedOpensAreFollowed
BY CapturedOpensHold, PTL

--------------------------------------------------------------------------------
\* That the cache is current once all events were taken.

\* After n events of q, cache c has nothing for descriptor d, and it is not asked
\* for it again: nothing was cached, or the last event about d takes it away.
Gone(c, q, n, d) ==
  \E k \in 0 .. n :
    /\ IF k = 0 THEN d \notin DOMAIN c ELSE Removes(q[k], d)
    /\ \A i \in k + 1 .. n : ~Mentions(q[i], d)

LastTouch(q, i, d) ==
  /\ i \in 1 .. Len(q) /\ Touches(q[i], d)
  /\ \A j \in i + 1 .. Len(q) : ~Touches(q[j], d)

IsCopy(entry) == entry.origin \in {"copied", "duplicated"}

\* What cache c will have for descriptor d when the events of q were taken is of
\* the present: before is what is behind d according to all events emitted, now
\* what really is.
Current(c, q, d, before, now) ==
  /\ before.file = None => Gone(c, q, Len(q), d)
  /\ \A i \in 1 .. Len(q) : Touches(q[i], d) /\ q[i].kind = "Open" => Gone(c, q, i - 1, d)
  /\ \A i \in 1 .. Len(q) : LastTouch(q, i, d) =>
       /\ q[i].kind = "Open" => before.file = q[i].file
       /\ q[i].kind = "Dup" => IsCopy(before)
  /\ before = now /\ (\A i \in 1 .. Len(q) : ~Touches(q[i], d)) /\ d \in DOMAIN c =>
       c[d] \in {now.file, Unresolved} \/ IsCopy(now)

\* r is q with one more event.
Grown(q, r, e) ==
  /\ Len(q) \in Nat /\ Len(r) = Len(q) + 1
  /\ r[Len(q) + 1] = e
  /\ \A i \in 1 .. Len(q) : r[i] = q[i]

LEMMA GoneGrows ==
  ASSUME NEW c, NEW q, NEW r, NEW e, NEW d, Grown(q, r, e), NEW n \in 0 .. Len(q), Gone(c, q, n, d)
  PROVE  Gone(c, r, n, d)
<1>1. PICK k \in 0 .. n :
        /\ IF k = 0 THEN d \notin DOMAIN c ELSE Removes(q[k], d)
        /\ \A i \in k + 1 .. n : ~Mentions(q[i], d)
  BY DEF Gone
<1>2. Len(q) \in Nat /\ \A i \in 1 .. Len(q) : r[i] = q[i]
  BY DEF Grown
<1>3. k # 0 => r[k] = q[k]
  BY <1>2
<1>4. \A i \in k + 1 .. n : r[i] = q[i]
  BY <1>2
<1>. QED
  BY <1>1, <1>3, <1>4 DEF Gone

LEMMA GoneStays ==
  ASSUME NEW c, NEW q, NEW r, NEW e, NEW d, Grown(q, r, e), Gone(c, q, Len(q), d), ~Mentions(e, d)
  PROVE  Gone(c, r, Len(r), d)
<1>1. PICK k \in 0 .. Len(q) :
        /\ IF k = 0 THEN d \notin DOMAIN c ELSE Removes(q[k], d)
        /\ \A i \in k + 1 .. Len(q) : ~Mentions(q[i], d)
  BY DEF Gone
<1>2. /\ Len(q) \in Nat /\ Len(r) = Len(q) + 1 /\ r[Len(q) + 1] = e
      /\ \A i \in 1 .. Len(q) : r[i] = q[i]
  BY DEF Grown
<1>3. k # 0 => r[k] = q[k]
  BY <1>2
<1>4. \A i \in k + 1 .. Len(r) : ~Mentions(r[i], d)
  <2>1. \A i \in k + 1 .. Len(r) : (i \in k + 1 .. Len(q) /\ i \in 1 .. Len(q)) \/ i = Len(q) + 1
    BY <1>2
  <2>. QED
    BY <1>1, <1>2, <2>1
<1>5. k \in 0 .. Len(r)
  BY <1>2
<1>. QED
  BY <1>1, <1>3, <1>4, <1>5 DEF Gone

\* Another event, and what it explains.
LEMMA CurrentGrows ==
  ASSUME NEW c, NEW q, NEW r, NEW e, NEW d, Grown(q, r, e),
         NEW before, NEW now, Current(c, q, d, before, now), NEW after, NEW then,
         ~Touches(e, d) => after = before /\ then = now,
         Touches(e, d) /\ e.kind = "Open" =>
           before.file = None /\ after.file = e.file /\ e.file # None,
         Touches(e, d) /\ e.kind = "Dup" => after.file # None /\ IsCopy(after),
         Uses(e, d) => before.file # None
  PROVE  Current(c, r, d, after, then)
<1>1. /\ Len(q) \in Nat /\ Len(r) = Len(q) + 1 /\ r[Len(q) + 1] = e
      /\ \A i \in 1 .. Len(q) : r[i] = q[i]
  BY DEF Grown
<1>2. /\ before.file = None => Gone(c, q, Len(q), d)
      /\ \A i \in 1 .. Len(q) : Touches(q[i], d) /\ q[i].kind = "Open" => Gone(c, q, i - 1, d)
      /\ \A i \in 1 .. Len(q) : LastTouch(q, i, d) =>
           /\ q[i].kind = "Open" => before.file = q[i].file
           /\ q[i].kind = "Dup" => IsCopy(before)
      /\ before = now /\ (\A i \in 1 .. Len(q) : ~Touches(q[i], d)) /\ d \in DOMAIN c =>
           c[d] \in {now.file, Unresolved} \/ IsCopy(now)
  BY DEF Current
<1>3. ASSUME after.file = None PROVE Gone(c, r, Len(r), d)
  <2>1. CASE Mentions(e, d)
    <3>1. Removes(e, d)
      BY <1>3, <2>1 DEF Mentions, Removes
    <3>2. Len(r) \in 0 .. Len(r) /\ Len(r) # 0 /\ Removes(r[Len(r)], d)
          /\ \A i \in Len(r) + 1 .. Len(r) : ~Mentions(r[i], d)
      BY <1>1, <3>1
    <3>. QED
      BY <3>2 DEF Gone
  <2>2. CASE ~Mentions(e, d)
    BY <1>2, <1>3, <2>2, GoneStays DEF Mentions
  <2>. QED
    BY <2>1, <2>2
<1>4. ASSUME NEW i \in 1 .. Len(r), Touches(r[i], d), r[i].kind = "Open"
      PROVE  Gone(c, r, i - 1, d)
  <2>1. CASE i = Len(q) + 1
    <3>1. Gone(c, q, Len(q), d) /\ i - 1 = Len(q) /\ Len(q) \in 0 .. Len(q)
      BY <1>1, <1>2, <1>4, <2>1
    <3>. QED
      BY <3>1, GoneGrows
  <2>2. CASE i \in 1 .. Len(q)
    <3>1. Gone(c, q, i - 1, d) /\ i - 1 \in 0 .. Len(q)
      BY <1>1, <1>2, <1>4, <2>2
    <3>. QED
      BY <3>1, GoneGrows
  <2>. QED
    BY <1>1, <2>1, <2>2
<1>5. ASSUME NEW i \in 1 .. Len(r), LastTouch(r, i, d)
      PROVE  /\ r[i].kind = "Open" => after.file = r[i].file
             /\ r[i].kind = "Dup" => IsCopy(after)
  <2>1. CASE i = Len(q) + 1
    BY <1>1, <1>5, <2>1 DEF LastTouch
  <2>2. CASE i \in 1 .. Len(q)
    <3>1. Len(q) + 1 \in i + 1 .. Len(r) /\ \A j \in i + 1 .. Len(q) : j \in i + 1 .. Len(r) /\ j \in 1 .. Len(q)
      BY <1>1, <2>2
    <3>2. ~Touches(e, d) /\ LastTouch(q, i, d)
      BY <1>1, <1>5, <2>2, <3>1 DEF LastTouch
    <3>. QED
      BY <1>1, <1>2, <2>2, <3>2
  <2>. QED
    BY <1>1, <2>1, <2>2
<1>6. ASSUME after = then, \A i \in 1 .. Len(r) : ~Touches(r[i], d), d \in DOMAIN c
      PROVE  c[d] \in {then.file, Unresolved} \/ IsCopy(then)
  <2>1. Len(q) + 1 \in 1 .. Len(r) /\ \A i \in 1 .. Len(q) : i \in 1 .. Len(r)
    BY <1>1
  <2>2. ~Touches(e, d) /\ \A i \in 1 .. Len(q) : ~Touches(q[i], d)
    BY <1>1, <1>6, <2>1
  <2>. QED
    BY <1>2, <1>6, <2>2
<1>. QED
  BY <1>3, <1>4, <1>5, <1>6 DEF Current

\* A descriptor that was closed comes to something that no event tells of.
LEMMA CurrentChanges ==
  ASSUME NEW c, NEW q, Len(q) \in Nat, NEW d, NEW before, Current(c, q, d, before, before),
         NEW after, NEW then, after = before \/ before.file = None
  PROVE  Current(c, q, d, after, then)
<1>1. CASE after = before
  BY <1>1 DEF Current
<1>2. CASE before.file = None
  <2>1. PICK k \in 0 .. Len(q) :
          /\ IF k = 0 THEN d \notin DOMAIN c ELSE Removes(q[k], d)
          /\ \A i \in k + 1 .. Len(q) : ~Mentions(q[i], d)
    BY <1>2 DEF Current, Gone
  <2>2. ASSUME NEW i \in 1 .. Len(q), LastTouch(q, i, d) PROVE q[i].kind \notin {"Open", "Dup"}
    <3>1. ~(i \in k + 1 .. Len(q))
      BY <2>1, <2>2 DEF LastTouch, Mentions
    <3>2. i <= k
      BY <3>1
    <3>3. CASE i = k
      BY <2>1, <3>3 DEF Removes
    <3>4. CASE i < k
      <4>1. k \in i + 1 .. Len(q) /\ k # 0
        BY <3>4
      <4>. QED
        BY <2>1, <2>2, <4>1 DEF LastTouch, Removes
    <3>. QED
      BY <3>2, <3>3, <3>4
  <2>3. (\A i \in 1 .. Len(q) : ~Touches(q[i], d)) => d \notin DOMAIN c
    BY <2>1 DEF Removes
  <2>. QED
    BY <1>2, <2>2, <2>3 DEF Current
<1>. QED
  BY <1>1, <1>2

\* q is r with an event before it, and b is c after that event.
Shrunk(q, r) ==
  /\ Len(r) \in Nat /\ Len(q) = Len(r) + 1
  /\ \A i \in 1 .. Len(r) : r[i] = q[i + 1]

LEMMA GoneShrinks ==
  ASSUME NEW q, NEW r, Shrunk(q, r), NEW d, Step(q[1], d),
         NEW n \in 1 .. Len(q), Gone(cache, q, n, d)
  PROVE  Gone(cache', r, n - 1, d)
<1>1. PICK k \in 0 .. n :
        /\ IF k = 0 THEN d \notin DOMAIN cache ELSE Removes(q[k], d)
        /\ \A i \in k + 1 .. n : ~Mentions(q[i], d)
  BY DEF Gone
<1>2. Len(r) \in Nat /\ Len(q) = Len(r) + 1 /\ \A i \in 1 .. Len(r) : r[i] = q[i + 1]
  BY DEF Shrunk
<1>3. ASSUME NEW l \in 0 .. n - 1, k <= l + 1, IF l = 0 THEN d \notin DOMAIN cache' ELSE Removes(r[l], d)
      PROVE  Gone(cache', r, n - 1, d)
  <2>1. \A i \in l + 1 .. n - 1 : i + 1 \in k + 1 .. n /\ i \in 1 .. Len(r)
    BY <1>2, <1>3
  <2>2. \A i \in l + 1 .. n - 1 : ~Mentions(r[i], d)
    BY <1>1, <1>2, <2>1
  <2>. QED
    BY <1>3, <2>2 DEF Gone
<1>4. 0 \in 0 .. n - 1
  BY <1>2
<1>5. CASE k = 0
  <2>1. 1 \in k + 1 .. n
    BY <1>2, <1>5
  <2>2. d \notin DOMAIN cache'
    BY <1>1, <1>5, <2>1 DEF Step, SameAt
  <2>. QED
    BY <1>3, <1>4, <1>5, <2>2
<1>6. CASE k = 1
  <2>1. d \notin DOMAIN cache'
    BY <1>1, <1>6 DEF Step
  <2>. QED
    BY <1>3, <1>4, <1>6, <2>1
<1>7. CASE k > 1
  <2>1. k - 1 \in 0 .. n - 1 /\ k - 1 # 0 /\ k - 1 \in 1 .. Len(r) /\ (k - 1) + 1 = k
    BY <1>2, <1>7
  <2>2. Removes(r[k - 1], d)
    BY <1>1, <1>2, <1>7, <2>1
  <2>. QED
    BY <1>3, <2>1, <2>2
<1>. QED
  BY <1>5, <1>6, <1>7

LEMMA CurrentShrinks ==
  ASSUME NEW q, NEW r, Shrunk(q, r), NEW d, Step(q[1], d),
         NEW before, NEW now, now = tables[d[1]][d[2]], Current(cache, q, d, before, now)
  PROVE  Current(cache', r, d, before, now)
<1>1. Len(r) \in Nat /\ Len(q) = Len(r) + 1 /\ \A i \in 1 .. Len(r) : r[i] = q[i + 1]
  BY DEF Shrunk
<1>2. /\ before.file = None => Gone(cache, q, Len(q), d)
      /\ \A i \in 1 .. Len(q) : Touches(q[i], d) /\ q[i].kind = "Open" => Gone(cache, q, i - 1, d)
      /\ \A i \in 1 .. Len(q) : LastTouch(q, i, d) =>
           /\ q[i].kind = "Open" => before.file = q[i].file
           /\ q[i].kind = "Dup" => IsCopy(before)
      /\ before = now /\ (\A i \in 1 .. Len(q) : ~Touches(q[i], d)) /\ d \in DOMAIN cache =>
           cache[d] \in {now.file, Unresolved} \/ IsCopy(now)
  BY DEF Current
<1>3. ASSUME before.file = None PROVE Gone(cache', r, Len(r), d)
  <2>1. Len(q) \in 1 .. Len(q) /\ Len(q) - 1 = Len(r)
    BY <1>1
  <2>2. Gone(cache', r, Len(q) - 1, d)
    BY <1>2, <1>3, <2>1, GoneShrinks
  <2>. QED
    BY <2>1, <2>2
<1>4. ASSUME NEW i \in 1 .. Len(r), Touches(r[i], d), r[i].kind = "Open"
      PROVE  Gone(cache', r, i - 1, d)
  <2>1. i + 1 \in 1 .. Len(q) /\ i \in 1 .. Len(q) /\ (i + 1) - 1 = i
    BY <1>1
  <2>2. Gone(cache, q, i, d)
    BY <1>1, <1>2, <1>4, <2>1
  <2>. QED
    BY <2>1, <2>2, GoneShrinks
<1>5. ASSUME NEW i \in 1 .. Len(r), LastTouch(r, i, d)
      PROVE  /\ r[i].kind = "Open" => before.file = r[i].file
             /\ r[i].kind = "Dup" => IsCopy(before)
  <2>1. i + 1 \in 1 .. Len(q) /\ r[i] = q[i + 1]
    BY <1>1
  <2>2. ASSUME NEW j \in (i + 1) + 1 .. Len(q) PROVE ~Touches(q[j], d)
    <3>1. j - 1 \in i + 1 .. Len(r) /\ j - 1 \in 1 .. Len(r) /\ (j - 1) + 1 = j
      BY <1>1
    <3>2. r[j - 1] = q[j]
      BY <1>1, <3>1
    <3>. QED
      BY <1>5, <3>1, <3>2 DEF LastTouch
  <2>3. LastTouch(q, i + 1, d)
    BY <1>5, <2>1, <2>2 DEF LastTouch
  <2>. QED
    BY <1>2, <2>1, <2>3
<1>6. ASSUME before = now, \A i \in 1 .. Len(r) : ~Touches(r[i], d), d \in DOMAIN cache'
      PROVE  cache'[d] \in {now.file, Unresolved} \/ IsCopy(now)
  <2>0. 1 \in 1 .. Len(q) /\ 1 - 1 = 0
    BY <1>1
  <2>1. ASSUME NEW j \in 2 .. Len(q) PROVE ~Touches(q[j], d)
    <3>1. j - 1 \in 1 .. Len(r) /\ (j - 1) + 1 = j
      BY <1>1
    <3>2. r[j - 1] = q[j]
      BY <1>1, <3>1
    <3>. QED
      BY <1>6, <3>1, <3>2
  <2>2. CASE Touches(q[1], d)
    <3>1. LastTouch(q, 1, d)
      BY <2>0, <2>1, <2>2 DEF LastTouch
    <3>2. CASE q[1].kind = "Open"
      <4>1. now.file = q[1].file /\ Gone(cache, q, 0, d)
        BY <1>2, <1>6, <2>0, <2>2, <3>1, <3>2
      <4>2. d \notin DOMAIN cache
        BY <4>1 DEF Gone
      <4>. QED
        BY <1>6, <2>2, <3>2, <4>1, <4>2 DEF Step, SameAt
    <3>3. CASE q[1].kind = "Dup"
      BY <1>2, <1>6, <2>0, <3>1, <3>3
    <3>4. CASE q[1].kind \notin {"Open", "Dup"}
      BY <1>6, <2>2, <3>4 DEF Step, Removes
    <3>. QED
      BY <3>2, <3>3, <3>4
  <2>3. CASE ~Touches(q[1], d)
    <3>1. \A i \in 1 .. Len(q) : ~Touches(q[i], d)
      <4>1. \A i \in 1 .. Len(q) : i = 1 \/ i \in 2 .. Len(q)
        BY <1>1
      <4>. QED
        BY <2>1, <2>3, <4>1
    <3>2. CASE d \in DOMAIN cache
      BY <1>2, <1>6, <2>3, <3>1, <3>2 DEF Step, Mentions, SameAt
    <3>3. CASE d \notin DOMAIN cache
      BY <1>6, <2>3, <3>3 DEF Step, Mentions, SameAt
    <3>. QED
      BY <3>2, <3>3
  <2>. QED
    BY <2>2, <2>3
<1>. QED
  BY <1>3, <1>4, <1>5, <1>6 DEF Current

\* Nothing is cached for a process and no event is about it.
Clean(pid) ==
  /\ \A i \in 1 .. Len(ring) : ring[i].pid # pid
  /\ \A d \in DOMAIN cache : d[1] # pid

LEMMA CleanIsCurrent ==
  ASSUME KernelInv, NEW pid, Clean(pid), NEW fd, NEW before, NEW now
  PROVE  Current(cache, ring, <<pid, fd>>, before, now)
<1> DEFINE d == <<pid, fd>>
<1>1. Len(ring) \in Nat
  BY QueueDomain DEF KernelInv, RingInv
<1>2. d \notin DOMAIN cache /\ \A i \in 1 .. Len(ring) : ~Mentions(ring[i], d)
  BY DEF Clean, Mentions, Touches, Uses
<1>3. Gone(cache, ring, Len(ring), d)
  <2>1. 0 \in 0 .. Len(ring) /\ \A i \in 0 + 1 .. Len(ring) : ~Mentions(ring[i], d)
    BY <1>1, <1>2
  <2>. QED
    BY <1>2, <2>1 DEF Gone
<1>. QED
  BY <1>2, <1>3 DEF Current, LastTouch, Mentions

\* As far as the monitor knows nothing is missing, and the cache was emptied with
\* the ring since the last loss.
Aware == settled /\ dropsSeen = Losses(stats)

CurrentTable(pid, T) == \A fd \in Fds : Current(cache, ring, <<pid, fd>>, T[fd], tables[pid][fd])

CurrentInv ==
  Aware =>
    \A t \in Threads :
      /\ Lost(t) => Clean(ProcessOf[t])
      /\ \E T : Told(t, T) /\ CurrentTable(ProcessOf[t], T)

LEMMA RingGrows ==
  ASSUME KernelInv, NEW e, ring' = Append(ring, e)
  PROVE  Grown(ring, ring', e)
<1>1. ring \in Seq(Range(ring) \cup {e})
  BY DEF KernelInv, RingInv, IsQueue, Range
<1>. QED
  BY <1>1, AppendProperties DEF Grown

\* Another process has something to tell, or nothing is told.
LEMMA BystandersCurrent ==
  ASSUME KernelInv, NEW t \in Threads, Bystanders(t), NEW u \in Threads \ {t}, UNCHANGED cache,
         UNCHANGED ring \/ \E e : ring' = Append(ring, e) /\ e.pid = ProcessOf[t],
         Lost(u) => Clean(ProcessOf[u]),
         \E T : Told(u, T) /\ CurrentTable(ProcessOf[u], T)
  PROVE  /\ Lost(u)' => Clean(ProcessOf[u])'
         /\ \E T : Told(u, T)' /\ CurrentTable(ProcessOf[u], T)'
<1> DEFINE pid == ProcessOf[u]
<1>1. PICK T : Told(u, T) /\ CurrentTable(pid, T)
  OBVIOUS
<1>2. Told(u, T)' /\ (Lost(u)' => Lost(u)) /\ tables'[pid] = tables[pid] /\ pid # ProcessOf[t]
  BY <1>1, BystandersKeep DEF Bystanders
<1>. HIDE DEF pid
<1>3. CASE UNCHANGED ring
  BY <1>1, <1>2, <1>3 DEF CurrentTable, Clean, pid
<1>4. CASE \E e : ring' = Append(ring, e) /\ e.pid = ProcessOf[t]
  <2>1. PICK e : ring' = Append(ring, e) /\ e.pid = ProcessOf[t]
    BY <1>4
  <2>2. Grown(ring, ring', e)
    BY <2>1, RingGrows
  <2>3. ASSUME Clean(pid) PROVE Clean(pid)'
    <3>1. /\ Len(ring') = Len(ring) + 1 /\ Len(ring) \in Nat
          /\ ring'[Len(ring) + 1].pid # pid
          /\ \A i \in 1 .. Len(ring) : ring'[i] = ring[i]
      BY <1>2, <2>1, <2>2 DEF Grown
    <3>2. \A i \in 1 .. Len(ring') : i \in 1 .. Len(ring) \/ i = Len(ring) + 1
      BY <3>1
    <3>. QED
      BY <2>3, <3>1, <3>2 DEF Clean
  <2>4. ASSUME NEW fd \in Fds
        PROVE  Current(cache', ring', <<pid, fd>>, T[fd], tables'[pid][fd])
    <3>1. PICK d : d = <<pid, fd>>
      OBVIOUS
    <3>2. ~Touches(e, d) /\ ~Uses(e, d)
      BY <1>2, <2>1, <3>1 DEF Touches, Uses
    <3>3. PICK before, now : before = T[fd] /\ now = tables[pid][fd]
      OBVIOUS
    <3>4. Current(cache, ring, d, before, now)
      BY <1>1, <3>1, <3>3 DEF CurrentTable
    <3>5. Current(cache, ring', d, before, now)
      BY <2>2, <3>2, <3>4, CurrentGrows
    <3>. QED
      BY <1>2, <3>1, <3>3, <3>5
  <2>5. CurrentTable(pid, T)'
    BY <2>4 DEF CurrentTable, pid
  <2>. QED
    BY <1>2, <2>3, <2>5 DEF pid
<1>. QED
  BY <1>3, <1>4

LEMMA SilentCurrent ==
  ASSUME KernelInv, NEW t \in Threads, Silent(t), UNCHANGED cache,
         \E T : Told(t, T) /\ CurrentTable(ProcessOf[t], T)
  PROVE  \E T : Told(t, T)' /\ CurrentTable(ProcessOf[t], T)'
<1> DEFINE pid == ProcessOf[t]
<1>1. PICK T : /\ Told(t, T)'
               /\ \A fd \in Fds : T[fd] = tables[pid][fd] \/ tables[pid][fd].file = None
  BY DEF Silent
<1>2. UNCHANGED ring /\ Len(ring) \in Nat
  BY QueueDomain DEF Silent, KernelInv, RingInv
<1>3. CurrentTable(pid, tables[pid])
  BY DEF Silent, Told
<1>4. ASSUME NEW fd \in Fds
      PROVE  Current(cache', ring', <<pid, fd>>, T[fd], tables'[pid][fd])
  <2>1. PICK before, then : before = tables[pid][fd] /\ then = tables'[pid][fd]
    OBVIOUS
  <2>2. Current(cache, ring, <<pid, fd>>, before, before)
    BY <1>3, <2>1 DEF CurrentTable
  <2>3. Current(cache, ring, <<pid, fd>>, T[fd], then)
    BY <1>1, <1>2, <2>1, <2>2, CurrentChanges
  <2>. QED
    BY <1>2, <2>1, <2>3
<1>5. CurrentTable(pid, T)'
  BY <1>4 DEF CurrentTable
<1>. QED
  BY <1>1, <1>5

LEMMA SpeakingCurrent ==
  ASSUME KernelInv, KernelInv', AloneInv, AloneInv', NEW t \in Threads, Speaks(t), UNCHANGED cache,
         \E T : Told(t, T) /\ CurrentTable(ProcessOf[t], T)
  PROVE  \E T : Told(t, T)' /\ CurrentTable(ProcessOf[t], T)'
<1> DEFINE pid == ProcessOf[t]
<1>1. PICK T : Told(t, T) /\ CurrentTable(pid, T)
  OBVIOUS
<1>2. PICK e : /\ IsEvent(e) /\ e.pid = pid
               /\ ring' = Append(ring, e)
               /\ Explains(e, T, tables'[pid])
               /\ \A fd \in Fds : ~Touches(e, <<e.pid, fd>>) => tables'[pid][fd] = tables[pid][fd]
  BY <1>1 DEF Speaks
<1>3. PICK U : U = tables'[pid]
  OBVIOUS
<1>4. Told(t, U)'
  BY <1>3, ToldNext DEF Speaks
<1>5. Grown(ring, ring', e)
  BY <1>2, RingGrows
<1>6. ASSUME NEW fd \in Fds PROVE Current(cache', ring', <<pid, fd>>, U[fd], U[fd])
  <2>1. PICK d : d = <<e.pid, fd>> /\ d = <<pid, fd>>
    BY <1>2
  <2>2. PICK before, now, after : before = T[fd] /\ now = tables[pid][fd] /\ after = U[fd]
    OBVIOUS
  <2>3. Current(cache, ring, d, before, now)
    BY <1>1, <2>1, <2>2 DEF CurrentTable
  <2>4. ~Touches(e, d) => after = before /\ after = now
    BY <1>2, <1>3, <2>1, <2>2 DEF Explains
  <2>5. Touches(e, d) /\ e.kind = "Open" => before.file = None /\ after.file = e.file /\ e.file # None
    BY <1>2, <1>3, <2>1, <2>2, CaptureAssumption DEF Explains, IsEvent
  <2>6. Touches(e, d) /\ e.kind = "Dup" => after.file # None /\ IsCopy(after)
    <3>1. SUFFICES ASSUME Touches(e, d), e.kind = "Dup" PROVE after.file # None /\ IsCopy(after)
      OBVIOUS
    <3>2. after.file = T[e.old].file /\ after.origin = CopyOrigin(T[e.old].origin)
      BY <1>2, <1>3, <2>1, <2>2, <3>1 DEF Explains
    <3>3. e.old \in Fds /\ Uses(e, <<e.pid, e.old>>)
      BY <1>2, <3>1 DEF IsEvent, Uses
    <3>4. T[e.old].file # None
      BY <1>2, <3>3 DEF Explains
    <3>. QED
      BY <3>2, <3>4 DEF IsCopy, CopyOrigin
  <2>7. Uses(e, d) => before.file # None
    BY <1>2, <2>1, <2>2 DEF Explains
  <2>8. Current(cache, ring', d, after, after)
    BY <1>5, <2>3, <2>4, <2>5, <2>6, <2>7, CurrentGrows
  <2>. QED
    BY <2>1, <2>2, <2>8
<1>7. CurrentTable(pid, U)'
  BY <1>3, <1>6 DEF CurrentTable
<1>. QED
  BY <1>4, <1>7

LEMMA StruckCurrent ==
  ASSUME KernelInv, KernelInv', AloneInv', NEW t \in Threads, Struck(t), UNCHANGED cache,
         Clean(ProcessOf[t])
  PROVE  \E T : Told(t, T)' /\ CurrentTable(ProcessOf[t], T)'
<1>1. PICK U : U = tables'[ProcessOf[t]]
  OBVIOUS
<1>2. Told(t, U)'
  BY <1>1, ToldNext DEF Struck
<1>3. UNCHANGED <<ring, cache>>
  BY DEF Struck
<1>4. ASSUME NEW fd \in Fds PROVE Current(cache', ring', <<ProcessOf[t], fd>>, U[fd], U[fd])
  BY <1>3, CleanIsCurrent
<1>5. CurrentTable(ProcessOf[t], U)'
  BY <1>1, <1>4 DEF CurrentTable
<1>. QED
  BY <1>2, <1>5

LEMMA SystemCurrent ==
  ASSUME KernelInv, KernelInv', AloneInv, AloneInv', CurrentInv,
         NEW t \in Threads, Moves(t), Losses(stats') = Losses(stats),
         UNCHANGED <<cache, dropsSeen, settled>>
  PROVE  CurrentInv'
<1> SUFFICES ASSUME Aware, NEW u \in Threads
             PROVE  /\ Lost(u)' => Clean(ProcessOf[u])'
                    /\ \E T : Told(u, T)' /\ CurrentTable(ProcessOf[u], T)'
  BY DEF CurrentInv, Aware
<1>1. /\ Lost(u) => Clean(ProcessOf[u])
      /\ \E T : Told(u, T) /\ CurrentTable(ProcessOf[u], T)
  BY DEF CurrentInv
<1>2. CASE u # t
  <2>1. UNCHANGED ring \/ \E e : ring' = Append(ring, e) /\ e.pid = ProcessOf[t]
    BY DEF Moves, Silent, Speaks, Struck
  <2>2. Bystanders(t)
    BY DEF Moves
  <2>. QED
    BY <1>1, <1>2, <2>1, <2>2, BystandersCurrent
<1>3. CASE u = t
  <2>1. Lost(t)' => Clean(ProcessOf[t])'
    <3>1. Lost(t)' => Lost(t) /\ UNCHANGED ring
      BY DEF Moves, Silent, Speaks, Struck
    <3>. QED
      BY <1>1, <1>3, <3>1 DEF Clean
  <2>2. Struck(t) => Clean(ProcessOf[t])
    BY <1>1, <1>3 DEF Struck
  <2>3. Silent(t) \/ Speaks(t) \/ Struck(t)
    BY DEF Moves
  <2>. QED
    BY <1>1, <1>3, <2>1, <2>2, <2>3, SilentCurrent, SpeakingCurrent, StruckCurrent
<1>. QED
  BY <1>2, <1>3

LEMMA IngestCurrent ==
  ASSUME KernelInv, ProgressInv, EventsInv, UserInv, CurrentInv, IngestNext
  PROVE  CurrentInv'
<1>1. /\ UNCHANGED <<threads, tables, stats, dropsSeen, settled>>
      /\ Shrunk(ring, ring') /\ Len(ring) \in Nat \ {0}
      /\ \A i \in 1 .. Len(ring') : i + 1 \in 1 .. Len(ring)
  <2>1. /\ Len(ring) \in Nat \ {0} /\ Len(ring') = Len(ring) - 1
        /\ \A i \in 1 .. Len(ring') : ring'[i] = ring[i + 1]
    BY IngestTakes
  <2>2. /\ Shrunk(ring, ring')
        /\ \A i \in 1 .. Len(ring') : i + 1 \in 1 .. Len(ring)
    BY <2>1 DEF Shrunk
  <2>. QED
    BY <2>1, <2>2, IngestTakes
<1>2. PICK e : e = ring[1] /\ IsEvent(e) /\ \A d \in Descriptors : Step(e, d)
  BY IngestSteps DEF UserInv
<1> SUFFICES ASSUME Aware, NEW u \in Threads
             PROVE  /\ Lost(u)' => Clean(ProcessOf[u])'
                    /\ \E T : Told(u, T)' /\ CurrentTable(ProcessOf[u], T)'
  BY <1>1 DEF CurrentInv, Aware
<1> DEFINE pid == ProcessOf[u]
<1>3. PICK T : Told(u, T) /\ CurrentTable(pid, T)
  BY DEF CurrentInv
<1>4. Told(u, T)' /\ (Lost(u)' => Lost(u)) /\ pid \in Pids
  BY <1>1, <1>3 DEF Told, Reporting, Lost, InCall, Pids
<1>5. ASSUME Lost(u) PROVE Clean(pid)'
  <2>1. Clean(pid)
    BY <1>5 DEF CurrentInv
  <2>2. e.pid # pid
    <3>1. 1 \in 1 .. Len(ring)
      BY <1>1
    <3>. QED
      BY <1>2, <2>1, <3>1 DEF Clean
  <2>3. ASSUME NEW d \in Descriptors, d[1] = pid PROVE d \notin DOMAIN cache'
    <3>1. ~Mentions(e, d) /\ d \notin DOMAIN cache
      BY <2>1, <2>2, <2>3 DEF Clean, Mentions, Touches, Uses
    <3>. QED
      BY <1>2, <2>3, <3>1 DEF Step, SameAt
  <2>4. \A d \in DOMAIN cache' : d \in Descriptors
    <3>1. CacheInv'
      BY UserInvStep DEF UserInv, ANext
    <3>. QED
      BY <3>1 DEF CacheInv
  <2>5. \A i \in 1 .. Len(ring') : ring'[i].pid # pid
    BY <1>1, <2>1 DEF Clean, Shrunk
  <2>. QED
    BY <2>3, <2>4, <2>5 DEF Clean
<1>6. ASSUME NEW fd \in Fds
      PROVE  Current(cache', ring', <<pid, fd>>, T[fd], tables'[pid][fd])
  <2>1. PICK d : d = <<pid, fd>>
    OBVIOUS
  <2>2. PICK before, now : before = T[fd] /\ now = tables[pid][fd]
    OBVIOUS
  <2>3. /\ d \in Descriptors /\ now = tables[d[1]][d[2]]
        /\ Current(cache, ring, d, before, now)
    BY <1>3, <1>4, <2>1, <2>2 DEF CurrentTable, Descriptors
  <2>4. Step(ring[1], d)
    BY <1>2, <2>3
  <2>5. Current(cache', ring', d, before, now)
    BY <1>1, <2>3, <2>4, CurrentShrinks
  <2>. QED
    BY <1>1, <2>1, <2>2, <2>5
<1>7. CurrentTable(pid, T)'
  BY <1>6 DEF CurrentTable
<1>. QED
  BY <1>4, <1>5, <1>7

LEMMA ToldSomething ==
  ASSUME KernelInv, AloneInv, NEW t \in Threads
  PROVE  \E T : Told(t, T)
<1>1. CASE Reporting(t)
  <2>1. PICK T \in Table : Proper(T) /\ Made(threads[t], T, tables[ProcessOf[t]])
    BY <1>1 DEF Reporting, AloneInv
  <2>. QED
    BY <1>1, <2>1 DEF Told
<1>2. CASE ~Reporting(t)
  BY <1>2, ToldNow
<1>. QED
  BY <1>1, <1>2

\* With nothing in the ring or in the cache everything is current.
LEMMA EmptyIsCurrent ==
  ASSUME KernelInv, AloneInv, ring = <<>>, cache = <<>>
  PROVE  CurrentInv
<1> SUFFICES ASSUME NEW t \in Threads
             PROVE  /\ Clean(ProcessOf[t])
                    /\ \E T : Told(t, T) /\ CurrentTable(ProcessOf[t], T)
  BY DEF CurrentInv
<1>1. Clean(ProcessOf[t])
  BY EmptyQueue, EmptySeq DEF Clean
<1>2. PICK T : Told(t, T)
  BY ToldSomething
<1>3. CurrentTable(ProcessOf[t], T)
  BY <1>1, CleanIsCurrent DEF CurrentTable
<1>. QED
  BY <1>1, <1>2, <1>3

LEMMA EmptyIsCurrentNext ==
  KernelInv' /\ AloneInv' /\ ring' = <<>> /\ cache' = <<>> => CurrentInv'
<1>1. KernelInv /\ AloneInv /\ ring = <<>> /\ cache = <<>> => CurrentInv
  BY EmptyIsCurrent
<1>2. (KernelInv /\ AloneInv /\ ring = <<>> /\ cache = <<>> => CurrentInv)'
  BY <1>1, PTL
<1>. QED
  BY <1>2

LEMMA CurrentInvStep ==
  ASSUME OneThreadEach, KernelInv, KernelInv', ProgressInv, EventsInv, UserInv, AloneInv, AloneInv',
         CurrentInv, [ANext]_avars
  PROVE  CurrentInv'
<1>1. /\ Losses(stats) \in Nat
      /\ Losses(stats') = Losses(stats) \/ Losses(stats') = Losses(stats) + 1
  BY LossesGrow
<1>2. CASE ASystem
  <2>1. CASE Losses(stats') = Losses(stats)
    BY <1>2, <2>1, SystemMoves, SystemCurrent DEF ASystem, userVars
  <2>2. CASE Losses(stats') = Losses(stats) + 1
    <3>1. dropsSeen' <= Losses(stats) /\ dropsSeen' \in Nat
      BY <1>2 DEF ASystem, userVars, UserInv, MonitorInv
    <3>2. dropsSeen' # Losses(stats')
      BY <1>1, <2>2, <3>1
    <3>. QED
      BY <3>2 DEF CurrentInv, Aware
  <2>. QED
    BY <1>1, <2>1, <2>2
<1>3. CASE IngestNext
  BY <1>3, IngestCurrent
<1>4. CASE SampleDrops
  <2>1. settled' = (ring = <<>>) /\ cache' = <<>> /\ UNCHANGED ring
    BY <1>4 DEF SampleDrops, vars
  <2>2. CASE ring = <<>>
    BY <2>1, <2>2, EmptyIsCurrentNext
  <2>3. CASE ring # <<>>
    <3>1. ~settled'
      BY <2>1, <2>3, Zenon
    <3>. QED
      BY <3>1 DEF CurrentInv, Aware
  <2>. QED
    BY <2>2, <2>3
<1>5. CASE UNCHANGED avars
  <2>1. UNCHANGED <<threads, tables, ring, stats, cache, dropsSeen, settled>>
    BY <1>5 DEF avars, vars, userVars
  <2>2. ASSUME NEW t \in Threads, NEW T PROVE Told(t, T)' <=> Told(t, T)
    BY <2>1 DEF Told, Reporting
  <2>3. ASSUME NEW t \in Threads PROVE Lost(t)' <=> Lost(t)
    BY <2>1 DEF Lost, InCall
  <2>. QED
    BY <2>1, <2>2, <2>3 DEF CurrentInv, Aware, CurrentTable, Clean
<1>. QED
  BY <1>2, <1>3, <1>4, <1>5 DEF ANext

LEMMA CurrentInvHolds ==
  ASSUME OneThreadEach
  PROVE  ASpec => []CurrentInv
<1>1. AInit /\ KernelInv /\ AloneInv => CurrentInv
  BY EmptyIsCurrent DEF AInit, InitWith
<1>. QED
  BY <1>1, KernelInvHolds, ProgressInvHolds, UserInvHolds, AloneInvHolds, CurrentInvStep, PTL DEF ASpec

\* What the invariants come to when nothing is under way.
LEMMA QuietIsCurrent ==
  ASSUME KernelInv, UserInv, AloneInv, FollowedInv, CurrentInv
  PROVE  CacheIsCurrent
<1> SUFFICES ASSUME Aware, ring = <<>>, \A t \in Threads : threads[t] \in {User, Dead},
                    NEW d \in DOMAIN cache
             PROVE  \/ cache[d] \in {tables[d[1]][d[2]].file, Unresolved}
                    \/ tables[d[1]][d[2]].origin = "copied"
                    \/ tables[d[1]][d[2]].origin = "duplicated" /\ (mistaken \/ Losses(stats) > 0)
  BY DEF CacheIsCurrent, Aware
<1>1. d \in Descriptors /\ Len(ring) = 0
  BY EmptySeq DEF UserInv, CacheInv
<1>2. PICK t \in Threads, fd \in Fds : d = <<ProcessOf[t], fd>>
  BY <1>1 DEF Descriptors, Pids
<1>3. ~Reporting(t)
  BY DEF Reporting, User, Dead
<1>4. PICK now : now = tables[ProcessOf[t]][fd]
  OBVIOUS
<1>5. Current(cache, ring, d, now, now)
  BY <1>2, <1>3, <1>4 DEF CurrentInv, Told, CurrentTable
<1>6. cache[d] \in {now.file, Unresolved} \/ IsCopy(now)
  BY <1>1, <1>5 DEF Current
<1>7. ASSUME now.origin = "duplicated", ~mistaken, Losses(stats) = 0
      PROVE  cache[d] \in {now.file, Unresolved}
  <2>1. PICK h : History(h, ring, cache) /\ AllAgree(h[0])
    BY <1>1, <1>7 DEF FollowedInv
  <2>2. h[0][d] = Known(now)
    BY <1>2, <1>3, <1>4, <2>1 DEF AllAgree, Told, Agrees
  <2>3. Known(now) = now.file
    BY <1>7 DEF Known, FromOpen
  <2>4. now.file # None
    BY <1>4, <1>7, TablesAreProper DEF Proper, Pids
  <2>. QED
    BY <1>1, <2>1, <2>2, <2>3, <2>4 DEF History
<1>8. Losses(stats) \in Nat
  BY LossesAreNumbers DEF KernelInv, CountInv, Counters
<1>. QED
  BY <1>2, <1>4, <1>6, <1>7, <1>8 DEF IsCopy

\* Once every event was taken and no call is in between, the cache holds nothing
\* from a descriptor's former life, losses or not, if the last loss was noticed
\* while nothing was buffered: docs say that descriptor state is invalidated when
\* a descriptor is replaced or closed, across exec and after the final thread
\* exits.  What is resolved too late can only be a copy.
THEOREM CacheStaysCurrent ==
  ASSUME OneThreadEach
  PROVE  ASpec => []CacheIsCurrent
BY KernelInvHolds, UserInvHolds, AloneInvHolds, CapturedOpensHold, CurrentInvHolds, QuietIsCurrent, PTL

=============================================================================
