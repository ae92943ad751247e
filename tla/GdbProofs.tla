------------------------------ MODULE GdbProofs ------------------------------
(***************************************************************************)
(* Proofs about GdbStub, for any processes and threads, any number of      *)
(* debug events, attachments and interrupts.                               *)
(***************************************************************************)
EXTENDS GdbStub, FiniteSetTheorems, SequenceTheorems, WellFoundedInduction, TLAPS

-----------------------------------------------------------------------------
(***************************************************************************)
(* Least and Nth: the order of ids.                                        *)
(***************************************************************************)

\* A set of numbers that is not empty has a least one.
LEMMA LeastExists ==
  ASSUME NEW S \in SUBSET Nat, S # {}
  PROVE  Least(S) \in S /\ \A q \in S : Least(S) <= q
<1> DEFINE R == OpToRel(<, Nat)
<1>1. IsWellFoundedOn(R, Nat)
  BY NatLessThanWellFounded
<1>2. \A x, y \in Nat : <<y, x>> \in R <=> y < x
  BY DEF OpToRel
<1> HIDE DEF R
<1>3. PICK x \in S : \A y \in S : ~(<<y, x>> \in R)
  BY <1>1, WFMin
<1>4. ASSUME NEW y \in S PROVE x <= y
  <2>1. x \in Nat /\ y \in Nat
    OBVIOUS
  <2>2. ~(y < x)
    BY <1>2, <1>3, <2>1
  <2> QED
    BY <2>1, <2>2
<1> QED
  BY <1>4 DEF Least

\* Nth enumerates a finite set of numbers.
LEMMA NthEnumerates ==
  ASSUME NEW S \in SUBSET Nat, IsFiniteSet(S)
  PROVE  /\ Cardinality(S) \in Nat
         /\ \A i \in 1..Cardinality(S) : Nth(S, i) \in S
         /\ \A t \in S : \E i \in 1..Cardinality(S) : Nth(S, i) = t
<1> DEFINE Upto(t) == {u \in S : u <= t}
           n == Cardinality(S)
           f == [t \in S |-> Cardinality(Upto(t))]
<1>1. n \in Nat
  BY FS_CardinalityType
<1>2. \A t \in S : /\ IsFiniteSet(Upto(t)) /\ Cardinality(Upto(t)) \in Nat
                   /\ Cardinality(Upto(t)) <= n
  <2> TAKE t \in S
  <2>1. Upto(t) \in SUBSET S
    OBVIOUS
  <2>2. IsFiniteSet(Upto(t)) /\ Cardinality(Upto(t)) <= n
    BY <2>1, FS_Subset
  <2> QED
    BY <2>2, FS_CardinalityType
<1>3. \A t \in S : Cardinality(Upto(t)) # 0
  <2> TAKE t \in S
  <2>1. t \in Upto(t)
    OBVIOUS
  <2> QED
    BY <1>2, <2>1, FS_EmptySet
<1>4. f \in [S -> 1..n]
  BY <1>1, <1>2, <1>3
<1>5. \A s, t \in S : Cardinality(Upto(s)) = Cardinality(Upto(t)) => s = t
  <2>1. ASSUME NEW s \in S, NEW t \in S, s < t,
               Cardinality(Upto(s)) = Cardinality(Upto(t))
        PROVE  FALSE
    <3>a. s \in Nat /\ t \in Nat
      OBVIOUS
    <3>b. \A u \in S : u \in Nat /\ (u <= s => u <= t)
      BY <2>1, <3>a
    <3>c. Upto(s) \in SUBSET Upto(t)
      BY <3>b
    <3>d. t \in Upto(t)
      BY <3>a
    <3>e. t \notin Upto(s)
      BY <2>1, <3>a
    <3>1. Upto(s) \in SUBSET Upto(t) /\ t \in Upto(t) /\ t \notin Upto(s)
      BY <3>c, <3>d, <3>e
    <3>2. IsFiniteSet(Upto(t)) /\ Cardinality(Upto(t)) = Cardinality(Upto(s))
      BY <1>2, <2>1
    <3> HIDE DEF Upto
    <3>3. Upto(t) = Upto(s)
      <4> DEFINE A == Upto(t)
                 B == Upto(s)
      <4>1. IsFiniteSet(A) /\ B \in SUBSET A /\ Cardinality(A) = Cardinality(B)
        BY <3>1, <3>2
      <4> HIDE DEF A, B
      <4>2. A = B
        BY <4>1, FS_Subset
      <4> QED
        BY <4>2 DEF A, B
    <3> QED
      BY <3>1, <3>3
  <2> QED
    BY <2>1
<1>6. f \in Injection(S, 1..n)
  BY <1>4, <1>5 DEF Injection, IsInjective
<1>7. IsFiniteSet(1..n) /\ Cardinality(1..n) = n
  BY <1>1, FS_Interval
<1>8. f \in Surjection(S, 1..n)
  BY <1>6, <1>7, FS_Injection
<1>9. \A i \in 1..n : \E t \in S : Cardinality(Upto(t)) = i
  BY <1>8 DEF Surjection
<1>10. \A i \in 1..n : Nth(S, i) \in S /\ Cardinality(Upto(Nth(S, i))) = i
  BY <1>9 DEF Nth
<1>11. ASSUME NEW t \in S PROVE \E i \in 1..n : Nth(S, i) = t
  <2> DEFINE i == Cardinality(Upto(t))
  <2>1. i \in 1..n
    BY <1>1, <1>2, <1>3
  <2>2. Nth(S, i) = t
    BY <1>5, <1>10, <2>1
  <2> QED
    BY <2>1, <2>2
<1> QED
  BY <1>1, <1>10, <1>11

-----------------------------------------------------------------------------
(***************************************************************************)
(* The inductive invariant, in layers: each is preserved by a step that    *)
(* keeps the ones before it.                                               *)
(***************************************************************************)

Ingesting == {"ingest", "arm", "armed", "resume", "return"}
Loop == [at : {"select", "packets", "blocked", "logic", "check", "dead", "closed"} \cup Ingesting,
         p : Pids \cup {0}, for : {"none", "attach", "launched", "vcont", "logic"},
         was : BOOLEAN, stopped : BOOLEAN, int : BOOLEAN, todo : SUBSET Pids]
Debuggee == [threads : SUBSET Tids, running : BOOLEAN, hasEvents : BOOLEAN, gen : Nat]

\* An event about a thread names one.
Sound(e) == e.type \in {"AttachThread", "ExitThread"} => e.thread \in Tids
SoundEvent == {e \in Event : Sound(e)}
Kernel == [st : {"free", "broken", "running", "exited"}, q : Seq(SoundEvent),
           live : SUBSET Tids]

TypeInv ==
  /\ loop \in Loop
  /\ DOMAIN attached \in SUBSET Pids /\ attached \in [DOMAIN attached -> Debuggee]
  /\ kern \in [Pids -> Kernel] /\ eventQueue \in [Pids -> Seq(SoundEvent)]
  /\ inBuf \in Seq(Packet) /\ inPipe \in Seq(Packet)
  /\ waiting \in BOOLEAN /\ attaches \in Nat

\* Where the loop is in IngestEvents or at a process, that process is
\* attached; what it has still to do is attached and different.
LoopInv ==
  /\ loop.at \in {"select", "packets", "blocked", "dead", "closed"} =>
       loop.for = "none" /\ loop.todo = {}
  /\ loop.at \in Ingesting => loop.for # "none"
  /\ loop.at \in {"logic", "check"} => loop.for \in {"none", "logic"}
  /\ loop.at \in Ingesting \cup {"check"} =>
       loop.p \in DOMAIN attached /\ loop.p \notin loop.todo
  /\ loop.todo \in SUBSET DOMAIN attached

\* The packets gdb waits for a reply to, and those it waits for a stop after.
Asks == {"plain", "read", "G", "multi", "wait", "attach", "D", "H", "threads"}
Conts == {"cont", "contAll"}
OnlyInts(s) == \A i \in 1..Len(s) : s[i].k = "int"
Lone(s, K) == \E i \in 1..Len(s) : s[i].k \in K /\ \A j \in 1..Len(s) : j # i => s[j].k = "int"

Serving == \/ loop.at = "blocked"
           \/ loop.at \in Ingesting /\ loop.for \in {"attach", "launched"}
Resuming == loop.at \in Ingesting /\ loop.for = "vcont"

\* What gdb waits for is exactly one of: in the buffer, being served, owed.
FloorInv ==
  /\ gdb \in {"idle", "reply", "running", "gone"}
  /\ OnlyInts(inPipe)
  /\ loop.at = "closed" <=> gdb = "gone"
  /\ gdb \in {"idle", "gone"} => ~waiting /\ ~Serving /\ ~Resuming /\ OnlyInts(inBuf)
  /\ gdb = "reply" /\ loop.at # "dead" =>
       /\ ~waiting /\ ~Resuming
       /\ (Serving /\ OnlyInts(inBuf)) \/ (~Serving /\ Lone(inBuf, Asks))
  /\ gdb = "running" /\ loop.at # "dead" =>
       /\ ~Serving
       /\ \/ Lone(inBuf, Conts) /\ ~waiting /\ ~Resuming
          \/ OnlyInts(inBuf) /\ ~waiting /\ Resuming
          \/ OnlyInts(inBuf) /\ waiting /\ ~Resuming
  /\ loop.at \in Ingesting /\ loop.for = "logic" => waiting

\* While there is at most one process: it runs only while the stub waits for it
\* to stop, with no event queued.
Halted ==
  /\ \A p, q \in DOMAIN attached : p = q
  /\ \A p \in DOMAIN attached :
       /\ attached[p].running => waiting
       /\ kern[p].st = "running" =>
            attached[p].running /\ kern[p].q = <<>> /\ eventQueue[p] = <<>>
  /\ loop.at \in Ingesting =>
       /\ loop.for # "logic" => ~loop.was
       /\ loop.stopped => kern[loop.p].st # "running" /\ ~attached[loop.p].running
  /\ loop.at \in Ingesting \ {"ingest"} /\ ~loop.stopped =>
       /\ eventQueue[loop.p] = <<>>
       /\ kern[loop.p].q = <<>> \/ kern[loop.p].st = "exited" \/ attached[loop.p].running
HaltInv == OneProcess => Halted

\* The threads known once the events of q are applied to ts: the last event
\* about a thread decides.
About(q, t) == {i \in DOMAIN q : q[i].type \in {"AttachThread", "ExitThread"} /\ q[i].thread = t}
LastAbout(q, t) == CHOOSE i \in About(q, t) : \A j \in About(q, t) : j <= i
Known(ts, q) == {t \in Tids : IF About(q, t) = {} THEN t \in ts
                              ELSE q[LastAbout(q, t)].type = "AttachThread"}

Told(p) == Known(attached[p].threads, PumpEvents(p)) = kern[p].live

\* A process that is not attached has no events, and the threads of one that
\* is are known when its events are.
ThreadInv ==
  /\ current = <<>> \/ current \in Pids \X (Tids \cup {0})
  /\ current # <<>> /\ current[2] # 0 => /\ current[1] \in DOMAIN attached
                                         /\ current[2] \in attached[current[1]].threads
  /\ reason # <<>> => reason.p \in DOMAIN attached
  /\ \A p \in Pids \ DOMAIN attached : kern[p].st \in {"free", "exited"} /\ kern[p].q = <<>>
  /\ \A p \in DOMAIN attached : Told(p)

\* The requests for events: in the first session none is refused, the flag of
\* the stub is up while one is open, and whoever waits for a stop is told of
\* the next event by an open request, or by a notification on its way through
\* the loop.
Wait == [p : Pids, gen : Nat, st : {"pending", "answered", "cleared", "refused"}]
Open(w) == w.st \in {"pending", "answered"}
Covered == waits # {} \/ asyncWait
Watching(p) ==
  \/ Covered \/ loop.at \in {"ingest", "arm"}
  \/ /\ attached[p].hasEvents
     /\ \/ notified \/ loop.at = "packets"
        \/ loop.at = "logic" /\ p \in loop.todo
        \/ loop.at = "check" /\ loop.p = p
Watched ==
  /\ \A p \in DOMAIN attached : attached[p].gen = 1 /\ \A w \in waits : w.p = p
  /\ \A w \in waits : /\ w.gen = 1 /\ w.st # "refused"
                      /\ Open(w) => asyncWait \/ loop.at = "armed"
  /\ \A v, w \in waits : Open(v) /\ Open(w) => v = w
  /\ loop.at \in {"armed", "resume", "return"} =>
       Covered \/ (notified /\ attached[loop.p].hasEvents)
  /\ \A p \in DOMAIN attached : waiting /\ loop.at # "dead" =>
       Watching(p) /\ (loop.at \notin Ingesting => eventQueue[p] = <<>>)

\* Where the processes and the requests come from: nothing is attached but by
\* vAttach, and nothing is asked for but by AsyncWait for an attached process.
Session ==
  /\ waits \in SUBSET Wait
  /\ attaches = 0 => waits = {} /\ DOMAIN attached = {}

\* A packet that continues one process names one that is attached.
Named == \A i \in 1..Len(inBuf) : inBuf[i].k = "cont" => inBuf[i].p \in DOMAIN attached
WatchInv == Session /\ Named /\ (FirstSession => Watched)

-----------------------------------------------------------------------------
(***************************************************************************)
(* Layer 1: types, and where the loop is.                                  *)
(***************************************************************************)

\* The events a process can produce are sound, and its threads are threads.
LEMMA PossibleSound ==
  ASSUME NEW live \in SUBSET Tids, NEW e \in Possible(live)
  PROVE  /\ Occurred(e) \in SoundEvent /\ After(live, e) \in SUBSET Tids
         /\ Occurred(e).type = e[1] /\ Occurred(e).thread = e[2]
<1>1. ASSUME live # {} PROVE Least(live) \in Tids
  BY <1>1, LeastExists, GdbAssumption
<1>2. CASE \E t \in live : e = <<"Exception", Least(live)>>
  BY <1>1, <1>2 DEF Occurred, After, SoundEvent, Sound, Event
<1>3. CASE \E t \in live : e = <<"ExitThread", t>>
  BY <1>3 DEF Occurred, After, SoundEvent, Sound, Event
<1>4. CASE \E t \in Tids \ live : e = <<"AttachThread", t>>
  BY <1>4 DEF Occurred, After, SoundEvent, Sound, Event
<1>5. CASE e = <<"ExitProcess", 0>>
  BY <1>5 DEF Occurred, After, SoundEvent, Sound, Event
<1> QED
  BY <1>2, <1>3, <1>4, <1>5 DEF Possible

\* The events that describe an attached process are sound.
LEMMA AttachEventsSound ==
  ASSUME NEW live \in SUBSET Tids
  PROVE  AttachEvents(live) \in Seq(SoundEvent)
<1> DEFINE n == Cardinality(live)
           threads == [i \in 1..n |-> Occurred(<<"AttachThread", Nth(live, i)>>)]
<1>1. live \in SUBSET Nat /\ IsFiniteSet(live)
  BY GdbAssumption, FS_Subset
<1>2. n \in Nat /\ \A i \in 1..n : Nth(live, i) \in Tids
  BY <1>1, NthEnumerates
<1>3. \A t \in Tids : Occurred(<<"AttachThread", t>>) \in SoundEvent
  BY DEF Occurred, SoundEvent, Sound, Event
<1>4. threads \in Seq(SoundEvent)
  <2>1. threads \in [1..n -> SoundEvent]
    BY <1>2, <1>3, Zenon
  <2> HIDE DEF threads, n
  <2> QED
    BY <1>2, <2>1, SeqDef
<1>5. Occurred(<<"AttachProcess", 0>>) \in SoundEvent /\ Occurred(<<"Exception", 0>>) \in SoundEvent
  BY DEF Occurred, SoundEvent, Sound, Event
<1> DEFINE head == <<Occurred(<<"AttachProcess", 0>>)>>
           brk == <<Occurred(<<"Exception", 0>>)>>
<1>6. head \in Seq(SoundEvent) /\ brk \in Seq(SoundEvent)
  BY <1>5
<1>7. AttachEvents(live) = head \o threads \o brk
  BY DEF AttachEvents
<1> HIDE DEF threads, head, brk
<1> QED
  BY <1>4, <1>6, <1>7

\* The first layer holds in the initial states.
LEMMA LoopInit == Init => TypeInv /\ LoopInv
<1> SUFFICES ASSUME Init PROVE TypeInv /\ LoopInv
  OBVIOUS
<1>1. Least(Tids) \in Tids
  BY LeastExists, GdbAssumption
<1>2. loop \in Loop
  BY DEF Init, Idle, Loop
<1>3. DOMAIN attached = {} /\ attached \in [DOMAIN attached -> Debuggee]
  BY DEF Init
<1>4. kern \in [Pids -> Kernel]
  BY <1>1 DEF Init, Kernel
<1>5. eventQueue \in [Pids -> Seq(SoundEvent)] /\ inBuf \in Seq(Packet) /\ inPipe \in Seq(Packet)
  BY DEF Init
<1>6. LoopInv
  BY DEF Init, Idle, LoopInv, Ingesting
<1> QED
  BY <1>2, <1>3, <1>4, <1>5, <1>6 DEF TypeInv, Init

\* The parts of the state the invariant is about.
core == <<attached, current, reason, waiting, multi, loop, inBuf, inPipe, gdb, kern, eventQueue, attaches>>

\* What the packets do when the tool survives them, one by one ("G" is answered
\* even when it does not), and that any packet that asks may be its end.
Writing == Takes({"G"}) /\ Respond
           /\ IF current = <<>> THEN Dies ELSE UNCHANGED <<stub, loop, target, waits, attaches, ints>>
Choosing ==
  /\ Takes({"H"}) /\ Respond
  /\ \E p \in Names(M) : current' = Selected(p, M.t)
  /\ UNCHANGED <<attached, reason, waiting, asyncWait, multi, threadEvents,
                 loop, target, waits, attaches, ints>>
Gone == IF M.p = 0 THEN DOMAIN attached ELSE {M.p}
Detaching ==
  /\ Takes({"D"}) /\ Respond
  /\ attached' = [p \in DOMAIN attached \ Gone |-> attached[p]] /\ Released(Gone) /\ reason' = <<>>
  /\ current' = <<>> \/ (current' = current /\ (current[2] = 0 \/ current[1] \notin Gone))
  /\ UNCHANGED <<waiting, asyncWait, multi, threadEvents, loop, events, attaches, ints>>
Blocking ==
  /\ Takes({"wait"})
  /\ loop' = [loop EXCEPT !.at = "blocked"]
  /\ UNCHANGED <<stub, gdb, target, waits, attaches, ints>>
Perish == Takes(Asks) /\ Dies /\ UNCHANGED gdb

\* A step is one of these; the packets that only ask are of one of two kinds.
LEMMA NextCases ==
  ASSUME Next
  PROVE  /\ ~At("dead")
         /\ \/ UNCHANGED core /\ (WaitFires \/ CallbackClears)
            \/ \E p \in Pids : KernelEvent(p) \/ KernelKill(p)
            \/ CallbackNotifies \/ GdbSends \/ GdbInterrupts \/ GdbHangsUp
            \/ Answers({"plain"}) \/ Answers({"read"})
            \/ Writing \/ Choosing \/ Detaching \/ Blocking \/ Perish
            \/ QueryGetSupported \/ QuerySetThreadEvents
            \/ HandleVAttach \/ HandleVCont \/ Wake \/ PacketsDone
            \/ IngestEvent \/ AsyncWait \/ AsyncWaitSent \/ Resume
            \/ AttachReturns \/ VContReturns
            \/ LogicBreaks \/ LogicChecks \/ LogicReturns \/ LogicDone \/ RemoteCommandAnswered
<1>1. WaitFires \/ CallbackClears => UNCHANGED core
  BY DEF WaitFires, CallbackClears, core, stub, target
<1>a. ASSUME NEW K \in SUBSET Asks, MayDie(K) PROVE Perish
  BY <1>a DEF MayDie, Perish, Takes
<1>b. /\ {"plain"} \in SUBSET Asks /\ {"read"} \in SUBSET Asks /\ {"G"} \in SUBSET Asks
      /\ {"H"} \in SUBSET Asks /\ {"D"} \in SUBSET Asks /\ {"wait"} \in SUBSET Asks
  BY DEF Asks
<1>2. HandleSimple => Answers({"plain"}) \/ Perish
  BY <1>a, <1>b DEF HandleSimple, HandleGetStopReason, HandleIsThreadAlive, HandleVContQuery,
         HandleGeneralGetQuery, HandleGeneralSetQuery, HandleMultiletterPacket,
         QueryGetCurrentThread, QuerySetStartNoAckMode
<1>3. HandleRead => Answers({"read"}) \/ Perish
  BY <1>a, <1>b DEF HandleRead, AsksThread, HandleReadGeneralRegisters, HandleReadMemory, HandleWriteMemory,
         QueryGetFThreadInfo, QueryGetSThreadInfo, QueryGetThreadExtraInfo,
         QueryGetOffsets, QueryXfer, ReadOnlyStringXferObject
<1>4. HandleWriteGeneralRegisters => Writing \/ Perish
  BY <1>a, <1>b DEF HandleWriteGeneralRegisters, Writing, MayDie
<1>5. HandleSetCurrentThread => Choosing \/ Perish
  BY <1>a, <1>b DEF HandleSetCurrentThread, Choosing, MayDie
<1>6. HandleDetach => Detaching \/ Perish
  BY <1>a, <1>b DEF HandleDetach, Detaching, MayDie, Gone, ThreadAfterDetach, Dangling
<1>7. QueryGetRemoteCommand => Blocking \/ Perish
  BY <1>a, <1>b DEF QueryGetRemoteCommand, Blocking
<1> QED
  BY <1>1, <1>2, <1>3, <1>4, <1>5, <1>6, <1>7
  DEF Next, Console, ClientThread, Gdb, LoopThread, Packets

\* Taking a packet out of the buffer.
LEMMA TakesOne ==
  ASSUME TypeInv, NEW K, Takes(K)
  PROVE  /\ loop.at = "packets" /\ inBuf # <<>> /\ M \in Packet /\ M.k \in K /\ M = inBuf[1]
         /\ inBuf' = Tail(inBuf) /\ inBuf' \in Seq(Packet)
         /\ inPipe' = inPipe
<1>1. inBuf \in Seq(Packet) /\ inBuf # <<>>
  BY DEF TypeInv, Takes
<1>2. Head(inBuf) \in Packet /\ Tail(inBuf) \in Seq(Packet) /\ Head(inBuf) = inBuf[1]
  BY <1>1
<1> QED
  BY <1>1, <1>2 DEF Takes, At, M

\* An event of a running process, or its end: queued, and it runs no more.
LEMMA KernelStep ==
  ASSUME TypeInv, NEW p \in Pids, KernelEvent(p) \/ KernelKill(p)
  PROVE  /\ UNCHANGED <<attached, current, reason, waiting, multi, loop, inBuf, inPipe, gdb,
                        eventQueue, attaches>>
         /\ kern[p].st \in {"running", "broken"}
         /\ kern' \in [Pids -> Kernel] /\ \A d \in Pids \ {p} : kern'[d] = kern[d]
         /\ kern'[p].st \in {"broken", "exited"}
         /\ kern'[p].st = "broken" => kern[p].st = "running"
         /\ \/ \E e \in SoundEvent :
                 /\ kern'[p].q = Append(kern[p].q, e)
                 /\ kern'[p].live = ThreadsAfter(kern[p].live, e)
            \/ \E e, f \in SoundEvent :
                 /\ kern'[p].q = Append(Append(kern[p].q, e), f)
                 /\ kern'[p].live = ThreadsAfter(ThreadsAfter(kern[p].live, e), f)
<1> DEFINE k == kern[p]
<1>1. k \in Kernel /\ kern \in [Pids -> Kernel]
  BY DEF TypeInv
<1>2. k.q \in Seq(SoundEvent) /\ k.live \in SUBSET Tids
  BY <1>1 DEF Kernel
<1>3. ASSUME NEW live \in SUBSET Tids, NEW e \in Possible(live)
      PROVE  /\ Occurred(e) \in SoundEvent
             /\ After(live, e) = ThreadsAfter(live, Occurred(e))
             /\ ThreadsAfter(live, Occurred(e)) \in SUBSET Tids
  <2>1. /\ Occurred(e) \in SoundEvent /\ After(live, e) \in SUBSET Tids
        /\ Occurred(e).type = e[1] /\ Occurred(e).thread = e[2]
    BY PossibleSound
  <2>2. After(live, e) = ThreadsAfter(live, Occurred(e))
    BY <2>1 DEF After, ThreadsAfter
  <2> QED
    BY <2>1, <2>2
<1>4. CASE KernelKill(p)
  <2> DEFINE e == Occurred(<<"ExitProcess", 0>>)
             q == Append(k.q, e)
             r == [k EXCEPT !.st = "exited", !.q = q]
  <2>1. e \in SoundEvent /\ e.type = "ExitProcess"
    BY DEF Occurred, SoundEvent, Sound, Event
  <2>2. ThreadsAfter(k.live, e) = k.live
    BY <2>1 DEF ThreadsAfter
  <2>3. kern' = [kern EXCEPT ![p] = r] /\ k.st \in {"running", "broken"}
    BY <1>1, <1>4 DEF KernelKill
  <2> HIDE DEF e
  <2>4. q \in Seq(SoundEvent)
    BY <1>2, <2>1
  <2> HIDE DEF q
  <2>5. r \in Kernel /\ r.st = "exited" /\ r.q = q /\ r.live = k.live
    BY <1>1, <2>4 DEF Kernel
  <2> HIDE DEF r
  <2>6. kern' \in [Pids -> Kernel] /\ kern'[p] = r /\ \A d \in Pids \ {p} : kern'[d] = kern[d]
    BY <1>1, <2>3, <2>5
  <2>7. UNCHANGED <<attached, current, reason, waiting, multi, loop, inBuf, inPipe, gdb,
                    eventQueue, attaches>>
    BY <1>4 DEF KernelKill, stub
  <2> QED
    BY <2>1, <2>2, <2>3, <2>5, <2>6, <2>7 DEF q
<1>5. CASE KernelEvent(p)
  <2>1. PICK e \in Possible(k.live) :
          \/ kern' = [kern EXCEPT ![p] =
               [st |-> IF e[1] = "ExitProcess" THEN "exited" ELSE "broken",
                live |-> After(k.live, e), q |-> Append(k.q, Occurred(e))]]
          \/ \E f \in Possible(After(k.live, e)) :
               kern' = [kern EXCEPT ![p] =
                 [st |-> "broken", live |-> After(After(k.live, e), f),
                  q |-> k.q \o <<Occurred(e), Occurred(f)>>]]
    BY <1>1, <1>5 DEF KernelEvent
  <2>2. k.st = "running"
    BY <1>5 DEF KernelEvent
  <2>3. UNCHANGED <<attached, current, reason, waiting, multi, loop, inBuf, inPipe, gdb,
                    eventQueue, attaches>>
    BY <1>5 DEF KernelEvent, stub
  <2> DEFINE a == Occurred(e)
             l == ThreadsAfter(k.live, a)
  <2>4. a \in SoundEvent /\ l \in SUBSET Tids /\ After(k.live, e) = l
    BY <1>2, <1>3
  <2>5. CASE kern' = [kern EXCEPT ![p] =
               [st |-> IF e[1] = "ExitProcess" THEN "exited" ELSE "broken",
                live |-> After(k.live, e), q |-> Append(k.q, Occurred(e))]]
    <3> DEFINE q == Append(k.q, a)
               st == IF e[1] = "ExitProcess" THEN "exited" ELSE "broken"
               r == [st |-> st, live |-> l, q |-> q]
    <3>1. st \in {"broken", "exited"}
      OBVIOUS
    <3>2. kern' = [kern EXCEPT ![p] = r]
      BY <2>4, <2>5
    <3> HIDE DEF a, l, st
    <3>3. q \in Seq(SoundEvent)
      BY <1>2, <2>4
    <3> HIDE DEF q
    <3>4. r \in Kernel /\ r.st = st /\ r.q = q /\ r.live = l
      BY <2>4, <3>1, <3>3 DEF Kernel
    <3> HIDE DEF r
    <3>5. kern' \in [Pids -> Kernel] /\ kern'[p] = r /\ \A d \in Pids \ {p} : kern'[d] = kern[d]
      BY <1>1, <3>2, <3>4
    <3> QED
      BY <2>2, <2>3, <2>4, <3>1, <3>4, <3>5 DEF q, l
  <2>6. CASE \E f \in Possible(After(k.live, e)) :
               kern' = [kern EXCEPT ![p] =
                 [st |-> "broken", live |-> After(After(k.live, e), f),
                  q |-> k.q \o <<Occurred(e), Occurred(f)>>]]
    <3> HIDE DEF a, l
    <3>1. PICK f \in Possible(l) :
               kern' = [kern EXCEPT ![p] =
                 [st |-> "broken", live |-> After(l, f),
                  q |-> k.q \o <<a, Occurred(f)>>]]
      BY <2>4, <2>6 DEF a
    <3> DEFINE b == Occurred(f)
               m == ThreadsAfter(l, b)
               q == Append(Append(k.q, a), b)
               r == [st |-> "broken", live |-> m, q |-> q]
    <3>2. b \in SoundEvent /\ m \in SUBSET Tids /\ After(l, f) = m
      BY <1>3, <2>4
    <3> HIDE DEF b, m
    <3> HIDE DEF k
    <3>3. q \in Seq(SoundEvent) /\ k.q \o <<a, b>> = q
      <4> DEFINE s == k.q
      <4>1. s \in Seq(SoundEvent) /\ a \in SoundEvent /\ b \in SoundEvent
        BY <1>2, <2>4, <3>2
      <4> HIDE DEF s
      <4>2. Append(Append(s, a), b) \in Seq(SoundEvent)
        BY <4>1
      <4>3. s \o <<a, b>> = Append(Append(s, a), b)
        BY <4>1
      <4> QED
        BY <4>2, <4>3 DEF s
    <3> USE DEF k
    <3>4. kern' = [kern EXCEPT ![p] = r]
      BY <3>1, <3>2, <3>3 DEF b
    <3> HIDE DEF q
    <3>5. r \in Kernel /\ r.st = "broken" /\ r.q = q /\ r.live = m
      BY <3>2, <3>3 DEF Kernel
    <3> HIDE DEF r
    <3>6. kern' \in [Pids -> Kernel] /\ kern'[p] = r /\ \A d \in Pids \ {p} : kern'[d] = kern[d]
      BY <1>1, <3>4, <3>5
    <3> QED
      BY <2>2, <2>3, <2>4, <3>2, <3>5, <3>6 DEF q, l, m
  <2> QED
    BY <2>1, <2>5, <2>6
<1> QED
  BY <1>4, <1>5

\* Detaching: the debugger objects are gone with their queues.
LEMMA ReleasedStep ==
  ASSUME TypeInv, NEW ps, Released(ps)
  PROVE  /\ kern' \in [Pids -> Kernel] /\ eventQueue' \in [Pids -> Seq(SoundEvent)]
         /\ \A d \in Pids : IF d \in ps
              THEN /\ kern'[d].st \in {"free", "exited"} /\ kern'[d].q = <<>>
                   /\ eventQueue'[d] = <<>>
              ELSE kern'[d] = kern[d] /\ eventQueue'[d] = eventQueue[d]
<1> DEFINE r(d) == [kern[d] EXCEPT !.st = IF @ = "exited" THEN @ ELSE "free", !.q = <<>>]
<1>1. kern' = [d \in Pids |-> IF d \in ps THEN r(d) ELSE kern[d]]
  BY DEF Released
<1>2. ASSUME NEW d \in Pids
      PROVE  r(d) \in Kernel /\ r(d).st \in {"free", "exited"} /\ r(d).q = <<>>
  <2> DEFINE st == IF kern[d].st = "exited" THEN kern[d].st ELSE "free"
             u == [kern[d] EXCEPT !.st = st]
  <2>1. kern[d] \in Kernel
    BY DEF TypeInv
  <2>2. st \in {"free", "exited"}
    OBVIOUS
  <2>3. r(d) = [u EXCEPT !.q = <<>>]
    BY <2>1 DEF Kernel
  <2> HIDE DEF st, r
  <2>4. u \in Kernel /\ u.st = st
    BY <2>1, <2>2 DEF Kernel
  <2> HIDE DEF u
  <2>5. <<>> \in Seq(SoundEvent)
    OBVIOUS
  <2>6. [u EXCEPT !.q = <<>>] \in Kernel /\ [u EXCEPT !.q = <<>>].st = st
        /\ [u EXCEPT !.q = <<>>].q = <<>>
    BY <2>4, <2>5 DEF Kernel
  <2> QED
    BY <2>2, <2>3, <2>6
<1>3. \A d \in Pids : kern[d] \in Kernel /\ eventQueue[d] \in Seq(SoundEvent)
  BY DEF TypeInv
<1> HIDE DEF r
<1>4. eventQueue' = [d \in Pids |-> IF d \in ps THEN <<>> ELSE eventQueue[d]]
  BY DEF Released
<1>5. eventQueue' \in [Pids -> Seq(SoundEvent)]
  BY <1>3, <1>4
<1>6. kern' \in [Pids -> Kernel]
  BY <1>1, <1>2, <1>3
<1> QED
  BY <1>1, <1>2, <1>4, <1>5, <1>6

\* gdb sends packets.
LEMMA WellFormedPackets ==
  ASSUME TypeInv, NEW m \in WellFormed
  PROVE  m \in Packet /\ m.k \in Asks \cup Conts
<1>1. CASE m \in {Pkt(k, 0, 0) : k \in {"plain", "read", "G", "multi", "wait", "D", "contAll"}}
  BY <1>1 DEF Pkt, Packet, Asks, Conts
<1>2. CASE m \in {Pkt(k, p, 0) : k \in {"attach"}, p \in Pids}
  BY <1>2 DEF Pkt, Packet, Asks, Conts
<1>3. CASE m \in {Pkt(k, p, 0) : k \in {"D", "cont"}, p \in DOMAIN attached}
  BY <1>3 DEF Pkt, Packet, Asks, Conts, TypeInv
<1>4. CASE m = Pkt("H", 0, 0) \/ m \in {Pkt("H", p, t) : p \in Pids, t \in Tids \cup {0}}
  BY <1>4 DEF Pkt, Packet, Asks, Conts
<1>5. CASE m \in {Pkt("threads", 0, b) : b \in {0, 1}}
  BY <1>5 DEF Pkt, Packet, Asks, Conts
<1> QED
  BY <1>1, <1>2, <1>3, <1>4, <1>5 DEF WellFormed

\* The beginning of IngestEvents.
LEMMA IngestStep ==
  ASSUME TypeInv, NEW p \in DOMAIN attached, NEW for \in {"launched", "vcont", "logic"},
         NEW todo \in SUBSET DOMAIN attached, Ingest(p, for, todo)
  PROVE  /\ loop' \in Loop
         /\ loop'.at = "ingest" /\ loop'.p = p /\ loop'.for = for /\ loop'.todo = todo
         /\ loop'.was = attached[p].running /\ loop'.stopped = FALSE
<1>1. attached[p].running \in BOOLEAN /\ p \in Pids /\ todo \in SUBSET Pids
  BY DEF TypeInv, Debuggee
<1> QED
  BY <1>1 DEF Ingest, TypeInv, Loop, Ingesting

\* vAttach of a process: what describes it is queued, and ingested.
LEMMA AttachStep ==
  ASSUME TypeInv, HandleVAttach, M \in Packet, M.k = "attach",
         ~(M.p \in DOMAIN attached \/ (~multi /\ DOMAIN attached # {})), kern[M.p].st # "exited"
  PROVE  /\ M.p \in Pids
         /\ kern' \in [Pids -> Kernel] /\ \A d \in Pids \ {M.p} : kern'[d] = kern[d]
         /\ kern'[M.p].st = "broken" /\ kern'[M.p].q = kern[M.p].q
         /\ kern'[M.p].live = kern[M.p].live
         /\ eventQueue' \in [Pids -> Seq(SoundEvent)]
         /\ \A d \in Pids \ {M.p} : eventQueue'[d] = eventQueue[d]
         /\ eventQueue'[M.p] = AttachEvents(kern[M.p].live)
         /\ DOMAIN attached' = DOMAIN attached \cup {M.p}
         /\ attached' \in [DOMAIN attached' -> Debuggee]
         /\ \A d \in DOMAIN attached : attached'[d] = attached[d]
         /\ attached'[M.p] = [threads |-> {}, running |-> FALSE, hasEvents |-> FALSE,
                              gen |-> attaches + 1]
         /\ attaches' = attaches + 1
         /\ loop' \in Loop
         /\ loop'.at = "ingest" /\ loop'.p = M.p /\ loop'.for = "attach" /\ loop'.todo = {}
         /\ loop'.was = FALSE /\ loop'.stopped = FALSE
         /\ UNCHANGED <<current, reason, waiting, multi, gdb>>
         /\ Takes({"attach"})
<1> DEFINE p == M.p
           new == [threads |-> {}, running |-> FALSE, hasEvents |-> FALSE, gen |-> attaches + 1]
<1>1. p \in Pids
  BY DEF Packet
<1>2. /\ attaches' = attaches + 1
      /\ attached' = [d \in DOMAIN attached \cup {p} |-> IF d = p THEN new ELSE attached[d]]
      /\ kern' = [kern EXCEPT ![p].st = "broken"]
      /\ eventQueue' = [eventQueue EXCEPT ![p] = AttachEvents(kern[p].live)]
      /\ loop' = [loop EXCEPT !.at = "ingest", !.p = p, !.for = "attach", !.todo = {},
                              !.was = FALSE, !.stopped = FALSE]
      /\ UNCHANGED <<current, reason, waiting, multi, gdb>>
      /\ Takes({"attach"})
  BY DEF HandleVAttach
<1> HIDE DEF p
<1>3. kern[p] \in Kernel /\ kern[p].live \in SUBSET Tids
  BY <1>1 DEF TypeInv, Kernel
<1>4. /\ kern' \in [Pids -> Kernel] /\ \A d \in Pids \ {p} : kern'[d] = kern[d]
      /\ kern'[p].st = "broken" /\ kern'[p].q = kern[p].q /\ kern'[p].live = kern[p].live
  <2> DEFINE r == [kern[p] EXCEPT !.st = "broken"]
  <2>1. r \in Kernel /\ r.st = "broken" /\ r.q = kern[p].q /\ r.live = kern[p].live
    BY <1>3 DEF Kernel
  <2>2. kern' = [kern EXCEPT ![p] = r] /\ kern \in [Pids -> Kernel]
    BY <1>2 DEF TypeInv
  <2> HIDE DEF r
  <2> QED
    BY <1>1, <2>1, <2>2
<1>5. /\ eventQueue' \in [Pids -> Seq(SoundEvent)]
      /\ \A d \in Pids \ {p} : eventQueue'[d] = eventQueue[d]
      /\ eventQueue'[p] = AttachEvents(kern[p].live)
  BY <1>1, <1>2, <1>3, AttachEventsSound DEF TypeInv
<1>6. new \in Debuggee
  BY DEF Debuggee, TypeInv
<1>7. loop' \in Loop /\ loop'.at = "ingest" /\ loop'.p = p /\ loop'.for = "attach"
      /\ loop'.todo = {} /\ loop'.was = FALSE /\ loop'.stopped = FALSE
  BY <1>1, <1>2 DEF TypeInv, Loop, Ingesting
<1> HIDE DEF new
<1>8. /\ DOMAIN attached' = DOMAIN attached \cup {p}
      /\ attached' \in [DOMAIN attached' -> Debuggee]
      /\ \A d \in DOMAIN attached : attached'[d] = attached[d]
      /\ attached'[p] = new
  <2>1. p \notin DOMAIN attached /\ attached \in [DOMAIN attached -> Debuggee]
    BY DEF p, TypeInv
  <2> QED
    BY <1>2, <1>6, <2>1
<1> QED
  BY <1>1, <1>2, <1>4, <1>5, <1>7, <1>8 DEF p, new

\* The beginning of vCont.
LEMMA VContStep ==
  ASSUME TypeInv, HandleVCont
  PROVE  /\ Takes({"cont", "contAll"})
         /\ UNCHANGED <<attached, current, reason, multi, gdb, kern, eventQueue, attaches>>
         /\ waiting' \in BOOLEAN
         /\ \/ waiting' = TRUE /\ loop' = loop
            \/ /\ waiting' = waiting
               /\ \E p \in DOMAIN attached, todo \in SUBSET DOMAIN attached :
                    p \notin todo /\ Ingest(p, "vcont", todo)
<1> DEFINE ps == DOMAIN attached \cap (IF M.k = "cont" THEN {M.p} ELSE Pids)
<1>1. /\ Takes({"cont", "contAll"})
      /\ UNCHANGED <<attached, current, reason, multi, gdb, kern, eventQueue, attaches>>
      /\ IF ps = {} THEN waiting' = TRUE /\ UNCHANGED loop
         ELSE Ingest(Least(ps), "vcont", ps \ {Least(ps)}) /\ UNCHANGED waiting
  BY DEF HandleVCont, target
<1>2. ps \in SUBSET DOMAIN attached /\ ps \in SUBSET Nat
  BY GdbAssumption DEF TypeInv
<1> HIDE DEF ps
<1>3. CASE ps = {}
  BY <1>1, <1>3
<1>4. CASE ps # {}
  <2> DEFINE p == Least(ps)
             todo == ps \ {p}
  <2>1. p \in DOMAIN attached /\ todo \in SUBSET DOMAIN attached /\ p \notin todo
    BY <1>2, <1>4, LeastExists
  <2>2. Ingest(p, "vcont", todo) /\ waiting' = waiting
    BY <1>1, <1>4
  <2>3. waiting \in BOOLEAN
    BY DEF TypeInv
  <2> HIDE DEF p, todo
  <2> QED
    BY <1>1, <2>1, <2>2, <2>3
<1> QED
  BY <1>3, <1>4

\* One round of IngestEvents found nothing, or handled one event.
Drains ==
  /\ PumpEvents(loop.p) = <<>> /\ eventQueue'[loop.p] = <<>>
  /\ loop'.at = "arm" /\ loop'.stopped = loop.stopped
  /\ UNCHANGED <<attached, current, reason>>
Applies(e) ==
  /\ PumpEvents(loop.p) # <<>> /\ eventQueue'[loop.p] = Tail(PumpEvents(loop.p))
  /\ e \in SoundEvent
  /\ loop'.at = IF Stops(e) THEN "arm" ELSE "ingest"
  /\ loop'.stopped = Stops(e)
  /\ DOMAIN attached' = DOMAIN attached
  /\ attached' \in [DOMAIN attached' -> Debuggee]
  /\ \A d \in DOMAIN attached \ {loop.p} : attached'[d] = attached[d]
  /\ attached'[loop.p].running = FALSE
  /\ attached'[loop.p].threads = ThreadsAfter(attached[loop.p].threads, e)
  /\ attached'[loop.p].gen = attached[loop.p].gen
  /\ attached'[loop.p].hasEvents = attached[loop.p].hasEvents
  /\ current' = IF e.type = "ExitThread" /\ current = <<loop.p, e.thread>>
                THEN <<>> ELSE current
  /\ reason' = IF Stops(e) THEN [style |-> StyleOf(e), p |-> loop.p, t |-> e.thread]
               ELSE reason

\* One round of IngestEvents.
LEMMA IngestEventStep ==
  ASSUME TypeInv, LoopInv, IngestEvent
  PROVE  /\ loop.at = "ingest" /\ loop.p \in DOMAIN attached /\ loop.p \in Pids
         /\ PumpEvents(loop.p) \in Seq(SoundEvent)
         /\ UNCHANGED <<waiting, multi, inBuf, inPipe, gdb, attaches, threadEvents>>
         /\ kern' \in [Pids -> Kernel] /\ \A d \in Pids \ {loop.p} : kern'[d] = kern[d]
         /\ kern'[loop.p].st = kern[loop.p].st /\ kern'[loop.p].live = kern[loop.p].live
         /\ kern'[loop.p].q = <<>>
         /\ eventQueue' \in [Pids -> Seq(SoundEvent)]
         /\ \A d \in Pids \ {loop.p} : eventQueue'[d] = eventQueue[d]
         /\ loop' \in Loop
         /\ loop'.p = loop.p /\ loop'.for = loop.for /\ loop'.was = loop.was
         /\ loop'.todo = loop.todo
         /\ Drains \/ Applies(Head(PumpEvents(loop.p)))
<1> DEFINE p == loop.p
           all == PumpEvents(p)
           e == Head(all)
<1>1. loop.at = "ingest" /\ p \in DOMAIN attached /\ p \in Pids
  BY DEF IngestEvent, At, LoopInv, TypeInv, Ingesting
<1>2. all \in Seq(SoundEvent)
  <2>1. eventQueue[p] \in Seq(SoundEvent) /\ kern[p].q \in Seq(SoundEvent)
    BY <1>1 DEF TypeInv, Kernel
  <2> QED
    BY <2>1 DEF PumpEvents
<1>3. /\ kern' = [kern EXCEPT ![p].q = <<>>]
      /\ eventQueue' = [eventQueue EXCEPT ![p] = IF all = <<>> THEN <<>> ELSE Tail(all)]
      /\ UNCHANGED <<waiting, multi, inBuf, inPipe, gdb, attaches, threadEvents>>
  BY DEF IngestEvent, GetDebugEvent
<1>4. /\ kern' \in [Pids -> Kernel] /\ \A d \in Pids \ {p} : kern'[d] = kern[d]
      /\ kern'[p].st = kern[p].st /\ kern'[p].live = kern[p].live /\ kern'[p].q = <<>>
  <2> DEFINE r == [kern[p] EXCEPT !.q = <<>>]
  <2>1. kern[p] \in Kernel /\ <<>> \in Seq(SoundEvent) /\ kern \in [Pids -> Kernel]
    BY <1>1 DEF TypeInv
  <2>2. r \in Kernel /\ r.st = kern[p].st /\ r.live = kern[p].live /\ r.q = <<>>
    BY <2>1 DEF Kernel
  <2>3. kern' = [kern EXCEPT ![p] = r]
    BY <1>3
  <2> HIDE DEF r
  <2> QED
    BY <1>1, <2>1, <2>2, <2>3
<1>5. CASE all = <<>>
  <2>1. loop' = [loop EXCEPT !.at = "arm"] /\ UNCHANGED <<attached, current, reason>>
    BY <1>5 DEF IngestEvent
  <2>2. eventQueue' = [eventQueue EXCEPT ![p] = <<>>]
    BY <1>3, <1>5
  <2>3. /\ eventQueue' \in [Pids -> Seq(SoundEvent)] /\ eventQueue'[p] = <<>>
        /\ \A d \in Pids \ {p} : eventQueue'[d] = eventQueue[d]
    BY <1>1, <2>2 DEF TypeInv
  <2>4. /\ loop' \in Loop /\ loop'.p = loop.p /\ loop'.for = loop.for /\ loop'.was = loop.was
        /\ loop'.todo = loop.todo /\ loop'.at = "arm" /\ loop'.stopped = loop.stopped
    BY <2>1 DEF TypeInv, Loop, Ingesting
  <2>5. Drains
    BY <1>5, <2>1, <2>3, <2>4 DEF Drains
  <2> QED
    BY <1>1, <1>2, <1>3, <1>4, <2>3, <2>4, <2>5
<1>6. CASE all # <<>>
  <2>1. e \in SoundEvent /\ Tail(all) \in Seq(SoundEvent)
    BY <1>2, <1>6
  <2> DEFINE st == Stops(e)
             at == IF st THEN "arm" ELSE "ingest"
             ts == ThreadsAfter(attached[p].threads, e)
             a == [attached[p] EXCEPT !.running = FALSE]
             b == [a EXCEPT !.threads = ts]
  <2>2. /\ attached' = [attached EXCEPT ![p].running = FALSE, ![p].threads = ThreadsAfter(@, e)]
        /\ current' = IF e.type = "ExitThread" /\ current = <<p, e.thread>>
                      THEN <<>> ELSE current
        /\ reason' = IF st THEN [style |-> StyleOf(e), p |-> p, t |-> e.thread]
                     ELSE reason
        /\ loop' = [loop EXCEPT !.at = at, !.stopped = st]
    BY <1>6 DEF IngestEvent
  <2>3. eventQueue' = [eventQueue EXCEPT ![p] = Tail(all)]
    BY <1>3, <1>6
  <2>4. /\ eventQueue' \in [Pids -> Seq(SoundEvent)] /\ eventQueue'[p] = Tail(all)
        /\ \A d \in Pids \ {p} : eventQueue'[d] = eventQueue[d]
    BY <1>1, <2>1, <2>3 DEF TypeInv
  <2>5. attached[p] \in Debuggee /\ attached \in [DOMAIN attached -> Debuggee]
    BY <1>1 DEF TypeInv
  <2>6. ts \in SUBSET Tids
    BY <2>1, <2>5 DEF ThreadsAfter, SoundEvent, Sound, Debuggee
  <2>7. st \in BOOLEAN /\ at \in {"arm", "ingest"}
    BY Zenon DEF Stops
  <2>8. attached' = [attached EXCEPT ![p] = b]
    BY <1>1, <2>2, <2>5 DEF Debuggee
  <2> HIDE DEF e, all, st, at, ts
  <2>9. a \in Debuggee /\ a.running = FALSE /\ a.gen = attached[p].gen
        /\ a.hasEvents = attached[p].hasEvents
    BY <2>5 DEF Debuggee
  <2> HIDE DEF a
  <2>10. b \in Debuggee /\ b.running = a.running /\ b.gen = a.gen
         /\ b.hasEvents = a.hasEvents /\ b.threads = ts
    BY <2>6, <2>9 DEF Debuggee
  <2> HIDE DEF b
  <2>11. /\ DOMAIN attached' = DOMAIN attached /\ attached' \in [DOMAIN attached' -> Debuggee]
         /\ \A d \in DOMAIN attached \ {p} : attached'[d] = attached[d]
         /\ attached'[p] = b
    BY <1>1, <2>5, <2>8, <2>10
  <2>12. /\ loop' \in Loop /\ loop'.p = loop.p /\ loop'.for = loop.for /\ loop'.was = loop.was
         /\ loop'.todo = loop.todo /\ loop'.at = at /\ loop'.stopped = st
    <3> DEFINE l == [loop EXCEPT !.at = at]
    <3>1. l \in Loop /\ l.p = loop.p /\ l.for = loop.for /\ l.was = loop.was
          /\ l.todo = loop.todo /\ l.at = at
      BY <2>7 DEF TypeInv, Loop, Ingesting
    <3>2. loop' = [l EXCEPT !.stopped = st]
      BY <2>2
    <3> HIDE DEF l
    <3>3. /\ [l EXCEPT !.stopped = st].p = l.p /\ [l EXCEPT !.stopped = st].for = l.for
          /\ [l EXCEPT !.stopped = st].was = l.was /\ [l EXCEPT !.stopped = st].todo = l.todo
          /\ [l EXCEPT !.stopped = st].at = l.at
      BY <3>1 DEF Loop
    <3>4. [l EXCEPT !.stopped = st] \in Loop
      BY <2>7, <3>1 DEF Loop
    <3>5. [l EXCEPT !.stopped = st].stopped = st
      BY <3>1, Zenon DEF Loop
    <3> QED
      BY <3>1, <3>2, <3>3, <3>4, <3>5
  <2>13. Applies(e)
    BY <1>6, <2>1, <2>2, <2>4, <2>9, <2>10, <2>11, <2>12, Zenon DEF Applies, st, at, ts, all
  <2> QED
    BY <1>1, <1>2, <1>3, <1>4, <2>4, <2>12, <2>13 DEF e, all
<1> QED
  BY <1>5, <1>6

\* ContinueDebugEvent succeeds.
LEMMA ContinueStep ==
  ASSUME TypeInv, NEW p \in DOMAIN attached, Continue(p)
  PROVE  /\ kern' \in [Pids -> Kernel] /\ \A d \in Pids \ {p} : kern'[d] = kern[d]
         /\ kern[p].st \in {"broken", "running"} /\ kern'[p].st = "running"
         /\ kern'[p].q = kern[p].q /\ kern'[p].live = kern[p].live
         /\ DOMAIN attached' = DOMAIN attached /\ attached' \in [DOMAIN attached' -> Debuggee]
         /\ \A d \in DOMAIN attached \ {p} : attached'[d] = attached[d]
         /\ attached'[p].running = TRUE /\ attached'[p].threads = attached[p].threads
         /\ attached'[p].gen = attached[p].gen
         /\ attached'[p].hasEvents = attached[p].hasEvents
<1> DEFINE k == [kern[p] EXCEPT !.st = "running"]
           a == [attached[p] EXCEPT !.running = TRUE]
<1>1. /\ p \in Pids /\ kern[p] \in Kernel /\ attached[p] \in Debuggee
      /\ kern \in [Pids -> Kernel] /\ attached \in [DOMAIN attached -> Debuggee]
  BY DEF TypeInv
<1>2. kern' = [kern EXCEPT ![p] = k] /\ attached' = [attached EXCEPT ![p] = a]
      /\ kern[p].st \in {"broken", "running"}
  BY DEF Continue
<1>3. k \in Kernel /\ k.st = "running" /\ k.q = kern[p].q /\ k.live = kern[p].live
  BY <1>1 DEF Kernel
<1>4. a \in Debuggee /\ a.running = TRUE /\ a.threads = attached[p].threads
      /\ a.gen = attached[p].gen /\ a.hasEvents = attached[p].hasEvents
  BY <1>1 DEF Debuggee
<1> HIDE DEF k, a
<1> QED
  BY <1>1, <1>2, <1>3, <1>4

\* The end of IngestEvents: the process is continued, or not, or the tool dies.
LEMMA ResumeStep ==
  ASSUME TypeInv, LoopInv, Resume
  PROVE  /\ UNCHANGED <<current, reason, waiting, multi, inBuf, inPipe, gdb, eventQueue, attaches>>
         /\ loop.at = "resume" /\ loop.p \in DOMAIN attached /\ loop.p \in Pids
         /\ \/ /\ loop' = [Idle EXCEPT !.at = "dead"] /\ UNCHANGED <<attached, kern>>
            \/ /\ loop' = [loop EXCEPT !.at = "return"]
               /\ \/ UNCHANGED <<attached, kern>>
                  \/ ShouldContinue(loop.p) /\ Continue(loop.p)
<1>1. loop.at = "resume" /\ loop.p \in DOMAIN attached /\ loop.p \in Pids
  BY DEF Resume, At, LoopInv, TypeInv, Ingesting
<1>2. UNCHANGED <<inBuf, inPipe, gdb>>
  BY DEF Resume
<1>3. CASE ~ShouldContinue(loop.p)
  BY <1>1, <1>2, <1>3 DEF Resume, stub, target
<1>4. CASE ShouldContinue(loop.p)
  BY <1>1, <1>2, <1>4 DEF Resume, Dies, stub, target
<1> QED
  BY <1>3, <1>4

\* LaunchDebugProcess.
LEMMA LaunchStep ==
  ASSUME TypeInv, NEW p \in Pids, LaunchDebugProcess(p)
  PROVE  /\ kern' \in [Pids -> Kernel] /\ \A d \in Pids \ {p} : kern'[d] = kern[d]
         /\ kern'[p].st = kern[p].st
         /\ \/ kern'[p] = kern[p]
            \/ /\ kern[p].st = "broken"
               /\ \E e \in SoundEvent :
                    /\ kern'[p].q = Append(kern[p].q, e)
                    /\ kern'[p].live = ThreadsAfter(kern[p].live, e)
<1>1. kern[p] \in Kernel /\ kern \in [Pids -> Kernel]
  BY DEF TypeInv
<1>2. CASE UNCHANGED kern
  BY <1>1, <1>2
<1>3. CASE /\ kern[p].live = {} /\ kern[p].st = "broken"
           /\ kern' = [kern EXCEPT ![p].live = {Least(Tids)},
                             ![p].q = Append(@, Occurred(<<"AttachThread", Least(Tids)>>))]
  <2> DEFINE e == Occurred(<<"AttachThread", Least(Tids)>>)
             q == Append(kern[p].q, e)
             a == [kern[p] EXCEPT !.live = {Least(Tids)}]
             r == [a EXCEPT !.q = q]
  <2>1. Least(Tids) \in Tids
    BY LeastExists, GdbAssumption
  <2>2. e \in SoundEvent /\ e.type = "AttachThread" /\ e.thread = Least(Tids)
    BY <2>1 DEF Occurred, SoundEvent, Sound, Event
  <2>3. ThreadsAfter(kern[p].live, e) = {Least(Tids)}
    BY <1>3, <2>2 DEF ThreadsAfter
  <2>4. kern' = [kern EXCEPT ![p] = r]
    BY <1>1, <1>3 DEF Kernel
  <2> HIDE DEF e
  <2>5. q \in Seq(SoundEvent)
    BY <1>1, <2>2 DEF Kernel
  <2> HIDE DEF q
  <2>6. a \in Kernel /\ a.live = {Least(Tids)} /\ a.st = kern[p].st
    BY <1>1, <2>1 DEF Kernel
  <2> HIDE DEF a
  <2>7. r \in Kernel /\ r.live = a.live /\ r.st = a.st /\ r.q = q
    BY <2>5, <2>6 DEF Kernel
  <2> HIDE DEF r
  <2>8. kern' \in [Pids -> Kernel] /\ kern'[p] = r /\ \A d \in Pids \ {p} : kern'[d] = kern[d]
    BY <1>1, <2>4, <2>7
  <2> QED
    BY <1>3, <2>2, <2>3, <2>6, <2>7, <2>8 DEF q
<1> QED
  BY <1>2, <1>3 DEF LaunchDebugProcess

\* Back in vAttach.
LEMMA AttachReturnsStep ==
  ASSUME TypeInv, LoopInv, AttachReturns
  PROVE  /\ UNCHANGED <<attached, current, reason, waiting, multi, inBuf, inPipe,
                        eventQueue, attaches>>
         /\ loop.at = "return" /\ loop.for \in {"attach", "launched"}
         /\ loop.p \in DOMAIN attached /\ loop.p \in Pids
         /\ \/ /\ Ingest(loop.p, "launched", {}) /\ LaunchDebugProcess(loop.p)
               /\ UNCHANGED gdb
            \/ Respond /\ loop' = [Idle EXCEPT !.at = "packets"] /\ UNCHANGED kern
<1>1. loop.at = "return" /\ loop.for \in {"attach", "launched"}
      /\ loop.p \in DOMAIN attached /\ loop.p \in Pids
  BY DEF AttachReturns, At, LoopInv, TypeInv, Ingesting
<1> QED
  BY <1>1 DEF AttachReturns, stub

\* Back in vCont: the stop is reported, the tool dies, or the process is
\* continued and the next one is looked at.
LEMMA VContReturnsStep ==
  ASSUME TypeInv, LoopInv, VContReturns
  PROVE  /\ UNCHANGED <<current, reason, multi, inBuf, inPipe, eventQueue, attaches>>
         /\ loop.at = "return" /\ loop.for = "vcont"
         /\ loop.p \in DOMAIN attached /\ loop.p \in Pids
         /\ waiting' \in BOOLEAN
         /\ \/ /\ loop.stopped /\ Respond /\ waiting' = FALSE
               /\ loop' = [Idle EXCEPT !.at = "packets"]
               /\ UNCHANGED <<attached, kern>>
            \/ /\ ~loop.stopped /\ loop' = [Idle EXCEPT !.at = "dead"]
               /\ UNCHANGED <<attached, kern, waiting, gdb>>
            \/ /\ ~loop.stopped /\ Continue(loop.p) /\ UNCHANGED gdb
               /\ loop.todo = {} /\ waiting' = TRUE /\ loop' = [Idle EXCEPT !.at = "packets"]
            \/ /\ ~loop.stopped /\ Continue(loop.p) /\ UNCHANGED <<gdb, waiting>>
               /\ \E n \in loop.todo :
                    Ingest(n, "vcont", loop.todo \ {n})
<1>1. loop.at = "return" /\ loop.for = "vcont"
      /\ loop.p \in DOMAIN attached /\ loop.p \in Pids /\ waiting \in BOOLEAN
  BY DEF VContReturns, At, LoopInv, TypeInv, Ingesting
<1>2. UNCHANGED <<inBuf, inPipe>>
  BY DEF VContReturns
<1>3. CASE loop.stopped
  BY <1>1, <1>2, <1>3 DEF VContReturns, Stop, target
<1>4. CASE ~loop.stopped
  <2>1. UNCHANGED gdb
    BY <1>4 DEF VContReturns
  <2>2. CASE MayRefuse(loop.p) /\ Dies
    BY <1>1, <1>2, <1>4, <2>1, <2>2 DEF Dies, stub, target
  <2>3. CASE /\ Continue(loop.p)
             /\ waiting' = (waiting \/ loop.todo = {})
             /\ loop' = IF loop.todo = {} THEN [Idle EXCEPT !.at = "packets"]
                        ELSE LET n == Least(loop.todo)
                             IN [loop EXCEPT !.at = "ingest", !.p = n, !.todo = @ \ {n},
                                   !.was = attached[n].running, !.stopped = FALSE]
             /\ UNCHANGED <<current, reason, asyncWait, multi, threadEvents,
                            eventQueue, events, waits, attaches, ints>>
    <3>1. CASE loop.todo = {}
      <4>1. waiting' = TRUE
        BY <2>3, <3>1, Zenon
      <4> QED
        BY <1>1, <1>2, <1>4, <2>1, <2>3, <3>1, <4>1
    <3>2. CASE loop.todo # {}
      <4> DEFINE n == Least(loop.todo)
      <4>1. n \in loop.todo
        <5>1. loop.todo \in SUBSET Nat
          BY GdbAssumption DEF TypeInv, Loop
        <5> QED
          BY <3>2, <5>1, LeastExists
      <4>2. waiting' = waiting
        BY <1>1, <2>3, <3>2, Zenon
      <4>3. loop' = [loop EXCEPT !.at = "ingest", !.p = n, !.todo = loop.todo \ {n},
                                 !.was = attached[n].running, !.stopped = FALSE]
        BY <2>3, <3>2
      <4> HIDE DEF n
      <4>4. Ingest(n, "vcont", loop.todo \ {n})
        BY <1>1, <4>3 DEF Ingest, TypeInv, Loop
      <4> QED
        BY <1>1, <1>2, <1>4, <2>1, <2>3, <4>1, <4>2, <4>4
    <3> QED
      BY <3>1, <3>2
  <2> QED
    BY <1>4, <2>2, <2>3 DEF VContReturns
<1> QED
  BY <1>3, <1>4

\* The interrupt, for one process.
LEMMA LogicBreaksStep ==
  ASSUME TypeInv, LoopInv, LogicBreaks
  PROVE  /\ UNCHANGED <<attached, current, reason, waiting, multi, inBuf, inPipe, gdb,
                        eventQueue, attaches>>
         /\ loop.at = "logic"
         /\ kern' \in [Pids -> Kernel]
         /\ \/ loop' = [Idle EXCEPT !.at = "dead"] /\ UNCHANGED kern
            \/ \E p \in loop.todo :
                 /\ loop' = [loop EXCEPT !.at = "check", !.p = p, !.todo = @ \ {p}]
                 /\ \A d \in Pids \ {p} : kern'[d] = kern[d]
                 /\ \/ kern'[p] = kern[p]
                    \/ /\ kern[p].st = "running" /\ kern'[p].st = "broken"
                       /\ kern'[p].live = kern[p].live
                       /\ \E e \in SoundEvent : /\ kern'[p].q = Append(kern[p].q, e)
                                                /\ kern'[p].live = ThreadsAfter(kern[p].live, e)
<1>1. loop.at = "logic" /\ loop.todo # {} /\ UNCHANGED <<inBuf, inPipe, gdb>>
  BY DEF LogicBreaks, At
<1> DEFINE p == Least(loop.todo)
<1>2. p \in loop.todo /\ p \in Pids
  <2>1. loop.todo \in SUBSET Nat /\ loop.todo \in SUBSET Pids
    BY GdbAssumption DEF TypeInv, Loop
  <2> QED
    BY <1>1, <2>1, LeastExists
<1>3. CASE Dies
  BY <1>1, <1>3 DEF Dies, stub, target, TypeInv
<1>4. CASE /\ loop' = [loop EXCEPT !.at = "check", !.p = p, !.todo = @ \ {p}]
           /\ IF loop.int /\ attached[p].running THEN BreakProcess(p) ELSE UNCHANGED kern
           /\ UNCHANGED <<stub, eventQueue, events, waits, attaches, ints>>
  <2>1. kern \in [Pids -> Kernel] /\ kern[p] \in Kernel
    BY <1>2 DEF TypeInv
  <2>2. UNCHANGED <<attached, current, reason, waiting, multi, eventQueue, attaches>>
    BY <1>4 DEF stub
  <2>3. CASE UNCHANGED kern
    BY <1>1, <1>2, <1>4, <2>1, <2>2, <2>3
  <2>4. CASE kern' # kern
    <3> DEFINE e == Occurred(<<"Exception", 0>>)
               q == Append(kern[p].q, e)
               a == [kern[p] EXCEPT !.st = "broken"]
               r == [a EXCEPT !.q = q]
    <3>1. e \in SoundEvent /\ e.type = "Exception"
      BY DEF Occurred, SoundEvent, Sound, Event
    <3>2. ThreadsAfter(kern[p].live, e) = kern[p].live
      BY <3>1 DEF ThreadsAfter
    <3>3. BreakProcess(p) /\ kern[p].st = "running"
      BY <1>4, <2>4 DEF BreakProcess
    <3>4. kern' = [kern EXCEPT ![p] = r]
      BY <2>1, <3>3 DEF BreakProcess, Kernel
    <3> HIDE DEF e
    <3>5. q \in Seq(SoundEvent)
      BY <2>1, <3>1 DEF Kernel
    <3> HIDE DEF q, p
    <3>6. a \in Kernel /\ a.st = "broken" /\ a.live = kern[p].live
      BY <2>1 DEF Kernel
    <3> HIDE DEF a
    <3>7. r \in Kernel /\ r.st = a.st /\ r.live = a.live /\ r.q = q
      BY <3>5, <3>6 DEF Kernel
    <3> HIDE DEF r
    <3>8. kern' \in [Pids -> Kernel] /\ kern'[p] = r /\ \A d \in Pids \ {p} : kern'[d] = kern[d]
      BY <1>2, <2>1, <3>4, <3>7
    <3> QED
      BY <1>1, <1>2, <1>4, <2>2, <3>1, <3>2, <3>3, <3>6, <3>7, <3>8 DEF q
  <2> QED
    BY <2>3, <2>4
<1> QED
  BY <1>3, <1>4 DEF LogicBreaks

\* A step keeps the types.
LEMMA TypeNext == TypeInv /\ LoopInv /\ Next => TypeInv'
<1> SUFFICES ASSUME TypeInv, LoopInv, Next PROVE TypeInv'
  OBVIOUS
<1> USE DEF TypeInv
<1>a. [Idle EXCEPT !.at = "dead"] \in Loop
  BY DEF Idle, Loop
<1>1. CASE UNCHANGED core
  BY <1>1 DEF core
<1>2. ASSUME NEW p \in Pids, KernelEvent(p) PROVE TypeInv'
  BY <1>2, KernelStep
<1>3. ASSUME NEW p \in Pids, KernelKill(p) PROVE TypeInv'
  BY <1>3, KernelStep
<1>4. CASE CallbackNotifies
  <2>1. PICK w \in waits : attached' = [p \in DOMAIN attached |->
            IF p = w.p /\ attached[p].gen = w.gen
            THEN [attached[p] EXCEPT !.hasEvents = TRUE] ELSE attached[p]]
    BY <1>4 DEF CallbackNotifies
  <2>2. ASSUME NEW p \in DOMAIN attached
        PROVE  attached[p] \in Debuggee /\ [attached[p] EXCEPT !.hasEvents = TRUE] \in Debuggee
    BY DEF Debuggee
  <2>3. DOMAIN attached' = DOMAIN attached /\ attached' \in [DOMAIN attached -> Debuggee]
    BY <2>1, <2>2
  <2> QED
    BY <1>4, <2>3 DEF CallbackNotifies, target
<1>5. CASE GdbSends
  <2>1. PICK m \in WellFormed : inBuf' = inBuf \o inPipe \o <<m>>
    BY <1>5 DEF GdbSends
  <2>2. m \in Packet
    BY WellFormedPackets
  <2>3. inBuf' \in Seq(Packet)
    BY <2>1, <2>2
  <2>4. loop' \in Loop
    BY <1>5 DEF GdbSends, Loop
  <2> QED
    BY <1>5, <2>3, <2>4 DEF GdbSends, stub, target
<1>6. CASE GdbInterrupts
  <2>1. Pkt("int", 0, 0) \in Packet
    BY DEF Pkt, Packet
  <2>2. inPipe' \in Seq(Packet)
    BY <1>6, <2>1 DEF GdbInterrupts
  <2> QED
    BY <1>6, <2>2 DEF GdbInterrupts, stub, target
<1>7. CASE GdbHangsUp
  <2>1. kern' \in [Pids -> Kernel] /\ eventQueue' \in [Pids -> Seq(SoundEvent)]
    BY <1>7, ReleasedStep DEF GdbHangsUp
  <2>2. DOMAIN attached' = {} /\ attached' \in [{} -> Debuggee]
    BY <1>7 DEF GdbHangsUp
  <2>3. loop' \in Loop
    BY <1>7 DEF GdbHangsUp, Loop
  <2> QED
    BY <1>7, <2>1, <2>2, <2>3 DEF GdbHangsUp
<1>8. CASE Answers({"plain"}) \/ Answers({"read"})
  BY <1>8, TakesOne DEF Answers, stub, target
<1>9. CASE Writing
  <2>1. inBuf' \in Seq(Packet) /\ inPipe' = inPipe
    BY <1>9, TakesOne DEF Writing
  <2>2. loop' = loop \/ loop' = [Idle EXCEPT !.at = "dead"]
    BY <1>9 DEF Writing, Dies
  <2>3. UNCHANGED <<attached, kern, eventQueue, waiting, attaches>>
    BY <1>9 DEF Writing, Dies, stub, target
  <2> QED
    BY <1>a, <2>1, <2>2, <2>3
<1>10. CASE Choosing
  <2>1. inBuf' \in Seq(Packet) /\ inPipe' = inPipe
    BY <1>10, TakesOne DEF Choosing
  <2>2. UNCHANGED <<attached, kern, eventQueue, waiting, attaches, loop>>
    BY <1>10 DEF Choosing, target
  <2> QED
    BY <2>1, <2>2
<1>11. CASE Detaching
  <2>1. inBuf' \in Seq(Packet) /\ inPipe' = inPipe
    BY <1>11, TakesOne DEF Detaching
  <2>2. /\ attached' = [p \in DOMAIN attached \ Gone |-> attached[p]] /\ Released(Gone)
        /\ UNCHANGED <<waiting, loop, attaches>>
    BY <1>11 DEF Detaching
  <2>3. kern' \in [Pids -> Kernel] /\ eventQueue' \in [Pids -> Seq(SoundEvent)]
    BY <2>2, ReleasedStep
  <2>4. DOMAIN attached' \in SUBSET Pids /\ attached' \in [DOMAIN attached' -> Debuggee]
    BY <2>2
  <2> QED
    BY <2>1, <2>2, <2>3, <2>4
<1>12. CASE QueryGetSupported
  BY <1>12 DEF QueryGetSupported, Takes, target
<1>13. CASE QuerySetThreadEvents
  BY <1>13 DEF QuerySetThreadEvents, Takes, target
<1>14. CASE Blocking
  BY <1>14, TakesOne DEF Blocking, stub, target, Loop
<1>15. CASE HandleVAttach
  <2>1. inBuf' \in Seq(Packet) /\ inPipe' = inPipe /\ M \in Packet /\ M.k = "attach"
    BY <1>15, TakesOne DEF HandleVAttach
  <2>2. CASE M.p \in DOMAIN attached \/ (~multi /\ DOMAIN attached # {})
    BY <1>15, <2>1, <2>2 DEF HandleVAttach, stub, target
  <2>3. CASE ~(M.p \in DOMAIN attached \/ (~multi /\ DOMAIN attached # {})) /\ kern[M.p].st = "exited"
    BY <1>15, <2>1, <2>3 DEF HandleVAttach, Dies, stub, target, Idle, Loop
  <2>4. CASE ~(M.p \in DOMAIN attached \/ (~multi /\ DOMAIN attached # {})) /\ kern[M.p].st # "exited"
    <3>1. /\ kern' \in [Pids -> Kernel] /\ eventQueue' \in [Pids -> Seq(SoundEvent)]
          /\ DOMAIN attached' = DOMAIN attached \cup {M.p} /\ M.p \in Pids
          /\ attached' \in [DOMAIN attached' -> Debuggee]
          /\ attaches' = attaches + 1 /\ loop' \in Loop /\ waiting' = waiting
      BY <1>15, <2>1, <2>4, AttachStep
    <3> QED
      BY <2>1, <3>1
  <2> QED
    BY <2>2, <2>3, <2>4
<1>16. CASE HandleVCont
  <2>1. inBuf' \in Seq(Packet) /\ inPipe' = inPipe
    BY <1>16, TakesOne DEF HandleVCont
  <2>2. /\ waiting' \in BOOLEAN
        /\ \/ loop' = loop
           \/ \E p \in DOMAIN attached, todo \in SUBSET DOMAIN attached : Ingest(p, "vcont", todo)
    BY <1>16, VContStep
  <2>3. loop' \in Loop
    BY <2>2, IngestStep
  <2> QED
    BY <1>16, <2>1, <2>2, <2>3 DEF HandleVCont, target
<1>17. CASE Wake
  <2>1. inBuf' = inBuf \o inPipe /\ inPipe' = <<>>
    BY <1>17 DEF Wake
  <2>2. inBuf' \in Seq(Packet) /\ inPipe' \in Seq(Packet)
    BY <2>1
  <2>3. loop' \in Loop
    BY <1>17 DEF Wake, Idle, Loop
  <2> QED
    BY <1>17, <2>2, <2>3 DEF Wake, stub, target
<1>18. CASE PacketsDone
  <2>1. inBuf' \in Seq(Packet)
    BY <1>18 DEF PacketsDone
  <2>2. loop' \in Loop
    <3> DEFINE i == inBuf # <<>>
    <3>1. i \in BOOLEAN
      OBVIOUS
    <3>2. \/ loop' = Idle
          \/ loop' = [Idle EXCEPT !.at = "logic", !.int = i, !.todo = DOMAIN attached]
      BY <1>18 DEF PacketsDone
    <3> HIDE DEF i
    <3>3. Idle \in Loop
      BY DEF Idle, Loop
    <3>4. [Idle EXCEPT !.at = "logic", !.int = i, !.todo = DOMAIN attached] \in Loop
      BY <3>1, Zenon DEF Idle, Loop
    <3> QED
      BY <3>2, <3>3, <3>4
  <2> QED
    BY <1>18, <2>1, <2>2 DEF PacketsDone, stub, target
<1>19. CASE IngestEvent
  <2>1. attached' = attached \/ (DOMAIN attached' = DOMAIN attached
                                 /\ attached' \in [DOMAIN attached' -> Debuggee])
    BY <1>19, IngestEventStep DEF Drains, Applies
  <2> QED
    BY <1>19, <2>1, IngestEventStep
<1>20. CASE AsyncWait
  BY <1>20 DEF AsyncWait, stub, target, Loop, Ingesting
<1>21. CASE AsyncWaitSent
  BY <1>21 DEF AsyncWaitSent, target, Loop, Ingesting
<1>22. CASE Resume
  <2>1. loop' \in Loop
    BY <1>22, ResumeStep DEF Loop, Idle, Ingesting
  <2>2. /\ kern' \in [Pids -> Kernel]
        /\ DOMAIN attached' = DOMAIN attached /\ attached' \in [DOMAIN attached' -> Debuggee]
    BY <1>22, ResumeStep, ContinueStep
  <2> QED
    BY <1>22, <2>1, <2>2, ResumeStep
<1>23. CASE AttachReturns
  <2>1. loop' \in Loop
    <3>1. [Idle EXCEPT !.at = "packets"] \in Loop
      BY DEF Idle, Loop
    <3>2. ASSUME Ingest(loop.p, "launched", {}), loop.p \in DOMAIN attached PROVE loop' \in Loop
      <4>1. {} \in SUBSET DOMAIN attached /\ "launched" \in {"launched", "vcont", "logic"}
        OBVIOUS
      <4> QED
        BY <3>2, <4>1, IngestStep, Zenon
    <3> QED
      BY <1>23, <3>1, <3>2, AttachReturnsStep
  <2>2. kern' \in [Pids -> Kernel]
    BY <1>23, AttachReturnsStep, LaunchStep
  <2> QED
    BY <1>23, <2>1, <2>2, AttachReturnsStep
<1>24. CASE VContReturns
  <2>1. loop' \in Loop
    <3>1. loop.todo \in SUBSET DOMAIN attached
      BY DEF LoopInv
    <3>2. \A n \in loop.todo : n \in DOMAIN attached /\ loop.todo \ {n} \in SUBSET DOMAIN attached
      BY <3>1
    <3>3. \A n \in loop.todo : Ingest(n, "vcont", loop.todo \ {n}) => loop' \in Loop
      BY <3>2, IngestStep
    <3>4. [Idle EXCEPT !.at = "packets"] \in Loop /\ [Idle EXCEPT !.at = "dead"] \in Loop
      BY DEF Idle, Loop
    <3> QED
      BY <1>24, <3>3, <3>4, VContReturnsStep
  <2>2. /\ kern' \in [Pids -> Kernel]
        /\ DOMAIN attached' = DOMAIN attached /\ attached' \in [DOMAIN attached' -> Debuggee]
    BY <1>24, VContReturnsStep, ContinueStep
  <2> QED
    BY <1>24, <2>1, <2>2, VContReturnsStep
<1>25. CASE LogicBreaks
  <2>1. loop' \in Loop
    <3>1. loop.todo \in SUBSET Pids
      BY DEF Loop
    <3>2. [Idle EXCEPT !.at = "dead"] \in Loop
      BY DEF Idle, Loop
    <3>3. \A p \in loop.todo : [loop EXCEPT !.at = "check", !.p = p, !.todo = @ \ {p}] \in Loop
      BY <3>1 DEF Loop
    <3> QED
      BY <1>25, <3>2, <3>3, LogicBreaksStep
  <2> QED
    BY <1>25, <2>1, LogicBreaksStep
<1>26. CASE LogicChecks
  <2>1. CASE waiting /\ attached[loop.p].hasEvents
    <3>1. Ingest(loop.p, "logic", loop.todo) /\ loop.p \in DOMAIN attached
          /\ loop.todo \in SUBSET DOMAIN attached
      BY <1>26, <2>1 DEF LogicChecks, At, LoopInv
    <3>2. loop' \in Loop
      BY <3>1, IngestStep
    <3> QED
      BY <1>26, <3>2 DEF LogicChecks, stub, target
  <2>2. CASE ~(waiting /\ attached[loop.p].hasEvents)
    <3>1. loop' = [loop EXCEPT !.at = "logic"]
      BY <1>26, <2>2 DEF LogicChecks
    <3>2. loop' \in Loop
      BY <3>1 DEF Loop
    <3> QED
      BY <1>26, <3>2 DEF LogicChecks, stub, target
  <2> QED
    BY <2>1, <2>2
<1>27. CASE LogicReturns
  BY <1>27 DEF LogicReturns, target, Loop, Stop
<1>28. CASE LogicDone
  BY <1>28 DEF LogicDone, stub, target, Loop, Idle
<1>29. CASE RemoteCommandAnswered
  BY <1>29 DEF RemoteCommandAnswered, stub, target, Loop, Idle
<1>30. CASE Perish
  <2>1. inBuf' \in Seq(Packet) /\ inPipe' = inPipe
    BY <1>30, TakesOne DEF Perish
  <2>2. /\ loop' = [Idle EXCEPT !.at = "dead"]
        /\ UNCHANGED <<attached, kern, eventQueue, waiting, attaches>>
    BY <1>30 DEF Perish, Dies, stub, target
  <2> QED
    BY <1>a, <2>1, <2>2
<1> QED
  BY <1>1, <1>2, <1>3, <1>4, <1>5, <1>6, <1>7, <1>8, <1>9, <1>10, <1>11, <1>12, <1>13, <1>14,
     <1>15, <1>16, <1>17, <1>18, <1>19, <1>20, <1>21, <1>22, <1>23, <1>24, <1>25, <1>26, <1>27,
     <1>28, <1>29, <1>30, NextCases

\* A step keeps the loop's place and its processes together.
LEMMA LoopNext == TypeInv /\ LoopInv /\ Next => LoopInv'
<1> SUFFICES ASSUME TypeInv, LoopInv, Next PROVE LoopInv'
  OBVIOUS
<1> USE DEF Ingesting
<1>a. /\ loop \in Loop /\ loop.todo \in SUBSET DOMAIN attached
      /\ attached \in [DOMAIN attached -> Debuggee]
  BY DEF TypeInv, LoopInv
\* What the invariant asks of a loop that is not looking at a process.
<1>b. ASSUME loop' = Idle \/ \E at \in {"packets", "dead"} : loop' = [Idle EXCEPT !.at = at]
      PROVE  LoopInv'
  BY <1>b DEF Idle, LoopInv
\* And of one that stays where it is while nothing is detached.
<1>c. ASSUME loop' = loop, DOMAIN attached \in SUBSET DOMAIN attached'
      PROVE  LoopInv'
  BY <1>c DEF LoopInv
<1>1. CASE UNCHANGED core
  BY <1>1, <1>c DEF core
<1>2. ASSUME NEW p \in Pids, KernelEvent(p) PROVE LoopInv'
  BY <1>2, <1>c, KernelStep
<1>3. ASSUME NEW p \in Pids, KernelKill(p) PROVE LoopInv'
  BY <1>3, <1>c, KernelStep
<1>4. CASE CallbackNotifies
  BY <1>4, <1>c DEF CallbackNotifies
<1>5. CASE GdbSends
  BY <1>5, <1>a DEF GdbSends, At, LoopInv, stub, Loop
<1>6. CASE GdbInterrupts
  BY <1>6, <1>c DEF GdbInterrupts, stub
<1>7. CASE GdbHangsUp
  BY <1>7, <1>a DEF GdbHangsUp, At, LoopInv, Loop
<1>8. CASE Answers({"plain"}) \/ Answers({"read"})
  BY <1>8, <1>c DEF Answers, stub
<1>9. CASE Writing
  BY <1>9, <1>b, <1>c DEF Writing, Dies, stub
<1>10. CASE Choosing
  BY <1>10, <1>c DEF Choosing
<1>11. CASE Detaching
  <2>1. loop.at = "packets" /\ loop' = loop
    BY <1>11, TakesOne DEF Detaching
  <2> QED
    BY <2>1 DEF LoopInv
<1>12. CASE QueryGetSupported
  BY <1>12, <1>c DEF QueryGetSupported
<1>13. CASE QuerySetThreadEvents
  BY <1>13, <1>c DEF QuerySetThreadEvents
<1>14. CASE Blocking
  <2>1. loop.at = "packets"
    BY <1>14, TakesOne DEF Blocking
  <2> QED
    BY <1>14, <1>a, <2>1 DEF Blocking, LoopInv, Loop, stub
<1>15. CASE HandleVAttach
  <2>1. M \in Packet /\ M.k = "attach"
    BY <1>15, TakesOne DEF HandleVAttach
  <2>2. CASE M.p \in DOMAIN attached \/ (~multi /\ DOMAIN attached # {})
    BY <1>15, <1>c, <2>2 DEF HandleVAttach, stub
  <2>3. CASE ~(M.p \in DOMAIN attached \/ (~multi /\ DOMAIN attached # {})) /\ kern[M.p].st = "exited"
    BY <1>15, <1>b, <2>3 DEF HandleVAttach, Dies
  <2>4. CASE ~(M.p \in DOMAIN attached \/ (~multi /\ DOMAIN attached # {})) /\ kern[M.p].st # "exited"
    <3>1. /\ DOMAIN attached' = DOMAIN attached \cup {M.p}
          /\ loop'.at = "ingest" /\ loop'.p = M.p /\ loop'.for = "attach" /\ loop'.todo = {}
      BY <1>15, <2>1, <2>4, AttachStep
    <3> QED
      BY <3>1 DEF LoopInv
  <2> QED
    BY <2>2, <2>3, <2>4
\* IngestEvents begins.
<1>d. ASSUME NEW p \in DOMAIN attached, NEW for \in {"launched", "vcont", "logic"},
             NEW todo \in SUBSET DOMAIN attached, p \notin todo, Ingest(p, for, todo),
             DOMAIN attached' = DOMAIN attached
      PROVE  LoopInv'
  <2>1. loop'.at = "ingest" /\ loop'.p = p /\ loop'.for = for /\ loop'.todo = todo
    BY <1>d, IngestStep
  <2> QED
    BY <1>d, <2>1 DEF LoopInv
<1>16. CASE HandleVCont
  BY <1>16, <1>c, <1>d, VContStep
<1>17. CASE Wake
  BY <1>17, <1>b DEF Wake
<1>18. CASE PacketsDone
  BY <1>18, <1>b DEF PacketsDone, LoopInv, Idle, stub
<1>19. CASE IngestEvent
  <2>1. /\ loop.at = "ingest" /\ loop'.p = loop.p /\ loop'.for = loop.for
        /\ loop'.todo = loop.todo /\ DOMAIN attached' = DOMAIN attached
        /\ loop'.at \in {"arm", "ingest"}
    BY <1>19, IngestEventStep DEF Drains, Applies
  <2> QED
    BY <2>1 DEF LoopInv
<1>20. CASE AsyncWait
  BY <1>20, <1>a DEF AsyncWait, LoopInv, Loop, At, stub
<1>21. CASE AsyncWaitSent
  BY <1>21, <1>a DEF AsyncWaitSent, LoopInv, Loop, At
<1>22. CASE Resume
  <2>1. DOMAIN attached' = DOMAIN attached
    BY <1>22, ResumeStep, ContinueStep
  <2>2. CASE loop' = [loop EXCEPT !.at = "return"]
    <3>1. loop.at = "resume"
      BY <1>22, ResumeStep
    <3> QED
      BY <1>a, <2>1, <2>2, <3>1 DEF LoopInv, Loop
  <2> QED
    BY <1>22, <1>b, <2>2, ResumeStep
<1>23. CASE AttachReturns
  BY <1>23, <1>b, <1>d, AttachReturnsStep
<1>24. CASE VContReturns
  <2>1. DOMAIN attached' = DOMAIN attached
    BY <1>24, VContReturnsStep, ContinueStep
  <2>2. ASSUME NEW n \in loop.todo, Ingest(n, "vcont", loop.todo \ {n}) PROVE LoopInv'
    <3>1. n \in DOMAIN attached /\ loop.todo \ {n} \in SUBSET DOMAIN attached
      BY <1>a
    <3> QED
      BY <1>d, <2>1, <2>2, <3>1
  <2> QED
    BY <1>24, <1>b, <2>2, VContReturnsStep
<1>25. CASE LogicBreaks
  <2>1. attached' = attached /\ loop.at = "logic"
    BY <1>25, LogicBreaksStep
  <2>2. ASSUME NEW p \in loop.todo, loop' = [loop EXCEPT !.at = "check", !.p = p, !.todo = @ \ {p}]
        PROVE  LoopInv'
    BY <1>a, <2>1, <2>2 DEF LoopInv, Loop
  <2> QED
    BY <1>25, <1>b, <2>2, LogicBreaksStep
<1>26. CASE LogicChecks
  <2>1. loop.at = "check" /\ attached' = attached
    BY <1>26 DEF LogicChecks, At, stub
  <2>2. CASE waiting /\ attached[loop.p].hasEvents
    BY <1>26, <1>d, <2>1, <2>2 DEF LogicChecks, LoopInv
  <2>3. CASE ~(waiting /\ attached[loop.p].hasEvents)
    BY <1>26, <1>a, <2>1, <2>3 DEF LogicChecks, LoopInv, Loop
  <2> QED
    BY <2>2, <2>3
<1>27. CASE LogicReturns
  BY <1>27, <1>a DEF LogicReturns, LoopInv, Loop, At
<1>28. CASE LogicDone
  BY <1>28, <1>b DEF LogicDone
<1>29. CASE RemoteCommandAnswered
  BY <1>29, <1>b DEF RemoteCommandAnswered
<1>30. CASE Perish
  BY <1>30, <1>b DEF Perish, Dies
<1> QED
  BY <1>1, <1>2, <1>3, <1>4, <1>5, <1>6, <1>7, <1>8, <1>9, <1>10, <1>11, <1>12, <1>13, <1>14,
     <1>15, <1>16, <1>17, <1>18, <1>19, <1>20, <1>21, <1>22, <1>23, <1>24, <1>25, <1>26, <1>27,
     <1>28, <1>29, <1>30, NextCases

-----------------------------------------------------------------------------
(***************************************************************************)
(* Layer 2: who has the floor.                                             *)
(***************************************************************************)

\* Interrupts behind what is in the buffer change nothing about it.
LEMMA MoreInts ==
  ASSUME NEW s \in Seq(Packet), NEW t \in Seq(Packet), OnlyInts(t)
  PROVE  /\ OnlyInts(s) => OnlyInts(s \o t)
         /\ \A K : Lone(s, K) => Lone(s \o t, K)
<1> DEFINE u == s \o t
<1>1. /\ Len(s) \in Nat /\ Len(t) \in Nat /\ Len(u) = Len(s) + Len(t)
      /\ \A i \in 1..Len(s) : u[i] = s[i]
      /\ \A i \in 1..Len(u) : i > Len(s) => i - Len(s) \in 1..Len(t) /\ u[i] = t[i - Len(s)]
  OBVIOUS
<1> HIDE DEF u
<1>2. \A i \in 1..Len(u) : i > Len(s) => u[i].k = "int"
  BY <1>1 DEF OnlyInts
<1>3. \A i \in 1..Len(u) : i > Len(s) \/ i \in 1..Len(s)
  BY <1>1
<1>4. OnlyInts(s) => OnlyInts(u)
  BY <1>1, <1>2, <1>3 DEF OnlyInts
<1>5. ASSUME NEW K, Lone(s, K) PROVE Lone(u, K)
  <2>1. PICK i \in 1..Len(s) : s[i].k \in K /\ \A j \in 1..Len(s) : j # i => s[j].k = "int"
    BY <1>5 DEF Lone
  <2>2. i \in 1..Len(u) /\ u[i].k \in K
    BY <1>1, <2>1
  <2>3. \A j \in 1..Len(u) : j # i => u[j].k = "int"
    BY <1>1, <1>2, <1>3, <2>1
  <2> QED
    BY <2>2, <2>3 DEF Lone
<1> QED
  BY <1>4, <1>5 DEF u

\* A packet of gdb behind interrupts is alone.
LEMMA LoneLast ==
  ASSUME NEW s \in Seq(Packet), OnlyInts(s), NEW m \in Packet, NEW K, m.k \in K
  PROVE  Lone(s \o <<m>>, K)
<1> DEFINE u == s \o <<m>>
           n == Len(s) + 1
<1>1. /\ Len(s) \in Nat /\ Len(u) = n /\ u[n] = m /\ n \in 1..n
      /\ \A i \in 1..n : i # n => i \in 1..Len(s) /\ u[i] = s[i]
  OBVIOUS
<1> HIDE DEF u, n
<1>2. \A i \in 1..n : i # n => u[i].k = "int"
  BY <1>1 DEF OnlyInts
<1> QED
  BY <1>1, <1>2 DEF Lone, u

\* The first packet is taken out.
LEMMA FirstTaken ==
  ASSUME NEW s \in Seq(Packet), s # <<>>
  PROVE  /\ OnlyInts(s) => Head(s).k = "int" /\ OnlyInts(Tail(s))
         /\ \A K : Lone(s, K) => \/ Head(s).k = "int" /\ Lone(Tail(s), K)
                                 \/ Head(s).k \in K /\ OnlyInts(Tail(s))
<1> DEFINE t == Tail(s)
<1>1. /\ Len(s) \in Nat \ {0} /\ Len(t) = Len(s) - 1 /\ Head(s) = s[1]
      /\ \A i \in 1..Len(t) : i + 1 \in 1..Len(s) /\ i + 1 # 1 /\ t[i] = s[i + 1]
  OBVIOUS
<1> HIDE DEF t
<1>2. OnlyInts(s) => Head(s).k = "int" /\ OnlyInts(t)
  BY <1>1 DEF OnlyInts
<1>3. ASSUME NEW K, Lone(s, K)
      PROVE  (Head(s).k = "int" /\ Lone(t, K)) \/ (Head(s).k \in K /\ OnlyInts(t))
  <2>1. PICK i \in 1..Len(s) : s[i].k \in K /\ \A j \in 1..Len(s) : j # i => s[j].k = "int"
    BY <1>3 DEF Lone
  <2>2. CASE i = 1
    BY <1>1, <2>1, <2>2 DEF OnlyInts
  <2>3. CASE i # 1
    <3>a. i - 1 \in 1..Len(t) /\ 1 \in 1..Len(s) /\ (i - 1) + 1 = i
      BY <1>1, <2>3
    <3>1. i - 1 \in 1..Len(t) /\ t[i - 1] = s[i] /\ 1 \in 1..Len(s)
      BY <1>1, <3>a
    <3>2. ASSUME NEW j \in 1..Len(t), j # i - 1 PROVE t[j].k = "int"
      <4>1. j + 1 \in 1..Len(s) /\ t[j] = s[j + 1]
        BY <1>1
      <4>2. j + 1 # i
        BY <1>1, <3>2
      <4> QED
        BY <2>1, <4>1, <4>2
    <3>3. Head(s).k = "int"
      BY <1>1, <2>1, <2>3, <3>1
    <3> DEFINE m == i - 1
    <3>4. m \in 1..Len(t) /\ t[m].k \in K /\ \A j \in 1..Len(t) : j # m => t[j].k = "int"
      BY <2>1, <3>1, <3>2
    <3> HIDE DEF m
    <3>5. Lone(t, K)
      BY <3>4 DEF Lone
    <3> QED
      BY <3>3, <3>5
  <2> QED
    BY <2>2, <2>3
<1> QED
  BY <1>2, <1>3 DEF t

\* A packet that asks is taken only while gdb waits for its reply.
LEMMA AskTaken ==
  ASSUME TypeInv, LoopInv, FloorInv, NEW K \in SUBSET Asks, Takes(K)
  PROVE  gdb = "reply" /\ waiting = FALSE /\ OnlyInts(inBuf') /\ OnlyInts(inPipe')
<1>1. /\ loop.at = "packets" /\ inBuf # <<>> /\ Head(inBuf).k \in Asks
      /\ inBuf' = Tail(inBuf) /\ inPipe' = inPipe /\ inBuf \in Seq(Packet)
  BY TakesOne DEF TypeInv, M
<1>2. Head(inBuf).k # "int" /\ Head(inBuf).k \notin Conts
  BY <1>1 DEF Asks, Conts
<1>3. ~OnlyInts(inBuf) /\ ~Lone(inBuf, Conts)
  BY <1>1, <1>2, FirstTaken
<1>4. gdb = "reply" /\ ~waiting /\ Lone(inBuf, Asks) /\ OnlyInts(inPipe)
  BY <1>1, <1>3 DEF FloorInv
<1>5. OnlyInts(Tail(inBuf))
  BY <1>1, <1>2, <1>4, FirstTaken
<1> QED
  BY <1>1, <1>4, <1>5 DEF TypeInv

\* A vCont is taken only while gdb waits for a stop that is not owed yet.
LEMMA ContTaken ==
  ASSUME TypeInv, LoopInv, FloorInv, Takes(Conts)
  PROVE  gdb = "running" /\ waiting = FALSE /\ OnlyInts(inBuf') /\ OnlyInts(inPipe')
<1>1. /\ loop.at = "packets" /\ inBuf # <<>> /\ Head(inBuf).k \in Conts
      /\ inBuf' = Tail(inBuf) /\ inPipe' = inPipe /\ inBuf \in Seq(Packet)
  BY TakesOne DEF TypeInv, M
<1>2. Head(inBuf).k # "int" /\ Head(inBuf).k \notin Asks
  BY <1>1 DEF Asks, Conts
<1>3. ~OnlyInts(inBuf) /\ ~Lone(inBuf, Asks)
  BY <1>1, <1>2, FirstTaken
<1>4. gdb = "running" /\ ~waiting /\ Lone(inBuf, Conts) /\ OnlyInts(inPipe)
  BY <1>1, <1>3 DEF FloorInv
<1>5. OnlyInts(Tail(inBuf))
  BY <1>1, <1>2, <1>4, FirstTaken
<1> QED
  BY <1>1, <1>4, <1>5 DEF TypeInv

\* The stub replies, and gdb has the floor.
LEMMA FloorReturned ==
  ASSUME gdb \in {"reply", "running"}, Respond, waiting' = FALSE,
         OnlyInts(inBuf'), OnlyInts(inPipe'),
         loop'.at \notin Ingesting \cup {"blocked", "closed"}
  PROVE  FloorInv'
<1>1. gdb' = "idle"
  BY DEF Respond
<1> QED
  BY <1>1 DEF FloorInv, Serving, Resuming

\* Nobody's turn ends.
LEMMA FloorKept ==
  ASSUME FloorInv, loop.at # "dead", UNCHANGED <<gdb, waiting, inBuf>>, OnlyInts(inPipe'),
         loop'.at = "closed" <=> loop.at = "closed",
         \/ loop'.at = "dead"
         \/ /\ Serving' <=> Serving
            /\ Resuming' <=> Resuming
            /\ loop'.at \in Ingesting /\ loop'.for = "logic" => waiting
  PROVE  FloorInv'
<1>1. CASE loop'.at = "dead"
  BY <1>1 DEF FloorInv, Serving, Resuming, Ingesting
<1>2. CASE loop'.at # "dead"
  BY <1>2 DEF FloorInv
<1> QED
  BY <1>1, <1>2

\* A step keeps the floor agreed.
LEMMA FloorNext == TypeInv /\ LoopInv /\ FloorInv /\ Next => FloorInv'
<1> SUFFICES ASSUME TypeInv, LoopInv, FloorInv, Next PROVE FloorInv'
  OBVIOUS
<1>a. loop \in Loop /\ loop.at # "dead" /\ OnlyInts(inPipe) /\ waiting \in BOOLEAN
      /\ inBuf \in Seq(Packet) /\ inPipe \in Seq(Packet)
  BY NextCases DEF TypeInv, FloorInv, At
\* The reply to a packet that asks.
<1>b. ASSUME NEW K \in SUBSET Asks, Takes(K), Respond, waiting' = waiting,
             loop' = loop \/ loop' = [Idle EXCEPT !.at = "dead"]
      PROVE  FloorInv'
  <2>1. gdb = "reply" /\ waiting' = FALSE /\ OnlyInts(inBuf') /\ OnlyInts(inPipe')
    BY <1>b, AskTaken
  <2>2. loop'.at \in {"packets", "dead"}
    BY <1>b, TakesOne DEF Idle
  <2> QED
    BY <1>b, <2>1, <2>2, FloorReturned DEF Ingesting
\* The loop stays where it is.
<1>c. ASSUME UNCHANGED <<gdb, waiting, inBuf, loop>>, OnlyInts(inPipe') PROVE FloorInv'
  BY <1>a, <1>c, FloorKept DEF FloorInv, Serving, Resuming
\* A packet that asks kills the tool.
<1>d. ASSUME gdb = "reply", UNCHANGED gdb, OnlyInts(inPipe'), loop' = [Idle EXCEPT !.at = "dead"]
      PROVE  FloorInv'
  BY <1>d DEF FloorInv, Idle, Ingesting
\* A packet that asks is served step by step.
<1>e. ASSUME gdb = "reply", UNCHANGED gdb, waiting' = FALSE, OnlyInts(inBuf'), OnlyInts(inPipe'),
             \/ loop'.at = "blocked"
             \/ loop'.at \in Ingesting /\ loop'.for \in {"attach", "launched"}
      PROVE  FloorInv'
  BY <1>e DEF FloorInv, Serving, Resuming, Ingesting
<1>1. CASE UNCHANGED core
  BY <1>1, <1>a, <1>c DEF core
<1>2. ASSUME NEW p \in Pids, KernelEvent(p) \/ KernelKill(p) PROVE FloorInv'
  BY <1>2, <1>a, <1>c, KernelStep
<1>4. CASE CallbackNotifies
  BY <1>4, <1>a, <1>c DEF CallbackNotifies
<1>5. CASE GdbSends
  <2>1. PICK m \in WellFormed : /\ inBuf' = inBuf \o inPipe \o <<m>>
                                /\ gdb' = IF m.k \in {"cont", "contAll"} THEN "running" ELSE "reply"
    BY <1>5 DEF GdbSends
  <2>2. m \in Packet /\ m.k \in Asks \cup Conts
    BY WellFormedPackets
  <2>3. OnlyInts(inBuf) /\ ~waiting /\ gdb = "idle" /\ loop.at = "select"
    BY <1>5 DEF GdbSends, FloorInv, At
  <2>4. OnlyInts(inBuf \o inPipe) /\ inBuf \o inPipe \in Seq(Packet)
    BY <1>a, <2>3, MoreInts
  <2>5. Lone(inBuf', {m.k})
    BY <2>1, <2>2, <2>4, LoneLast
  <2>6. inPipe' = <<>> /\ waiting' = waiting /\ loop' = [loop EXCEPT !.at = "packets"]
    BY <1>5 DEF GdbSends, stub
  <2>7. OnlyInts(<<>>)
    BY DEF OnlyInts
  <2>8. loop'.at = "packets"
    BY <1>a, <2>6 DEF Loop
  <2>9. m.k \in Conts => gdb' = "running" /\ Lone(inBuf', Conts)
    BY <2>1, <2>5 DEF Lone, Conts
  <2>10. m.k \in Asks => gdb' = "reply" /\ Lone(inBuf', Asks)
    BY <2>1, <2>5 DEF Lone, Asks
  <2> QED
    BY <2>2, <2>3, <2>6, <2>7, <2>8, <2>9, <2>10 DEF FloorInv, Serving, Resuming, Ingesting
<1>6. CASE GdbInterrupts
  <2>1. inPipe' = inPipe \o <<Pkt("int", 0, 0)>> /\ UNCHANGED <<gdb, waiting, inBuf, loop>>
    BY <1>6, <1>a DEF GdbInterrupts, stub
  <2>2. <<Pkt("int", 0, 0)>> \in Seq(Packet) /\ OnlyInts(<<Pkt("int", 0, 0)>>)
    BY DEF Pkt, Packet, OnlyInts
  <2>3. OnlyInts(inPipe')
    BY <1>a, <2>1, <2>2, MoreInts
  <2> QED
    BY <1>c, <2>1, <2>3
<1>7. CASE GdbHangsUp
  <2>1. gdb = "idle" /\ gdb' = "gone" /\ loop'.at = "closed" /\ UNCHANGED <<waiting, inBuf, inPipe>>
    BY <1>7, <1>a DEF GdbHangsUp, Loop
  <2> QED
    BY <2>1 DEF FloorInv, Serving, Resuming, Ingesting
<1>8. CASE Answers({"plain"}) \/ Answers({"read"})
  BY <1>8, <1>b DEF Answers, Asks, stub
<1>9. CASE Writing
  BY <1>9, <1>b DEF Writing, Dies, Asks, stub
<1>10. CASE Choosing
  BY <1>10, <1>b DEF Choosing, Asks
<1>11. CASE Detaching
  BY <1>11, <1>b DEF Detaching, Asks
<1>12. CASE QueryGetSupported
  BY <1>12, <1>b DEF QueryGetSupported, Asks
<1>13. CASE QuerySetThreadEvents
  BY <1>13, <1>b DEF QuerySetThreadEvents, Asks
<1>14. CASE Blocking
  <2>1. Takes({"wait"}) /\ {"wait"} \in SUBSET Asks /\ UNCHANGED <<gdb, waiting>>
    BY <1>14 DEF Blocking, Asks, stub
  <2>2. gdb = "reply" /\ waiting = FALSE /\ OnlyInts(inBuf') /\ OnlyInts(inPipe')
    BY <2>1, AskTaken
  <2>3. loop'.at = "blocked"
    BY <1>14, <1>a DEF Blocking, Loop
  <2> QED
    BY <1>e, <2>1, <2>2, <2>3
<1>15. CASE HandleVAttach
  <2>1. Takes({"attach"}) /\ {"attach"} \in SUBSET Asks
    BY <1>15 DEF HandleVAttach, Asks
  <2>2. M \in Packet /\ M.k = "attach"
    BY <2>1, TakesOne
  <2>3. gdb = "reply" /\ waiting = FALSE /\ OnlyInts(inBuf') /\ OnlyInts(inPipe')
    BY <2>1, AskTaken
  <2>4. CASE M.p \in DOMAIN attached \/ (~multi /\ DOMAIN attached # {})
    BY <1>15, <1>b, <2>1, <2>4 DEF HandleVAttach, stub
  <2>5. CASE ~(M.p \in DOMAIN attached \/ (~multi /\ DOMAIN attached # {})) /\ kern[M.p].st = "exited"
    BY <1>15, <1>d, <2>3, <2>5 DEF HandleVAttach, Dies
  <2>6. CASE ~(M.p \in DOMAIN attached \/ (~multi /\ DOMAIN attached # {})) /\ kern[M.p].st # "exited"
    <3>1. loop'.at = "ingest" /\ loop'.for = "attach" /\ UNCHANGED <<gdb, waiting>>
      BY <1>15, <2>2, <2>6, AttachStep
    <3> QED
      BY <1>e, <2>3, <3>1 DEF Ingesting
  <2> QED
    BY <2>4, <2>5, <2>6
<1>16. CASE HandleVCont
  <2>1. Takes(Conts) /\ UNCHANGED gdb
    BY <1>16 DEF HandleVCont, Conts
  <2>2. gdb = "running" /\ waiting = FALSE /\ OnlyInts(inBuf') /\ OnlyInts(inPipe')
    BY <2>1, ContTaken
  <2>3. loop.at = "packets"
    BY <2>1, TakesOne
  <2>4. CASE waiting' = TRUE /\ loop' = loop
    BY <2>1, <2>2, <2>3, <2>4 DEF FloorInv, Serving, Resuming, Ingesting
  <2>5. ASSUME waiting' = waiting, NEW p \in DOMAIN attached, NEW todo \in SUBSET DOMAIN attached,
               Ingest(p, "vcont", todo)
        PROVE  FloorInv'
    <3>1. loop'.at = "ingest" /\ loop'.for = "vcont"
      BY <2>5, IngestStep
    <3> QED
      BY <2>1, <2>2, <2>5, <3>1 DEF FloorInv, Serving, Resuming, Ingesting
  <2> QED
    BY <1>16, <2>4, <2>5, VContStep
<1>17. CASE Wake
  <2>1. /\ inBuf' = inBuf \o inPipe /\ inPipe' = <<>> /\ loop.at = "select" /\ loop'.at = "packets"
        /\ UNCHANGED <<gdb, waiting>>
    BY <1>17 DEF Wake, At, Idle, stub
  <2>2. OnlyInts(<<>>)
    BY DEF OnlyInts
  <2>3. /\ OnlyInts(inBuf) => OnlyInts(inBuf')
        /\ Lone(inBuf, Asks) => Lone(inBuf', Asks)
        /\ Lone(inBuf, Conts) => Lone(inBuf', Conts)
    BY <1>a, <2>1, MoreInts
  <2> QED
    BY <2>1, <2>2, <2>3 DEF FloorInv, Serving, Resuming, Ingesting
<1>18. CASE PacketsDone
  <2>1. /\ loop.at = "packets" /\ UNCHANGED <<gdb, waiting, inPipe>>
        /\ loop'.at \in {"select", "logic"}
    BY <1>18 DEF PacketsDone, At, Idle, stub
  <2>2. CASE inBuf = <<>>
    <3>1. inBuf' = inBuf
      BY <1>18, <2>2 DEF PacketsDone
    <3> QED
      BY <2>1, <3>1 DEF FloorInv, Serving, Resuming, Ingesting
  <2>3. CASE inBuf # <<>>
    <3>1. inBuf' = Tail(inBuf) /\ Head(inBuf).k = "int"
      BY <1>18, <2>3 DEF PacketsDone, M
    <3>2. "int" \notin Asks /\ "int" \notin Conts
      BY DEF Asks, Conts
    <3>3. /\ OnlyInts(inBuf) => OnlyInts(inBuf')
          /\ Lone(inBuf, Asks) => Lone(inBuf', Asks)
          /\ Lone(inBuf, Conts) => Lone(inBuf', Conts)
      BY <1>a, <2>3, <3>1, <3>2, FirstTaken
    <3> QED
      BY <2>1, <3>3 DEF FloorInv, Serving, Resuming, Ingesting
  <2> QED
    BY <2>2, <2>3
\* A step of IngestEvents.
<1>f. ASSUME loop.at \in Ingesting, loop'.at \in Ingesting, loop'.for = loop.for,
             UNCHANGED <<gdb, waiting, inBuf, inPipe>>
      PROVE  FloorInv'
  BY <1>a, <1>f, FloorKept DEF FloorInv, Serving, Resuming, Ingesting
<1>19. CASE IngestEvent
  <2>1. /\ loop.at = "ingest" /\ loop'.for = loop.for /\ loop'.at \in {"arm", "ingest"}
        /\ UNCHANGED <<gdb, waiting, inBuf, inPipe>>
    BY <1>19, IngestEventStep DEF Drains, Applies
  <2> QED
    BY <1>f, <2>1 DEF Ingesting
<1>20. CASE AsyncWait
  <2>1. /\ loop.at = "arm" /\ loop'.for = loop.for /\ loop'.at \in {"armed", "resume"}
        /\ UNCHANGED <<gdb, waiting, inBuf, inPipe>>
    BY <1>20, <1>a DEF AsyncWait, Loop, At, stub
  <2> QED
    BY <1>f, <2>1 DEF Ingesting
<1>21. CASE AsyncWaitSent
  <2>1. /\ loop.at = "armed" /\ loop'.for = loop.for /\ loop'.at = "resume"
        /\ UNCHANGED <<gdb, waiting, inBuf, inPipe>>
    BY <1>21, <1>a DEF AsyncWaitSent, Loop, At
  <2> QED
    BY <1>f, <2>1 DEF Ingesting
<1>22. CASE Resume
  <2>1. loop.at = "resume" /\ UNCHANGED <<gdb, waiting, inBuf, inPipe>>
    BY <1>22, ResumeStep
  <2>2. CASE loop' = [Idle EXCEPT !.at = "dead"]
    <3>1. loop'.at = "dead"
      BY <2>2 DEF Idle
    <3> QED
      BY <1>a, <2>1, <3>1, FloorKept
  <2>3. CASE loop' = [loop EXCEPT !.at = "return"]
    <3>1. loop'.at = "return" /\ loop'.for = loop.for
      BY <1>a, <2>3 DEF Loop
    <3> QED
      BY <1>f, <2>1, <3>1 DEF Ingesting
  <2> QED
    BY <1>22, <2>2, <2>3, ResumeStep
<1>23. CASE AttachReturns
  <2>1. /\ loop.at = "return" /\ loop.for \in {"attach", "launched"} /\ loop.p \in DOMAIN attached
        /\ UNCHANGED <<waiting, inBuf, inPipe>>
    BY <1>23, AttachReturnsStep
  <2>2. gdb = "reply" /\ waiting = FALSE /\ OnlyInts(inBuf)
    BY <1>a, <2>1 DEF FloorInv, Serving, Resuming, Ingesting, Loop
  <2>3. ASSUME Ingest(loop.p, "launched", {}), UNCHANGED gdb PROVE FloorInv'
    <3>1. {} \in SUBSET DOMAIN attached /\ "launched" \in {"launched", "vcont", "logic"}
      OBVIOUS
    <3>2. loop'.at = "ingest" /\ loop'.for = "launched"
      BY <2>1, <2>3, <3>1, IngestStep, Zenon
    <3> QED
      BY <1>a, <1>e, <2>1, <2>2, <2>3, <3>2 DEF Ingesting
  <2>4. ASSUME Respond, loop' = [Idle EXCEPT !.at = "packets"] PROVE FloorInv'
    <3>1. loop'.at = "packets"
      BY <2>4 DEF Idle
    <3> QED
      BY <1>a, <2>1, <2>2, <2>4, <3>1, FloorReturned DEF Ingesting
  <2> QED
    BY <1>23, <2>3, <2>4, AttachReturnsStep
<1>24. CASE VContReturns
  <2>1. /\ loop.at = "return" /\ loop.for = "vcont" /\ loop.p \in DOMAIN attached
        /\ UNCHANGED <<inBuf, inPipe>>
    BY <1>24, VContReturnsStep
  <2>2. gdb = "running" /\ waiting = FALSE /\ OnlyInts(inBuf)
    BY <1>a, <2>1 DEF FloorInv, Serving, Resuming, Ingesting, Loop
  <2>3. ASSUME Respond, waiting' = FALSE, loop' = [Idle EXCEPT !.at = "packets"] PROVE FloorInv'
    <3>1. loop'.at = "packets"
      BY <2>3 DEF Idle
    <3> QED
      BY <1>a, <2>1, <2>2, <2>3, <3>1, FloorReturned DEF Ingesting
  <2>4. ASSUME loop' = [Idle EXCEPT !.at = "dead"], UNCHANGED <<waiting, gdb>> PROVE FloorInv'
    <3>1. loop'.at = "dead"
      BY <2>4 DEF Idle
    <3> QED
      BY <1>a, <2>1, <2>4, <3>1, FloorKept
  <2>5. ASSUME UNCHANGED gdb, waiting' = TRUE, loop' = [Idle EXCEPT !.at = "packets"]
        PROVE  FloorInv'
    <3>1. loop'.at = "packets"
      BY <2>5 DEF Idle
    <3>2. ~Serving' /\ ~Resuming' /\ loop'.at \notin Ingesting
      BY <3>1 DEF Serving, Resuming, Ingesting
    <3> QED
      BY <1>a, <2>1, <2>2, <2>5, <3>1, <3>2 DEF FloorInv
  <2>6. ASSUME UNCHANGED <<gdb, waiting>>, NEW n \in loop.todo, Ingest(n, "vcont", loop.todo \ {n})
        PROVE  FloorInv'
    <3>1. n \in DOMAIN attached /\ loop.todo \ {n} \in SUBSET DOMAIN attached
      BY DEF LoopInv
    <3>2. loop'.at = "ingest" /\ loop'.for = "vcont"
      BY <1>a, <2>6 DEF Ingest, Loop
    <3> QED
      BY <1>f, <2>1, <2>6, <3>2 DEF Ingesting
  <2> QED
    BY <1>24, <2>3, <2>4, <2>5, <2>6, VContReturnsStep
\* The end of Prepare.
<1>g. ASSUME loop.at \in {"logic", "check"}, loop'.at \in {"logic", "check", "select", "dead"},
             UNCHANGED <<gdb, waiting, inBuf, inPipe>>
      PROVE  FloorInv'
  BY <1>a, <1>g, FloorKept DEF Serving, Resuming, Ingesting
<1>25. CASE LogicBreaks
  <2>1. loop.at = "logic" /\ UNCHANGED <<gdb, waiting, inBuf, inPipe>>
    BY <1>25, LogicBreaksStep
  <2>2. loop'.at \in {"check", "dead"}
    BY <1>25, <1>a, LogicBreaksStep DEF Idle, Loop
  <2> QED
    BY <1>g, <2>1, <2>2
<1>26. CASE LogicChecks
  <2>1. loop.at = "check" /\ UNCHANGED <<gdb, waiting, inBuf, inPipe>>
    BY <1>26 DEF LogicChecks, At, stub
  <2>2. CASE waiting /\ attached[loop.p].hasEvents
    <3>1. loop.p \in DOMAIN attached /\ loop.todo \in SUBSET DOMAIN attached
      BY <2>1 DEF LoopInv, Ingesting
    <3>2. Ingest(loop.p, "logic", loop.todo)
      BY <1>26, <2>2 DEF LogicChecks
    <3>3. loop'.at = "ingest" /\ loop'.for = "logic"
      BY <3>1, <3>2, IngestStep
    <3> QED
      BY <1>a, <2>1, <2>2, <3>3, FloorKept DEF Serving, Resuming, Ingesting
  <2>3. CASE ~(waiting /\ attached[loop.p].hasEvents)
    <3>1. loop'.at = "logic"
      BY <1>26, <1>a, <2>3 DEF LogicChecks, Loop
    <3> QED
      BY <1>g, <2>1, <3>1
  <2> QED
    BY <2>2, <2>3
<1>27. CASE LogicReturns
  <2>1. loop.at = "return" /\ loop.for = "logic" /\ loop'.at = "logic" /\ UNCHANGED <<inBuf, inPipe>>
    BY <1>27, <1>a DEF LogicReturns, At, Loop
  <2>2. waiting /\ gdb = "running" /\ OnlyInts(inBuf)
    BY <1>a, <2>1 DEF FloorInv, Ingesting, Loop
  <2>3. CASE loop.stopped
    <3>1. Respond /\ waiting' = FALSE
      BY <1>27, <2>3 DEF LogicReturns, Stop
    <3> QED
      BY <1>a, <2>1, <2>2, <3>1, FloorReturned DEF Ingesting
  <2>4. CASE ~loop.stopped
    <3>1. UNCHANGED <<gdb, waiting>>
      BY <1>27, <2>4 DEF LogicReturns
    <3> QED
      BY <1>a, <2>1, <2>2, <3>1 DEF FloorInv, Serving, Resuming, Ingesting
  <2> QED
    BY <2>3, <2>4
<1>28. CASE LogicDone
  <2>1. /\ loop.at = "logic" /\ loop'.at = "select" /\ UNCHANGED <<gdb, waiting, inBuf, inPipe>>
    BY <1>28 DEF LogicDone, At, Idle, stub
  <2> QED
    BY <1>g, <2>1
<1>29. CASE RemoteCommandAnswered
  <2>1. /\ loop.at = "blocked" /\ loop'.at = "packets" /\ Respond /\ UNCHANGED <<waiting, inBuf, inPipe>>
    BY <1>29 DEF RemoteCommandAnswered, At, Idle, stub
  <2>2. gdb = "reply" /\ waiting = FALSE /\ OnlyInts(inBuf)
    BY <1>a, <2>1 DEF FloorInv, Serving, Resuming, Ingesting, Loop
  <2> QED
    BY <1>a, <2>1, <2>2, FloorReturned DEF Ingesting
<1>30. CASE Perish
  <2>1. gdb = "reply" /\ OnlyInts(inPipe')
    BY <1>30, AskTaken DEF Perish
  <2> QED
    BY <1>30, <1>d, <2>1 DEF Perish, Dies
<1> QED
  BY <1>1, <1>2, <1>4, <1>5, <1>6, <1>7, <1>8, <1>9, <1>10, <1>11, <1>12, <1>13, <1>14,
     <1>15, <1>16, <1>17, <1>18, <1>19, <1>20, <1>21, <1>22, <1>23, <1>24, <1>25, <1>26, <1>27,
     <1>28, <1>29, <1>30, NextCases

-----------------------------------------------------------------------------
(***************************************************************************)
(* Layer 3: with one process, gdb holds the floor only while it is stopped. *)
(***************************************************************************)

\* Multiprocess extensions stay, and attachments are only added.
LEMMA OneProcessKept == TypeInv /\ Next /\ OneProcess' => OneProcess
<1> SUFFICES ASSUME TypeInv, Next, OneProcess' PROVE OneProcess
  OBVIOUS
<1>1. attaches \in Nat
  BY DEF TypeInv
<1>2. /\ multi' = multi \/ multi' = TRUE
      /\ attaches' = attaches \/ attaches' = attaches + 1
  <2>1. CASE Console \/ ClientThread \/ Gdb \/ RemoteCommandAnswered
    BY <2>1 DEF Console, ClientThread, Gdb, RemoteCommandAnswered, WaitFires, KernelEvent, KernelKill,
                CallbackClears, CallbackNotifies, GdbSends, GdbInterrupts, GdbHangsUp, stub
  <2>2. CASE \/ Answers({"plain"}) \/ Answers({"read"}) \/ Writing \/ Choosing \/ Detaching
             \/ Blocking \/ Perish \/ QueryGetSupported \/ QuerySetThreadEvents
    BY <2>2 DEF Answers, Writing, Choosing, Detaching, Blocking, Perish, QueryGetSupported,
                QuerySetThreadEvents, Dies, stub
  <2>3. CASE HandleVAttach \/ HandleVCont \/ Wake \/ PacketsDone
    BY <2>3 DEF HandleVAttach, HandleVCont, Wake, PacketsDone, Dies, stub
  <2>4. CASE IngestEvent \/ AsyncWait \/ AsyncWaitSent \/ Resume
    BY <2>4 DEF IngestEvent, AsyncWait, AsyncWaitSent, Resume, Dies, stub
  <2>5. CASE AttachReturns \/ VContReturns
    BY <2>5 DEF AttachReturns, VContReturns, Dies, stub
  <2>6. CASE LogicBreaks \/ LogicChecks \/ LogicReturns \/ LogicDone
    BY <2>6 DEF LogicBreaks, LogicChecks, LogicReturns, LogicDone, Dies, stub
  <2> QED
    BY <2>1, <2>2, <2>3, <2>4, <2>5, <2>6, NextCases DEF Console, ClientThread, Gdb
<1> QED
  BY <1>1, <1>2 DEF OneProcess

\* A step keeps the process halted.
LEMMA HaltNext == TypeInv /\ LoopInv /\ FloorInv /\ Session /\ HaltInv /\ Next => HaltInv'
<1> SUFFICES ASSUME TypeInv, LoopInv, FloorInv, Session, Halted, Next, OneProcess' PROVE Halted'
  BY OneProcessKept DEF HaltInv
<1>a. /\ loop \in Loop /\ loop.at # "dead" /\ waiting \in BOOLEAN
      /\ DOMAIN attached \in SUBSET Pids /\ attached \in [DOMAIN attached -> Debuggee]
      /\ kern \in [Pids -> Kernel] /\ eventQueue \in [Pids -> Seq(SoundEvent)]
  BY NextCases DEF TypeInv, At
\* The processes stay as they are, and the loop is not in IngestEvents.
<1>b. ASSUME Halted, UNCHANGED <<attached, kern, eventQueue, waiting>>,
             loop' = loop \/ loop'.at \notin Ingesting
      PROVE  Halted'
  BY <1>b DEF Halted, Ingesting
<1>c. [Idle EXCEPT !.at = "dead"].at \notin Ingesting /\ [Idle EXCEPT !.at = "packets"].at \notin Ingesting
      /\ Idle.at \notin Ingesting
  BY DEF Idle, Ingesting
<1>1. CASE UNCHANGED core
  BY <1>1, <1>b DEF core
<1>2. ASSUME NEW p \in Pids, KernelEvent(p) \/ KernelKill(p) PROVE Halted'
  <2>1. /\ Halted /\ UNCHANGED <<attached, waiting, loop, eventQueue>>
        /\ \A d \in Pids \ {p} : kern'[d] = kern[d]
        /\ kern'[p].st \in {"broken", "exited"}
        /\ kern'[p].st = "broken" => kern[p].st = "running"
    BY <1>2, KernelStep
  <2>2. \A d \in DOMAIN attached : kern'[d].st = "running" => kern'[d] = kern[d]
    BY <1>a, <2>1
  <2>3. loop.at \in Ingesting => loop.p \in DOMAIN attached
    BY DEF LoopInv
  <2>4. ASSUME loop.at \in Ingesting \ {"ingest"}, ~loop.stopped
        PROVE  kern'[loop.p].q = <<>> \/ kern'[loop.p].st = "exited" \/ attached[loop.p].running
    <3>1. loop.p \in DOMAIN attached /\ loop.p \in Pids
      BY <1>a, <2>3, <2>4
    <3>2. CASE loop.p # p
      BY <2>1, <2>4, <3>1, <3>2 DEF Halted
    <3>3. CASE loop.p = p
      BY <2>1, <2>4, <3>1, <3>3 DEF Halted
    <3> QED
      BY <3>2, <3>3
  <2> QED
    BY <1>a, <2>1, <2>2, <2>3, <2>4 DEF Halted, Ingesting
<1>4. CASE CallbackNotifies
  <2>1. /\ Halted /\ UNCHANGED <<kern, eventQueue, waiting, loop>>
    BY <1>4 DEF CallbackNotifies, target
  <2>2. /\ DOMAIN attached' = DOMAIN attached
        /\ \A d \in DOMAIN attached : attached'[d].running = attached[d].running
    <3>1. PICK w \in waits : attached' = [p \in DOMAIN attached |->
              IF p = w.p /\ attached[p].gen = w.gen
              THEN [attached[p] EXCEPT !.hasEvents = TRUE] ELSE attached[p]]
      BY <1>4 DEF CallbackNotifies
    <3>2. \A d \in DOMAIN attached : [attached[d] EXCEPT !.hasEvents = TRUE].running = attached[d].running
      BY <1>a DEF Debuggee
    <3> QED
      BY <3>1, <3>2
  <2>3. loop.at \in Ingesting => loop.p \in DOMAIN attached
    BY DEF LoopInv
  <2> QED
    BY <2>1, <2>2, <2>3 DEF Halted, Ingesting
<1>5. CASE GdbSends
  <2>1. Halted /\ UNCHANGED <<attached, kern, eventQueue, waiting>> /\ loop'.at = "packets"
    BY <1>5, <1>a DEF GdbSends, stub, target, Loop
  <2> QED
    BY <1>b, <2>1 DEF Ingesting
<1>6. CASE GdbInterrupts
  BY <1>6, <1>b DEF GdbInterrupts, stub, target
<1>7. CASE GdbHangsUp
  <2>1. DOMAIN attached' = {} /\ loop'.at = "closed"
    BY <1>7, <1>a DEF GdbHangsUp, Loop
  <2> QED
    BY <2>1 DEF Halted, Ingesting
<1>8. CASE Answers({"plain"}) \/ Answers({"read"})
  BY <1>8, <1>b DEF Answers, stub, target
<1>9. CASE Writing
  BY <1>9, <1>b, <1>c DEF Writing, Dies, stub, target
<1>10. CASE Choosing
  BY <1>10, <1>b DEF Choosing, target
<1>11. CASE Detaching
  <2>1. /\ attached' = [p \in DOMAIN attached \ Gone |-> attached[p]] /\ Released(Gone)
        /\ UNCHANGED <<waiting, loop>> /\ Takes({"D"})
    BY <1>11 DEF Detaching
  <2>2. loop.at = "packets"
    BY <2>1, TakesOne
  <2>3. /\ DOMAIN attached' = DOMAIN attached \ Gone
        /\ \A d \in DOMAIN attached' : d \in DOMAIN attached /\ attached'[d] = attached[d]
    BY <2>1
  <2>4. \A d \in DOMAIN attached' : kern'[d] = kern[d] /\ eventQueue'[d] = eventQueue[d]
    BY <1>a, <2>1, <2>3, ReleasedStep
  <2> QED
    BY <2>1, <2>2, <2>3, <2>4 DEF Halted, Ingesting
<1>12. CASE QueryGetSupported
  BY <1>12, <1>b DEF QueryGetSupported, target
<1>13. CASE QuerySetThreadEvents
  BY <1>13, <1>b DEF QuerySetThreadEvents, target
<1>14. CASE Blocking
  <2>1. Halted /\ UNCHANGED <<attached, kern, eventQueue, waiting>> /\ loop'.at = "blocked"
    BY <1>14, <1>a DEF Blocking, stub, target, Loop
  <2> QED
    BY <1>b, <2>1 DEF Ingesting
<1>15. CASE HandleVAttach
  <2>1. M \in Packet /\ M.k = "attach"
    BY <1>15, TakesOne DEF HandleVAttach
  <2>2. CASE M.p \in DOMAIN attached \/ (~multi /\ DOMAIN attached # {})
    BY <1>15, <1>b, <2>2 DEF HandleVAttach, stub, target
  <2>3. CASE ~(M.p \in DOMAIN attached \/ (~multi /\ DOMAIN attached # {})) /\ kern[M.p].st = "exited"
    BY <1>15, <1>b, <1>c, <2>3 DEF HandleVAttach, Dies, stub, target
  <2>4. CASE ~(M.p \in DOMAIN attached \/ (~multi /\ DOMAIN attached # {})) /\ kern[M.p].st # "exited"
    <3>1. /\ DOMAIN attached' = DOMAIN attached \cup {M.p} /\ kern'[M.p].st = "broken"
          /\ attached'[M.p] = [threads |-> {}, running |-> FALSE, hasEvents |-> FALSE,
                               gen |-> attaches + 1]
          /\ loop'.at = "ingest" /\ loop'.p = M.p /\ loop'.for = "attach"
          /\ loop'.was = FALSE /\ loop'.stopped = FALSE
          /\ multi' = multi /\ attaches' = attaches + 1
      BY <1>15, <2>1, <2>4, AttachStep
    <3>2. DOMAIN attached = {}
      <4>1. ASSUME multi PROVE attaches = 0
        BY <3>1, <4>1 DEF OneProcess, TypeInv
      <4> QED
        BY <2>4, <4>1 DEF Session
    <3>3. DOMAIN attached' = {M.p} /\ attached'[M.p].running = FALSE
      BY <3>1, <3>2
    <3> QED
      BY <3>1, <3>3 DEF Halted, Ingesting
  <2> QED
    BY <2>2, <2>3, <2>4
\* IngestEvents begins.
<1>d. ASSUME Halted, NEW p \in DOMAIN attached, NEW for \in {"launched", "vcont", "logic"},
             NEW todo \in SUBSET DOMAIN attached, Ingest(p, for, todo),
             for # "logic" => waiting = FALSE,
             UNCHANGED <<attached, eventQueue, waiting>>,
             \A d \in DOMAIN attached : \/ kern'[d] = kern[d]
                                        \/ kern'[d].st # "running"
      PROVE  Halted'
  <2>1. /\ loop'.at = "ingest" /\ loop'.p = p /\ loop'.for = for
        /\ loop'.was = attached[p].running /\ loop'.stopped = FALSE
    BY <1>d, IngestStep
  <2>2. loop'.for # "logic" => ~loop'.was
    BY <1>d, <2>1 DEF Halted
  <2> QED
    BY <1>d, <2>1, <2>2 DEF Halted, Ingesting
<1>16. CASE HandleVCont
  <2>1. Takes(Conts) /\ UNCHANGED <<attached, kern, eventQueue, multi>>
    BY <1>16, VContStep DEF Conts
  <2>2. waiting = FALSE /\ loop.at = "packets" /\ Halted
    BY <2>1, ContTaken, TakesOne
  <2>3. CASE waiting' = TRUE /\ loop' = loop
    BY <2>1, <2>2, <2>3 DEF Halted, Ingesting
  <2>4. ASSUME waiting' = waiting, NEW p \in DOMAIN attached, NEW todo \in SUBSET DOMAIN attached,
               Ingest(p, "vcont", todo)
        PROVE  Halted'
    BY <1>d, <2>1, <2>2, <2>4
  <2> QED
    BY <1>16, <2>3, <2>4, VContStep
<1>17. CASE Wake
  BY <1>17, <1>b DEF Wake, stub, target, Idle, Ingesting
<1>18. CASE PacketsDone
  <2>1. loop'.at \in {"select", "logic"} /\ Halted /\ UNCHANGED <<attached, kern, eventQueue, waiting>>
    BY <1>18 DEF PacketsDone, stub, target, Idle
  <2> QED
    BY <1>b, <2>1 DEF Ingesting
<1>19. CASE IngestEvent
  <2> DEFINE p == loop.p
  <2>1. /\ loop.at = "ingest" /\ p \in DOMAIN attached /\ p \in Pids /\ Halted
        /\ UNCHANGED waiting
        /\ \A d \in Pids \ {p} : kern'[d] = kern[d] /\ eventQueue'[d] = eventQueue[d]
        /\ kern'[p].st = kern[p].st /\ kern'[p].q = <<>>
        /\ loop'.p = p /\ loop'.for = loop.for /\ loop'.was = loop.was
        /\ Drains \/ Applies(Head(PumpEvents(p)))
    BY <1>19, IngestEventStep
  <2>2. DOMAIN attached = {p}
    BY <2>1 DEF Halted
  <2>3. eventQueue[p] \in Seq(SoundEvent) /\ kern[p].q \in Seq(SoundEvent)
    BY <1>a, <2>1 DEF Kernel
  <2>4. CASE Drains
    <3>1. /\ eventQueue'[p] = <<>> /\ attached' = attached /\ loop'.at = "arm"
          /\ loop'.stopped = loop.stopped
      BY <2>4 DEF Drains
    <3> QED
      BY <2>1, <2>2, <3>1 DEF Halted, Ingesting
  <2>5. CASE Applies(Head(PumpEvents(p)))
    <3>1. PumpEvents(p) # <<>>
      BY <2>5 DEF Applies
    <3>2. ~(eventQueue[p] = <<>> /\ kern[p].q = <<>>)
      BY <2>3, <3>1 DEF PumpEvents
    <3>3. kern[p].st # "running"
      BY <2>1, <3>2 DEF Halted
    <3>4. DOMAIN attached' = DOMAIN attached /\ attached'[p].running = FALSE
      BY <2>5 DEF Applies
    <3>5. \/ loop'.at = "ingest"
          \/ loop'.at = "arm" /\ loop'.stopped
      BY <2>5 DEF Applies
    <3> QED
      BY <2>1, <2>2, <3>3, <3>4, <3>5 DEF Halted, Ingesting
  <2> QED
    BY <2>1, <2>4, <2>5
\* A step of IngestEvents that leaves the processes alone.
<1>e. ASSUME Halted, UNCHANGED <<attached, kern, eventQueue, waiting>>,
             loop.at \in Ingesting \ {"ingest"}, loop'.at \in Ingesting \ {"ingest"},
             loop'.p = loop.p, loop'.for = loop.for, loop'.was = loop.was, loop'.stopped = loop.stopped
      PROVE  Halted'
  BY <1>e DEF Halted
<1>20. CASE AsyncWait
  <2>1. /\ loop.at = "arm" /\ loop'.at \in {"armed", "resume"}
        /\ loop'.p = loop.p /\ loop'.for = loop.for /\ loop'.was = loop.was
        /\ loop'.stopped = loop.stopped
        /\ Halted /\ UNCHANGED <<attached, kern, eventQueue, waiting>>
    BY <1>20, <1>a DEF AsyncWait, Loop, At, stub, target
  <2> QED
    BY <1>e, <2>1 DEF Ingesting
<1>21. CASE AsyncWaitSent
  <2>1. /\ loop.at = "armed" /\ loop'.at = "resume"
        /\ loop'.p = loop.p /\ loop'.for = loop.for /\ loop'.was = loop.was
        /\ loop'.stopped = loop.stopped
        /\ Halted /\ UNCHANGED <<attached, kern, eventQueue, waiting>>
    BY <1>21, <1>a DEF AsyncWaitSent, Loop, At, target
  <2> QED
    BY <1>e, <2>1 DEF Ingesting
<1>22. CASE Resume
  <2> DEFINE p == loop.p
  <2>1. /\ loop.at = "resume" /\ p \in DOMAIN attached /\ p \in Pids /\ Halted
        /\ UNCHANGED <<waiting, eventQueue>>
    BY <1>22, ResumeStep
  <2>2. CASE loop' = [Idle EXCEPT !.at = "dead"] /\ UNCHANGED <<attached, kern>>
    BY <1>b, <1>c, <2>1, <2>2
  <2>3. CASE loop' = [loop EXCEPT !.at = "return"]
    <3>1. /\ loop'.at = "return"  /\ loop'.p = p /\ loop'.for = loop.for /\ loop'.was = loop.was
          /\ loop'.stopped = loop.stopped
      BY <1>a, <2>3 DEF Loop
    <3>2. CASE UNCHANGED <<attached, kern>>
      BY <1>e, <2>1, <3>1, <3>2 DEF Ingesting
    <3>3. CASE ShouldContinue(p) /\ Continue(p)
      <4>1. loop.was /\ ~attached[p].running /\ ~loop.stopped
        BY <3>3 DEF ShouldContinue
      <4>2. loop.for = "logic" /\ waiting
        BY <2>1, <4>1 DEF Halted, FloorInv, Ingesting
      <4>3. /\ kern[p].st \in {"broken", "running"} /\ kern'[p].st = "running"
            /\ kern'[p].q = kern[p].q /\ attached'[p].running = TRUE
            /\ DOMAIN attached' = DOMAIN attached
        BY <2>1, <3>3, ContinueStep
      <4>4. kern[p].q = <<>> /\ eventQueue[p] = <<>>
        BY <2>1, <4>1, <4>3 DEF Halted, Ingesting
      <4>5. DOMAIN attached' = {p}
        BY <2>1, <4>3 DEF Halted
      <4> QED
        BY <2>1, <3>1, <4>1, <4>2, <4>3, <4>4, <4>5 DEF Halted, Ingesting
    <3> QED
      BY <1>22, <2>3, <3>2, <3>3, ResumeStep, <3>1, <1>c
  <2> QED
    BY <1>22, <2>2, <2>3, ResumeStep
<1>23. CASE AttachReturns
  <2>1. /\ loop.at = "return" /\ loop.for \in {"attach", "launched"} /\ loop.p \in DOMAIN attached
        /\ loop.p \in Pids /\ Halted
        /\ UNCHANGED <<attached, waiting, eventQueue>>
    BY <1>23, AttachReturnsStep
  <2>2. waiting = FALSE
    BY <1>a, <2>1 DEF FloorInv, Serving, Resuming, Ingesting, Loop
  <2>3. ASSUME Ingest(loop.p, "launched", {}), LaunchDebugProcess(loop.p) PROVE Halted'
    <3>1. {} \in SUBSET DOMAIN attached /\ "launched" \in {"launched", "vcont", "logic"}
      OBVIOUS
    <3>2. \A d \in DOMAIN attached : kern'[d] = kern[d] \/ kern'[d].st # "running"
      BY <1>a, <2>1, <2>3, LaunchStep
    <3> QED
      BY <1>d, <2>1, <2>2, <2>3, <3>1, <3>2, Zenon
  <2>4. ASSUME loop' = [Idle EXCEPT !.at = "packets"], UNCHANGED kern PROVE Halted'
    BY <1>b, <1>c, <2>1, <2>4
  <2> QED
    BY <1>23, <2>3, <2>4, AttachReturnsStep
<1>24. CASE VContReturns
  <2> DEFINE p == loop.p
  <2>1. /\ loop.at = "return" /\ loop.for = "vcont" /\ p \in DOMAIN attached
        /\ p \in Pids /\ Halted /\ UNCHANGED eventQueue
    BY <1>24, VContReturnsStep
  <2>2. waiting = FALSE
    BY <1>a, <2>1 DEF FloorInv, Serving, Resuming, Ingesting, Loop
  <2>3. DOMAIN attached = {p}
    BY <2>1 DEF Halted
  <2>4. loop.todo = {}
    BY <2>1, <2>3 DEF LoopInv, Ingesting
  <2>5. ASSUME waiting' = FALSE, loop' = [Idle EXCEPT !.at = "packets"], UNCHANGED <<attached, kern>>
        PROVE  Halted'
    BY <1>b, <1>c, <2>1, <2>2, <2>5
  <2>6. ASSUME loop' = [Idle EXCEPT !.at = "dead"], UNCHANGED <<attached, kern, waiting>> PROVE Halted'
    BY <1>b, <1>c, <2>1, <2>6
  <2>7. ASSUME ~loop.stopped, Continue(p), waiting' = TRUE, loop' = [Idle EXCEPT !.at = "packets"]
        PROVE  Halted'
    <3>1. /\ kern[p].st \in {"broken", "running"} /\ kern'[p].st = "running"
          /\ kern'[p].q = kern[p].q /\ attached'[p].running = TRUE
          /\ DOMAIN attached' = DOMAIN attached
      BY <2>1, <2>7, ContinueStep
    <3>2. ~attached[p].running
      BY <2>1, <2>2 DEF Halted
    <3>3. kern[p].q = <<>> /\ eventQueue[p] = <<>>
      BY <2>1, <2>7, <3>1, <3>2 DEF Halted, Ingesting
    <3>4. loop'.at \notin Ingesting
      BY <1>c, <2>7
    <3> QED
      BY <2>1, <2>3, <2>7, <3>1, <3>3, <3>4 DEF Halted, Ingesting
  <2> QED
    BY <1>24, <2>4, <2>5, <2>6, <2>7, VContReturnsStep
<1>25. CASE LogicBreaks
  <2>1. loop.at = "logic" /\ Halted /\ UNCHANGED <<attached, waiting, eventQueue>>
    BY <1>25, LogicBreaksStep
  <2>2. loop'.at \in {"check", "dead"}
    BY <1>25, <1>a, LogicBreaksStep DEF Idle, Loop
  <2>3. \A d \in DOMAIN attached : kern'[d] = kern[d] \/ kern'[d].st # "running"
    BY <1>25, <1>a, LogicBreaksStep
  <2> QED
    BY <2>1, <2>2, <2>3 DEF Halted, Ingesting
<1>26. CASE LogicChecks
  <2>1. loop.at = "check" /\ Halted /\ UNCHANGED <<attached, kern, eventQueue, waiting>>
    BY <1>26 DEF LogicChecks, At, stub, target
  <2>2. CASE waiting /\ attached[loop.p].hasEvents
    <3>1. loop.p \in DOMAIN attached /\ loop.todo \in SUBSET DOMAIN attached
      BY <2>1 DEF LoopInv, Ingesting
    <3>2. Ingest(loop.p, "logic", loop.todo)
      BY <1>26, <2>2 DEF LogicChecks
    <3> QED
      BY <1>d, <2>1, <3>1, <3>2
  <2>3. CASE ~(waiting /\ attached[loop.p].hasEvents)
    <3>1. loop'.at = "logic"
      BY <1>26, <1>a, <2>3 DEF LogicChecks, Loop
    <3> QED
      BY <1>b, <2>1, <3>1 DEF Ingesting
  <2> QED
    BY <2>2, <2>3
<1>27. CASE LogicReturns
  <2>1. /\ loop.at = "return" /\ loop'.at = "logic" /\ Halted
        /\ UNCHANGED <<attached, kern, eventQueue>>
    BY <1>27, <1>a DEF LogicReturns, At, Loop, target
  <2>2. CASE ~loop.stopped
    <3>1. waiting' = waiting
      BY <1>27, <2>2 DEF LogicReturns
    <3> QED
      BY <1>b, <2>1, <3>1 DEF Ingesting
  <2>3. CASE loop.stopped
    <3>1. loop.p \in DOMAIN attached
      BY <2>1 DEF LoopInv, Ingesting
    <3>2. \A d \in DOMAIN attached : d = loop.p /\ ~attached[d].running
      BY <2>1, <2>3, <3>1 DEF Halted, Ingesting
    <3> QED
      BY <2>1, <3>2 DEF Halted, Ingesting
  <2> QED
    BY <2>2, <2>3
<1>28. CASE LogicDone
  BY <1>28, <1>b, <1>c DEF LogicDone, stub, target
<1>29. CASE RemoteCommandAnswered
  BY <1>29, <1>b, <1>c DEF RemoteCommandAnswered, stub, target
<1>30. CASE Perish
  BY <1>30, <1>b, <1>c DEF Perish, Dies, stub, target
<1> QED
  BY <1>1, <1>2, <1>4, <1>5, <1>6, <1>7, <1>8, <1>9, <1>10, <1>11, <1>12, <1>13, <1>14,
     <1>15, <1>16, <1>17, <1>18, <1>19, <1>20, <1>21, <1>22, <1>23, <1>24, <1>25, <1>26, <1>27,
     <1>28, <1>29, <1>30, NextCases

-----------------------------------------------------------------------------
(***************************************************************************)
(* Layer 4: no stale references.                                           *)
(***************************************************************************)

\* There is a last event about a thread, and it decides.
LEMMA KnownMeans ==
  ASSUME NEW ts, NEW q \in Seq(SoundEvent), NEW t \in Tids
  PROVE  /\ About(q, t) = {} => (t \in Known(ts, q) <=> t \in ts)
         /\ About(q, t) # {} => \E i \in About(q, t) : \A j \in About(q, t) : j <= i
         /\ \A i \in About(q, t) : (\A j \in About(q, t) : j <= i) =>
              (t \in Known(ts, q) <=> q[i].type = "AttachThread")
<1> DEFINE A == About(q, t)
           n == Len(q)
<1>1. n \in Nat /\ A \in SUBSET (1..n)
  BY DEF About
<1> HIDE DEF A, n
<1>2. ASSUME A # {} PROVE \E i \in A : \A j \in A : j <= i
  <2> DEFINE S == {n - i : i \in A}
  <2>a. \A i \in A : n - i \in Nat
    BY <1>1
  <2>1. S \in SUBSET Nat /\ S # {}
    BY <1>2, <2>a
  <2>2. Least(S) \in S /\ \A r \in S : Least(S) <= r
    BY <2>1, LeastExists
  <2>3. PICK i \in A : Least(S) = n - i
    BY <2>2
  <2>4. \A j \in A : n - i <= n - j
    BY <2>2, <2>3
  <2>5. \A j \in A : j <= i
    BY <1>1, <2>4
  <2> QED
    BY <2>5
<1>3. ASSUME NEW i \in A, \A j \in A : j <= i PROVE LastAbout(q, t) = i
  <2> DEFINE l == LastAbout(q, t)
  <2>1. l = CHOOSE k \in A : \A j \in A : j <= k
    BY DEF LastAbout, A
  <2> HIDE DEF l
  <2>2. l \in A /\ \A j \in A : j <= l
    BY <1>3, <2>1
  <2>3. l <= i /\ i <= l /\ l \in Nat /\ i \in Nat
    BY <1>1, <1>3, <2>2
  <2> QED
    BY <2>3 DEF l
<1>4. t \in Known(ts, q) <=> IF A = {} THEN t \in ts ELSE q[LastAbout(q, t)].type = "AttachThread"
  BY DEF Known, A
<1> QED
  BY <1>2, <1>3, <1>4 DEF A

\* Without events the threads are the ones known.
LEMMA KnownEmpty ==
  ASSUME NEW ts \in SUBSET Tids
  PROVE  Known(ts, <<>>) = ts
<1>1. ASSUME NEW t \in Tids PROVE t \in Known(ts, <<>>) <=> t \in ts
  <2>1. About(<<>>, t) = {}
    BY DEF About
  <2>2. <<>> \in Seq(SoundEvent)
    OBVIOUS
  <2> QED
    BY <2>1, <2>2, KnownMeans
<1>2. Known(ts, <<>>) \in SUBSET Tids
  BY DEF Known
<1> QED
  BY <1>1, <1>2

\* One more event.
LEMMA KnownAppend ==
  ASSUME NEW ts, NEW q \in Seq(SoundEvent), NEW e \in SoundEvent
  PROVE  Known(ts, Append(q, e)) = ThreadsAfter(Known(ts, q), e)
<1> DEFINE u == Append(q, e)
           n == Len(q) + 1
           K == Known(ts, q)
<1>1. /\ u \in Seq(SoundEvent) /\ DOMAIN u = 1..n /\ DOMAIN q = 1..Len(q) /\ Len(q) \in Nat
      /\ u[n] = e /\ n \in 1..n
      /\ \A i \in 1..Len(q) : u[i] = q[i] /\ i \in 1..n
      /\ \A i \in 1..n : i <= n /\ (i # n => i \in 1..Len(q))
  OBVIOUS
<1> HIDE DEF u, n
<1>2. K \in SUBSET Tids /\ Known(ts, u) \in SUBSET Tids
  BY DEF Known
<1>3. e.type \in {"AttachThread", "ExitThread"} => e.thread \in Tids
  BY DEF SoundEvent, Sound
<1>4. ASSUME NEW t \in Tids PROVE t \in Known(ts, u) <=> t \in ThreadsAfter(K, e)
  <2>1. CASE e.type \in {"AttachThread", "ExitThread"} /\ e.thread = t
    <3>1. n \in About(u, t) /\ \A j \in About(u, t) : j <= n
      BY <1>1, <2>1 DEF About
    <3>2. t \in Known(ts, u) <=> u[n].type = "AttachThread"
      BY <1>1, <3>1, KnownMeans
    <3> QED
      BY <1>1, <2>1, <3>2 DEF ThreadsAfter
  <2>2. CASE ~(e.type \in {"AttachThread", "ExitThread"} /\ e.thread = t)
    <3>1. About(u, t) = About(q, t) /\ \A i \in About(q, t) : u[i] = q[i]
      BY <1>1, <2>2 DEF About
    <3>2. t \in Known(ts, u) <=> t \in K
      <4>1. CASE About(q, t) = {}
        BY <1>1, <3>1, <4>1, KnownMeans
      <4>2. CASE About(q, t) # {}
        <5>1. PICK i \in About(q, t) : \A j \in About(q, t) : j <= i
          BY <4>2, KnownMeans
        <5>2. t \in K <=> q[i].type = "AttachThread"
          BY <5>1, KnownMeans
        <5>3. t \in Known(ts, u) <=> u[i].type = "AttachThread"
          BY <1>1, <3>1, <5>1, KnownMeans
        <5> QED
          BY <3>1, <5>2, <5>3
      <4> QED
        BY <4>1, <4>2
    <3>3. t \in ThreadsAfter(K, e) <=> t \in K
      BY <2>2 DEF ThreadsAfter
    <3> QED
      BY <3>2, <3>3
  <2> QED
    BY <2>1, <2>2
<1>5. ThreadsAfter(K, e) \in SUBSET Tids
  BY <1>2, <1>3 DEF ThreadsAfter
<1> QED
  BY <1>2, <1>4, <1>5 DEF u

\* The first event is applied.
LEMMA KnownTail ==
  ASSUME NEW ts, NEW q \in Seq(SoundEvent), q # <<>>
  PROVE  Known(ThreadsAfter(ts, Head(q)), Tail(q)) = Known(ts, q)
<1> DEFINE e == Head(q)
           u == Tail(q)
           us == ThreadsAfter(ts, e)
<1>1. /\ u \in Seq(SoundEvent) /\ Len(q) \in Nat \ {0} /\ Len(u) = Len(q) - 1
      /\ DOMAIN q = 1..Len(q) /\ DOMAIN u = 1..Len(u) /\ e = q[1] /\ e \in SoundEvent
      /\ \A i \in 1..Len(u) : i + 1 \in 1..Len(q) /\ u[i] = q[i + 1]
  OBVIOUS
<1>2. \A i \in 1..Len(q) : i # 1 => i - 1 \in 1..Len(u) /\ (i - 1) + 1 = i
  BY <1>1
<1> HIDE DEF e, u
<1>3. ASSUME NEW t \in Tids PROVE t \in Known(us, u) <=> t \in Known(ts, q)
  <2>1. \A i \in About(u, t) : i \in 1..Len(u) /\ i + 1 \in About(q, t)
    BY <1>1 DEF About
  <2>2. \A i \in About(q, t) : i \in 1..Len(q) /\ (i # 1 => i - 1 \in About(u, t))
    BY <1>1, <1>2 DEF About
  <2>3. CASE About(u, t) # {}
    <3>1. PICK i \in About(u, t) : \A j \in About(u, t) : j <= i
      BY <1>1, <2>3, KnownMeans
    <3>2. \A j \in About(q, t) : j <= i + 1
      BY <1>1, <2>1, <2>2, <3>1
    <3> DEFINE k == i + 1
    <3>3. k \in About(q, t) /\ (\A j \in About(q, t) : j <= k) /\ u[i] = q[k]
      BY <1>1, <2>1, <3>2
    <3> HIDE DEF k
    <3>4. t \in Known(us, u) <=> u[i].type = "AttachThread"
      BY <1>1, <3>1, KnownMeans
    <3>5. t \in Known(ts, q) <=> q[k].type = "AttachThread"
      BY <3>3, KnownMeans
    <3> QED
      BY <3>3, <3>4, <3>5
  <2>4. CASE About(u, t) = {}
    <3>1. t \in Known(us, u) <=> t \in us
      BY <1>1, <2>4, KnownMeans
    <3>2. \A i \in About(q, t) : i = 1
      BY <2>2, <2>4
    <3>3. CASE About(q, t) = {}
      <4>1. ~(e.type \in {"AttachThread", "ExitThread"} /\ e.thread = t)
        BY <1>1, <3>3 DEF About
      <4>2. t \in us <=> t \in ts
        BY <4>1 DEF ThreadsAfter
      <4>3. t \in Known(ts, q) <=> t \in ts
        BY <3>3, KnownMeans
      <4> QED
        BY <3>1, <4>2, <4>3
    <3>4. CASE About(q, t) # {}
      <4>1. 1 \in About(q, t) /\ \A j \in About(q, t) : j <= 1
        BY <3>2, <3>4
      <4>2. t \in Known(ts, q) <=> q[1].type = "AttachThread"
        BY <4>1, KnownMeans
      <4>3. e.type \in {"AttachThread", "ExitThread"} /\ e.thread = t
        BY <1>1, <4>1 DEF About
      <4>4. t \in us <=> e.type = "AttachThread"
        BY <4>3 DEF ThreadsAfter
      <4> QED
        BY <1>1, <3>1, <4>2, <4>4
    <3> QED
      BY <3>3, <3>4
  <2> QED
    BY <2>3, <2>4
<1>4. Known(us, u) \in SUBSET Tids /\ Known(ts, q) \in SUBSET Tids
  BY DEF Known
<1> QED
  BY <1>3, <1>4 DEF e, u

\* A sequence between two events.
Framed(q, a, b, c) ==
  /\ Len(q) = Len(b) + 2 /\ DOMAIN q = 1..(Len(b) + 2)
  /\ q[1] = a[1] /\ q[Len(b) + 2] = c[1]
  /\ \A i \in 1..Len(b) : q[i + 1] = b[i]

\* Putting events around a sequence frames it.
LEMMA Between ==
  ASSUME NEW S, NEW a \in Seq(S), NEW b \in Seq(S), NEW c \in Seq(S), Len(a) = 1, Len(c) = 1
  PROVE  Framed(a \o b \o c, a, b, c)
<1> DEFINE n == Len(b)
           u == a \o b
           q == u \o c
<1>1. n \in Nat
  OBVIOUS
<1>2. /\ u \in Seq(S) /\ Len(u) = 1 + n
      /\ \A i \in 1..(1 + n) : u[i] = IF i <= 1 THEN a[i] ELSE b[i - 1]
  <2>1. /\ u \in Seq(S) /\ Len(u) = Len(a) + Len(b)
        /\ \A i \in 1..(Len(a) + Len(b)) : u[i] = IF i <= Len(a) THEN a[i] ELSE b[i - Len(a)]
    BY ConcatProperties, Zenon
  <2> HIDE DEF u
  <2> QED
    BY <2>1
<1> HIDE DEF u, n
<1>3. /\ q \in Seq(S) /\ Len(q) = (1 + n) + 1
      /\ \A i \in 1..((1 + n) + 1) : q[i] = IF i <= 1 + n THEN u[i] ELSE c[i - (1 + n)]
  <2>1. /\ q \in Seq(S) /\ Len(q) = Len(u) + Len(c)
        /\ \A i \in 1..(Len(u) + Len(c)) : q[i] = IF i <= Len(u) THEN u[i] ELSE c[i - Len(u)]
    BY <1>2, ConcatProperties, Zenon
  <2> HIDE DEF q
  <2> QED
    BY <1>1, <1>2, <2>1
<1> HIDE DEF q
<1>4. Len(q) = n + 2 /\ DOMAIN q = 1..(n + 2)
  BY <1>1, <1>3
<1>5. q[1] = a[1]
  BY <1>1, <1>2, <1>3
<1>6. q[n + 2] = c[1]
  <2>1. n + 2 \in 1..((1 + n) + 1) /\ ~(n + 2 <= 1 + n) /\ (n + 2) - (1 + n) = 1
    BY <1>1
  <2> QED
    BY <1>3, <2>1
<1>7. ASSUME NEW i \in 1..n PROVE q[i + 1] = b[i]
  <2>1. /\ i + 1 \in 1..((1 + n) + 1) /\ i + 1 <= 1 + n /\ i + 1 \in 1..(1 + n)
        /\ ~(i + 1 <= 1) /\ (i + 1) - 1 = i
    BY <1>1
  <2> QED
    BY <1>2, <1>3, <2>1
<1> QED
  BY <1>4, <1>5, <1>6, <1>7 DEF q, u, n, Framed

\* The events that describe a process announce its threads.
LEMMA KnownAttach ==
  ASSUME NEW live \in SUBSET Tids
  PROVE  Known({}, AttachEvents(live)) = live
<1> DEFINE n == Cardinality(live)
           threads == [i \in 1..n |-> Occurred(<<"AttachThread", Nth(live, i)>>)]
           head == <<Occurred(<<"AttachProcess", 0>>)>>
           brk == <<Occurred(<<"Exception", 0>>)>>
           q == AttachEvents(live)
<1>1. live \in SUBSET Nat /\ IsFiniteSet(live)
  BY GdbAssumption, FS_Subset
<1>2. /\ n \in Nat /\ \A i \in 1..n : Nth(live, i) \in live
      /\ \A t \in live : \E i \in 1..n : Nth(live, i) = t
  BY <1>1, NthEnumerates
<1>3. q \in Seq(SoundEvent)
  BY AttachEventsSound
<1>4. q = head \o threads \o brk
  BY DEF AttachEvents
<1> HIDE DEF n, q
<1>5. /\ DOMAIN threads = 1..n
      /\ \A i \in 1..n : threads[i] = [type |-> "AttachThread", thread |-> Nth(live, i)]
  BY DEF Occurred
<1>6. threads \in Seq(SoundEvent) /\ Len(threads) = n
  <2>1. \A t \in Tids : [type |-> "AttachThread", thread |-> t] \in SoundEvent
    BY DEF SoundEvent, Sound, Event
  <2>2. threads \in [1..n -> SoundEvent]
    BY <1>2, <1>5, <2>1
  <2> HIDE DEF threads
  <2>3. threads \in Seq(SoundEvent)
    BY <1>2, <2>2, SeqDef
  <2>4. Len(threads) \in Nat /\ DOMAIN threads = 1..Len(threads)
    BY <2>3
  <2> QED
    BY <1>2, <1>5, <2>3, <2>4
<1>7. /\ DOMAIN q = 1..(n + 2)
      /\ \A i \in 1..(n + 2) :
           \/ i - 1 \in 1..n /\ q[i].type = "AttachThread" /\ q[i].thread = Nth(live, i - 1)
           \/ q[i].type \in {"AttachProcess", "Exception"}
      /\ \A i \in 1..n : i + 1 \in 1..(n + 2) /\ q[i + 1] = threads[i]
  <2>1. /\ head[1].type = "AttachProcess" /\ brk[1].type = "Exception"
        /\ Len(head) = 1 /\ Len(brk) = 1 /\ head \in Seq(SoundEvent) /\ brk \in Seq(SoundEvent)
    BY DEF Occurred, SoundEvent, Sound, Event
  <2> HIDE DEF head, brk, threads
  <2>2. /\ Len(q) = n + 2 /\ DOMAIN q = 1..(n + 2)
        /\ q[1] = head[1] /\ q[n + 2] = brk[1]
        /\ \A i \in 1..n : q[i + 1] = threads[i]
    <3>1. Framed(head \o threads \o brk, head, threads, brk)
      BY <1>6, <2>1, Between
    <3> QED
      BY <1>4, <1>6, <3>1 DEF Framed
  <2>3. \A i \in 1..(n + 2) : i = 1 \/ i = n + 2 \/ (i - 1 \in 1..n /\ (i - 1) + 1 = i)
    BY <1>2
  <2>4. \A i \in 1..n : i + 1 \in 1..(n + 2)
    BY <1>2
  <2>5. \A i \in 1..n : q[i + 1].type = "AttachThread" /\ q[i + 1].thread = Nth(live, i)
    BY <1>5, <2>2
  <2>6. ASSUME NEW i \in 1..(n + 2)
        PROVE  \/ i - 1 \in 1..n /\ q[i].type = "AttachThread" /\ q[i].thread = Nth(live, i - 1)
               \/ q[i].type \in {"AttachProcess", "Exception"}
    <3>1. CASE i = 1 \/ i = n + 2
      BY <2>1, <2>2, <3>1
    <3>2. CASE i - 1 \in 1..n /\ (i - 1) + 1 = i
      BY <2>5, <3>2
    <3> QED
      BY <2>3, <3>1, <3>2
  <2> QED
    BY <2>2, <2>4, <2>6
<1>8. ASSUME NEW t \in Tids PROVE t \in Known({}, q) <=> t \in live
  <2>1. \A i \in About(q, t) : i - 1 \in 1..n /\ q[i].type = "AttachThread" /\ Nth(live, i - 1) = t
    BY <1>7 DEF About
  <2>2. CASE t \in live
    <3>1. PICK i \in 1..n : Nth(live, i) = t
      BY <1>2, <2>2
    <3>2. i + 1 \in About(q, t)
      <4> DEFINE k == i + 1
      <4>1. k \in DOMAIN q /\ q[k] = [type |-> "AttachThread", thread |-> t]
        BY <1>5, <1>7, <3>1
      <4>2. q[k].type = "AttachThread" /\ q[k].thread = t
        BY <4>1
      <4> HIDE DEF k
      <4> QED
        BY <4>1, <4>2 DEF About, k
    <3>3. PICK j \in About(q, t) : \A k \in About(q, t) : k <= j
      BY <1>3, <3>2, KnownMeans
    <3> QED
      BY <1>3, <2>1, <2>2, <3>3, KnownMeans
  <2>3. CASE t \notin live
    <3>1. About(q, t) = {}
      BY <1>2, <2>1, <2>3
    <3> QED
      BY <1>3, <2>3, <3>1, KnownMeans
  <2> QED
    BY <2>2, <2>3
<1>9. Known({}, q) \in SUBSET Tids
  BY DEF Known
<1> QED
  BY <1>8, <1>9 DEF q

\* What is queued, with one event more.
LEMMA PumpAppend ==
  ASSUME NEW S, NEW s \in Seq(S), NEW q \in Seq(S), NEW e \in S
  PROVE  s \o Append(q, e) = Append(s \o q, e)
<1>1. <<e>> \in Seq(S) /\ Append(q, e) = q \o <<e>>
  BY AppendIsConcat
<1>2. s \o (q \o <<e>>) = (s \o q) \o <<e>>
  BY <1>1, ConcatAssociative
<1>3. s \o q \in Seq(S)
  BY ConcatProperties
<1>4. Append(s \o q, e) = (s \o q) \o <<e>>
  BY <1>3, AppendIsConcat
<1> QED
  BY <1>1, <1>2, <1>4

\* A process whose threads and events stay is as well known as before, and
\* so is one that produces an event.
LEMMA StillTold ==
  ASSUME TypeInv, NEW p \in DOMAIN attached, Told(p),
         attached'[p].threads = attached[p].threads, eventQueue'[p] = eventQueue[p],
         \/ kern'[p].q = kern[p].q /\ kern'[p].live = kern[p].live
         \/ \E e \in SoundEvent : /\ kern'[p].q = Append(kern[p].q, e)
                                  /\ kern'[p].live = ThreadsAfter(kern[p].live, e)
         \/ \E e, f \in SoundEvent :
              /\ kern'[p].q = Append(Append(kern[p].q, e), f)
              /\ kern'[p].live = ThreadsAfter(ThreadsAfter(kern[p].live, e), f)
  PROVE  Told(p)'
<1> DEFINE ts == attached[p].threads
           s == eventQueue[p]
           q == kern[p].q
<1>1. s \in Seq(SoundEvent) /\ q \in Seq(SoundEvent)
  BY DEF TypeInv, Kernel
<1>2. Known(ts, s \o q) = kern[p].live
  BY DEF Told, PumpEvents
<1>3. SUFFICES Known(ts, s \o kern'[p].q) = kern'[p].live
  BY <1>3 DEF Told, PumpEvents
<1>4. s \o q \in Seq(SoundEvent)
  BY <1>1, ConcatProperties
<1> HIDE DEF ts, s, q
<1>5. CASE kern'[p].q = kern[p].q /\ kern'[p].live = kern[p].live
  BY <1>2, <1>5 DEF q
<1>6. ASSUME NEW e \in SoundEvent, kern'[p].q = Append(kern[p].q, e),
             kern'[p].live = ThreadsAfter(kern[p].live, e)
      PROVE  Known(ts, s \o kern'[p].q) = kern'[p].live
  <2>1. s \o Append(q, e) = Append(s \o q, e)
    BY <1>1, PumpAppend
  <2>2. Known(ts, Append(s \o q, e)) = ThreadsAfter(Known(ts, s \o q), e)
    BY <1>4, KnownAppend
  <2> QED
    BY <1>2, <1>6, <2>1, <2>2 DEF q
<1>7. ASSUME NEW e \in SoundEvent, NEW f \in SoundEvent,
             kern'[p].q = Append(Append(kern[p].q, e), f),
             kern'[p].live = ThreadsAfter(ThreadsAfter(kern[p].live, e), f)
      PROVE  Known(ts, s \o kern'[p].q) = kern'[p].live
  <2>1. Append(q, e) \in Seq(SoundEvent)
    BY <1>1
  <2>2. s \o Append(q, e) = Append(s \o q, e)
    BY <1>1, PumpAppend
  <2>3. s \o Append(Append(q, e), f) = Append(Append(s \o q, e), f)
    BY <1>1, <2>1, <2>2, PumpAppend
  <2>4. Append(s \o q, e) \in Seq(SoundEvent)
    BY <1>4
  <2>5. Known(ts, Append(s \o q, e)) = ThreadsAfter(Known(ts, s \o q), e)
    BY <1>4, KnownAppend
  <2>6. Known(ts, Append(Append(s \o q, e), f)) = ThreadsAfter(Known(ts, Append(s \o q, e)), f)
    BY <2>4, KnownAppend
  <2> QED
    BY <1>2, <1>7, <2>3, <2>5, <2>6 DEF q
<1> QED
  BY <1>5, <1>6, <1>7

\* A step leaves no stale reference.
LEMMA ThreadNext == TypeInv /\ LoopInv /\ ThreadInv /\ Next => ThreadInv'
<1> SUFFICES ASSUME TypeInv, LoopInv, ThreadInv, Next PROVE ThreadInv'
  OBVIOUS
<1>a. /\ loop \in Loop
      /\ DOMAIN attached \in SUBSET Pids /\ attached \in [DOMAIN attached -> Debuggee]
      /\ kern \in [Pids -> Kernel] /\ eventQueue \in [Pids -> Seq(SoundEvent)]
      /\ DOMAIN attached \in SUBSET Nat
  BY GdbAssumption DEF TypeInv
\* Only the processes' own state, their queues or their flags change.
<1>b. ASSUME UNCHANGED <<current, reason>>, DOMAIN attached' = DOMAIN attached,
             \A d \in DOMAIN attached : /\ attached'[d].threads = attached[d].threads
                                        /\ Told(d)'
             ,
             \A d \in Pids \ DOMAIN attached : kern'[d] = kern[d]
      PROVE  ThreadInv'
  BY <1>b DEF ThreadInv
\* Nothing of it changes.
<1>c. ASSUME UNCHANGED <<current, reason, attached, kern, eventQueue>> PROVE ThreadInv'
  BY <1>c DEF ThreadInv, Told, PumpEvents
<1>1. CASE UNCHANGED core
  BY <1>1, <1>c DEF core
<1>2. ASSUME NEW p \in Pids, KernelEvent(p) \/ KernelKill(p) PROVE ThreadInv'
  <2>1. /\ UNCHANGED <<attached, current, reason, eventQueue>>
        /\ kern[p].st \in {"running", "broken"}
        /\ \A d \in Pids \ {p} : kern'[d] = kern[d]
        /\ \/ \E e \in SoundEvent :
                 /\ kern'[p].q = Append(kern[p].q, e)
                 /\ kern'[p].live = ThreadsAfter(kern[p].live, e)
           \/ \E e, f \in SoundEvent :
                 /\ kern'[p].q = Append(Append(kern[p].q, e), f)
                 /\ kern'[p].live = ThreadsAfter(ThreadsAfter(kern[p].live, e), f)
    BY <1>2, KernelStep
  <2>2. p \in DOMAIN attached
    BY <2>1 DEF ThreadInv
  <2>3. ASSUME NEW d \in DOMAIN attached PROVE Told(d)'
    <3>1. Told(d) /\ d \in Pids
      BY <1>a DEF ThreadInv
    <3>2. CASE d = p
      BY <2>1, <3>1, <3>2, StillTold
    <3>3. CASE d # p
      BY <2>1, <3>1, <3>3, StillTold
    <3> QED
      BY <3>2, <3>3
  <2> QED
    BY <1>b, <2>1, <2>2, <2>3
<1>4. CASE CallbackNotifies
  <2>1. PICK w \in waits : attached' = [p \in DOMAIN attached |->
            IF p = w.p /\ attached[p].gen = w.gen
            THEN [attached[p] EXCEPT !.hasEvents = TRUE] ELSE attached[p]]
    BY <1>4 DEF CallbackNotifies
  <2>2. \A d \in DOMAIN attached : [attached[d] EXCEPT !.hasEvents = TRUE].threads = attached[d].threads
    BY <1>a DEF Debuggee
  <2>3. /\ DOMAIN attached' = DOMAIN attached
        /\ \A d \in DOMAIN attached : attached'[d].threads = attached[d].threads
    BY <2>1, <2>2
  <2>4. UNCHANGED <<current, reason, kern, eventQueue>>
    BY <1>4 DEF CallbackNotifies, target
  <2>5. ASSUME NEW d \in DOMAIN attached PROVE Told(d)'
    BY <2>3, <2>4, StillTold DEF ThreadInv
  <2> QED
    BY <1>b, <2>3, <2>4, <2>5
<1>5. CASE GdbSends
  BY <1>5, <1>c DEF GdbSends, stub, target
<1>6. CASE GdbInterrupts
  BY <1>6, <1>c DEF GdbInterrupts, stub, target
\* The debugger objects of some processes go away.
<1>d. ASSUME NEW ps, Released(ps), attached' = [p \in DOMAIN attached \ ps |-> attached[p]],
             reason' = <<>>,
             current' = <<>> \/ (current' = current /\ (current[2] = 0 \/ current[1] \notin ps))
      PROVE  ThreadInv'
  <2>1. \A d \in Pids : IF d \in ps
              THEN kern'[d].st \in {"free", "exited"} /\ kern'[d].q = <<>>
              ELSE kern'[d] = kern[d] /\ eventQueue'[d] = eventQueue[d]
    BY <1>d, ReleasedStep
  <2>2. /\ DOMAIN attached' = DOMAIN attached \ ps
        /\ \A d \in DOMAIN attached \ ps : attached'[d] = attached[d]
    BY <1>d
  <2>3. ASSUME NEW d \in DOMAIN attached \ ps PROVE Told(d)'
    <3>1. d \in Pids /\ Told(d)
      BY <1>a DEF ThreadInv
    <3> QED
      BY <2>1, <2>2, <3>1, StillTold
  <2>4. \A d \in Pids \ DOMAIN attached' : kern'[d].st \in {"free", "exited"} /\ kern'[d].q = <<>>
    BY <2>1, <2>2 DEF ThreadInv
  <2>5. current' # <<>> /\ current'[2] # 0 =>
           /\ current'[1] \in DOMAIN attached'
           /\ current'[2] \in attached'[current'[1]].threads
    BY <1>d, <2>2 DEF ThreadInv
  <2> QED
    BY <1>d, <2>2, <2>3, <2>4, <2>5 DEF ThreadInv
<1>7. CASE GdbHangsUp
  <2>1. /\ Released(DOMAIN attached) /\ attached' = [p \in {} |-> {}]
        /\ reason' = <<>> /\ current' = <<>>
    BY <1>7 DEF GdbHangsUp
  <2>2. DOMAIN attached' = {}
    BY <2>1
  <2>3. \A d \in Pids : kern'[d].st \in {"free", "exited"} /\ kern'[d].q = <<>>
    BY <1>a, <2>1, ReleasedStep DEF ThreadInv
  <2> QED
    BY <2>1, <2>2, <2>3 DEF ThreadInv
<1>8. CASE Answers({"plain"}) \/ Answers({"read"})
  BY <1>8, <1>c DEF Answers, stub, target
<1>9. CASE Writing
  BY <1>9, <1>c DEF Writing, Dies, stub, target
<1>10. CASE Choosing
  <2>1. /\ \E p \in Names(M) : current' = Selected(p, M.t)
        /\ UNCHANGED <<attached, reason, kern, eventQueue>>
    BY <1>10 DEF Choosing, target
  <2>2. PICK p \in Names(M) : current' = Selected(p, M.t)
    BY <2>1
  <2>3. M \in Packet /\ M.k = "H"
    BY <1>10, TakesOne DEF Choosing
  <2>4. M.t \in Tids \cup {0}
    BY <2>3 DEF Packet
  <2>5. CASE current' = current
    BY <1>c, <2>1, <2>5
  <2>6. CASE current' # current
    <3> DEFINE ts == attached[p].threads
               t == IF M.t = 0 /\ ts # {} THEN Least(ts) ELSE M.t
    <3>1. p \in DOMAIN attached /\ (M.t = 0 \/ M.t \in ts) /\ current' = <<p, t>>
      BY <2>2, <2>6 DEF Selected
    <3>2. ts \in SUBSET Tids /\ ts \in SUBSET Nat /\ 0 \notin Tids
      BY <1>a, <3>1, GdbAssumption DEF Debuggee
    <3>3. t = 0 \/ t \in ts
      BY <3>1, <3>2, LeastExists
    <3> HIDE DEF ts, t
    <3>4. current' \in Pids \X (Tids \cup {0}) /\ current'[1] = p /\ current'[2] = t
      BY <1>a, <3>1, <3>2, <3>3
    <3>5. \A d \in DOMAIN attached : Told(d)'
      BY <2>1 DEF ThreadInv, Told, PumpEvents
    <3> QED
      BY <2>1, <3>1, <3>3, <3>4, <3>5 DEF ThreadInv, ts
  <2> QED
    BY <2>5, <2>6
<1>11. CASE Detaching
  BY <1>11, <1>d DEF Detaching
<1>12. CASE QueryGetSupported
  BY <1>12, <1>c DEF QueryGetSupported, target
<1>13. CASE QuerySetThreadEvents
  BY <1>13, <1>c DEF QuerySetThreadEvents, target
<1>14. CASE Blocking
  BY <1>14, <1>c DEF Blocking, stub, target
<1>15. CASE HandleVAttach
  <2>1. M \in Packet /\ M.k = "attach"
    BY <1>15, TakesOne DEF HandleVAttach
  <2>2. CASE M.p \in DOMAIN attached \/ (~multi /\ DOMAIN attached # {})
    BY <1>15, <1>c, <2>2 DEF HandleVAttach, stub, target
  <2>3. CASE ~(M.p \in DOMAIN attached \/ (~multi /\ DOMAIN attached # {})) /\ kern[M.p].st = "exited"
    BY <1>15, <1>c, <2>3 DEF HandleVAttach, Dies, stub, target
  <2>4. CASE ~(M.p \in DOMAIN attached \/ (~multi /\ DOMAIN attached # {})) /\ kern[M.p].st # "exited"
    <3>0. PICK p \in Pids : p = M.p
      BY <1>15, <2>1, <2>4, AttachStep
    <3>1. /\ DOMAIN attached' = DOMAIN attached \cup {p}
          /\ \A d \in Pids \ {p} : kern'[d] = kern[d] /\ eventQueue'[d] = eventQueue[d]
          /\ kern'[p].q = kern[p].q /\ kern'[p].live = kern[p].live
          /\ eventQueue'[p] = AttachEvents(kern[p].live)
          /\ \A d \in DOMAIN attached : attached'[d] = attached[d]
          /\ attached'[p] = [threads |-> {}, running |-> FALSE, hasEvents |-> FALSE,
                             gen |-> attaches + 1]
          /\ UNCHANGED <<current, reason>>
      BY <1>15, <2>1, <2>4, <3>0, AttachStep
    <3>2. attached'[p].threads = {} /\ p \notin DOMAIN attached
      BY <2>4, <3>0, <3>1
    <3>3. kern[p].q = <<>> /\ kern[p].live \in SUBSET Tids
      BY <1>a, <3>1, <3>2 DEF ThreadInv, Kernel
    <3>4. Told(p)'
      <4> DEFINE q == AttachEvents(kern[p].live)
      <4>1. q \in Seq(SoundEvent)
        BY <3>3, AttachEventsSound
      <4>2. Known({}, q) = kern[p].live
        BY <3>3, KnownAttach
      <4> HIDE DEF q
      <4>3. q \o <<>> = q
        BY <4>1
      <4> QED
        BY <3>1, <3>2, <3>3, <4>2, <4>3 DEF Told, PumpEvents, q
    <3>5. ASSUME NEW d \in DOMAIN attached PROVE Told(d)'
      <4>1. d \in Pids \ {p} /\ Told(d)
        BY <1>a, <3>2 DEF ThreadInv
      <4> QED
        BY <3>1, <4>1, StillTold
    <3> QED
      BY <1>a, <3>1, <3>4, <3>5 DEF ThreadInv
  <2> QED
    BY <2>2, <2>3, <2>4
<1>16. CASE HandleVCont
  BY <1>16, <1>c, VContStep
<1>17. CASE Wake
  BY <1>17, <1>c DEF Wake, stub, target
<1>18. CASE PacketsDone
  BY <1>18, <1>c DEF PacketsDone, stub, target
<1>19. CASE IngestEvent
  <2>0. PICK p \in Pids : p = loop.p
    BY <1>19, IngestEventStep
  <2> DEFINE all == PumpEvents(p)
             e == Head(all)
  <2>1. /\ p \in DOMAIN attached /\ all \in Seq(SoundEvent)
        /\ \A d \in Pids \ {p} : kern'[d] = kern[d] /\ eventQueue'[d] = eventQueue[d]
        /\ kern'[p].live = kern[p].live /\ kern'[p].q = <<>>
        /\ Drains \/ Applies(e)
    BY <1>19, <2>0, IngestEventStep
  <2>2. Known(attached[p].threads, all) = kern[p].live
    BY <2>1 DEF ThreadInv, Told
  <2>3. \A d \in Pids \ DOMAIN attached : kern'[d] = kern[d]
    BY <2>1
  <2>4. CASE Drains
    <3>1. /\ all = <<>> /\ eventQueue'[p] = <<>> /\ UNCHANGED <<attached, current, reason>>
      BY <2>0, <2>4 DEF Drains
    <3>2. <<>> \o <<>> = <<>>
      OBVIOUS
    <3>3. Told(p)'
      BY <2>1, <2>2, <3>1, <3>2 DEF Told, PumpEvents
    <3>4. ASSUME NEW d \in DOMAIN attached PROVE Told(d)'
      <4>1. d \in Pids /\ Told(d)
        BY <1>a DEF ThreadInv
      <4>2. CASE d # p
        BY <2>1, <3>1, <4>1, <4>2, StillTold
      <4> QED
        BY <3>3, <4>2
    <3> QED
      BY <1>b, <2>3, <3>1, <3>4
  <2>5. CASE Applies(e)
    <3>1. /\ all # <<>> /\ eventQueue'[p] = Tail(all) /\ e \in SoundEvent
          /\ DOMAIN attached' = DOMAIN attached
          /\ \A d \in DOMAIN attached \ {p} : attached'[d] = attached[d]
          /\ attached'[p].threads = ThreadsAfter(attached[p].threads, e)
          /\ current' = IF e.type = "ExitThread" /\ current = <<p, e.thread>>
                        THEN <<>> ELSE current
      BY <2>0, <2>5 DEF Applies
    <3>2. reason' = reason \/ reason'.p = p
      BY <2>0, <2>5 DEF Applies
    <3>3. Told(p)'
      <4> DEFINE q == Tail(all)
                 ts == ThreadsAfter(attached[p].threads, e)
      <4>1. Known(ts, q) = kern[p].live
        BY <2>1, <2>2, <3>1, KnownTail
      <4>2. q \in Seq(SoundEvent)
        BY <2>1, <3>1
      <4> HIDE DEF q, ts
      <4>3. q \o <<>> = q
        BY <4>2
      <4> QED
        BY <2>1, <3>1, <4>1, <4>3 DEF Told, PumpEvents, q, ts
    <3> HIDE DEF e, all
    <3>4. ASSUME NEW d \in DOMAIN attached PROVE Told(d)'
      <4>1. d \in Pids /\ Told(d)
        BY <1>a DEF ThreadInv
      <4>2. CASE d # p
        BY <2>1, <3>1, <4>1, <4>2, StillTold
      <4> QED
        BY <3>3, <4>2
    <3>5. current' # <<>> /\ current'[2] # 0 =>
             /\ current'[1] \in DOMAIN attached'
             /\ current'[2] \in attached'[current'[1]].threads
      <4> SUFFICES ASSUME current' # <<>>, current'[2] # 0
                   PROVE  /\ current'[1] \in DOMAIN attached'
                          /\ current'[2] \in attached'[current'[1]].threads
        OBVIOUS
      <4>1. /\ current' = current /\ current # <<>>
            /\ ~(e.type = "ExitThread" /\ current = <<p, e.thread>>)
        BY <3>1
      <4>2. /\ current \in Pids \X (Tids \cup {0}) /\ current[1] \in DOMAIN attached
            /\ current[2] \in attached[current[1]].threads
        BY <4>1 DEF ThreadInv
      <4>3. CASE current[1] # p
        BY <3>1, <4>1, <4>2, <4>3
      <4>4. CASE current[1] = p
        <5>1. current = <<p, current[2]>>
          BY <4>2, <4>4
        <5>2. ~(e.type = "ExitThread" /\ e.thread = current[2])
          BY <4>1, <5>1
        <5>3. current[2] \in ThreadsAfter(attached[p].threads, e)
          BY <4>2, <4>4, <5>2 DEF ThreadsAfter
        <5> QED
          BY <3>1, <4>1, <4>2, <4>4, <5>3
      <4> QED
        BY <4>3, <4>4
    <3>6. current' = <<>> \/ current' \in Pids \X (Tids \cup {0})
      BY <3>1 DEF ThreadInv
    <3>7. reason' # <<>> => reason'.p \in DOMAIN attached'
      BY <2>1, <3>1, <3>2 DEF ThreadInv
    <3>8. \A d \in Pids \ DOMAIN attached' : kern'[d].st \in {"free", "exited"} /\ kern'[d].q = <<>>
      BY <2>3, <3>1 DEF ThreadInv
    <3> QED
      BY <3>1, <3>4, <3>5, <3>6, <3>7, <3>8 DEF ThreadInv
  <2> QED
    BY <2>1, <2>4, <2>5
<1>20. CASE AsyncWait
  BY <1>20, <1>c DEF AsyncWait, stub, target
<1>21. CASE AsyncWaitSent
  BY <1>21, <1>c DEF AsyncWaitSent, target
\* The process is continued.
<1>e. ASSUME NEW p \in DOMAIN attached, Continue(p), UNCHANGED <<current, reason, eventQueue>>
      PROVE  ThreadInv'
  <2>1. /\ \A d \in Pids \ {p} : kern'[d] = kern[d]
        /\ kern'[p].q = kern[p].q /\ kern'[p].live = kern[p].live
        /\ DOMAIN attached' = DOMAIN attached
        /\ \A d \in DOMAIN attached \ {p} : attached'[d] = attached[d]
        /\ attached'[p].threads = attached[p].threads
    BY <1>e, ContinueStep
  <2>2. ASSUME NEW d \in DOMAIN attached
        PROVE  attached'[d].threads = attached[d].threads /\ Told(d)'
    <3>1. d \in Pids /\ Told(d)
      BY <1>a DEF ThreadInv
    <3>2. attached'[d].threads = attached[d].threads
      BY <2>1
    <3>3. kern'[d].q = kern[d].q /\ kern'[d].live = kern[d].live
      BY <2>1, <3>1
    <3> QED
      BY <1>e, <3>1, <3>2, <3>3, StillTold
  <2> QED
    BY <1>a, <1>b, <1>e, <2>1, <2>2
<1>22. CASE Resume
  BY <1>22, <1>c, <1>e, ResumeStep
<1>23. CASE AttachReturns
  <2>1. /\ UNCHANGED <<attached, current, reason, eventQueue>>
        /\ loop.p \in DOMAIN attached /\ loop.p \in Pids
    BY <1>23, AttachReturnsStep
  <2>2. CASE UNCHANGED kern
    BY <1>c, <2>1, <2>2
  <2>3. CASE LaunchDebugProcess(loop.p)
    <3> DEFINE p == loop.p
    <3>1. /\ \A d \in Pids \ {p} : kern'[d] = kern[d]
          /\ \/ kern'[p] = kern[p]
             \/ \E e \in SoundEvent :
                    /\ kern'[p].q = Append(kern[p].q, e)
                    /\ kern'[p].live = ThreadsAfter(kern[p].live, e)
      BY <2>1, <2>3, LaunchStep
    <3>2. ASSUME NEW d \in DOMAIN attached PROVE Told(d)'
      <4>1. d \in Pids /\ Told(d)
        BY <1>a DEF ThreadInv
      <4>2. CASE d = p
        BY <2>1, <3>1, <4>1, <4>2, StillTold
      <4>3. CASE d # p
        BY <2>1, <3>1, <4>1, <4>3, StillTold
      <4> QED
        BY <4>2, <4>3
    <3> QED
      BY <1>b, <2>1, <3>1, <3>2
  <2> QED
    BY <1>23, <2>2, <2>3, AttachReturnsStep
<1>24. CASE VContReturns
  BY <1>24, <1>c, <1>e, VContReturnsStep
<1>25. CASE LogicBreaks
  <2>1. UNCHANGED <<attached, current, reason, eventQueue>>
    BY <1>25, LogicBreaksStep
  <2>2. CASE UNCHANGED kern
    BY <1>c, <2>1, <2>2
  <2>3. CASE kern' # kern
    <3>1. PICK p \in loop.todo :
            /\ \A d \in Pids \ {p} : kern'[d] = kern[d]
            /\ \/ kern'[p] = kern[p]
               \/ \E e \in SoundEvent : /\ kern'[p].q = Append(kern[p].q, e)
                                        /\ kern'[p].live = ThreadsAfter(kern[p].live, e)
      BY <1>25, <2>3, LogicBreaksStep
    <3>2. p \in DOMAIN attached
      BY DEF LoopInv
    <3>3. ASSUME NEW d \in DOMAIN attached PROVE Told(d)'
      <4>1. d \in Pids /\ Told(d)
        BY <1>a DEF ThreadInv
      <4>2. CASE d = p
        BY <2>1, <3>1, <4>1, <4>2, StillTold
      <4>3. CASE d # p
        BY <2>1, <3>1, <4>1, <4>3, StillTold
      <4> QED
        BY <4>2, <4>3
    <3> QED
      BY <1>b, <2>1, <3>1, <3>2, <3>3
  <2> QED
    BY <2>2, <2>3
<1>26. CASE LogicChecks
  BY <1>26, <1>c DEF LogicChecks, stub, target
<1>27. CASE LogicReturns
  BY <1>27, <1>c DEF LogicReturns, target
<1>28. CASE LogicDone
  BY <1>28, <1>c DEF LogicDone, stub, target
<1>29. CASE RemoteCommandAnswered
  BY <1>29, <1>c DEF RemoteCommandAnswered, stub, target
<1>30. CASE Perish
  BY <1>30, <1>c DEF Perish, Dies, stub, target
<1> QED
  BY <1>1, <1>2, <1>4, <1>5, <1>6, <1>7, <1>8, <1>9, <1>10, <1>11, <1>12, <1>13, <1>14,
     <1>15, <1>16, <1>17, <1>18, <1>19, <1>20, <1>21, <1>22, <1>23, <1>24, <1>25, <1>26, <1>27,
     <1>28, <1>29, <1>30, NextCases

-----------------------------------------------------------------------------
(***************************************************************************)
(* Layer 5: whoever waits for a stop is told of the next event.            *)
(***************************************************************************)

\* Releasing processes asks for nothing.
LEMMA ReleasedWaits ==
  ASSUME NEW ps, Released(ps)
  PROVE  waits' \in SUBSET waits
<1>1. waits' = {w \in waits : ~(w.p \in ps /\ w.st = "pending")}
  BY Zenon DEF Released
<1> QED
  BY <1>1

\* A step keeps requests with their sessions.
LEMMA SessionNext == TypeInv /\ LoopInv /\ Session /\ Next => Session'
<1> SUFFICES ASSUME TypeInv, LoopInv, Session, Next PROVE Session'
  OBVIOUS
<1>a. /\ loop \in Loop /\ attaches \in Nat /\ waits \in SUBSET Wait
      /\ DOMAIN attached \in SUBSET Pids /\ attached \in [DOMAIN attached -> Debuggee]
  BY DEF TypeInv, Session
<1>b. ASSUME attaches' = attaches, DOMAIN attached' \in SUBSET DOMAIN attached,
             waits' \in SUBSET waits
      PROVE  Session'
  BY <1>b DEF Session
<1>c. ASSUME UNCHANGED <<attached, attaches, waits>> PROVE Session'
  BY <1>c DEF Session
\* A request changes its state.
<1>d. ASSUME UNCHANGED <<attached, attaches>>, NEW w \in waits,
             NEW st \in {"answered", "cleared"},
             waits' \in SUBSET (waits \cup {[w EXCEPT !.st = st]})
      PROVE  Session'
  <2>1. [w EXCEPT !.st = st] \in Wait
    BY <1>a DEF Wait
  <2> QED
    BY <1>d, <2>1 DEF Session
<1>1. CASE WaitFires
  <2>1. PICK w \in waits : waits' = (waits \ {w}) \cup {[w EXCEPT !.st = "answered"]}
    BY <1>1 DEF WaitFires
  <2>2. UNCHANGED <<attached, attaches>>
    BY <1>1 DEF WaitFires, stub
  <2> QED
    BY <1>d, <2>1, <2>2
<1>2. CASE CallbackClears
  <2>1. PICK w \in waits : waits' = (waits \ {w}) \cup
                             (IF w.st = "answered" THEN {[w EXCEPT !.st = "cleared"]} ELSE {})
    BY <1>2 DEF CallbackClears
  <2>2. UNCHANGED <<attached, attaches>>
    BY <1>2 DEF CallbackClears
  <2> QED
    BY <1>d, <2>1, <2>2
<1>3. CASE CallbackNotifies
  <2>1. /\ attaches' = attaches /\ waits' \in SUBSET waits
        /\ DOMAIN attached' = DOMAIN attached
    BY <1>3 DEF CallbackNotifies
  <2> QED
    BY <1>b, <2>1
<1>4. ASSUME NEW p \in Pids, KernelEvent(p) \/ KernelKill(p) PROVE Session'
  BY <1>4, <1>c DEF KernelEvent, KernelKill, stub
<1>5. CASE GdbSends \/ GdbInterrupts \/ Wake \/ PacketsDone
  BY <1>5, <1>c DEF GdbSends, GdbInterrupts, Wake, PacketsDone, stub
<1>6. CASE GdbHangsUp
  <2>1. attaches' = attaches /\ DOMAIN attached' = {} /\ Released(DOMAIN attached)
    BY <1>6 DEF GdbHangsUp
  <2>2. waits' \in SUBSET waits
    BY <2>1, ReleasedWaits
  <2> QED
    BY <1>b, <2>1, <2>2
<1>7. CASE \/ Answers({"plain"}) \/ Answers({"read"})
           \/ QueryGetSupported \/ QuerySetThreadEvents \/ Blocking
           \/ RemoteCommandAnswered
  BY <1>7, <1>c DEF Answers, QueryGetSupported, QuerySetThreadEvents, Blocking,
                    RemoteCommandAnswered, stub
<1>8. CASE Writing
  BY <1>8, <1>c DEF Writing, Dies, stub
<1>9. CASE Choosing
  BY <1>9, <1>c DEF Choosing
<1>10. CASE Detaching
  <2>1. /\ attaches' = attaches /\ Released(Gone)
        /\ attached' = [p \in DOMAIN attached \ Gone |-> attached[p]]
    BY <1>10 DEF Detaching
  <2>2. attaches' = attaches /\ waits' \in SUBSET waits
    BY <2>1, ReleasedWaits
  <2>3. DOMAIN attached' \in SUBSET DOMAIN attached
    BY <2>1
  <2> QED
    BY <1>b, <2>2, <2>3
<1>11. CASE HandleVAttach
  <2>1. CASE M.p \in DOMAIN attached \/ (~multi /\ DOMAIN attached # {})
    BY <1>11, <1>c, <2>1 DEF HandleVAttach, stub
  <2>2. CASE ~(M.p \in DOMAIN attached \/ (~multi /\ DOMAIN attached # {})) /\ kern[M.p].st = "exited"
    BY <1>11, <1>c, <2>2 DEF HandleVAttach, Dies, stub
  <2>3. CASE ~(M.p \in DOMAIN attached \/ (~multi /\ DOMAIN attached # {})) /\ kern[M.p].st # "exited"
    <3>1. attaches' = attaches + 1 /\ waits' = waits
      BY <1>11, <2>3 DEF HandleVAttach
    <3> QED
      BY <1>a, <3>1 DEF Session
  <2> QED
    BY <2>1, <2>2, <2>3
<1>12. CASE HandleVCont
  BY <1>12, <1>c DEF HandleVCont
<1>13. CASE IngestEvent
  <2>1. UNCHANGED <<waits, attaches>>
    BY <1>13 DEF IngestEvent
  <2>2. DOMAIN attached' = DOMAIN attached
    BY <1>13 DEF IngestEvent
  <2> QED
    BY <1>b, <2>1, <2>2
<1>14. CASE AsyncWait
  <2> DEFINE p == loop.p
             mine == [p |-> p, gen |-> attached[p].gen, st |-> "pending"]
             ours == [mine EXCEPT !.st = IF mine \in waits THEN "refused" ELSE @]
  <2>1. p \in DOMAIN attached /\ p \in Pids
    BY <1>14, <1>a DEF AsyncWait, At, LoopInv, Ingesting
  <2>2. attached[p].gen \in Nat
    BY <1>a, <2>1 DEF Debuggee
  <2>3. ours \in Wait
    BY <2>1, <2>2 DEF Wait
  <2>4. UNCHANGED <<attached, attaches>> /\ waits' \in SUBSET (waits \cup {ours})
    BY <1>14 DEF AsyncWait, WaitEvent, stub
  <2> HIDE DEF ours, mine
  <2> QED
    BY <1>a, <2>1, <2>3, <2>4 DEF Session
<1>15. CASE AsyncWaitSent
  BY <1>15, <1>c DEF AsyncWaitSent
<1>16. CASE Resume
  <2>1. UNCHANGED <<waits, attaches>>
    BY <1>16 DEF Resume, Dies
  <2>2. DOMAIN attached' = DOMAIN attached
    BY <1>16 DEF Resume, Dies, Continue, stub
  <2> QED
    BY <1>b, <2>1, <2>2
<1>17. CASE AttachReturns
  BY <1>17, <1>c DEF AttachReturns, stub
<1>18. CASE VContReturns
  <2>1. UNCHANGED <<waits, attaches>>
    BY <1>18 DEF VContReturns, Dies
  <2>2. DOMAIN attached' = DOMAIN attached
    BY <1>18 DEF VContReturns, Dies, Continue, stub
  <2> QED
    BY <1>b, <2>1, <2>2
<1>19. CASE LogicBreaks
  BY <1>19, <1>c DEF LogicBreaks, Dies, stub
<1>20. CASE LogicChecks \/ LogicReturns \/ LogicDone
  BY <1>20, <1>c DEF LogicChecks, LogicReturns, LogicDone, stub
<1>21. CASE Perish
  BY <1>21, <1>c DEF Perish, Dies, stub
<1> QED
  BY <1>1, <1>2, <1>3, <1>4, <1>5, <1>6, <1>7, <1>8, <1>9, <1>10, <1>11, <1>12, <1>13, <1>14,
     <1>15, <1>16, <1>17, <1>18, <1>19, <1>20, <1>21, NextCases

\* What is behind the first packet was in the buffer, and what interrupts add
\* continues nothing.
LEMMA NamedKept ==
  ASSUME NEW D, NEW s \in Seq(Packet), \A i \in 1..Len(s) : s[i].k = "cont" => s[i].p \in D
  PROVE  /\ s # <<>> => \A i \in 1..Len(Tail(s)) : Tail(s)[i].k = "cont" => Tail(s)[i].p \in D
         /\ \A t \in Seq(Packet) : OnlyInts(t) =>
              \A i \in 1..Len(s \o t) : (s \o t)[i].k = "cont" => (s \o t)[i].p \in D
<1>1. ASSUME s # <<>>, NEW i \in 1..Len(Tail(s)), Tail(s)[i].k = "cont"
      PROVE  Tail(s)[i].p \in D
  <2>1. i + 1 \in 1..Len(s) /\ Tail(s)[i] = s[i + 1]
    BY <1>1
  <2> QED
    BY <1>1, <2>1
<1>2. ASSUME NEW t \in Seq(Packet), OnlyInts(t), NEW i \in 1..Len(s \o t), (s \o t)[i].k = "cont"
      PROVE  (s \o t)[i].p \in D
  <2> DEFINE u == s \o t
  <2>1. /\ Len(s) \in Nat /\ Len(t) \in Nat /\ Len(u) = Len(s) + Len(t)
        /\ i <= Len(s) => u[i] = s[i]
        /\ i > Len(s) => i - Len(s) \in 1..Len(t) /\ u[i] = t[i - Len(s)]
    OBVIOUS
  <2>2. i \in Nat /\ i >= 1 /\ u[i].k = "cont"
    BY <1>2, <2>1
  <2> HIDE DEF u
  <2>3. CASE i <= Len(s)
    <3>1. i \in 1..Len(s)
      BY <2>1, <2>2, <2>3
    <3> QED
      BY <2>1, <2>2, <2>3, <3>1 DEF u
  <2>4. CASE i > Len(s)
    BY <1>2, <2>1, <2>2, <2>4 DEF OnlyInts
  <2> QED
    BY <2>1, <2>2, <2>3, <2>4
<1> QED
  BY <1>1, <1>2

\* A step keeps the packets that continue a process about attached ones.
LEMMA NamedNext == TypeInv /\ LoopInv /\ FloorInv /\ Named /\ Next => Named'
<1> SUFFICES ASSUME TypeInv, LoopInv, FloorInv, Named, Next PROVE Named'
  OBVIOUS
<1>a. /\ inBuf \in Seq(Packet) /\ inPipe \in Seq(Packet) /\ OnlyInts(inPipe)
      /\ DOMAIN attached \in SUBSET Pids
  BY DEF TypeInv, FloorInv
<1>b. ASSUME OnlyInts(inBuf') PROVE Named'
  BY <1>b DEF OnlyInts, Named
<1>c. ASSUME inBuf' = inBuf, DOMAIN attached' = DOMAIN attached PROVE Named'
  BY <1>c DEF Named
<1>d. ASSUME NEW K, Takes(K), K \in SUBSET Asks \/ K = Conts PROVE Named'
  <2>1. OnlyInts(inBuf')
    BY <1>d, AskTaken, ContTaken
  <2> QED
    BY <1>b, <2>1
<1>1. CASE UNCHANGED core
  BY <1>1, <1>c DEF core
<1>2. ASSUME NEW p \in Pids, KernelEvent(p) \/ KernelKill(p) PROVE Named'
  BY <1>2, <1>c DEF KernelEvent, KernelKill, stub
<1>3. CASE CallbackNotifies
  <2>1. inBuf' = inBuf /\ DOMAIN attached' = DOMAIN attached
    BY <1>3 DEF CallbackNotifies
  <2> QED
    BY <1>c, <2>1
<1>4. CASE GdbSends
  <2>1. PICK m \in WellFormed : inBuf' = inBuf \o inPipe \o <<m>>
    BY <1>4 DEF GdbSends
  <2>2. attached' = attached /\ gdb = "idle"
    BY <1>4 DEF GdbSends, stub
  <2>3. OnlyInts(inBuf)
    BY <2>2 DEF FloorInv
  <2>4. m \in Packet /\ (m.k = "cont" => m.p \in DOMAIN attached)
    <3>1. m \in Packet
      BY WellFormedPackets
    <3>2. CASE m \in {Pkt(k, p, 0) : k \in {"D", "cont"}, p \in DOMAIN attached}
      BY <3>1, <3>2 DEF Pkt
    <3>3. CASE m \in {Pkt(k, 0, 0) : k \in {"plain", "read", "G", "multi", "wait", "D", "contAll"}}
      BY <3>1, <3>3 DEF Pkt
    <3>4. CASE m \in {Pkt(k, p, 0) : k \in {"attach"}, p \in Pids}
      BY <3>1, <3>4 DEF Pkt
    <3>5. CASE m \in {Pkt("H", 0, 0)} \cup {Pkt("H", p, t) : p \in Pids, t \in Tids \cup {0}}
      BY <3>1, <3>5 DEF Pkt
    <3>6. CASE m \in {Pkt("threads", 0, b) : b \in {0, 1}}
      BY <3>1, <3>6 DEF Pkt
    <3> QED
      BY <3>2, <3>3, <3>4, <3>5, <3>6 DEF WellFormed
  <2> DEFINE s == inBuf \o inPipe
  <2>5. s \in Seq(Packet) /\ OnlyInts(s)
    BY <1>a, <2>3, MoreInts
  <2>6. inBuf' = s \o <<m>>
    BY <2>1
  <2> HIDE DEF s
  <2>7. /\ Len(s) \in Nat /\ Len(inBuf') = Len(s) + 1 /\ inBuf'[Len(s) + 1] = m
        /\ \A i \in 1..Len(s) : inBuf'[i] = s[i]
    BY <2>4, <2>5, <2>6
  <2>8. ASSUME NEW i \in 1..(Len(s) + 1), inBuf'[i].k = "cont" PROVE inBuf'[i].p \in DOMAIN attached
    <3>1. i = Len(s) + 1 \/ i \in 1..Len(s)
      BY <2>7
    <3>2. CASE i = Len(s) + 1
      BY <2>4, <2>7, <2>8, <3>2
    <3>3. CASE i \in 1..Len(s)
      <4>1. s[i].k = "int" /\ inBuf'[i] = s[i]
        BY <2>5, <2>7, <3>3 DEF OnlyInts
      <4> QED
        BY <2>8, <4>1
    <3> QED
      BY <3>1, <3>2, <3>3
  <2> QED
    BY <2>2, <2>7, <2>8 DEF Named
<1>5. CASE GdbInterrupts
  BY <1>5, <1>c DEF GdbInterrupts, stub
<1>6. CASE GdbHangsUp
  <2>1. gdb = "idle" /\ inBuf' = inBuf
    BY <1>6 DEF GdbHangsUp
  <2>2. OnlyInts(inBuf)
    BY <2>1 DEF FloorInv
  <2> QED
    BY <1>b, <2>1, <2>2
<1>7. CASE \/ Answers({"plain"}) \/ Answers({"read"}) \/ Writing \/ Choosing \/ Detaching
           \/ Blocking \/ Perish \/ QueryGetSupported \/ QuerySetThreadEvents
           \/ HandleVAttach \/ HandleVCont
  <2>1. PICK K : Takes(K) /\ (K \in SUBSET Asks \/ K = Conts)
    BY <1>7 DEF Answers, Writing, Choosing, Detaching, Blocking, Perish, QueryGetSupported,
                QuerySetThreadEvents, HandleVAttach, HandleVCont, Asks, Conts
  <2> QED
    BY <1>d, <2>1
<1>8. CASE Wake
  <2>1. inBuf' = inBuf \o inPipe /\ attached' = attached
    BY <1>8 DEF Wake, stub
  <2>2. \A i \in 1..Len(inBuf \o inPipe) :
          (inBuf \o inPipe)[i].k = "cont" => (inBuf \o inPipe)[i].p \in DOMAIN attached
    BY <1>a, NamedKept DEF Named
  <2> QED
    BY <2>1, <2>2 DEF Named
<1>9. CASE PacketsDone
  <2>1. attached' = attached
    BY <1>9 DEF PacketsDone, stub
  <2>2. CASE inBuf = <<>>
    BY <1>9, <1>c, <2>1, <2>2 DEF PacketsDone
  <2>3. CASE inBuf # <<>>
    <3>1. inBuf' = Tail(inBuf)
      BY <1>9, <2>3 DEF PacketsDone
    <3>2. \A i \in 1..Len(Tail(inBuf)) : Tail(inBuf)[i].k = "cont" => Tail(inBuf)[i].p \in DOMAIN attached
      BY <1>a, <2>3, NamedKept DEF Named
    <3> QED
      BY <2>1, <3>1, <3>2 DEF Named
  <2> QED
    BY <2>2, <2>3
<1>10. CASE IngestEvent
  <2>1. inBuf' = inBuf
    BY <1>10 DEF IngestEvent
  <2>2. DOMAIN attached' = DOMAIN attached
    BY <1>10 DEF IngestEvent
  <2> QED
    BY <1>c, <2>1, <2>2
<1>11. CASE Resume
  <2>1. inBuf' = inBuf
    BY <1>11 DEF Resume
  <2>2. DOMAIN attached' = DOMAIN attached
    BY <1>11 DEF Resume, Dies, Continue, stub
  <2> QED
    BY <1>c, <2>1, <2>2
<1>12. CASE VContReturns
  <2>1. inBuf' = inBuf
    BY <1>12 DEF VContReturns
  <2>2. DOMAIN attached' = DOMAIN attached
    BY <1>12 DEF VContReturns, Dies, Continue, stub
  <2> QED
    BY <1>c, <2>1, <2>2
<1>13. CASE AsyncWait \/ AsyncWaitSent \/ AttachReturns
  BY <1>13, <1>c DEF AsyncWait, AsyncWaitSent, AttachReturns, stub
<1>14. CASE LogicBreaks
  BY <1>14, <1>c DEF LogicBreaks, Dies, stub
<1>15. CASE LogicChecks \/ LogicReturns \/ LogicDone \/ RemoteCommandAnswered
  BY <1>15, <1>c DEF LogicChecks, LogicReturns, LogicDone, RemoteCommandAnswered, stub
<1> QED
  BY <1>1, <1>2, <1>3, <1>4, <1>5, <1>6, <1>7, <1>8, <1>9, <1>10, <1>11, <1>12, <1>13, <1>14,
     <1>15, NextCases

\* A step keeps the process watched.
LEMMA WatchedNext ==
  ASSUME TypeInv, LoopInv, FloorInv, HaltInv, Session, Named, FirstSession => Watched,
         Next, FirstSession'
  PROVE  Watched'
<1>a. /\ loop \in Loop /\ loop.at # "dead" /\ waiting \in BOOLEAN /\ attaches \in Nat
      /\ DOMAIN attached \in SUBSET Pids /\ attached \in [DOMAIN attached -> Debuggee]
      /\ waits \in SUBSET Wait /\ eventQueue \in [Pids -> Seq(SoundEvent)]
  BY NextCases DEF TypeInv, At, Session
<1>b. ASSUME attaches' = attaches
      PROVE  /\ Watched /\ Halted /\ attaches = 1
             /\ \A p, q \in DOMAIN attached : p = q
  BY <1>b DEF FirstSession, OneProcess, HaltInv, Halted
\* Nothing that is watched changes.
<1>c. ASSUME Watched, UNCHANGED <<attached, eventQueue, waits, asyncWait, notified, waiting, loop>>
      PROVE  Watched'
  BY <1>c DEF Watched, Watching, Covered
\* No request is sent.
<1>d. ASSUME Watched, asyncWait' = asyncWait, waits' \in SUBSET waits,
             DOMAIN attached' \in SUBSET DOMAIN attached,
             \A p \in DOMAIN attached' : attached'[p].gen = attached[p].gen,
             loop.at # "armed",
             loop'.at \in {"armed", "resume", "return"} =>
               Covered' \/ (notified' /\ attached'[loop'.p].hasEvents),
             \A p \in DOMAIN attached' : waiting' /\ loop'.at # "dead" =>
               Watching(p)' /\ (loop'.at \notin Ingesting => eventQueue'[p] = <<>>)
      PROVE  Watched'
  <2>1. \A p \in DOMAIN attached' : attached'[p].gen = 1 /\ \A w \in waits' : w.p = p
    BY <1>d DEF Watched
  <2>2. \A w \in waits' : w.gen = 1 /\ w.st # "refused" /\ (Open(w) => asyncWait')
    BY <1>d DEF Watched
  <2>3. \A v, w \in waits' : Open(v) /\ Open(w) => v = w
    BY <1>d DEF Watched
  <2> QED
    BY <1>d, <2>1, <2>2, <2>3 DEF Watched, Open
\* Nobody waits for a stop.
<1>e. ASSUME Watched, asyncWait' = asyncWait, waits' \in SUBSET waits,
             DOMAIN attached' \in SUBSET DOMAIN attached,
             \A p \in DOMAIN attached' : attached'[p].gen = attached[p].gen,
             loop.at # "armed", loop'.at \notin {"armed", "resume", "return"},
             waiting' = FALSE \/ loop'.at = "dead"
      PROVE  Watched'
  BY <1>d, <1>e
<1>f. ASSUME Watched, UNCHANGED <<attached, asyncWait, waits>>,
             loop.at # "armed", loop'.at \notin {"armed", "resume", "return"},
             waiting' = FALSE \/ loop'.at = "dead"
      PROVE  Watched'
  <2>1. waits' \in SUBSET waits /\ DOMAIN attached' \in SUBSET DOMAIN attached
        /\ \A p \in DOMAIN attached' : attached'[p].gen = attached[p].gen
    BY <1>f
  <2> QED
    BY <1>e, <1>f, <2>1
<1>g. /\ [Idle EXCEPT !.at = "dead"].at = "dead" /\ [Idle EXCEPT !.at = "packets"].at = "packets"
      /\ Idle.at = "select"
  BY DEF Idle
\* A packet is answered, or the tool dies of it.
<1>h. ASSUME NEW K \in SUBSET Asks, Takes(K), UNCHANGED <<attached, asyncWait, waits>>,
             UNCHANGED <<attaches, waiting>>,
             loop' = loop \/ loop' = [Idle EXCEPT !.at = "dead"]
      PROVE  Watched'
  <2>1. waiting = FALSE /\ loop.at = "packets"
    BY <1>h, AskTaken, TakesOne
  <2> QED
    BY <1>b, <1>f, <1>g, <1>h, <2>1
<1>1. CASE WaitFires
  <2>1. PICK w \in waits : /\ w.st = "pending"
                           /\ waits' = (waits \ {w}) \cup {[w EXCEPT !.st = "answered"]}
    BY <1>1 DEF WaitFires
  <2>2. /\ UNCHANGED <<attached, eventQueue, asyncWait, notified, waiting, loop>>
        /\ UNCHANGED <<multi, attaches>>
    BY <1>1 DEF WaitFires, stub, target
  <2> DEFINE v == [w EXCEPT !.st = "answered"]
  <2>3. v.p = w.p /\ v.gen = w.gen /\ v.st = "answered"
    BY <1>a DEF Wait
  <2>4. waits' = (waits \ {w}) \cup {v}
    BY <2>1
  <2> HIDE DEF v
  <2>5. Watched
    BY <1>b, <2>2
  <2>6. \A p \in DOMAIN attached : attached[p].gen = 1 /\ \A x \in waits' : x.p = p
    BY <2>3, <2>4, <2>5 DEF Watched
  <2>7. \A x \in waits' : x.gen = 1 /\ x.st # "refused" /\ (Open(x) => asyncWait \/ loop.at = "armed")
    BY <2>1, <2>3, <2>4, <2>5 DEF Watched, Open
  <2>8. \A x, y \in waits' : Open(x) /\ Open(y) => x = y
    <3>1. \A x \in waits \ {w} : ~Open(x)
      BY <2>1, <2>5 DEF Watched, Open
    <3> QED
      BY <2>4, <3>1
  <2>9. Covered'
    BY <2>4 DEF Covered
  <2>10. \A p \in DOMAIN attached : waiting /\ loop.at # "dead" =>
           (loop.at \notin Ingesting => eventQueue[p] = <<>>)
    BY <2>5 DEF Watched
  <2> QED
    BY <2>2, <2>6, <2>7, <2>8, <2>9, <2>10 DEF Watched, Watching, Open
<1>2. CASE CallbackClears
  <2>1. PICK w \in waits :
             /\ w.st \in {"answered", "refused"} /\ asyncWait' = FALSE
             /\ waits' = (waits \ {w}) \cup
                  (IF w.st = "answered" THEN {[w EXCEPT !.st = "cleared"]} ELSE {})
    BY <1>2 DEF CallbackClears
  <2>2. /\ UNCHANGED <<attached, eventQueue, notified, waiting, loop>>
        /\ UNCHANGED <<multi, attaches>>
    BY <1>2 DEF CallbackClears, target
  <2>5. Watched
    BY <1>b, <2>2
  <2> DEFINE v == [w EXCEPT !.st = "cleared"]
  <2>3. v.p = w.p /\ v.gen = w.gen /\ v.st = "cleared"
    BY <1>a DEF Wait
  <2>a. w.st = "answered"
    BY <2>1, <2>5 DEF Watched
  <2>4. waits' = (waits \ {w}) \cup {v}
    BY <2>1, <2>a
  <2> HIDE DEF v
  <2>6. \A p \in DOMAIN attached : attached[p].gen = 1 /\ \A x \in waits' : x.p = p
    BY <2>3, <2>4, <2>5 DEF Watched
  <2>b. \A x \in waits' : ~Open(x)
    <3>1. \A x \in waits \ {w} : ~Open(x)
      BY <2>a, <2>5 DEF Watched, Open
    <3> QED
      BY <2>3, <2>4, <3>1 DEF Open
  <2>7. \A x \in waits' : x.gen = 1 /\ x.st # "refused"
    BY <2>3, <2>4, <2>5 DEF Watched
  <2>9. Covered'
    BY <2>4 DEF Covered
  <2>10. \A p \in DOMAIN attached : waiting /\ loop.at # "dead" =>
           (loop.at \notin Ingesting => eventQueue[p] = <<>>)
    BY <2>5 DEF Watched
  <2> QED
    BY <2>2, <2>6, <2>7, <2>b, <2>9, <2>10 DEF Watched, Watching, Open
<1>3. CASE CallbackNotifies
  <2>1. PICK w \in waits :
             /\ w.st = "cleared" /\ waits' = waits \ {w}
             /\ attached' = [p \in DOMAIN attached |->
                  IF p = w.p /\ attached[p].gen = w.gen
                  THEN [attached[p] EXCEPT !.hasEvents = TRUE] ELSE attached[p]]
    BY <1>3 DEF CallbackNotifies
  <2>2. /\ UNCHANGED <<eventQueue, asyncWait, waiting, loop>> /\ notified' = TRUE
        /\ UNCHANGED <<multi, attaches>>
    BY <1>3 DEF CallbackNotifies, Notify, target
  <2>3. Watched
    BY <1>b, <2>2
  <2>4. DOMAIN attached' = DOMAIN attached
    BY <2>1
  <2>5. ASSUME NEW p \in DOMAIN attached
        PROVE  attached'[p].hasEvents = TRUE /\ attached'[p].gen = attached[p].gen
    <3>1. p = w.p /\ attached[p].gen = w.gen
      BY <2>3 DEF Watched
    <3>2. attached'[p] = [attached[p] EXCEPT !.hasEvents = TRUE]
      BY <2>1, <3>1
    <3> QED
      BY <1>a, <3>2 DEF Debuggee
  <2>6. \A p \in DOMAIN attached : attached'[p].gen = 1 /\ \A x \in waits' : x.p = p
    BY <2>1, <2>3, <2>5 DEF Watched
  <2>7. \A x \in waits' : x.gen = 1 /\ x.st # "refused" /\ (Open(x) => asyncWait \/ loop.at = "armed")
    BY <2>1, <2>3 DEF Watched
  <2>8. \A x, y \in waits' : Open(x) /\ Open(y) => x = y
    BY <2>1, <2>3 DEF Watched
  <2>9. loop.at \in {"armed", "resume", "return"} => loop.p \in DOMAIN attached
    BY DEF LoopInv, Ingesting
  <2>10. \A p \in DOMAIN attached : waiting /\ loop.at # "dead" =>
           (loop.at \notin Ingesting => eventQueue[p] = <<>>)
    BY <2>3 DEF Watched
  <2> QED
    BY <2>2, <2>4, <2>5, <2>6, <2>7, <2>8, <2>9, <2>10 DEF Watched, Watching, Open
<1>4. ASSUME NEW p \in Pids, KernelEvent(p) \/ KernelKill(p) PROVE Watched'
  BY <1>4, <1>b, <1>c DEF KernelEvent, KernelKill, stub
<1>5. CASE GdbSends
  <2>1. /\ gdb = "idle" /\ loop.at = "select" /\ loop'.at = "packets"
        /\ UNCHANGED <<attached, asyncWait, waits, waiting, multi, attaches>>
    BY <1>5, <1>a DEF GdbSends, At, stub, Loop
  <2>2. waiting = FALSE
    BY <1>a, <2>1 DEF FloorInv
  <2> QED
    BY <1>b, <1>f, <2>1, <2>2
<1>6. CASE GdbInterrupts
  BY <1>6, <1>b, <1>c DEF GdbInterrupts, stub, target
<1>7. CASE GdbHangsUp
  <2>1. /\ gdb = "idle" /\ loop.at = "select" /\ loop'.at = "closed"
        /\ UNCHANGED <<asyncWait, waiting, multi, attaches>> /\ DOMAIN attached' = {}
        /\ Released(DOMAIN attached)
    BY <1>7, <1>a DEF GdbHangsUp, At, Loop
  <2>2. waiting = FALSE /\ waits' \in SUBSET waits
    BY <1>a, <2>1, ReleasedWaits DEF FloorInv
  <2> QED
    BY <1>b, <1>e, <2>1, <2>2
<1>8. CASE Answers({"plain"}) \/ Answers({"read"})
  <2>1. {"plain"} \in SUBSET Asks /\ {"read"} \in SUBSET Asks
    BY DEF Asks
  <2> QED
    BY <1>8, <1>h, <2>1 DEF Answers, stub
<1>9. CASE Writing
  <2>1. {"G"} \in SUBSET Asks
    BY DEF Asks
  <2> QED
    BY <1>9, <1>h, <2>1 DEF Writing, Dies, stub
<1>10. CASE Choosing
  <2>1. {"H"} \in SUBSET Asks
    BY DEF Asks
  <2> QED
    BY <1>10, <1>h, <2>1 DEF Choosing
<1>11. CASE Detaching
  <2>1. /\ attached' = [p \in DOMAIN attached \ Gone |-> attached[p]] /\ Released(Gone)
        /\ UNCHANGED <<asyncWait, waiting, loop, attaches>> /\ Takes({"D"})
        /\ {"D"} \in SUBSET Asks
    BY <1>11 DEF Detaching, Asks
  <2>2. loop.at = "packets" /\ waiting = FALSE /\ waits' \in SUBSET waits
    BY <2>1, TakesOne, AskTaken, ReleasedWaits
  <2>3. /\ DOMAIN attached' \in SUBSET DOMAIN attached
        /\ \A d \in DOMAIN attached' : attached'[d].gen = attached[d].gen
    BY <2>1
  <2> QED
    BY <1>b, <1>e, <2>1, <2>2, <2>3
<1>12. CASE QueryGetSupported
  <2>1. {"multi"} \in SUBSET Asks
    BY DEF Asks
  <2> QED
    BY <1>12, <1>h, <2>1 DEF QueryGetSupported
<1>13. CASE QuerySetThreadEvents
  <2>1. {"threads"} \in SUBSET Asks
    BY DEF Asks
  <2> QED
    BY <1>13, <1>h, <2>1 DEF QuerySetThreadEvents
<1>14. CASE Blocking
  <2>1. {"wait"} \in SUBSET Asks
    BY DEF Asks
  <2>2. /\ Takes({"wait"}) /\ loop'.at = "blocked"
        /\ UNCHANGED <<attached, asyncWait, waits, waiting, multi, attaches>>
    BY <1>14, <1>a DEF Blocking, stub, Loop
  <2>3. waiting = FALSE /\ loop.at = "packets"
    BY <2>1, <2>2, AskTaken, TakesOne
  <2> QED
    BY <1>b, <1>f, <2>2, <2>3
<1>15. CASE HandleVAttach
  <2>1. {"attach"} \in SUBSET Asks /\ Takes({"attach"}) /\ M \in Packet /\ M.k = "attach"
    BY <1>15, TakesOne DEF HandleVAttach, Asks
  <2>2. CASE M.p \in DOMAIN attached \/ (~multi /\ DOMAIN attached # {})
    BY <1>15, <1>h, <2>1, <2>2 DEF HandleVAttach, stub
  <2>3. CASE ~(M.p \in DOMAIN attached \/ (~multi /\ DOMAIN attached # {})) /\ kern[M.p].st = "exited"
    BY <1>15, <1>h, <2>1, <2>3 DEF HandleVAttach, Dies, stub
  <2>4. CASE ~(M.p \in DOMAIN attached \/ (~multi /\ DOMAIN attached # {})) /\ kern[M.p].st # "exited"
    <3>1. /\ DOMAIN attached' = DOMAIN attached \cup {M.p}
          /\ attached'[M.p] = [threads |-> {}, running |-> FALSE, hasEvents |-> FALSE,
                               gen |-> attaches + 1]
          /\ attaches' = attaches + 1 /\ loop'.at = "ingest" /\ waiting' = waiting
      BY <1>15, <2>1, <2>4, AttachStep
    <3>2. attaches = 0
      BY <1>a, <3>1 DEF FirstSession
    <3>3. waits = {} /\ DOMAIN attached = {}
      BY <3>2 DEF Session
    <3>4. waits' = waits
      BY <1>15, <2>4 DEF HandleVAttach
    <3>5. waiting' = FALSE
      BY <2>1, <3>1, AskTaken
    <3>6. \A p \in DOMAIN attached' : attached'[p].gen = 1
      BY <3>1, <3>2, <3>3
    <3> QED
      BY <3>1, <3>3, <3>4, <3>5, <3>6 DEF Watched
  <2> QED
    BY <2>2, <2>3, <2>4
<1>16. CASE HandleVCont
  <2>1. /\ Takes(Conts) /\ UNCHANGED <<attached, eventQueue, multi, attaches>>
        /\ UNCHANGED <<asyncWait, waits, notified>>
    BY <1>16 DEF HandleVCont, Takes, Conts, target
  <2>2. waiting = FALSE /\ loop.at = "packets" /\ Watched
    BY <1>b, <2>1, ContTaken, TakesOne
  <2>3. M = inBuf[1] /\ inBuf \in Seq(Packet) /\ inBuf # <<>> /\ M.k \in Conts
    BY <2>1, TakesOne DEF TypeInv
  <2>4. M.k = "cont" => M.p \in DOMAIN attached
    <3>1. 1 \in 1..Len(inBuf)
      BY <2>3
    <3> QED
      BY <2>3, <3>1 DEF Named
  <2> DEFINE ps == DOMAIN attached \cap (IF M.k = "cont" THEN {M.p} ELSE Pids)
  <2>5. CASE ps = {}
    <3>1. DOMAIN attached = {} /\ loop' = loop
      BY <1>16, <1>a, <2>4, <2>5 DEF HandleVCont
    <3>2. /\ \A p \in DOMAIN attached' : attached'[p].gen = attached[p].gen
          /\ waits' \in SUBSET waits /\ DOMAIN attached' \in SUBSET DOMAIN attached
          /\ loop.at # "armed" /\ loop'.at \notin {"armed", "resume", "return"}
      BY <2>1, <2>2, <3>1
    <3> QED
      BY <1>d, <2>1, <2>2, <3>1, <3>2
  <2>6. CASE ps # {}
    <3>1. waiting' = FALSE /\ loop'.at = "ingest"
      BY <1>16, <1>a, <2>2, <2>6 DEF HandleVCont, Ingest, Loop
    <3> QED
      BY <1>f, <2>1, <2>2, <3>1
  <2> QED
    BY <2>5, <2>6
\* The loop goes on, without a request.
<1>i. ASSUME Watched, UNCHANGED <<attached, eventQueue, asyncWait, waits>>,
             loop.at # "armed", loop'.at \notin {"armed", "resume", "return"},
             \A p \in DOMAIN attached : waiting' /\ loop'.at # "dead" =>
               /\ loop'.at \notin Ingesting => loop.at \notin Ingesting \/ eventQueue[p] = <<>>
               /\ waiting /\ Watching(p) => Watching(p)'
               /\ ~waiting => Watching(p)' /\ eventQueue[p] = <<>>
      PROVE  Watched'
  <2>1. /\ waits' \in SUBSET waits /\ DOMAIN attached' \in SUBSET DOMAIN attached
        /\ \A p \in DOMAIN attached' : attached'[p].gen = attached[p].gen
    BY <1>i
  <2>2. \A p \in DOMAIN attached' : waiting' /\ loop'.at # "dead" =>
          Watching(p)' /\ (loop'.at \notin Ingesting => eventQueue'[p] = <<>>)
    <3> SUFFICES ASSUME NEW p \in DOMAIN attached, waiting', loop'.at # "dead"
                 PROVE  Watching(p)' /\ (loop'.at \notin Ingesting => eventQueue[p] = <<>>)
      BY <1>i
    <3>1. CASE waiting
      BY <1>a, <1>i, <3>1 DEF Watched
    <3>2. CASE ~waiting
      BY <1>i, <3>2
    <3> QED
      BY <3>1, <3>2
  <2> QED
    BY <1>d, <1>i, <2>1, <2>2
<1>17. CASE Wake
  <2>1. /\ loop.at = "select" /\ loop'.at = "packets"
        /\ UNCHANGED <<attached, eventQueue, asyncWait, waits, waiting, multi, attaches>>
    BY <1>17 DEF Wake, At, stub, target, Idle
  <2>2. \A p \in DOMAIN attached : Watching(p) => Watching(p)'
    BY <2>1 DEF Watching, Covered
  <2> QED
    BY <1>b, <1>i, <2>1, <2>2 DEF Ingesting
<1>18. CASE PacketsDone
  <2>1. /\ loop.at = "packets"
        /\ UNCHANGED <<attached, eventQueue, asyncWait, waits, waiting, multi, attaches, notified>>
    BY <1>18 DEF PacketsDone, At, stub, target
  <2>2. loop'.at \in {"logic", "select"} /\ (waiting => loop'.at = "logic" /\ loop'.todo = DOMAIN attached)
    BY <1>18 DEF PacketsDone, Idle
  <2>3. \A p \in DOMAIN attached : waiting /\ Watching(p) => Watching(p)'
    BY <2>1, <2>2 DEF Watching, Covered
  <2> QED
    BY <1>b, <1>i, <2>1, <2>2, <2>3 DEF Ingesting
<1>19. CASE IngestEvent
  <2>1. UNCHANGED <<asyncWait, waits, notified, waiting, multi, attaches>>
    BY <1>19 DEF IngestEvent
  <2>2. /\ loop.at = "ingest" /\ loop.p \in DOMAIN attached
        /\ Drains \/ Applies(Head(PumpEvents(loop.p)))
    BY <1>19, IngestEventStep
  <2>3. /\ loop'.at \in {"ingest", "arm"} /\ DOMAIN attached' = DOMAIN attached
        /\ \A d \in DOMAIN attached : attached'[d].gen = attached[d].gen
    BY <2>2 DEF Drains, Applies
  <2>4. \A d \in DOMAIN attached : Watching(d)'
    BY <2>3 DEF Watching
  <2>5. loop'.at \in Ingesting
    BY <2>3 DEF Ingesting
  <2> QED
    BY <1>b, <1>d, <2>1, <2>2, <2>3, <2>4, <2>5
<1>20. CASE AsyncWait
  <2> DEFINE p == loop.p
             mine == [p |-> p, gen |-> attached[p].gen, st |-> "pending"]
  <2>1. /\ loop.at = "arm" /\ loop'.at = (IF Arms THEN "armed" ELSE "resume")
        /\ UNCHANGED <<attached, eventQueue, asyncWait, waiting, multi, attaches, notified>>
        /\ IF Arms THEN WaitEvent(mine) ELSE UNCHANGED waits
    BY <1>20, <1>a DEF AsyncWait, At, stub, target, Loop
  <2>2. p \in DOMAIN attached /\ Watched /\ Halted
    BY <1>b, <2>1 DEF LoopInv, Ingesting
  <2>3. CASE Arms
    <3>1. \A w \in waits : ~Open(w)
      BY <2>1, <2>2, <2>3 DEF Watched, Arms
    <3>2. mine \notin waits
      BY <3>1 DEF Open
    <3>3. waits' = waits \cup {mine}
      BY <2>1, <2>3, <3>2 DEF WaitEvent
    <3>4. mine.p = p /\ mine.gen = 1 /\ mine.st = "pending"
      BY <2>2 DEF Watched
    <3> HIDE DEF mine
    <3>5. \A d \in DOMAIN attached : attached[d].gen = 1 /\ \A w \in waits' : w.p = d
      BY <2>2, <3>3, <3>4 DEF Watched, Halted
    <3>6. \A w \in waits' : w.gen = 1 /\ w.st # "refused"
      BY <2>2, <3>3, <3>4 DEF Watched
    <3>7. \A v, w \in waits' : Open(v) /\ Open(w) => v = w
      BY <3>1, <3>3
    <3>8. Covered' /\ loop'.at = "armed"
      BY <2>1, <2>3, <3>3 DEF Covered
    <3> QED
      BY <2>1, <3>5, <3>6, <3>7, <3>8 DEF Watched, Watching, Open, Ingesting
  <2>4. CASE ~Arms
    <3>1. Covered' /\ waits' = waits /\ loop'.at = "resume"
      BY <2>1, <2>4 DEF Covered, Arms
    <3>2. \A d \in DOMAIN attached : Watching(d)'
      BY <3>1 DEF Watching
    <3> QED
      BY <1>d, <2>1, <2>2, <3>1, <3>2 DEF Ingesting
  <2> QED
    BY <2>3, <2>4
<1>21. CASE AsyncWaitSent
  <2>1. /\ loop.at = "armed" /\ loop'.at = "resume" /\ asyncWait' = TRUE
        /\ UNCHANGED <<attached, eventQueue, waits, waiting, multi, attaches>>
    BY <1>21, <1>a DEF AsyncWaitSent, At, target, Loop
  <2>2. Watched
    BY <1>b, <2>1
  <2>3. Covered'
    BY <2>1 DEF Covered
  <2>4. \A d \in DOMAIN attached : Watching(d)'
    BY <2>3 DEF Watching
  <2> QED
    BY <2>1, <2>2, <2>3, <2>4 DEF Watched, Ingesting, Open
\* What AsyncWait leaves behind.
<1>j. ASSUME Watched, loop.at \in {"resume", "return"}
      PROVE  /\ loop.p \in DOMAIN attached
             /\ Covered \/ (notified /\ attached[loop.p].hasEvents)
  BY <1>j DEF Watched, LoopInv, Ingesting
<1>22. CASE Resume
  <2>1. /\ loop.at = "resume" /\ loop.p \in DOMAIN attached
        /\ UNCHANGED <<waiting, multi, eventQueue, attaches>>
    BY <1>22, ResumeStep
  <2>2. UNCHANGED <<asyncWait, waits, notified>>
    BY <1>22 DEF Resume, Dies, stub
  <2>3. CASE loop' = [Idle EXCEPT !.at = "dead"] /\ UNCHANGED <<attached, kern>>
    BY <1>b, <1>f, <1>g, <2>1, <2>2, <2>3
  <2>4. CASE loop' = [loop EXCEPT !.at = "return"]
    <3>1. loop'.at = "return" /\ loop'.p = loop.p
      BY <1>a, <2>4 DEF Loop
    <3>2. /\ DOMAIN attached' = DOMAIN attached
          /\ \A d \in DOMAIN attached : /\ attached'[d].gen = attached[d].gen
                                        /\ attached'[d].hasEvents = attached[d].hasEvents
      <4>1. CASE UNCHANGED attached
        BY <4>1
      <4>2. CASE Continue(loop.p)
        BY <2>1, <4>2, ContinueStep
      <4> QED
        BY <1>22, <2>4, <3>1, <4>1, <4>2, <1>g, ResumeStep
    <3>3. Watched /\ \A d \in DOMAIN attached : d = loop.p
      BY <1>b, <2>1
    <3>4. Covered' \/ (notified' /\ attached'[loop.p].hasEvents)
      BY <1>j, <2>1, <2>2, <3>2, <3>3 DEF Covered
    <3>5. \A d \in DOMAIN attached : Watching(d)'
      BY <3>3, <3>4 DEF Watching
    <3> QED
      BY <1>d, <2>1, <2>2, <3>1, <3>2, <3>3, <3>4, <3>5 DEF Ingesting
  <2> QED
    BY <1>22, <2>3, <2>4, ResumeStep
<1>23. CASE AttachReturns
  <2>1. /\ loop.at = "return" /\ loop.for \in {"attach", "launched"}
        /\ UNCHANGED <<attached, waiting, multi, attaches>>
        /\ Ingest(loop.p, "launched", {}) \/ loop' = [Idle EXCEPT !.at = "packets"]
    BY <1>23, AttachReturnsStep
  <2>2. UNCHANGED <<asyncWait, waits>>
    BY <1>23 DEF AttachReturns, stub
  <2>3. waiting = FALSE
    BY <1>a, <2>1 DEF FloorInv, Serving, Resuming, Ingesting, Loop
  <2>4. loop'.at \in {"ingest", "packets"}
    BY <1>a, <1>g, <2>1 DEF Ingest, Loop
  <2> QED
    BY <1>b, <1>f, <2>1, <2>2, <2>3, <2>4
<1>24. CASE VContReturns
  <2>1. /\ loop.at = "return" /\ loop.for = "vcont" /\ loop.p \in DOMAIN attached
        /\ UNCHANGED <<multi, eventQueue, attaches>>
    BY <1>24, VContReturnsStep
  <2>2. UNCHANGED <<asyncWait, waits, notified>>
    BY <1>24 DEF VContReturns, Dies, stub
  <2>3. Watched /\ Halted /\ \A d \in DOMAIN attached : d = loop.p
    BY <1>b, <2>1
  <2>4. loop.todo = {}
    BY <2>1, <2>3 DEF LoopInv, Ingesting
  <2>5. ASSUME waiting' = FALSE, loop' = [Idle EXCEPT !.at = "packets"], UNCHANGED <<attached, kern>>
        PROVE  Watched'
    BY <1>f, <1>g, <2>1, <2>2, <2>3, <2>5
  <2>6. ASSUME loop' = [Idle EXCEPT !.at = "dead"], UNCHANGED <<attached, kern, waiting>>
        PROVE  Watched'
    BY <1>f, <1>g, <2>1, <2>2, <2>3, <2>6
  <2>7. ASSUME ~loop.stopped, Continue(loop.p), loop' = [Idle EXCEPT !.at = "packets"]
        PROVE  Watched'
    <3>1. /\ DOMAIN attached' = DOMAIN attached
          /\ \A d \in DOMAIN attached : /\ attached'[d].gen = attached[d].gen
                                        /\ attached'[d].hasEvents = attached[d].hasEvents
      BY <2>1, <2>7, ContinueStep
    <3>2. Covered' \/ attached'[loop.p].hasEvents
      BY <1>j, <2>1, <2>2, <2>3, <3>1 DEF Covered
    <3>3. loop'.at = "packets"
      BY <1>g, <2>7
    <3>4. \A d \in DOMAIN attached : Watching(d)'
      BY <2>3, <3>2, <3>3 DEF Watching
    <3>5. \A d \in DOMAIN attached : eventQueue[d] = <<>>
      BY <2>1, <2>3, <2>7 DEF Halted, Ingesting
    <3> QED
      BY <1>d, <2>1, <2>2, <2>3, <3>1, <3>3, <3>4, <3>5
  <2> QED
    BY <1>24, <2>4, <2>5, <2>6, <2>7, VContReturnsStep
<1>25. CASE LogicBreaks
  <2>1. loop.at = "logic" /\ UNCHANGED <<attached, waiting, eventQueue, multi, attaches>>
    BY <1>25, LogicBreaksStep, Zenon
  <2>2. UNCHANGED <<asyncWait, waits, notified>>
    BY <1>25 DEF LogicBreaks, Dies, stub
  <2>3. CASE loop' = [Idle EXCEPT !.at = "dead"]
    BY <1>b, <1>f, <1>g, <2>1, <2>2, <2>3
  <2>4. ASSUME NEW p \in loop.todo,
               loop' = [loop EXCEPT !.at = "check", !.p = p, !.todo = @ \ {p}]
        PROVE  Watched'
    <3>1. loop'.at = "check" /\ loop'.p = p
      BY <1>a, <2>4 DEF Loop
    <3>2. Watched /\ \A d \in DOMAIN attached : d = p
      BY <1>b, <2>1, <2>4 DEF LoopInv
    <3>3. \A d \in DOMAIN attached : Watching(d) => Watching(d)'
      BY <2>1, <2>2, <3>1, <3>2 DEF Watching, Covered
    <3> QED
      BY <1>i, <2>1, <2>2, <3>1, <3>2, <3>3 DEF Ingesting
  <2> QED
    BY <1>25, <2>3, <2>4, LogicBreaksStep, Zenon
<1>26. CASE LogicChecks
  <2>1. /\ loop.at = "check"
        /\ UNCHANGED <<attached, eventQueue, waiting, asyncWait, waits, notified, multi, attaches>>
    BY <1>26 DEF LogicChecks, At, stub, target
  <2>2. Watched /\ loop.p \in DOMAIN attached /\ \A d \in DOMAIN attached : d = loop.p
    BY <1>b, <2>1 DEF LoopInv
  <2>3. CASE waiting /\ attached[loop.p].hasEvents
    <3>1. loop'.at = "ingest"
      BY <1>26, <1>a, <2>3 DEF LogicChecks, Ingest, Loop
    <3>2. \A d \in DOMAIN attached : Watching(d)'
      BY <3>1 DEF Watching
    <3> QED
      BY <1>i, <2>1, <2>2, <2>3, <3>1, <3>2 DEF Ingesting
  <2>4. CASE ~(waiting /\ attached[loop.p].hasEvents)
    <3>1. loop'.at = "logic"
      BY <1>26, <1>a, <2>4 DEF LogicChecks, Loop
    <3>2. \A d \in DOMAIN attached : waiting /\ Watching(d) => Watching(d)'
      BY <2>1, <2>2, <2>4 DEF Watching, Covered
    <3> QED
      BY <1>i, <2>1, <2>2, <3>1, <3>2 DEF Ingesting
  <2> QED
    BY <2>3, <2>4
<1>27. CASE LogicReturns
  <2>1. /\ loop.at = "return" /\ loop'.at = "logic"
        /\ UNCHANGED <<attached, eventQueue, asyncWait, waits, notified, multi, attaches>>
        /\ IF loop.stopped THEN waiting' = FALSE ELSE waiting' = waiting
    BY <1>27, <1>a DEF LogicReturns, At, Stop, Loop, target
  <2>2. Watched /\ Halted /\ loop.p \in DOMAIN attached /\ \A d \in DOMAIN attached : d = loop.p
    BY <1>b, <2>1 DEF LoopInv, Ingesting
  <2>3. CASE loop.stopped
    BY <1>f, <2>1, <2>2, <2>3
  <2>4. CASE ~loop.stopped
    <3>1. Covered' \/ (notified' /\ attached'[loop.p].hasEvents)
      BY <1>j, <2>1, <2>2 DEF Covered
    <3>2. \A d \in DOMAIN attached : Watching(d)'
      BY <2>1, <2>2, <3>1 DEF Watching
    <3>3. \A d \in DOMAIN attached : eventQueue[d] = <<>>
      BY <2>1, <2>2, <2>4 DEF Halted, Ingesting
    <3> QED
      BY <1>i, <2>1, <2>2, <3>2, <3>3
  <2> QED
    BY <2>3, <2>4
<1>28. CASE LogicDone
  <2>1. /\ loop.at = "logic" /\ loop.todo = {} /\ loop'.at = "select"
        /\ UNCHANGED <<attached, eventQueue, waiting, asyncWait, waits, notified, multi, attaches>>
    BY <1>28, <1>g DEF LogicDone, At, stub, target
  <2>2. \A d \in DOMAIN attached : Watching(d) => Watching(d)'
    BY <2>1 DEF Watching, Covered
  <2> QED
    BY <1>b, <1>i, <2>1, <2>2 DEF Ingesting
<1>29. CASE RemoteCommandAnswered
  <2>1. /\ loop.at = "blocked" /\ loop'.at = "packets"
        /\ UNCHANGED <<attached, waiting, asyncWait, waits, multi, attaches>>
    BY <1>29, <1>g DEF RemoteCommandAnswered, At, stub
  <2>2. waiting = FALSE
    BY <1>a, <2>1 DEF FloorInv, Serving
  <2> QED
    BY <1>b, <1>f, <2>1, <2>2
<1>30. CASE Perish
  BY <1>30, <1>h DEF Perish, Dies, stub
<1> QED
  BY <1>1, <1>2, <1>3, <1>4, <1>5, <1>6, <1>7, <1>8, <1>9, <1>10, <1>11, <1>12, <1>13, <1>14,
     <1>15, <1>16, <1>17, <1>18, <1>19, <1>20, <1>21, <1>22, <1>23, <1>24, <1>25, <1>26, <1>27,
     <1>28, <1>29, <1>30, NextCases

-----------------------------------------------------------------------------
IInv == TypeInv /\ LoopInv /\ FloorInv /\ HaltInv /\ ThreadInv /\ WatchInv

\* The layers together are an invariant.
LEMMA Inductive == Spec => []IInv
<1>1. Init => IInv
  <2> SUFFICES ASSUME Init PROVE IInv
    OBVIOUS
  <2>1. TypeInv /\ LoopInv
    BY LoopInit
  <2>2. FloorInv
    BY DEF Init, FloorInv, Idle, Serving, Resuming, Ingesting, OnlyInts
  <2>3. HaltInv
    BY DEF Init, HaltInv, Halted, Idle, Ingesting
  <2>4. ThreadInv
    BY DEF Init, ThreadInv
  <2>5. WatchInv
    BY DEF Init, WatchInv, Session, Named, FirstSession
  <2> QED
    BY <2>1, <2>2, <2>3, <2>4, <2>5 DEF IInv
<1>2. IInv /\ [Next]_vars => IInv'
  <2> SUFFICES ASSUME IInv, [Next]_vars PROVE IInv'
    OBVIOUS
  <2>1. CASE Next
    <3>1. TypeInv' /\ LoopInv' /\ FloorInv' /\ HaltInv' /\ ThreadInv'
      BY <2>1, TypeNext, LoopNext, FloorNext, HaltNext, ThreadNext DEF IInv, WatchInv
    <3>2. WatchInv'
      BY <2>1, SessionNext, NamedNext, WatchedNext DEF IInv, WatchInv
    <3> QED
      BY <3>1, <3>2 DEF IInv
  <2>2. CASE UNCHANGED vars
    <3>1. UNCHANGED <<attached, current, reason, waiting, multi, loop, inBuf, inPipe, gdb,
                      kern, eventQueue, attaches>>
      BY <2>2 DEF vars, stub, target
    <3>2. TypeInv'
      BY <3>1 DEF IInv, TypeInv
    <3>3. LoopInv'
      BY <3>1 DEF IInv, LoopInv
    <3>4. FloorInv'
      BY <3>1 DEF IInv, FloorInv, Serving, Resuming
    <3>5. HaltInv'
      BY <3>1 DEF IInv, HaltInv, Halted, OneProcess
    <3>6. ThreadInv'
      BY <3>1 DEF IInv, ThreadInv, Told, PumpEvents
    <3>7. WatchInv'
      <4>1. UNCHANGED <<waits, asyncWait, notified>>
        BY <2>2 DEF vars, stub
      <4>2. Session' /\ Named'
        BY <3>1, <4>1 DEF IInv, WatchInv, Session, Named
      <4>3. FirstSession' => Watched'
        BY <3>1, <4>1 DEF IInv, WatchInv, FirstSession, Watched, Watching, Covered
      <4> QED
        BY <4>2, <4>3 DEF WatchInv
    <3> QED
      BY <3>2, <3>3, <3>4, <3>5, <3>6, <3>7 DEF IInv
  <2> QED
    BY <2>1, <2>2
<1> QED
  BY <1>1, <1>2, PTL DEF Spec

\* gdb and the stub agree on who has the floor, for any processes, events and
\* interrupts: gdb holds it only while the process it debugs is stopped (without
\* multiprocess extensions, or until a second attachment), no
\* reply is sent that gdb does not wait for, and none is forgotten.
THEOREM FloorAlwaysAgreed == Spec => []FloorAgreed
<1>1. IInv => FloorAgreed
  <2> SUFFICES ASSUME IInv PROVE FloorAgreed
    OBVIOUS
  <2>1. ASSUME OneProcess, gdb = "idle", NEW p \in DOMAIN attached PROVE kern[p].st # "running"
    BY <2>1 DEF IInv, FloorInv, HaltInv, Halted
  <2>2. gdb # "confused"
    BY DEF IInv, FloorInv
  <2>3. ASSUME At("select"), inBuf = <<>>, inPipe = <<>>
        PROVE  gdb # "reply" /\ (gdb = "running" <=> waiting)
    <3>1. ~Lone(inBuf, Asks) /\ ~Lone(inBuf, Conts)
      BY <2>3 DEF Lone
    <3>2. ~Serving /\ ~Resuming /\ loop.at # "dead"
      BY <2>3 DEF Serving, Resuming, Ingesting, At
    <3> QED
      BY <3>1, <3>2 DEF IInv, FloorInv
  <2> QED
    BY <2>1, <2>2, <2>3 DEF FloorAgreed
<1> QED
  BY <1>1, Inductive, PTL

\* The current thread and the stop reason refer to what is attached, and the
\* stub's threads with the queued events are the threads that exist, for any
\* processes, threads and events, over any number of attachments.  Only the thread
\* that "H" chooses of a process without threads is excepted: it never existed.
THEOREM ReferencesLive == Spec => []NoStaleReference
<1>1. IInv => NoStaleReference
  <2> SUFFICES ASSUME IInv PROVE NoStaleReference
    OBVIOUS
  <2>1. ASSUME NEW p \in DOMAIN attached PROVE Announced(p) = kern[p].live
    <3>1. Announced(p) = Known(attached[p].threads, PumpEvents(p))
      BY DEF Announced, Known, About, LastAbout, PumpEvents
    <3> QED
      BY <3>1 DEF IInv, ThreadInv, Told
  <2> QED
    BY <2>1 DEF IInv, ThreadInv, NoStaleReference, Dangling
<1> QED
  BY <1>1, Inductive, PTL

\* While gdb waits for the first process it attached to to stop, with or without
\* multiprocess extensions, and the loop sleeps, a request for its events is
\* outstanding and the console's queue is empty, or the callback was faster than the
\* flag (Stale), for any
\* threads, events and interrupts: none is lost between draining the queue,
\* arming the wait, the callback that clears the flag and notifies the loop,
\* and continuing the process.
THEOREM EventsNotLost == Spec => []NoLostEvent
<1>1. IInv => NoLostEvent
  <2> SUFFICES ASSUME IInv, FirstSession, loop.at = "select", waiting, ~notified, ~Stale,
                      NEW p \in DOMAIN attached
               PROVE  eventQueue[p] = <<>> /\ \E w \in waits : w.p = p /\ w.gen = attached[p].gen
    BY DEF NoLostEvent, At
  <2>1. Watched
    BY DEF IInv, WatchInv
  <2>2. Watching(p) /\ eventQueue[p] = <<>>
    BY <2>1 DEF Watched, Ingesting
  <2>3. Covered
    BY <2>2 DEF Watching
  <2>4. waits # {}
    BY <2>3 DEF Covered, Stale, At
  <2>5. PICK w \in waits : w.p = p /\ w.gen = 1 /\ attached[p].gen = 1
    BY <2>1, <2>4 DEF Watched
  <2> QED
    BY <2>2, <2>5
<1> QED
  BY <1>1, Inductive, PTL
=============================================================================
