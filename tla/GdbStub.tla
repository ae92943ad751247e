------------------------------- MODULE GdbStub -------------------------------
(***************************************************************************)
(* The gdb stub of the twib tool (twib/tool/GdbStub.cpp) together with the *)
(* debugger object it drives on the console                                *)
(* (twili/bridge/interfaces/ITwibDebugger.cpp).                            *)
(*                                                                         *)
(* Three threads meet here: the stub's event loop, which handles packets   *)
(* and drains debug events; the tool's client thread, which runs the       *)
(* callback of the outstanding WAIT_EVENT request; and the console, whose  *)
(* debug handle is signalled while the kernel has events.  A synchronous   *)
(* request is one step: the loop blocks until it is answered.  The kernel  *)
(* and gdb are external: gdb sends one packet at a time and, while it      *)
(* waits for a stop reply, only the interrupt byte.                        *)
(***************************************************************************)
EXTENDS Integers, Sequences, FiniteSets

CONSTANTS Pids,        \* process ids, ordered as std::map orders them
          Tids,        \* thread ids
          Unstarted,   \* processes that have been created but not started
          MaxEvents,   \* bound: debug events the kernel produces
          MultiEvents, \* the same bound with multiprocess extensions
          LaterEvents, \* the same bound from the second attachment on
          MaxAttach,   \* bound: attachments, over all processes
          MaxInts      \* bound: interrupts gdb sends

\* Ids are positive numbers of 64 bits, so there are finitely many threads.
ASSUME GdbAssumption == /\ Pids \cup Tids \subseteq Nat \ {0} /\ Unstarted \subseteq Pids
                        /\ Tids # {} /\ IsFiniteSet(Tids)

VARIABLES
  attached,       \* attached_processes: a function on the attached pids
  current,        \* current_thread, <<>> is the null pointer
  reason,         \* stop_reason, <<>> is "W00"
  waiting,        \* waiting_for_stop
  asyncWait,      \* has_async_wait, one flag for the whole stub
  multi,          \* multiprocess_enabled
  threadEvents,   \* thread_events_enabled
  loop,           \* the event loop's thread: where it is and its locals
  notified,       \* the notification pipe of the event loop has a byte
  inBuf,          \* connection.in_buffer: read, not processed yet
  inPipe,         \* interrupts sent by gdb, not read yet
  gdb,            \* what gdb waits for
  kern,           \* the debugged processes, their threads and their events
  eventQueue,     \* ITwibDebugger::event_queue of the console, by pid
  waits,          \* WAIT_EVENT requests: pending, answered, half called back
  events,         \* number of events the kernel has produced
  attaches,       \* number of attachments so far
  ints            \* number of interrupts so far

stub == <<attached, current, reason, waiting, asyncWait, multi, threadEvents>>
target == <<kern, eventQueue, events>>
vars == <<stub, loop, notified, inBuf, inPipe, gdb, target, waits, attaches, ints>>

Event == [type : {"AttachProcess", "AttachThread", "ExitProcess", "ExitThread", "Exception"},
          thread : Tids \cup {0}]
Packet == [k : {"int", "plain", "read", "G", "multi", "wait", "contAll"},
           p : {0}, t : {0}]
          \cup [k : {"attach", "cont"}, p : Pids, t : {0}]
          \cup [k : {"D"}, p : Pids \cup {0}, t : {0}]
          \cup [k : {"H"}, p : Pids \cup {0}, t : Tids \cup {0}]
          \cup [k : {"threads"}, p : {0}, t : {0, 1}]
Pkt(k, p, t) == [k |-> k, p |-> p, t |-> t]

Least(S) == CHOOSE p \in S : \A q \in S : p <= q

Idle == [at |-> "select", p |-> 0, for |-> "none", was |-> FALSE, stopped |-> FALSE,
         todo |-> {}, int |-> FALSE]

Init ==
  /\ attached = [p \in {} |-> {}]
  /\ current = <<>> /\ reason = <<>>
  /\ waiting = FALSE /\ asyncWait = FALSE /\ multi = FALSE /\ threadEvents = FALSE
  /\ loop = Idle /\ notified = FALSE /\ inBuf = <<>> /\ inPipe = <<>> /\ gdb = "idle"
  /\ kern = [p \in Pids |-> [st |-> "free", q |-> <<>>,
                             live |-> IF p \in Unstarted THEN {} ELSE {Least(Tids)}]]
  /\ eventQueue = [p \in Pids |-> <<>>] /\ waits = {} /\ events = 0 /\ attaches = 0 /\ ints = 0

At(pc) == loop.at = pc

-----------------------------------------------------------------------------
\* The kernel's side of a debugged process, and the console's queue over it.

Occurred(e) == [type |-> e[1], thread |-> e[2]]

\* What one event does to the set of live threads.
After(live, e) == CASE e[1] = "AttachThread" -> live \cup {e[2]}
                    [] e[1] = "ExitThread" -> live \ {e[2]}
                    [] OTHER -> live

\* An event a process with these threads can produce; which of them hits an
\* exception makes no difference.
Possible(live) == {<<"Exception", Least(live)>> : t \in live} \cup {<<"ExitThread", t>> : t \in live}
                  \cup {<<"AttachThread", t>> : t \in Tids \ live} \cup {<<"ExitProcess", 0>>}

\* Only one process has ever been attached, with multiprocess extensions or
\* without: from the second attachment on has_async_wait, which is one flag for
\* the whole stub, may be up for the process before.
FirstSession == attaches = 1
EventsLeft == (IF ~FirstSession THEN LaterEvents ELSE IF multi THEN MultiEvents ELSE MaxEvents) - events

\* A running process hits an event; threads on other cores may hit another
\* one before the kernel has broken the process.
KernelEvent(p) ==
  /\ kern[p].st = "running" /\ EventsLeft > 0
  /\ \E e \in Possible(kern[p].live) :
       \/ /\ kern' = [kern EXCEPT ![p] =
                [st |-> IF e[1] = "ExitProcess" THEN "exited" ELSE "broken",
                 live |-> After(@.live, e), q |-> Append(@.q, Occurred(e))]]
          /\ events' = events + 1
       \/ /\ e[1] # "ExitProcess" /\ EventsLeft > 1
          /\ \E f \in Possible(After(kern[p].live, e)) :
               /\ f[1] # "ExitProcess"
               /\ kern' = [kern EXCEPT ![p] =
                    [st |-> "broken", live |-> After(After(@.live, e), f),
                     q |-> @.q \o <<Occurred(e), Occurred(f)>>]]
          /\ events' = events + 2
  /\ UNCHANGED <<stub, loop, notified, inBuf, inPipe, gdb, eventQueue, waits, attaches, ints>>

\* Somebody else terminates the process, broken or not.
KernelKill(p) ==
  /\ kern[p].st \in {"running", "broken"} /\ EventsLeft > 0
  /\ kern' = [kern EXCEPT ![p].st = "exited", ![p].q = Append(@, Occurred(<<"ExitProcess", 0>>))]
  /\ events' = events + 1
  /\ UNCHANGED <<stub, loop, notified, inBuf, inPipe, gdb, eventQueue, waits, attaches, ints>>

\* GetDebugEvent first moves everything the kernel has into the console's
\* queue, and takes the first event out of it.
PumpEvents(p) == eventQueue[p] \o kern[p].q
GetDebugEvent(p) ==
  /\ kern' = [kern EXCEPT ![p].q = <<>>]
  /\ eventQueue' = [eventQueue EXCEPT ![p] = IF PumpEvents(p) = <<>> THEN <<>>
                                             ELSE Tail(PumpEvents(p))]

\* BreakProcess: the running process breaks with an exception event.
BreakProcess(p) ==
  kern' = IF kern[p].st # "running" THEN kern
          ELSE [kern EXCEPT ![p].st = "broken", ![p].q = Append(@, Occurred(<<"Exception", 0>>))]

\* LaunchDebugProcess: pm:dmnt starts the main thread, or fails.
LaunchDebugProcess(p) ==
  \/ /\ kern[p].live = {} /\ kern[p].st = "broken"
     /\ kern' = [kern EXCEPT ![p].live = {Least(Tids)},
                             ![p].q = Append(@, Occurred(<<"AttachThread", Least(Tids)>>))]
  \/ UNCHANGED kern

\* WaitEvent: a debugger that is waited for already refuses (ALREADY_WAITING).
WaitEvent(w) == waits' = waits \cup {[w EXCEPT !.st = IF w \in waits THEN "refused" ELSE @]}

\* The signalled debug handle runs the wait callback: it answers and resets
\* wait_handle.
WaitFires ==
  /\ \E w \in waits : /\ w.st = "pending" /\ kern[w.p].q # <<>>
                      /\ waits' = (waits \ {w}) \cup {[w EXCEPT !.st = "answered"]}
  /\ UNCHANGED <<stub, loop, notified, inBuf, inPipe, gdb, target, attaches, ints>>

-----------------------------------------------------------------------------
\* The callback of AsyncWait, on the client's thread, in two steps.  The
\* object it writes has_events of is the one that asked (gen).

CallbackClears ==
  /\ \E w \in waits : /\ w.st \in {"answered", "refused"} /\ asyncWait' = FALSE
                      /\ waits' = (waits \ {w}) \cup
                           (IF w.st = "answered" THEN {[w EXCEPT !.st = "cleared"]} ELSE {})
  /\ UNCHANGED <<attached, current, reason, waiting, multi, threadEvents, loop,
                 notified, inBuf, inPipe, gdb, target, attaches, ints>>

\* Mutant of Notify: the event loop is not told.
NotifyLost == UNCHANGED notified

\* Logic::NotifyEvent, through the event thread notifier.
Notify == notified' = TRUE

CallbackNotifies ==
  /\ \E w \in waits :
       /\ w.st = "cleared" /\ waits' = waits \ {w}
       /\ attached' = [p \in DOMAIN attached |->
            IF p = w.p /\ attached[p].gen = w.gen
            THEN [attached[p] EXCEPT !.hasEvents = TRUE] ELSE attached[p]]
  /\ Notify
  /\ UNCHANGED <<current, reason, waiting, asyncWait, multi, threadEvents, loop,
                 inBuf, inPipe, gdb, target, attaches, ints>>

-----------------------------------------------------------------------------
\* gdb: one packet at a time; while it waits for a stop reply, one interrupt.
\* A packet is not looked at before select returns, so it is enough to send
\* it while the loop sleeps, and to wake the loop with it; an interrupt may
\* also cross a stop reply.  Features are negotiated before attaching.

WellFormed ==
  {Pkt(k, 0, 0) : k \in {"plain", "read", "G", "multi", "wait", "D", "contAll"}}
  \cup {Pkt(k, p, 0) : k \in {"attach"}, p \in Pids}
  \cup {Pkt(k, p, 0) : k \in {"D", "cont"}, p \in DOMAIN attached}
  \cup {Pkt("H", 0, 0)} \cup {Pkt("H", p, t) : p \in Pids, t \in Tids \cup {0}}
  \cup {Pkt("threads", 0, b) : b \in {0, 1}}

\* gdb resumes only what it believes is alive and stopped.
Resumable(k) == k \in {"cont", "contAll"} =>
  \E p \in DOMAIN attached : kern[p].st # "running" /\ (reason # <<>> => reason.style # "W")

GdbSends ==
  /\ gdb = "idle" /\ At("select")
  /\ \E m \in WellFormed : /\ Resumable(m.k)
                           /\ m.k = "attach" => attaches < MaxAttach
                           /\ m.k \in {"multi", "threads"} => attaches = 0
                           /\ inBuf' = inBuf \o inPipe \o <<m>>
                           /\ gdb' = IF m.k \in {"cont", "contAll"} THEN "running" ELSE "reply"
  /\ inPipe' = <<>> /\ notified' = FALSE
  /\ loop' = [loop EXCEPT !.at = "packets"]
  /\ UNCHANGED <<stub, target, waits, attaches, ints>>

GdbInterrupts ==
  /\ gdb = "running" /\ ints < MaxInts
  /\ inPipe' = Append(inPipe, Pkt("int", 0, 0)) /\ ints' = ints + 1
  /\ UNCHANGED <<stub, loop, notified, inBuf, gdb, target, waits, attaches>>

\* GdbConnection::Respond: every reply gdb did not wait for confuses it.
Respond == gdb' = CASE gdb \in {"reply", "running"} -> "idle"
                    [] gdb = "idle" -> "confused"
                    [] OTHER -> gdb

-----------------------------------------------------------------------------
\* The event loop: select, then Prepare, which handles every packet of the
\* input buffer and then looks at the processes.

\* select returns without a packet of gdb: the notification is drained and
\* the interrupt byte, if there is one, is read.
Wake ==
  /\ At("select") /\ (notified \/ inPipe # <<>>)
  /\ notified' = FALSE /\ inBuf' = inBuf \o inPipe /\ inPipe' = <<>>
  /\ loop' = [Idle EXCEPT !.at = "packets"]
  /\ UNCHANGED <<stub, gdb, target, waits, attaches, ints>>

\* The next packet of GdbConnection::Process, if it is of this kind.
Takes(kinds) ==
  /\ At("packets") /\ inBuf # <<>> /\ Head(inBuf).k \in kinds
  /\ inBuf' = Tail(inBuf)
  /\ UNCHANGED <<notified, inPipe>>
M == Head(inBuf)

\* A reply that leaves the stub and the console as they were.
Answers(kinds) ==
  /\ Takes(kinds) /\ Respond
  /\ UNCHANGED <<stub, loop, target, waits, attaches, ints>>

\* An exception nobody catches, or a null or dangling pointer: the tool dies.
Dies ==
  /\ loop' = [Idle EXCEPT !.at = "dead"]
  /\ UNCHANGED <<stub, target, waits, attaches, ints>>

\* Once "H" has chosen a thread of a process that has none, the current thread is
\* the element behind the last one of its map, written <<p, 0>>: what is read
\* through it may be anything, and may end the tool.
Dangling == current # <<>> /\ current[2] = 0
MayDie(kinds) == Takes(kinds) /\ Dies /\ UNCHANGED gdb

\* Packets that only ask the stub: "!", "?", "T", vCont?, qC, an unsupported
\* query or packet, QStartNoAckMode, and remote commands that do not wait.
HandleGetStopReason == Answers({"plain"})
HandleIsThreadAlive == Answers({"plain"})
HandleVContQuery == Answers({"plain"})
HandleGeneralGetQuery == Answers({"plain"})
HandleGeneralSetQuery == Answers({"plain"})
HandleMultiletterPacket == Answers({"plain"})
QueryGetCurrentThread == Answers({"plain"}) \/ (Dangling /\ MayDie({"plain"}))
QuerySetStartNoAckMode == Answers({"plain"})

\* Packets that ask the console about the current thread or its process: an
\* error reply without a thread, and a caught ResultError is a reply as well.
\* QueryGetOffsets catches none, and QueryGetFThreadInfo reads the first process
\* although there may be none.
AsksThread == Answers({"read"}) \/ (Dangling /\ MayDie({"read"}))
HandleReadGeneralRegisters == AsksThread
HandleReadMemory == AsksThread
HandleWriteMemory == AsksThread
QueryGetFThreadInfo == Answers({"read"}) \/ (DOMAIN attached = {} /\ MayDie({"read"}))
QueryGetSThreadInfo == Answers({"read"})
QueryGetThreadExtraInfo == AsksThread
QueryGetOffsets == Answers({"read"}) \/ (current # <<>> /\ MayDie({"read"}))
QueryXfer == AsksThread
ReadOnlyStringXferObject == Answers({"read"})

HandleSimple == \/ HandleGetStopReason \/ HandleIsThreadAlive \/ HandleVContQuery
                \/ HandleGeneralGetQuery \/ HandleGeneralSetQuery \/ HandleMultiletterPacket
                \/ QueryGetCurrentThread \/ QuerySetStartNoAckMode
HandleRead == \/ HandleReadGeneralRegisters \/ HandleReadMemory \/ HandleWriteMemory
              \/ QueryGetFThreadInfo \/ QueryGetSThreadInfo \/ QueryGetThreadExtraInfo
              \/ QueryGetOffsets \/ QueryXfer \/ ReadOnlyStringXferObject

\* "G": the error reply for a null thread is not followed by a return.  (Nor is
\* the one for a packet that lacks registers: gdb sends them all.)
HandleWriteGeneralRegisters ==
  /\ Takes({"G"})
  /\ \/ Respond /\ current = <<>> /\ Dies
     \/ Respond /\ current # <<>> /\ UNCHANGED <<stub, loop, target, waits, attaches, ints>>
     \/ Dangling /\ Dies /\ UNCHANGED gdb

\* ReadThreadId takes the process of the current thread when the packet
\* names none; the first attached process when there is no such thread.
Names(m) == CASE m.p # 0 -> {m.p}
              [] m.p = 0 /\ Dangling -> Pids \cup {0}
              [] m.p = 0 /\ current # <<>> /\ ~Dangling -> {current[1]}
              [] OTHER -> IF DOMAIN attached = {} THEN {0} ELSE {Least(DOMAIN attached)}

\* "H": the thread named, or the first of the process, which is the map's end for
\* a process without threads.
Selected(p, t) ==
  IF p \in DOMAIN attached /\ (t = 0 \/ t \in attached[p].threads)
  THEN <<p, IF t = 0 /\ attached[p].threads # {} THEN Least(attached[p].threads) ELSE t>>
  ELSE current
HandleSetCurrentThread ==
  /\ Takes({"H"})
  /\ \/ /\ Respond
        /\ \E p \in Names(M) : current' = Selected(p, M.t)
        /\ UNCHANGED <<attached, reason, waiting, asyncWait, multi, threadEvents,
                       loop, target, waits, attaches, ints>>
     \/ /\ Dangling \/ \E p \in Names(M) \cap DOMAIN attached : M.t = 0 /\ attached[p].threads = {}
        /\ Dies /\ UNCHANGED gdb

\* The debugger objects of these processes go away: the console drops a
\* pending wait without answering it, the kernel lets the process run.
Released(ps) ==
  /\ kern' = [p \in Pids |-> IF p \in ps THEN [kern[p] EXCEPT
                  !.st = IF @ = "exited" THEN @ ELSE "free", !.q = <<>>] ELSE kern[p]]
  /\ eventQueue' = [p \in Pids |-> IF p \in ps THEN <<>> ELSE eventQueue[p]]
  /\ waits' = {w \in waits : ~(w.p \in ps /\ w.st = "pending")}

\* gdb closes the connection: read() gives 0, the error flag ends Run, and
\* the destructors detach from everything.
GdbHangsUp ==
  /\ gdb = "idle" /\ At("select") /\ gdb' = "gone"
  /\ loop' = [loop EXCEPT !.at = "closed"]
  /\ attached' = [p \in {} |-> {}] /\ current' = <<>> /\ reason' = <<>>
  /\ Released(DOMAIN attached)
  /\ UNCHANGED <<waiting, asyncWait, multi, threadEvents,
                 notified, inBuf, inPipe, events, attaches, ints>>

\* Mutant of ThreadAfterDetach: only detaching from everything resets the thread.
ThreadKept(p) == IF p = 0 THEN <<>> ELSE current

\* The current thread, when it is one of the process detached from, is reset.
ThreadAfterDetach(p) == IF p = 0 \/ current[1] = p THEN <<>> ELSE current

\* "D" and "D;pid", which reads the process of a current thread.
HandleDetach ==
  /\ Takes({"D"})
  /\ \/ M.p # 0 /\ (current = <<>> \/ Dangling) /\ Dies /\ UNCHANGED gdb
     \/ LET gone == IF M.p = 0 THEN DOMAIN attached ELSE {M.p}
        IN /\ M.p = 0 \/ current # <<>>
           /\ attached' = [p \in DOMAIN attached \ gone |-> attached[p]]
           /\ \/ current' = ThreadAfterDetach(M.p)
              \/ M.p # 0 /\ Dangling /\ current' \in {<<>>, current}
           /\ Released(gone)
           /\ reason' = <<>> /\ Respond
           /\ UNCHANGED <<waiting, asyncWait, multi, threadEvents, loop, events, attaches, ints>>

QueryGetSupported ==
  /\ Takes({"multi"}) /\ Respond
  /\ multi' = TRUE
  /\ UNCHANGED <<attached, current, reason, waiting, asyncWait, threadEvents,
                 loop, target, waits, attaches, ints>>

QuerySetThreadEvents ==
  /\ Takes({"threads"}) /\ Respond
  /\ threadEvents' = (M.t = 1)
  /\ UNCHANGED <<attached, current, reason, waiting, asyncWait, multi,
                 loop, target, waits, attaches, ints>>

\* qRcmd "wait application" and "wait title" block the loop until the
\* console has something to debug.  A title id of more than 64 bits makes stoull
\* throw what is not caught.
QueryGetRemoteCommand ==
  \/ /\ Takes({"wait"})
     /\ loop' = [loop EXCEPT !.at = "blocked"]
     /\ UNCHANGED <<stub, gdb, target, waits, attaches, ints>>
  \/ MayDie({"wait"})
RemoteCommandAnswered ==
  /\ At("blocked") /\ Respond
  /\ loop' = [Idle EXCEPT !.at = "packets"]
  /\ UNCHANGED <<stub, notified, inBuf, inPipe, target, waits, attaches, ints>>

-----------------------------------------------------------------------------
\* Attaching, continuing and looking for events all go through
\* Process::IngestEvents, which the loop runs step by step.

Ingest(p, for, todo) ==
  loop' = [loop EXCEPT !.at = "ingest", !.p = p, !.for = for, !.todo = todo,
                       !.was = attached[p].running, !.stopped = FALSE]

\* vAttach: DebugActiveProcess queues the events that describe the process.
\* A process that is gone makes OpenActiveDebugger throw.
Nth(S, i) == CHOOSE t \in S : Cardinality({u \in S : u <= t}) = i
AttachEvents(live) ==
  <<Occurred(<<"AttachProcess", 0>>)>>
  \o [i \in 1..Cardinality(live) |-> Occurred(<<"AttachThread", Nth(live, i)>>)]
  \o <<Occurred(<<"Exception", 0>>)>>

HandleVAttach ==
  /\ Takes({"attach"})
  /\ IF M.p \in DOMAIN attached \/ (~multi /\ DOMAIN attached # {})
     THEN Respond /\ UNCHANGED <<stub, loop, target, waits, attaches, ints>>
     ELSE IF kern[M.p].st = "exited" THEN Dies /\ UNCHANGED gdb
     ELSE /\ attaches' = attaches + 1
          /\ attached' = [p \in DOMAIN attached \cup {M.p} |->
               IF p = M.p THEN [threads |-> {}, running |-> FALSE, hasEvents |-> FALSE,
                                gen |-> attaches + 1] ELSE attached[p]]
          /\ kern' = [kern EXCEPT ![M.p].st = "broken"]
          /\ eventQueue' = [eventQueue EXCEPT ![M.p] = AttachEvents(kern[M.p].live)]
          /\ loop' = [loop EXCEPT !.at = "ingest", !.p = M.p, !.for = "attach", !.todo = {},
                                  !.was = FALSE, !.stopped = FALSE]
          /\ UNCHANGED <<current, reason, waiting, asyncWait, multi, threadEvents,
                         gdb, waits, events, ints>>

\* vCont: the processes to continue, in the order of the map.
HandleVCont ==
  /\ Takes({"cont", "contAll"})
  /\ LET ps == DOMAIN attached \cap (IF M.k = "cont" THEN {M.p} ELSE Pids)
     IN IF ps = {}
        THEN waiting' = TRUE /\ UNCHANGED loop
        ELSE Ingest(Least(ps), "vcont", ps \ {Least(ps)}) /\ UNCHANGED waiting
  /\ UNCHANGED <<attached, current, reason, asyncWait, multi, threadEvents,
                 gdb, target, waits, attaches, ints>>

\* Which events end IngestEvents, and with which style of stop reason.
Stops(e) == \/ e.type \in {"ExitProcess", "Exception"}
            \/ e.type \in {"AttachThread", "ExitThread"} /\ threadEvents
StyleOf(e) == CASE e.type = "ExitProcess" -> "W"
                [] e.type = "ExitThread" -> "w"
                [] OTHER -> "T"
ThreadsAfter(ts, e) == CASE e.type = "AttachThread" -> ts \cup {e.thread}
                         [] e.type = "ExitThread" -> ts \ {e.thread}
                         [] OTHER -> ts

\* One round of IngestEvents handles what GetDebugEvent returned.
IngestEvent ==
  LET p == loop.p
      all == PumpEvents(p)
      e == Head(all)
  IN /\ At("ingest") /\ GetDebugEvent(p)
     /\ IF all = <<>>
        THEN /\ loop' = [loop EXCEPT !.at = "arm"]
             /\ UNCHANGED <<attached, current, reason>>
        ELSE /\ attached' = [attached EXCEPT ![p].running = FALSE,
                                             ![p].threads = ThreadsAfter(@, e)]
             /\ current' = IF e.type = "ExitThread" /\ current = <<p, e.thread>>
                           THEN <<>> ELSE current
             /\ reason' = IF Stops(e) THEN [style |-> StyleOf(e), p |-> p, t |-> e.thread]
                          ELSE reason
             /\ loop' = [loop EXCEPT !.at = IF Stops(e) THEN "arm" ELSE "ingest",
                                     !.stopped = Stops(e)]
     /\ UNCHANGED <<waiting, asyncWait, multi, threadEvents, notified, inBuf, inPipe, gdb,
                    events, waits, attaches, ints>>

\* Mutant of Arms: only vAttach waits for events.
ArmsOnAttach == ~asyncWait /\ loop.for = "attach"

\* AsyncWait, unless one is believed outstanding.
Arms == ~asyncWait

AsyncWait ==
  LET p == loop.p
      mine == [p |-> p, gen |-> attached[p].gen, st |-> "pending"]
  IN /\ At("arm")
     /\ IF Arms THEN WaitEvent(mine) ELSE UNCHANGED waits
     /\ loop' = [loop EXCEPT !.at = IF Arms THEN "armed" ELSE "resume"]
     /\ UNCHANGED <<stub, notified, inBuf, inPipe, gdb, target, attaches, ints>>

\* The flag is set after the request has been sent.
AsyncWaitSent ==
  /\ At("armed")
  /\ asyncWait' = TRUE
  /\ loop' = [loop EXCEPT !.at = "resume"]
  /\ UNCHANGED <<attached, current, reason, waiting, multi, threadEvents,
                 notified, inBuf, inPipe, gdb, target, waits, attaches, ints>>

\* ContinueDebugEvent: the kernel refuses it for a process that has exited
\* and may refuse it for one that runs; nothing catches the error.
Continue(p) ==
  /\ kern[p].st \in {"broken", "running"}
  /\ kern' = [kern EXCEPT ![p].st = "running"]
  /\ attached' = [attached EXCEPT ![p].running = TRUE]
MayRefuse(p) == kern[p].st \in {"exited", "running"}

\* Mutant of ShouldContinue: a stop does not keep the process stopped.
ContinuesAnyway(p) == loop.was /\ ~attached[p].running

\* Whether the process is continued at the end.
ShouldContinue(p) == loop.was /\ ~attached[p].running /\ ~loop.stopped

\* The end of IngestEvents: events that did not stop a running process.
Resume ==
  LET p == loop.p IN
  /\ At("resume")
  /\ IF ShouldContinue(p)
     THEN \/ /\ Continue(p) /\ loop' = [loop EXCEPT !.at = "return"]
             /\ UNCHANGED <<current, reason, waiting, asyncWait, multi, threadEvents,
                            eventQueue, events, waits, attaches, ints>>
          \/ MayRefuse(p) /\ Dies
     ELSE loop' = [loop EXCEPT !.at = "return"] /\ UNCHANGED <<stub, target, waits, attaches, ints>>
  /\ UNCHANGED <<notified, inBuf, inPipe, gdb>>

\* Stop(): the stop reason is sent.
Stop == Respond /\ waiting' = FALSE

\* Back in vAttach: a process without threads is started, once, and its
\* events are ingested again; then the stop reason is the reply.
AttachReturns ==
  LET p == loop.p IN
  /\ At("return") /\ loop.for \in {"attach", "launched"}
  /\ IF loop.for = "attach" /\ attached[p].threads = {}
     THEN /\ Ingest(p, "launched", {})
          /\ LaunchDebugProcess(p) /\ UNCHANGED gdb
     ELSE Respond /\ loop' = [Idle EXCEPT !.at = "packets"] /\ UNCHANGED kern
  /\ UNCHANGED <<stub, notified, inBuf, inPipe, eventQueue, events, waits, attaches, ints>>

\* Back in vCont: a stop is reported at once, and the processes continued
\* before it keep running.
VContReturns ==
  LET p == loop.p IN
  /\ At("return") /\ loop.for = "vcont"
  /\ IF loop.stopped
     THEN /\ Stop
          /\ loop' = [Idle EXCEPT !.at = "packets"]
          /\ UNCHANGED <<attached, current, reason, asyncWait, multi, threadEvents,
                         target, waits, attaches, ints>>
     ELSE /\ UNCHANGED gdb
          /\ \/ /\ Continue(p)
                /\ waiting' = (waiting \/ loop.todo = {})
                /\ loop' = IF loop.todo = {} THEN [Idle EXCEPT !.at = "packets"]
                           ELSE LET n == Least(loop.todo)
                                IN [loop EXCEPT !.at = "ingest", !.p = n, !.todo = @ \ {n},
                                      !.was = attached[n].running, !.stopped = FALSE]
                /\ UNCHANGED <<current, reason, asyncWait, multi, threadEvents,
                               eventQueue, events, waits, attaches, ints>>
             \/ MayRefuse(p) /\ Dies
  /\ UNCHANGED <<notified, inBuf, inPipe>>

-----------------------------------------------------------------------------
\* The end of Prepare: interrupts and events, process by process.

\* No packet is left, or the interrupt byte ended the parser's loop: what is
\* behind it stays in the buffer until the loop wakes again.
PacketsDone ==
  /\ At("packets") /\ (inBuf # <<>> => M.k = "int")
  /\ LET int == inBuf # <<>>
     IN /\ inBuf' = IF int THEN Tail(inBuf) ELSE inBuf
        /\ loop' = IF int \/ waiting
                   THEN [Idle EXCEPT !.at = "logic", !.int = int, !.todo = DOMAIN attached]
                   ELSE Idle
  /\ UNCHANGED <<stub, notified, inPipe, gdb, target, waits, attaches, ints>>

\* BreakProcess for a process the stub believes running.
LogicBreaks ==
  /\ At("logic") /\ loop.todo # {}
  /\ LET p == Least(loop.todo) IN
     \/ /\ loop' = [loop EXCEPT !.at = "check", !.p = p, !.todo = @ \ {p}]
        /\ loop.int /\ attached[p].running => kern[p].st # "exited"
        /\ IF loop.int /\ attached[p].running THEN BreakProcess(p) ELSE UNCHANGED kern
        /\ UNCHANGED <<stub, eventQueue, events, waits, attaches, ints>>
     \/ loop.int /\ attached[p].running /\ kern[p].st # "running" /\ Dies
  /\ UNCHANGED <<notified, inBuf, inPipe, gdb>>

LogicChecks ==
  /\ At("check")
  /\ IF waiting /\ attached[loop.p].hasEvents
     THEN Ingest(loop.p, "logic", loop.todo)
     ELSE loop' = [loop EXCEPT !.at = "logic"]
  /\ UNCHANGED <<stub, notified, inBuf, inPipe, gdb, target, waits, attaches, ints>>

LogicReturns ==
  /\ At("return") /\ loop.for = "logic"
  /\ IF loop.stopped THEN Stop ELSE UNCHANGED <<gdb, waiting>>
  /\ loop' = [loop EXCEPT !.at = "logic"]
  /\ UNCHANGED <<attached, current, reason, asyncWait, multi, threadEvents,
                 notified, inBuf, inPipe, target, waits, attaches, ints>>

LogicDone ==
  /\ At("logic") /\ loop.todo = {}
  /\ loop' = Idle
  /\ UNCHANGED <<stub, notified, inBuf, inPipe, gdb, target, waits, attaches, ints>>

-----------------------------------------------------------------------------
Console == WaitFires \/ \E p \in Pids : KernelEvent(p) \/ KernelKill(p)
ClientThread == CallbackClears \/ CallbackNotifies
Gdb == GdbSends \/ GdbInterrupts \/ GdbHangsUp
Packets == HandleSimple \/ HandleRead \/ HandleWriteGeneralRegisters \/ HandleSetCurrentThread
           \/ HandleDetach \/ QueryGetSupported
           \/ QuerySetThreadEvents \/ QueryGetRemoteCommand \/ HandleVAttach \/ HandleVCont
LoopThread == Wake \/ Packets \/ PacketsDone
              \/ IngestEvent \/ AsyncWait \/ AsyncWaitSent \/ Resume
              \/ AttachReturns \/ VContReturns
              \/ LogicBreaks \/ LogicChecks \/ LogicReturns \/ LogicDone
Next == ~At("dead") /\ (Console \/ ClientThread \/ Gdb \/ LoopThread \/ RemoteCommandAnswered)

\* The three threads keep running, and the console's main loop keeps serving
\* its signalled handles; nothing makes gdb or the kernel act.
Fairness == WF_vars(LoopThread) /\ WF_vars(ClientThread) /\ WF_vars(WaitFires)
Spec == Init /\ [][Next]_vars /\ Fairness

-----------------------------------------------------------------------------
\* The threads that are known once the queued events are applied.
Announced(p) ==
  LET q == eventQueue[p] \o kern[p].q
      about(t) == {i \in DOMAIN q : q[i].type \in {"AttachThread", "ExitThread"} /\ q[i].thread = t}
      last(t) == CHOOSE i \in about(t) : \A j \in about(t) : j <= i
  IN {t \in Tids : IF about(t) = {} THEN t \in attached[p].threads
                   ELSE q[last(t)].type = "AttachThread"}

\* No pointer outlives what it points to, over detaching, exiting threads
\* and new attachments: the current thread is a thread of an attached
\* process and the stop reason speaks of an attached process.  The exception is
\* the thread that "H" chooses of a process without threads (Dangling).  The stub's
\* thread list and the events still queued in the console and in the kernel
\* together always describe the threads that exist: stopping in the middle of
\* a batch of events loses none of them.
NoStaleReference ==
  /\ current # <<>> /\ ~Dangling => /\ current[1] \in DOMAIN attached
                                   /\ current[2] \in attached[current[1]].threads
  /\ reason # <<>> => reason.p \in DOMAIN attached
  /\ \A p \in DOMAIN attached : Announced(p) = kern[p].live

\* has_async_wait although no request is outstanding: the callback ran before
\* the flag was set.
Stale == asyncWait /\ waits = {} /\ ~At("armed")
\* While gdb waits for a stop and the loop sleeps, a WAIT_EVENT request is
\* outstanding for the process it waits for and no event is left in the
\* console's queue, where it would signal nothing: no event is lost between
\* draining the queue, arming the wait and continuing the process.  This is said of
\* the first process that is attached, until another is (FirstSession), and not
\* when the flag is left up by a callback that was faster (Stale).
NoLostEvent ==
  FirstSession /\ At("select") /\ waiting /\ ~notified /\ ~Stale =>
    \A p \in DOMAIN attached :
      eventQueue[p] = <<>> /\ \E w \in waits : w.p = p /\ w.gen = attached[p].gen

\* At most one process is attached.
OneProcess == ~multi \/ attaches <= 1

\* gdb and the stub agree on who has the floor.  In all-stop mode gdb holds it
\* only while the process it debugs, if it is only one, is stopped.  Every packet gets one reply:
\* none when gdb does not wait for one, and when the loop sleeps with nothing
\* left to process gdb waits for no reply, or for the stop reply it is owed.
FloorAgreed ==
  /\ OneProcess /\ gdb = "idle" => \A p \in DOMAIN attached : kern[p].st # "running"
  /\ gdb # "confused"
  /\ At("select") /\ inBuf = <<>> /\ inPipe = <<>> =>
       gdb # "reply" /\ (gdb = "running" <=> waiting)

\* A process that stops while gdb waits is reported: the wait, its callback,
\* the notification and IngestEvents lead to a stop reply, in the first session as
\* above.
Stopped(p) == \E i \in 1..Len(kern[p].q) : kern[p].q[i].type \in {"ExitProcess", "Exception"}
StopReported ==
  (FirstSession /\ waiting /\ \E p \in DOMAIN attached : Stopped(p))
    ~> (~waiting \/ ~FirstSession \/ Stale \/ At("dead"))
=============================================================================
