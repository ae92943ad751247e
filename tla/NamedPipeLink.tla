--------------------------- MODULE NamedPipeLink ---------------------------
(***************************************************************************)
(* The connection of the twib tool to twibd on Windows: NamedPipeClient    *)
(* and NamedPipeFrontend, the two ends of a NamedPipeMessageConnection     *)
(* (twib/common), each with its event loop thread (twib/platform/windows)  *)
(* and the threads that send.  Reads and writes are overlapped: they are   *)
(* done at once or complete later, and then signal an event.               *)
(*                                                                         *)
(* What MessageConnection does with a cut message is in TcpLink; here a    *)
(* message is taken off the buffer when all of its units are there.        *)
(***************************************************************************)
EXTENDS Integers, Sequences, SequencesExt

CONSTANTS MainReqs,   \* the requests the tool's own threads send, in order
          Follow,     \* Follow[i]: the request the callback of i sends, or 0
          ReqSize,    \* units of each request ...
          RspSize,    \* ... and of its response
          Cap,        \* units a pipe holds before a write has to wait
          Chunk,      \* units a read asks for
          Tools       \* "a", the tool modelled, and others that only connect

VARIABLES end,    \* end[x]: the message connection and event loop of x
          snd,    \* snd[s]: what a sending thread is doing
          pipe,   \* the kernel's pipe, and the process that has died
          book    \* the tool's requests, and what twibd owes and listens for
vars == <<end, snd, pipe, book>>

Ends == {"tool", "twibd"}
Peer(x) == IF x = "tool" THEN "twibd" ELSE "tool"
\* main: the tool's command or input pump; callback: its event loop, inside
\* a callback; dispatch: twibd's dispatcher.
Senders == {"main", "callback", "dispatch"}
EndOf(s) == IF s = "dispatch" THEN "twibd" ELSE "tool"
Alive(x) == pipe.dead # x
\* Units of a message that x sends.
Size(x, i) == IF x = "tool" THEN ReqSize[i] ELSE RspSize[i]
Message(x, i) == [k \in 1..Size(x, i) |-> <<i, k>>]

\* NamedPipeMessageConnection's members and, for the loop, what it waits for.
Fresh == [in |-> <<>>, out |-> <<>>, reading |-> FALSE, writing |-> FALSE, sema |-> 1,
          error |-> FALSE, loop |-> "prepare", watch |-> {}, stray |-> FALSE,
          inEv |-> "none", inData |-> <<>>, outEv |-> "none", sent |-> <<>>, got |-> <<>>]

Init ==
  /\ end = [x \in Ends |-> Fresh]
  /\ snd = [s \in Senders |-> [at |-> "idle", msg |-> 0]]
  /\ pipe = [flow |-> [x \in Ends |-> <<>>], dead |-> "none"]
  /\ book = [next |-> 1, map |-> {}, done |-> {}, failed |-> FALSE, late |-> FALSE, asked |-> {},
             owed |-> {}, client |-> "none", dial |-> {}, pend |-> "listening"]

-----------------------------------------------------------------------------
\* Connecting.

\* connect_named_pipe: the instance twibd listens on is taken; there is none
\* while an earlier caller has not been served (ERROR_PIPE_BUSY, and a wait).
OpenNamed(t) ==
  /\ t \notin book.dial /\ book.pend = "listening" /\ Alive("twibd") /\ (t = "a" => Alive("tool"))
  /\ book' = [book EXCEPT !.dial = @ \cup {t}, !.pend = t]
  /\ UNCHANGED <<end, snd, pipe>>

\* PendingPipe::Signal, Connected and Reset: the client is added and twibd
\* listens on a new instance; one that is taken before ConnectNamedPipe is
\* served at once, in the same call.
Connected ==
  /\ end["twibd"].loop = "wait" /\ book.pend # "listening" /\ Alive("twibd")
  /\ \E more \in SUBSET (Tools \ book.dial) :
       book' = [book EXCEPT !.client = IF "a" \in more \cup {book.pend} THEN "added" ELSE @,
                            !.dial = @ \cup more, !.pend = "listening"]
  /\ end' = [end EXCEPT !["twibd"].loop = "prepare"]
  /\ UNCHANGED <<snd, pipe>>

-----------------------------------------------------------------------------
\* Sending.

\* Client::SendRequest looks at failed ...
SendRequest(s, i) ==
  /\ snd[s].at = "idle"
  /\ IF book.failed
     THEN /\ book' = [book EXCEPT !.asked = @ \cup {i}, !.done = @ \cup {i},
                                  !.next = IF s = "main" THEN @ + 1 ELSE @]
          /\ UNCHANGED snd
     ELSE /\ book' = [book EXCEPT !.asked = @ \cup {i}, !.next = IF s = "main" THEN @ + 1 ELSE @]
          /\ snd' = [snd EXCEPT ![s] = [at |-> "register", msg |-> i]]

MainSends ==
  /\ Alive("tool") /\ "a" \in book.dial /\ book.next <= Len(MainReqs)
  /\ SendRequest("main", MainReqs[book.next])
  /\ UNCHANGED <<end, pipe>>

\* ... then registers the callback; what is registered after FailAllRequests
\* has run will not be failed by it.
Register(s) ==
  /\ snd[s].at = "register" /\ Alive("tool")
  /\ snd' = [snd EXCEPT ![s].at = "send"]
  /\ book' = [book EXCEPT !.map = @ \cup {snd[s].msg}, !.late = @ \/ book.failed]
  /\ UNCHANGED <<end, pipe>>

\* twibd's dispatcher answers a request; the client may be gone by then.
DispatchResponse(i) ==
  /\ snd["dispatch"].at = "idle" /\ i \in book.owed /\ Alive("twibd")
  /\ book' = [book EXCEPT !.owed = @ \ {i}]
  /\ snd' = IF book.client = "added" THEN [snd EXCEPT !["dispatch"] = [at |-> "send", msg |-> i]]
            ELSE snd
  /\ UNCHANGED <<end, pipe>>

\* MessageConnection::SendMessage: the buffer is filled under the semaphore,
\* which an outstanding write holds.
SendMessage(s) ==
  LET x == EndOf(s)
  IN /\ snd[s].at = "send" /\ Alive(x) /\ end[x].sema = 1
     /\ end' = [end EXCEPT ![x].out = @ \o Message(x, snd[s].msg), ![x].sent = Append(@, snd[s].msg)]
     /\ snd' = [snd EXCEPT ![s].at = "output"]
     /\ UNCHANGED <<pipe, book>>

\* The thread returns; the loop goes on where the callback was called.
Returns(s) == snd' = [snd EXCEPT ![s] = [at |-> "idle", msg |-> 0]]

RequestsOutput(s) == snd[s].at = "output" /\ Alive(EndOf(s))

\* RequestOutput while a write is outstanding does nothing: whatever was in
\* the buffer is part of that write.
OutputBusy(s) ==
  /\ RequestsOutput(s) /\ end[EndOf(s)].writing
  /\ Returns(s) /\ UNCHANGED <<end, pipe, book>>

\* Another thread has written the message: the function ends without a value,
\* which costs nothing or, where the compiler relies on it, the process.
OutputNothing(s) ==
  LET x == EndOf(s)
  IN /\ RequestsOutput(s) /\ ~end[x].writing /\ end[x].sema = 1 /\ end[x].out = <<>>
     /\ Returns(s)
     /\ \/ UNCHANGED pipe
        \/ pipe.dead = "none" /\ pipe' = [pipe EXCEPT !.dead = x]
     /\ UNCHANGED <<end, book>>

Writes(s) == LET x == EndOf(s)
             IN RequestsOutput(s) /\ ~end[x].writing /\ end[x].sema = 1 /\ end[x].out # <<>>

Room(x, more) == Len(pipe.flow[x]) + more <= Cap

\* WriteFile done at once ...
OutputDone(s) ==
  LET x == EndOf(s)
  IN /\ Writes(s) /\ pipe.dead = "none" /\ Room(x, Len(end[x].out))
     /\ pipe' = [pipe EXCEPT !.flow[x] = @ \o end[x].out]
     /\ end' = [end EXCEPT ![x].out = <<>>]
     /\ Returns(s) /\ UNCHANGED book

\* ... or later: the semaphore stays taken, and nobody tells the event loop,
\* which may be asleep without waiting for this write.
OutputPending(s) ==
  LET x == EndOf(s)
  IN /\ Writes(s) /\ pipe.dead = "none" /\ ~Room(x, Len(end[x].out))
     /\ pipe' = [pipe EXCEPT !.flow[x] = @ \o end[x].out]
     /\ end' = [end EXCEPT ![x].writing = TRUE, ![x].sema = 0, ![x].outEv = "none"]
     /\ Returns(s) /\ UNCHANGED book

\* ... or not at all: the pipe is broken.
OutputFails(s) ==
  /\ Writes(s) /\ pipe.dead # "none"
  /\ end' = [end EXCEPT ![EndOf(s)].error = TRUE]
  /\ Returns(s) /\ UNCHANGED <<pipe, book>>

RequestOutput(s) == OutputBusy(s) \/ OutputNothing(s) \/ OutputDone(s)
                    \/ OutputPending(s) \/ OutputFails(s)

-----------------------------------------------------------------------------
\* The event loop: Logic::Prepare, then WaitForMultipleObjects.

Preparing(x) == /\ end[x].loop = "prepare" /\ Alive(x)
                /\ IF x = "tool" THEN "a" \in book.dial ELSE book.client = "added"
Complete(x) == end[x].in # <<>> /\ Len(end[x].in) >= Size(Peer(x), end[x].in[1][1])

\* Process returns a message.  twibd posts the request to its dispatcher; the
\* tool calls the callback, which may send the next request.
Process(x) ==
  LET i == end[x].in[1][1]
  IN /\ Preparing(x) /\ Complete(x)
     /\ end' = [end EXCEPT ![x].in = SubSeq(@, Size(Peer(x), i) + 1, Len(@)), ![x].got = Append(@, i),
                           ![x].loop = IF x = "tool" /\ Follow[i] # 0 THEN "callback" ELSE @]
     /\ book' = IF x = "twibd" THEN [book EXCEPT !.owed = @ \cup {i}]
                ELSE [book EXCEPT !.map = @ \ {i}, !.done = @ \cup {i}]
     /\ UNCHANGED <<snd, pipe>>

CallbackSends ==
  /\ end["tool"].loop = "callback" /\ Alive("tool")
  /\ LET i == Last(end["tool"].got)
     IN /\ Follow[i] \notin book.asked /\ SendRequest("callback", Follow[i])
  /\ UNCHANGED <<end, pipe>>

CallbackReturns ==
  /\ end["tool"].loop = "callback" /\ Alive("tool") /\ snd["callback"].at = "idle"
  /\ Follow[Last(end["tool"].got)] \in book.asked
  /\ end' = [end EXCEPT !["tool"].loop = "prepare"]
  /\ UNCHANGED <<snd, pipe, book>>

\* RequestInput when no message is complete: ReadFile is done at once ...
Reads(x) == Preparing(x) /\ ~Complete(x) /\ ~end[x].reading
Incoming(x) == pipe.flow[Peer(x)]

Arrived(x) == IF Len(Incoming(x)) > Chunk THEN Chunk ELSE Len(Incoming(x))
Taken(x) == [pipe EXCEPT !.flow[Peer(x)] = SubSeq(@, Arrived(x) + 1, Len(@))]

InputDone(x) ==
  /\ Reads(x) /\ Incoming(x) # <<>>
  /\ end' = [end EXCEPT ![x].in = @ \o SubSeq(Incoming(x), 1, Arrived(x))]
  /\ pipe' = Taken(x)
  /\ UNCHANGED <<snd, book>>

\* ... or later, or not at all.
InputPending(x) ==
  /\ Reads(x) /\ Incoming(x) = <<>> /\ pipe.dead = "none"
  /\ end' = [end EXCEPT ![x].reading = TRUE, ![x].inEv = "none"]
  /\ UNCHANGED <<snd, pipe, book>>

InputFails(x) ==
  /\ Reads(x) /\ Incoming(x) = <<>> /\ pipe.dead # "none" /\ ~end[x].error
  /\ end' = [end EXCEPT ![x].error = TRUE]
  /\ UNCHANGED <<snd, pipe, book>>

RequestInput(x) == InputDone(x) \/ InputPending(x) \/ InputFails(x)

\* Nothing more to do: the loop waits for the members that want a signal.
Watched(x) == {m \in {"in", "out"} : IF m = "in" THEN end[x].reading ELSE end[x].writing}

EnterWait(x) ==
  /\ Preparing(x) /\ ~Complete(x) /\ end[x].reading /\ ~end[x].error
  /\ end' = [end EXCEPT ![x].loop = "wait", ![x].watch = Watched(x)]
  /\ UNCHANGED <<snd, pipe, book>>

\* twibd's loop without a client waits for the pending pipe only.
EnterWaitAlone ==
  /\ end["twibd"].loop = "prepare" /\ book.client # "added" /\ Alive("twibd")
  /\ end' = [end EXCEPT !["twibd"].loop = "wait", !["twibd"].watch = {}]
  /\ UNCHANGED <<snd, pipe, book>>

\* After an error, and when there is nothing left to read: the tool fails
\* every request and waits for nothing any more, twibd removes the client.
DropConnection(x) ==
  /\ Preparing(x) /\ ~Complete(x) /\ end[x].error /\ (end[x].reading \/ Incoming(x) = <<>>)
  /\ end' = [end EXCEPT ![x].loop = "wait", ![x].watch = {}]
  /\ book' = IF x = "twibd" THEN [book EXCEPT !.client = "removed"]
             ELSE [book EXCEPT !.failed = TRUE, !.done = @ \cup book.map, !.map = {}]
  /\ UNCHANGED <<snd, pipe>>

Woken(x, m, ev) == end[x].loop = "wait" /\ m \in end[x].watch /\ ev \in {"ok", "err"} /\ Alive(x)

\* An event resets itself; a failed operation is not started again.
Spent(ev) == IF ev = "err" THEN "spent" ELSE "none"

\* InputMember::Signal: the result of the read, or an error that leaves
\* is_reading set.
InputSignal(x) ==
  /\ Woken(x, "in", end[x].inEv)
  /\ end' = [end EXCEPT ![x] =
       [@ EXCEPT !.loop = "prepare", !.inEv = Spent(@), !.inData = <<>>, !.stray = @ \/ ~end[x].reading,
                 !.error = @ \/ end[x].inEv = "err" \/ ~end[x].reading,
                 !.in = @ \o end[x].inData, !.reading = @ /\ end[x].inEv = "err"]]
  /\ UNCHANGED <<snd, pipe, book>>

\* OutputMember::Signal: the write is done, the semaphore is given back ...
OutputOk(x) == [end[x] EXCEPT !.out = <<>>, !.sema = @ + 1, !.writing = FALSE]
\* ... but after an error it stays taken, and is_writing set.
OutputErr(x) == [end[x] EXCEPT !.error = TRUE]

OutputSignal(x) ==
  /\ Woken(x, "out", end[x].outEv)
  /\ end' = [end EXCEPT ![x] =
       [(IF ~end[x].writing \/ end[x].outEv = "err" THEN OutputErr(x) ELSE OutputOk(x))
         EXCEPT !.loop = "prepare", !.outEv = Spent(@), !.stray = @ \/ ~end[x].writing]]
  /\ UNCHANGED <<snd, pipe, book>>

-----------------------------------------------------------------------------
\* The kernel completes what is outstanding.

CompleteRead(x) ==
  /\ Alive(x) /\ end[x].reading /\ end[x].inEv = "none"
  /\ \/ /\ Incoming(x) # <<>>
        /\ end' = [end EXCEPT ![x].inEv = "ok", ![x].inData = SubSeq(Incoming(x), 1, Arrived(x))]
        /\ pipe' = Taken(x)
     \/ /\ Incoming(x) = <<>> /\ pipe.dead # "none"
        /\ end' = [end EXCEPT ![x].inEv = "err"] /\ UNCHANGED pipe
  /\ UNCHANGED <<snd, book>>

CompleteWrite(x) ==
  /\ Alive(x) /\ end[x].writing /\ end[x].outEv = "none"
  /\ \/ pipe.dead = "none" /\ Room(x, 0) /\ end' = [end EXCEPT ![x].outEv = "ok"]
     \/ pipe.dead # "none" /\ end' = [end EXCEPT ![x].outEv = "err"]
  /\ UNCHANGED <<snd, pipe, book>>

\* A process ends: what it had written can still be read, except for the
\* part of an outstanding write that the pipe could not hold.
Dies(x) ==
  /\ pipe.dead = "none" /\ "a" \in book.dial
  /\ pipe' = [pipe EXCEPT !.dead = x, !.flow[x] = SubSeq(@, 1, IF Room(x, 0) THEN Len(@) ELSE Cap)]
  /\ UNCHANGED <<end, snd, book>>

-----------------------------------------------------------------------------
Sender(s) == Register(s) \/ SendMessage(s) \/ RequestOutput(s)
Loop(x) == Process(x) \/ RequestInput(x) \/ EnterWait(x) \/ DropConnection(x)
           \/ InputSignal(x) \/ OutputSignal(x)
ToolLoop == Loop("tool") \/ CallbackSends \/ CallbackReturns
DaemonLoop == Loop("twibd") \/ Connected \/ EnterWaitAlone
Dispatch == \E i \in book.owed : DispatchResponse(i)
Kernel(x) == CompleteRead(x) \/ CompleteWrite(x)
Next ==
  \/ MainSends \/ ToolLoop \/ DaemonLoop \/ Dispatch
  \/ \E s \in Senders : Sender(s)
  \/ \E x \in Ends : Kernel(x) \/ Dies(x)
  \/ \E t \in Tools : OpenNamed(t)

\* Every thread runs, and the kernel completes what can be completed.
Fairness == /\ WF_vars(ToolLoop) /\ WF_vars(DaemonLoop) /\ WF_vars(Dispatch)
            /\ \A s \in Senders : WF_vars(Sender(s))
            /\ \A x \in Ends : WF_vars(Kernel(x))
Spec == Init /\ [][Next]_vars /\ Fairness

-----------------------------------------------------------------------------
\* Each end takes off the pipe what the other has sent, whole and in order; a
\* semaphore is taken exactly while a write is outstanding, so that nothing
\* is appended to a buffer the kernel is reading; and no event is signalled
\* "while not reading" or "while not writing", which the code says should not
\* happen.
Intact ==
  \A x \in Ends : /\ IsPrefix(end[x].got, end[Peer(x)].sent)
                  /\ end[x].sema = IF end[x].writing THEN 0 ELSE 1
                  /\ ~end[x].stray

\* A request is on its way, or a thread is inside SendMessage.
Busy == \/ Alive("tool") /\ book.asked \ book.done # {}
        \/ \E s \in Senders : Alive(EndOf(s)) /\ snd[s].at # "idle"

\* A write is outstanding and the loop that has to notice is asleep without
\* waiting for it, or is itself the thread that waits for the semaphore.
WriteUnwatched(x) ==
  /\ end[x].writing
  /\ \/ end[x].loop = "wait" /\ "out" \notin end[x].watch
     \/ x = "tool" /\ end[x].loop = "callback" /\ snd["callback"].at = "send"

\* Every request is answered, or failed, and every SendMessage returns.  What
\* may prevent it: an outstanding write nobody waits for, or that failed and
\* keeps its semaphore, and a request registered after all were failed.
Excused == book.late \/ \E x \in Ends : Alive(x) /\ WriteUnwatched(x)
=============================================================================
