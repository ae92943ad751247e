------------------------------ MODULE TcpLink ------------------------------
(***************************************************************************)
(* One TCP connection between twibd and a console, from the buffers of     *)
(* twibd's message connection to the request handlers of twili:            *)
(* MessageConnection and SocketMessageConnection under the unix event loop *)
(* (twib/common, twib/platform/unix), and TCPBridge with its Connection    *)
(* and ResponseState (twili/bridge/tcp), whose socket thread hands every   *)
(* step of a request to the main thread and waits.                         *)
(*                                                                         *)
(* Bytes are abstracted to units: a header is two units, so that it can be *)
(* cut; payload and object ids are counted in units.  send and recv move   *)
(* any non-empty prefix.                                                   *)
(***************************************************************************)
EXTENDS Integers, Sequences, FiniteSets

CONSTANTS ReqSize,    \* payload sizes of the requests, a sequence
          RspSize,    \* payload sizes of their responses
          RspObjs,    \* object ids of their responses
          Garbage,    \* what an uninitialised payload size may hold
          MaxFlaps,   \* bound: network state changes after the first
          MayBreak    \* whether the connection may break

N == Len(ReqSize)
\* What the constants may be.
ConstantsOK == Len(RspSize) = N /\ Len(RspObjs) = N /\ 0 \in Garbage

VARIABLES host,   \* twibd's connection and the threads that use it
          wire,   \* bytes in flight and whether the connection is broken
          con,    \* twili's Connection
          brg     \* twili's socket thread, main thread and network state
vars == <<host, wire, con, brg>>

Repeat(x, n) == [i \in 1..n |-> x]
Units(i, size, objs) == Repeat(<<i, "h">>, 2) \o Repeat(<<i, "p">>, size) \o Repeat(<<i, "o">>, objs)
Request(i) == Units(i, ReqSize[i], 0)
Response(i) == Units(i, RspSize[i], RspObjs[i])
Cuts(s) == 1..Len(s)
Front(s, k) == SubSeq(s, 1, k)
Rest(s, k) == SubSeq(s, k + 1, Len(s))

Init ==
  /\ host = [out |-> <<>>, in |-> <<>>, mh |-> 0, payload |-> FALSE, got |-> <<>>,
             loop |-> "prepare", want |-> FALSE, notified |-> FALSE,
             sender |-> "idle", sent |-> 0, error |-> FALSE]
  /\ wire = [up |-> <<>>, down |-> <<>>, broken |-> FALSE]
  /\ \E g \in Garbage :
       con = [st |-> "none", in |-> <<>>, has |-> FALSE, mh |-> 0, size |-> g, read |-> 0,
              handler |-> 0, buf |-> <<>>, got |-> <<>>, begun |-> <<>>, split |-> FALSE]
  /\ brg = [at |-> "top", polled |-> FALSE, task |-> "idle", then |-> "none", sending |-> <<>>,
            pending |-> {}, net |-> "down", server |-> FALSE, flaps |-> 0]

-----------------------------------------------------------------------------
\* twibd: any thread sends a message, the event loop reads and writes.

\* SendMessage fills the out buffer under its semaphore ...
SendMessage ==
  /\ host.sender = "idle" /\ host.sent < N /\ con.st # "none"
  /\ host' = [host EXCEPT !.out = @ \o Request(host.sent + 1), !.sent = @ + 1,
                          !.sender = "written"]
  /\ UNCHANGED <<wire, con, brg>>

\* Mutant of RequestOutput: the event loop is not told.
RequestOutputSilently ==
  /\ host.sender = "written"
  /\ host' = [host EXCEPT !.sender = "idle"]
  /\ UNCHANGED <<wire, con, brg>>

\* ... and then asks for output by notifying the event loop.
RequestOutput ==
  /\ host.sender = "written"
  /\ host' = [host EXCEPT !.sender = "idle", !.notified = TRUE]
  /\ UNCHANGED <<wire, con, brg>>

\* MessageConnection::Process, one field at a time: each is read when all of
\* it is there, and has_current_mh and has_current_payload keep the place.
ReadHeader ==
  /\ host.loop = "prepare" /\ host.mh = 0 /\ Len(host.in) >= 2
  /\ host' = [host EXCEPT !.mh = host.in[1][1], !.in = Rest(@, 2), !.payload = FALSE]
  /\ UNCHANGED <<wire, con, brg>>

ReadPayload ==
  /\ host.loop = "prepare" /\ host.mh # 0 /\ ~host.payload
  /\ Len(host.in) >= RspSize[host.mh]
  /\ host' = [host EXCEPT !.payload = TRUE, !.in = Rest(@, RspSize[host.mh])]
  /\ UNCHANGED <<wire, con, brg>>

\* Mutant of ObjectsThere: the object ids are taken to have come with the rest.
ObjectsTaken == Len(host.in) >= 0

\* All object ids are there.
ObjectsThere == Len(host.in) >= RspObjs[host.mh]

\* The message is complete: it is handed to the owner of the connection.
ReadObjects ==
  /\ host.loop = "prepare" /\ host.mh # 0 /\ host.payload
  /\ ObjectsThere
  /\ host' = [host EXCEPT !.mh = 0, !.payload = FALSE, !.in = Rest(@, RspObjs[host.mh]),
                          !.got = Append(@, host.mh)]
  /\ UNCHANGED <<wire, con, brg>>

CanRead ==
  CASE host.mh = 0 -> Len(host.in) >= 2
    [] host.mh # 0 /\ ~host.payload -> Len(host.in) >= RspSize[host.mh]
    [] OTHER -> ObjectsThere

\* Nothing more to parse: the loop asks WantsWrite and enters select.
WantsWrite == Len(host.out) > 0

EnterSelect ==
  /\ host.loop = "prepare" /\ ~CanRead /\ ~host.error
  /\ host' = [host EXCEPT !.loop = "select", !.want = WantsWrite]
  /\ UNCHANGED <<wire, con, brg>>

\* select returns for the notification pipe, a readable or a writable socket.
SelectNotified ==
  /\ host.loop = "select" /\ host.notified
  /\ host' = [host EXCEPT !.loop = "prepare", !.notified = FALSE]
  /\ UNCHANGED <<wire, con, brg>>

SignalRead ==
  /\ host.loop = "select" /\ wire.down # <<>> /\ ~wire.broken
  /\ \E k \in Cuts(wire.down) :
       /\ host' = [host EXCEPT !.loop = "prepare", !.in = @ \o Front(wire.down, k)]
       /\ wire' = [wire EXCEPT !.down = Rest(@, k)]
  /\ UNCHANGED <<con, brg>>

SignalWrite ==
  /\ host.loop = "select" /\ host.want /\ ~wire.broken
  /\ \E k \in Cuts(host.out) :
       /\ host' = [host EXCEPT !.loop = "prepare", !.out = Rest(@, k)]
       /\ wire' = [wire EXCEPT !.up = @ \o Front(host.out, k)]
  /\ UNCHANGED <<con, brg>>

\* recv or send fails, or select reports an error: the owner drops the
\* connection.
SignalError ==
  /\ host.loop = "select" /\ wire.broken /\ ~host.error
  /\ host' = [host EXCEPT !.loop = "prepare", !.error = TRUE]
  /\ UNCHANGED <<wire, con, brg>>

Break ==
  /\ MayBreak /\ ~wire.broken /\ con.st # "none"
  /\ wire' = [up |-> <<>>, down |-> <<>>, broken |-> TRUE]
  /\ UNCHANGED <<host, con, brg>>

-----------------------------------------------------------------------------
\* twili's main thread: network events, the tasks of the socket thread, and
\* answers that come later than their request.

MainFree == brg.sending = <<>> /\ brg.task # "reply"

\* The network state event: the sockets are closed when the network is down.
NetworkStateEvent ==
  /\ MainFree /\ (brg.net = "down" \/ brg.flaps < MaxFlaps)
  /\ brg' = IF brg.net = "down" THEN [brg EXCEPT !.net = "up"]
            ELSE [brg EXCEPT !.net = "down", !.server = FALSE, !.flaps = @ + 1]
  /\ UNCHANGED <<host, wire, con>>

\* ResponseOpener::BeginError and the writer: the response is sent from the
\* main thread, which blocks in Send until all of it is gone.
Responding(i, task) == brg' = [brg EXCEPT !.sending = Response(i), !.task = task]

\* A request is refused (unknown object, bad request) or closes an object.
Refuses(i) == /\ con' = [con EXCEPT !.handler = 0, !.got = Append(@, <<i, "refused", <<>>>>),
                                    !.begun = Append(@, i)]
              /\ Responding(i, "reply")

\* The command runs; it answers now or keeps the opener.
Serves(i) ==
  LET got == Append(con.got, <<i, "handled", con.buf>>) IN
  \/ /\ Responding(i, "reply")
     /\ con' = [con EXCEPT !.handler = 0, !.got = got, !.begun = Append(@, i)]
  \/ /\ brg' = [brg EXCEPT !.task = "idle", !.pending = @ \cup {i}]
     /\ con' = [con EXCEPT !.handler = 0, !.got = got]

Passes == brg' = [brg EXCEPT !.task = "idle"] /\ UNCHANGED con

\* BeginProcessingCommandImpl: a handler is opened, or the request is
\* answered at once.
BeginProcessingCommand ==
  /\ MainFree /\ brg.task = "begin"
  /\ \/ /\ con' = [con EXCEPT !.handler = con.mh, !.buf = <<>>]
        /\ brg' = [brg EXCEPT !.task = "idle"]
     \/ Refuses(con.mh)
  /\ UNCHANGED <<host, wire>>

\* All of the payload was handed to the handler.
PayloadComplete == con.read = con.size

\* FlushReceiveBuffer: the handler takes what is buffered (the discarding handler
\* drops it).  It refuses a bad request as soon as it sees it, runs a command
\* that has all its parameters, or waits, for more or for the end of a stream.
FlushReceiveBuffer ==
  /\ MainFree /\ brg.task = "flush"
  /\ \/ Passes
     \/ con.handler # 0 /\ ~PayloadComplete /\ Refuses(con.handler)
     \/ con.handler # 0 /\ PayloadComplete /\ Serves(con.handler)
  /\ UNCHANGED <<host, wire>>

\* FinalizeCommand: a handler that waited for the end of its stream finishes.
FinalizeCommand ==
  /\ MainFree /\ brg.task = "finalize"
  /\ IF con.handler = 0 THEN Passes ELSE Serves(con.handler)
  /\ UNCHANGED <<host, wire>>

\* A handler that kept its opener answers.
RespondLater ==
  /\ MainFree
  /\ \E i \in brg.pending :
       /\ brg' = [brg EXCEPT !.sending = Response(i), !.pending = @ \ {i}]
       /\ con' = [con EXCEPT !.begun = Append(@, i)]
  /\ UNCHANGED <<host, wire>>

\* ResponseState::Send: the rest of the response once part of it is gone.
AfterSend(k) ==
  [brg EXCEPT !.sending = Rest(@, k),
              !.task = IF @ = "reply" /\ k = Len(brg.sending) THEN "idle" ELSE @]

\* A connection that is dropped lives until the last of its responses is sent.
Held(b) == b.pending # {} \/ b.sending # <<>>

Send ==
  /\ brg.sending # <<>> /\ con.st \in {"open", "dropped"} /\ ~wire.broken
  /\ \E k \in Cuts(brg.sending) :
       /\ wire' = [wire EXCEPT !.down = @ \o Front(brg.sending, k)]
       /\ brg' = AfterSend(k)
  /\ con' = IF con.st = "dropped" /\ ~Held(brg') THEN [con EXCEPT !.st = "closed"] ELSE con
  /\ UNCHANGED host

\* send fails, or the connection is flagged: Panic, and the rest is dropped.
SendFails ==
  /\ brg.sending # <<>> /\ (con.st = "closed" \/ wire.broken)
  /\ brg' = AfterSend(Len(brg.sending))
  /\ con' = [con EXCEPT !.st = "closed"] /\ wire' = [wire EXCEPT !.broken = TRUE]
  /\ UNCHANGED host

-----------------------------------------------------------------------------
\* twili's socket thread.

Goes(pc) == brg' = [brg EXCEPT !.at = pc]
Closed == /\ con' = [con EXCEPT !.st = IF @ = "none" THEN @ ELSE "closed"]
          /\ wire' = [wire EXCEPT !.broken = @ \/ con.st # "none"]

\* connections.clear(): responses that are still to come keep the connection, which
\* is not flagged.
Dropped == IF con.st \in {"open", "dropped"} /\ Held(brg) THEN con' = [con EXCEPT !.st = "dropped"] /\ UNCHANGED wire
           ELSE Closed

\* The top of the loop: with the network down every connection is dropped.
CheckNetwork ==
  /\ brg.at = "top"
  /\ IF brg.net = "up"
     THEN brg' = [brg EXCEPT !.at = "poll", !.polled = brg.server] /\ UNCHANGED <<con, wire>>
     ELSE Goes("wait") /\ Dropped
  /\ UNCHANGED host

\* The condition variable: the network is up, ResetSockets listens again.
ResetSockets ==
  /\ brg.at = "wait" /\ brg.net = "up"
  /\ brg' = [brg EXCEPT !.at = "poll", !.server = TRUE, !.polled = TRUE]
  /\ UNCHANGED <<host, wire, con>>

\* poll reports the server socket the main thread has closed.
ServerSocketError ==
  /\ brg.at = "poll" /\ brg.polled /\ ~brg.server
  /\ Goes(IF brg.net = "up" THEN "exit" ELSE "top")
  /\ UNCHANGED <<host, wire, con>>

\* A connection is accepted; the poll entry looked at for it is not one that
\* was polled, so it may say anything: no event, input, or an error.
Accept ==
  /\ brg.at = "poll" /\ brg.polled /\ brg.server /\ con.st = "none"
  /\ con' = [con EXCEPT !.st = "open"]
  /\ \E pc \in {"process", "pump", "hup"} : Goes(pc)
  /\ UNCHANGED <<host, wire>>

PollConnection ==
  /\ brg.at = "poll" /\ con.st = "open" /\ (wire.up # <<>> \/ wire.broken)
  /\ Goes(IF wire.broken THEN "hup" ELSE "pump")
  /\ UNCHANGED <<host, wire, con>>

HangUp ==
  /\ brg.at = "hup" /\ Goes("process") /\ Closed
  /\ UNCHANGED host

PumpInput ==
  /\ brg.at = "pump"
  /\ \/ /\ wire.up # <<>> /\ ~wire.broken
        /\ \E k \in Cuts(wire.up) : /\ con' = [con EXCEPT !.in = @ \o Front(wire.up, k)]
                                    /\ wire' = [wire EXCEPT !.up = Rest(@, k)]
     \/ wire.broken /\ Closed
  /\ Goes("process")
  /\ UNCHANGED host

\* Synchronize: the task is handed over, the thread waits for it.
Synchronize(task, then) == brg' = [brg EXCEPT !.at = "sync", !.task = task, !.then = then]

\* Connection::Process.  A complete header starts a request ...
ProcessHeader ==
  /\ brg.at = "process" /\ con.st = "open" /\ ~con.has /\ Len(con.in) >= 2
  /\ LET i == con.in[1][1]
     IN con' = [con EXCEPT !.has = TRUE, !.mh = i, !.size = ReqSize[i], !.read = 0, !.in = Rest(@, 2)]
  /\ Synchronize("begin", "payload")
  /\ UNCHANGED <<host, wire>>

\* ... but an incomplete one falls through to the payload of the last one.
ProcessPartialHeader ==
  /\ brg.at = "process" /\ con.st = "open" /\ ~con.has /\ Len(con.in) = 1
  /\ con' = [con EXCEPT !.split = TRUE]
  /\ Goes("payload")
  /\ UNCHANGED <<host, wire>>

ProcessMore ==
  /\ brg.at = "process" /\ con.st = "open" /\ con.has /\ con.in # <<>>
  /\ Goes("payload")
  /\ UNCHANGED <<host, wire, con>>

\* payload_avail: what is buffered, at most what the payload still lacks.
PayloadAvail == LET lacks == con.size - con.read
                IN IF Len(con.in) > lacks THEN lacks ELSE Len(con.in)

ProcessPayload ==
  /\ brg.at = "payload"
  /\ con' = [con EXCEPT !.in = Rest(@, PayloadAvail), !.read = @ + PayloadAvail,
                        !.buf = IF con.handler = 0 THEN <<>> ELSE @ \o Front(con.in, PayloadAvail)]
  /\ Synchronize("flush", "check")
  /\ UNCHANGED <<host, wire>>

ProcessCheck ==
  /\ brg.at = "check"
  /\ IF PayloadComplete THEN Synchronize("finalize", "next") ELSE Goes("top")
  /\ UNCHANGED <<host, wire, con>>

Synchronized ==
  /\ brg.at = "sync" /\ brg.task = "idle"
  /\ Goes(IF brg.then = "next" THEN "process" ELSE brg.then)
  /\ con' = IF brg.then = "next" THEN [con EXCEPT !.has = FALSE] ELSE con
  /\ UNCHANGED <<host, wire>>

ProcessDone ==
  /\ brg.at = "process" /\ (con.st # "open" \/ con.in = <<>>)
  /\ Goes("top")
  /\ UNCHANGED <<host, wire, con>>

-----------------------------------------------------------------------------
HostLoop == ReadHeader \/ ReadPayload \/ ReadObjects \/ EnterSelect
            \/ SelectNotified \/ SignalRead \/ SignalWrite \/ SignalError
MainThread == BeginProcessingCommand \/ FlushReceiveBuffer \/ FinalizeCommand
              \/ RespondLater \/ Send \/ SendFails
SocketThread == CheckNetwork \/ ResetSockets \/ ServerSocketError \/ Accept \/ PollConnection
                \/ HangUp \/ PumpInput \/ ProcessHeader \/ ProcessPartialHeader \/ ProcessMore
                \/ ProcessPayload \/ ProcessCheck \/ Synchronized \/ ProcessDone
Next == SendMessage \/ RequestOutput \/ HostLoop \/ Break
        \/ NetworkStateEvent \/ MainThread \/ SocketThread

\* Every thread keeps running, and a handler that kept its opener answers in
\* the end.
Fairness == /\ WF_vars(RequestOutput) /\ WF_vars(HostLoop)
            /\ WF_vars(MainThread) /\ WF_vars(RespondLater) /\ WF_vars(SocketThread)
Spec == Init /\ [][Next]_vars /\ Fairness

-----------------------------------------------------------------------------
\* Requests reach their handlers whole and in order, whatever the cuts, as
\* long as no header has been cut.
RequestsIntact ==
  ~con.split => \A j \in 1..Len(con.got) :
    con.got[j] \in {<<j, "refused", <<>>>>, <<j, "handled", Repeat(<<j, "p">>, ReqSize[j])>>}

\* Messages are put together again in both directions: requests reach their
\* handlers whole, and the responses twibd takes off the connection are those
\* twili began to send, whole, in that order.  The parser never loses its
\* place, although every read may end anywhere and answers are given out of
\* request order.
Down == INSTANCE MessageChannel WITH
  Messages <- 1..N, sent <- con.begun, received <- host.got
MessagesIntact == []RequestsIntact /\ Down!Spec

\* Requests whose response has not come.  What may prevent it: the end of the
\* connection, a cut header, and the socket thread giving up.
Waiting == \E i \in 1..host.sent : \A j \in 1..Len(host.got) : host.got[j] # i
Excused == con.split \/ wire.broken \/ brg.at = "exit" \/ con.st \in {"dropped", "closed"}
=============================================================================
