----------------------------- MODULE UsbBridge -----------------------------
(***************************************************************************)
(* twili's USB bridge (twili/bridge/usb): RequestReader takes requests off *)
(* two endpoints by completion callbacks on the main thread and hands them *)
(* to the SmartRequestHandler of an object (bridge/RequestHandler.hpp),    *)
(* and ResponseState answers by transfers the main thread waits for.       *)
(*                                                                         *)
(* A payload is counted in units that remember the request they belong to. *)
(* The host offers header, payload and object ids of one request after the *)
(* other, each part when the console has posted a buffer for it.           *)
(***************************************************************************)
EXTENDS Integers, Sequences

CONSTANTS Req,        \* the requests, records [obj, cmd, par, stream, exp, size, objs]
          DataSize,   \* size of request_data_buffer
          MaxFaults,  \* bound: transfers that fail
          MayRunOut   \* whether memory may run out

N == Len(Req)

\* What the constants may be.
Requests == [obj : Nat, cmd : {"open", "wait", "call", "close", "unknown"}, par : Nat,
             stream : BOOLEAN, exp : Nat, size : Nat, objs : Nat]
ConstantsOK == Req \in Seq(Requests) /\ N > 0 /\ DataSize \in Nat \ {0} /\ MaxFaults \in Nat
ASSUME BridgeAssumption == ConstantsOK

VARIABLES host,    \* how far the host is with its requests
          ep,      \* the buffers posted on the two request endpoints
          rd,      \* RequestReader
          hs,      \* the SmartRequestHandler of every request
          objects, \* the open objects, each with the request its dispatcher holds
          main,    \* the main thread: where it is, the response it is sending
          log      \* ghost: what was invoked and answered, and what was disturbed
vars == <<host, ep, rd, hs, objects, main, log>>

None == 0
Lesser(a, b) == IF a < b THEN a ELSE b
Idle == [meta |-> "none", hdr |-> None, data |-> "none", room |-> 0, moved |-> <<>>]

Init ==
  /\ host = [req |-> 1, at |-> "meta", left |-> 0]
  /\ ep = Idle
  /\ rd = [hdr |-> None, got |-> 0, ids |-> 0, buf |-> <<>>, handler |-> None, state |-> None, object |-> -1]
  /\ hs = [i \in 1..N |-> [streaming |-> FALSE, bad |-> FALSE, used |-> <<>>, sink |-> <<>>]]
  /\ objects = [o \in {0} |-> None]
  /\ main = [at |-> "down", sending |-> None, then |-> "idle", next |-> 1, inMeta |-> FALSE, faults |-> 0]
  /\ log = [run |-> {}, begun |-> {}, answered |-> {}, later |-> {}, cut |-> {}, raced |-> FALSE]

-----------------------------------------------------------------------------
\* The host (external).
NextRequest == IF host.req = N THEN [host EXCEPT !.at = "done"]
               ELSE [req |-> host.req + 1, at |-> "meta", left |-> 0]
Completes(units) ==
  ep' = [ep EXCEPT !.data = IF @ = "payload" THEN "payload done" ELSE "ids done",
                   !.moved = [j \in 1..units |-> host.req]]

HostSendMeta ==
  /\ host.at = "meta" /\ ep.meta = "posted" /\ main.at # "down"
  /\ ep' = [ep EXCEPT !.meta = "done", !.hdr = host.req]
  /\ LET r == Req[host.req]
     IN host' = IF r.size > 0 THEN [host EXCEPT !.at = "data", !.left = r.size]
                ELSE IF r.objs > 0 THEN [host EXCEPT !.at = "objs"] ELSE NextRequest
  /\ UNCHANGED <<rd, hs, objects, main, log>>

HostSendData ==
  /\ host.at = "data" /\ ep.data \in {"payload", "ids"} /\ main.at # "down"
  /\ \E k \in 1..Lesser(host.left, ep.room) :
       /\ Completes(k)
       /\ host' = IF k < host.left THEN [host EXCEPT !.left = @ - k]
                  ELSE IF Req[host.req].objs > 0 THEN [host EXCEPT !.at = "objs", !.left = 0]
                  ELSE NextRequest
  /\ UNCHANGED <<rd, hs, objects, main, log>>

HostSendObjs ==
  /\ host.at = "objs" /\ ep.data \in {"payload", "ids"} /\ main.at # "down"
  /\ Completes(Req[host.req].objs)
  /\ host' = NextRequest
  /\ UNCHANGED <<rd, hs, objects, main, log>>

-----------------------------------------------------------------------------
\* The interface.  Begin waits for both endpoints and posts the first buffer.
USBStateChangeCallback ==
  /\ main.at = "down"
  /\ main' = [main EXCEPT !.at = "idle"]
  /\ ep' = [ep EXCEPT !.meta = "posted"]
  /\ UNCHANGED <<host, rd, hs, objects, log>>

\* ResetInterface: posted buffers are gone; the host sees the device leave
\* and goes on with its next request when it is back.
ResetInterface ==
  /\ ep' = Idle
  /\ host' = IF host.at \in {"meta", "done"} THEN host ELSE NextRequest
  /\ main' = [main EXCEPT !.at = "down", !.then = "idle", !.inMeta = FALSE, !.faults = Lesser(@ + 1, MaxFaults)]
  /\ log' = [log EXCEPT !.cut = @ \cup {rd.hdr, ep.hdr}]
  /\ UNCHANGED <<rd, hs, objects>>

\* A transfer that ends with a status other than 3, or is too short.
MetaFails == /\ main.at = "idle" /\ ep.meta = "done" /\ main.faults < MaxFaults
             /\ ResetInterface
DataFails == /\ main.at = "idle" /\ ep.data \in {"payload done", "ids done"} /\ main.faults < MaxFaults
             /\ ResetInterface

\* A buffer cannot be posted: the next part of the request, the next header's,
\* or the one that Begin posts.
Posting == \/ main.at = "advance" /\ (rd.got < Req[rd.hdr].size \/ Req[rd.hdr].objs > 0)
           \/ main.at = "return" /\ main.inMeta
           \/ main.at = "down"
PostFails == Posting /\ main.faults < MaxFaults /\ ResetInterface

\* twili::Abort ends the console's service: "abort" for a second response and for
\* a report without the transfer that was posted, "fatal" for a service or a
\* transfer that fails where the code has no answer to it.
Ends(how) == /\ main' = [main EXCEPT !.at = how]
             /\ UNCHANGED <<host, ep, rd, hs, objects, log>>
Abort == Ends("abort")

\* PostBufferSync asserts its posting, its wait and its report, and aborts on a
\* status other than 3; FindReport asserts the report of a request's transfer.
ResponseFails == main.at = "sending" /\ main.faults < MaxFaults /\ Ends("fatal")
ReportFails == /\ main.at = "idle" /\ main.faults < MaxFaults
               /\ ep.meta = "done" \/ ep.data \in {"payload done", "ids done"}
               /\ Ends("fatal")

-----------------------------------------------------------------------------
\* Responses.
ResetHandler(r) == [r EXCEPT !.handler = None, !.state = None]

\* BeginError: a second response aborts.  SendHeader resets the handler of
\* whatever request is being read, then the transfers are waited for.
Responds(r, i, m, l) ==
  /\ rd' = ResetHandler(r)
  /\ main' = IF i \in l.begun THEN [m EXCEPT !.at = "abort"]
             ELSE [m EXCEPT !.at = "sending", !.sending = i]
  /\ log' = [l EXCEPT !.begun = @ \cup {i},
                      !.cut = IF r.handler \notin {None, i} THEN @ \cup {r.handler} ELSE @]

\* PostBufferSync has come back for header, payload and object ids.
ResponseSent ==
  /\ main.at = "sending"
  /\ main' = [main EXCEPT !.at = main.then, !.sending = None, !.then = "idle"]
  /\ log' = [log EXCEPT !.answered = @ \cup {main.sending}]
  /\ UNCHANGED <<host, ep, rd, hs, objects>>

\* A command that kept its opener answers.
RespondLater ==
  /\ main.at = "idle"
  /\ \E i \in log.later : Responds(rd, i, [main EXCEPT !.then = "idle"], [log EXCEPT !.later = @ \ {i}])
  /\ UNCHANGED <<host, ep, hs, objects>>

-----------------------------------------------------------------------------
\* Mutant of NewHeader: the payload of the last request stays buffered.
BufferKept(i) == [rd EXCEPT !.hdr = i, !.got = 0, !.ids = 0, !.state = i, !.handler = None]

\* A header has arrived: what was left of the last request is forgotten.
NewHeader(i) == [rd EXCEPT !.hdr = i, !.got = 0, !.ids = 0, !.buf = <<>>, !.state = i, !.handler = None]

Raced == log.raced \/ ep.data # "none"

\* BeginProcessingCommand: an unknown object or command and a close request
\* are answered at once; otherwise the object's dispatcher makes a handler.
BeginProcessingCommand(i, m) ==
  LET r == Req[i] IN
  \/ /\ r.obj \notin DOMAIN objects
     /\ Responds(NewHeader(i), i, m, [log EXCEPT !.raced = Raced])
     /\ UNCHANGED objects
  \/ /\ r.obj \in DOMAIN objects /\ r.cmd = "close"
     /\ objects' = [o \in IF r.obj = 0 THEN {0} ELSE DOMAIN objects \ {r.obj} |-> objects[o]]
     /\ Responds(NewHeader(i), i, m, [log EXCEPT !.raced = Raced])
  \/ /\ r.obj \in DOMAIN objects /\ r.cmd = "unknown"
     /\ Responds([NewHeader(i) EXCEPT !.object = r.obj], i, m, [log EXCEPT !.raced = Raced])
     /\ UNCHANGED objects
  \/ /\ r.obj \in DOMAIN objects /\ r.cmd \notin {"close", "unknown"}
     /\ rd' = [NewHeader(i) EXCEPT !.object = r.obj, !.handler = i]
     /\ objects' = [objects EXCEPT ![r.obj] = i]
     /\ main' = [m EXCEPT !.at = "advance"]
     /\ log' = [log EXCEPT !.raced = Raced]

MetadataTransactionCompleted ==
  /\ main.at = "idle" /\ ep.meta = "done"
  /\ ep' = [ep EXCEPT !.meta = "none"]
  /\ BeginProcessingCommand(ep.hdr, [main EXCEPT !.then = "advance", !.inMeta = TRUE])
  /\ UNCHANGED <<host, hs>>

\* OpenRequest runs out of memory.
OpenFails == /\ MayRunOut /\ main.at = "idle" /\ ep.meta = "done"
             /\ Req[ep.hdr].obj \in DOMAIN objects /\ Req[ep.hdr].cmd # "close"
             /\ Ends("fatal")

\* What comes next of the current request: payload, object ids (refused when the
\* buffer cannot hold them), or the end.
Posts(what, room) ==
  /\ ep' = [ep EXCEPT !.data = what, !.room = room, !.moved = <<>>]
  /\ main' = [main EXCEPT !.at = "return"]
  /\ UNCHANGED <<host, rd, hs, objects, log>>
PostDataBuffer == Posts("payload", Lesser(DataSize, Req[rd.hdr].size - rd.got))
PostObjectBuffer == IF Req[rd.hdr].objs > DataSize THEN ResetInterface
                    ELSE Posts("ids", Req[rd.hdr].objs)
Advance ==
  /\ main.at = "advance"
  /\ \/ rd.got < Req[rd.hdr].size /\ PostDataBuffer
     \/ rd.got >= Req[rd.hdr].size /\ Req[rd.hdr].objs > 0 /\ PostObjectBuffer
     \/ /\ rd.got >= Req[rd.hdr].size /\ Req[rd.hdr].objs = 0
        /\ main' = [main EXCEPT !.at = "finalize"]
        /\ UNCHANGED <<host, ep, rd, hs, objects, log>>

\* The callback for the header endpoint posts the next header buffer.
Return ==
  /\ main.at = "return"
  /\ main' = [main EXCEPT !.at = "idle", !.inMeta = FALSE]
  /\ ep' = IF main.inMeta THEN [ep EXCEPT !.meta = "posted"] ELSE ep
  /\ UNCHANGED <<host, rd, hs, objects, log>>

-----------------------------------------------------------------------------
\* SmartRequestHandler::FlushReceiveBuffer on what is buffered: parameters
\* first, over as many calls as it takes, then the stream.
StreamFits(r, used) == IF r.stream THEN r.exp = r.size - used ELSE used >= r.size

Unpacked(i, buf) ==
  LET h == hs[i]
      n == Lesser(Req[i].par - Len(h.used), Len(buf))
      rest == SubSeq(buf, n + 1, Len(buf))
      g == [h EXCEPT !.used = @ \o SubSeq(buf, 1, n)]
  IN IF Len(g.used) < Req[i].par THEN [h |-> g, buf |-> rest, does |-> "waits"]
     ELSE IF StreamFits(Req[i], Len(g.used))
     THEN [h |-> [g EXCEPT !.streaming = TRUE], buf |-> rest, does |-> "runs"]
     ELSE [h |-> [g EXCEPT !.bad = TRUE], buf |-> rest, does |-> "refuses"]

Flushed(i, buf) ==
  LET h == hs[i] IN
  IF h.bad THEN [h |-> h, buf |-> <<>>, does |-> "waits"]
  ELSE IF ~h.streaming THEN Unpacked(i, buf)
  ELSE IF Req[i].stream THEN [h |-> [h EXCEPT !.sink = @ \o buf], buf |-> <<>>, does |-> "waits"]
  ELSE IF buf # <<>> THEN [h |-> [h EXCEPT !.bad = TRUE], buf |-> buf, does |-> "refuses"]
  ELSE [h |-> h, buf |-> buf, does |-> "waits"]

\* A command answers at once, perhaps with a new object, or keeps its opener;
\* one that takes a stream answers when the stream has ended.
Runs(i, r, m) ==
  LET l == [log EXCEPT !.run = @ \cup {i}] IN
  \/ /\ Req[i].stream /\ rd' = r /\ main' = [m EXCEPT !.at = m.then] /\ log' = l
     /\ UNCHANGED objects
  \/ /\ ~Req[i].stream /\ Req[i].cmd = "call" /\ Responds(r, i, m, l) /\ UNCHANGED objects
  \/ /\ ~Req[i].stream /\ Req[i].cmd = "open"
     /\ objects' = [o \in DOMAIN objects \cup {m.next} |-> IF o \in DOMAIN objects THEN objects[o] ELSE None]
     /\ Responds(r, i, [m EXCEPT !.next = @ + 1], l)
  \/ /\ ~Req[i].stream /\ Req[i].cmd = "wait"
     /\ rd' = r /\ main' = [m EXCEPT !.at = m.then] /\ log' = [l EXCEPT !.later = @ \cup {i}]
     /\ UNCHANGED objects

FlushReceiveBuffer(r, m) ==
  IF r.handler = None
  THEN /\ rd' = [r EXCEPT !.buf = <<>>] /\ main' = [m EXCEPT !.at = m.then]
       /\ UNCHANGED <<hs, objects, log>>
  ELSE LET i == r.handler
           f == Flushed(i, r.buf)
           q == [r EXCEPT !.buf = f.buf]
       IN /\ hs' = [hs EXCEPT ![i] = f.h]
          /\ CASE f.does = "waits" -> /\ rd' = q /\ main' = [m EXCEPT !.at = m.then]
                                      /\ UNCHANGED <<objects, log>>
               [] f.does = "refuses" -> Responds(q, i, m, log) /\ UNCHANGED objects
               [] f.does = "runs" -> Runs(i, q, m)

\* DataTransactionCompleted.  With the payload complete this must be the
\* object ids; FindReport aborts when the transfer is not the one posted.
ReceiveIds ==
  /\ main.at = "idle" /\ ep.data \in {"payload done", "ids done"} /\ rd.got = Req[rd.hdr].size
  /\ IF ep.data = "payload done" THEN Abort
     ELSE IF Len(ep.moved) # Req[rd.hdr].objs THEN ResetInterface
     ELSE /\ rd' = [rd EXCEPT !.ids = Len(ep.moved)]
          /\ main' = [main EXCEPT !.at = "finalize"]
          /\ ep' = [ep EXCEPT !.data = "none", !.moved = <<>>]
          /\ UNCHANGED <<host, hs, objects, log>>

ReceivePayload ==
  /\ main.at = "idle" /\ ep.data \in {"payload done", "ids done"} /\ rd.got # Req[rd.hdr].size
  /\ IF ep.data = "ids done" THEN Abort
     ELSE IF rd.got + Len(ep.moved) > Req[rd.hdr].size THEN ResetInterface
     ELSE /\ ep' = [ep EXCEPT !.data = "none", !.moved = <<>>]
          /\ FlushReceiveBuffer([rd EXCEPT !.got = @ + Len(ep.moved), !.buf = @ \o ep.moved],
                                [main EXCEPT !.then = "advance"])
          /\ UNCHANGED host

\* CleanupCommand: the object's dispatcher drops the handler.
Cleaned == IF rd.object \in DOMAIN objects THEN [objects EXCEPT ![rd.object] = None] ELSE objects

\* bad_alloc while the payload is taken: answered if there is a state to
\* answer with (SendHeader has reset it once an answer has begun).
OutOfMemory ==
  /\ MayRunOut /\ main.at = "idle" /\ ep.data = "payload done"
  /\ rd.got + Len(ep.moved) <= Req[rd.hdr].size /\ Len(ep.moved) > 0
  /\ IF rd.state = None THEN Ends("null state")
     ELSE /\ ep' = [ep EXCEPT !.data = "none", !.moved = <<>>]
          /\ Responds([rd EXCEPT !.got = @ + Len(ep.moved), !.object = -1], rd.state,
                      [main EXCEPT !.then = "advance"], log)
          /\ objects' = Cleaned
          /\ UNCHANGED <<host, hs>>

\* FinalizeCommand: a last flush, the end of the stream, the clean-up.
FinalizeCommand ==
  /\ main.at = "finalize"
  /\ FlushReceiveBuffer(rd, [main EXCEPT !.then = "finish"])
  /\ UNCHANGED <<host, ep>>

HasStream(i) == hs[i].streaming /\ Req[i].stream

Finish ==
  /\ main.at = "finish"
  /\ LET i == rd.handler IN
     IF i # None /\ HasStream(i)
     THEN \/ Responds(rd, i, [main EXCEPT !.then = "cleanup"], log)
          \/ /\ log' = [log EXCEPT !.later = @ \cup {i}]
             /\ main' = [main EXCEPT !.at = "cleanup"] /\ UNCHANGED rd
     ELSE main' = [main EXCEPT !.at = "cleanup"] /\ UNCHANGED <<rd, log>>
  /\ UNCHANGED <<host, ep, hs, objects>>

CleanupCommand ==
  /\ main.at = "cleanup"
  /\ objects' = Cleaned
  /\ rd' = [ResetHandler(rd) EXCEPT !.object = -1]
  /\ main' = [main EXCEPT !.at = "return"]
  /\ UNCHANGED <<host, ep, hs, log>>

-----------------------------------------------------------------------------
HostSends == HostSendMeta \/ HostSendData \/ HostSendObjs
MainThread == \/ USBStateChangeCallback \/ MetadataTransactionCompleted \/ Advance \/ Return
              \/ ReceiveIds \/ ReceivePayload \/ FinalizeCommand \/ Finish \/ CleanupCommand
              \/ ResponseSent
Fails == MetaFails \/ DataFails \/ PostFails \/ ResponseFails \/ ReportFails \/ OpenFails \/ OutOfMemory
Next == HostSends \/ MainThread \/ RespondLater \/ Fails

\* The host goes on sending and takes responses, the main thread serves what
\* is signalled, and a command that kept its opener answers in the end.
Fairness == WF_vars(HostSends) /\ WF_vars(MainThread) /\ SF_vars(RespondLater)
Spec == Init /\ [][Next]_vars /\ Fairness

-----------------------------------------------------------------------------
\* A command runs with its own parameters, all of them, and its stream takes
\* its own bytes only, however the payload was cut - unless a header was
\* served before the data of the request ahead of it.
Own(i, units) == \A j \in 1..Len(units) : units[j] = i
RequestsIntact ==
  ~log.raced => \A i \in log.run :
    /\ Own(i, hs[i].used) /\ Len(hs[i].used) = Req[i].par
    /\ Own(i, hs[i].sink) /\ Len(hs[i].sink) <= Req[i].size - Req[i].par

\* "RequestHandler should have lifetime equal to or longer than that of its
\* owning Object, or until OpenRequest is called again" (Object.hpp): the
\* handler the reader points to is one its object's dispatcher still holds.
HandlerLive ==
  rd.handler # None =>
    /\ rd.object = Req[rd.handler].obj
    /\ rd.object \in DOMAIN objects => objects[rd.object] = rd.handler

\* Neither a second response nor a transfer that is not the expected one
\* ever aborts the service, unless a header overtook data.  What aborts it beside
\* these is in ResponseFails, ReportFails and OpenFails.
NeverAborts == main.at = "abort" => log.raced

\* Commands run with their own parameters and stream bytes, the handler the
\* reader points to is one its object still holds, and no second response and no
\* unexpected transfer aborts twili - a failing service, a failing response
\* transfer and a lack of memory do (RequestReader.cpp, RequestHandler.hpp,
\* ResponseOpener.cpp, USBBridge.cpp).
BridgeSound == RequestsIntact /\ HandlerLive /\ NeverAborts

\* A request that was sent is answered.  What ends it: parameters that never
\* come, a reset, the response to another request sent while it was read, the end
\* of twili by a failing response transfer or for lack of memory.
Excused(i) == Req[i].par > Req[i].size \/ i \in log.cut \/ log.raced \/ main.at \in {"null state", "fatal"}
Waiting == \E i \in 1..N : host.req > i /\ i \notin log.answered /\ ~Excused(i)
Answered == Waiting ~> ~Waiting
=============================================================================
