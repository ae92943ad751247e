----------------------------- MODULE PipeWriter -----------------------------
(***************************************************************************)
(* The WRITE command of the bridge object ITwibPipeWriter                  *)
(* (twili/bridge/interfaces/ITwibPipeWriter.cpp), which streams a request  *)
(* payload into a TwibPipe while the payload is still arriving and responds *)
(* when the pipe has taken it.  The other end of the pipe is the standard  *)
(* input of a process, which reads, or exits and so closes the reader.     *)
(*                                                                         *)
(* The payload arrives in pieces; each piece reaches the object through    *)
(* FlushReceiveBuffer, the last one also through Finalize.  On the USB     *)
(* bridge sending a response resets the request handler, so what is left   *)
(* of the payload is discarded; on the TCP bridge it is not.  A second     *)
(* response to one request aborts the sysmodule (ResponseOpener.cpp).      *)
(***************************************************************************)
EXTENDS TwibPipe

CONSTANTS
  Bridges,      \* the bridges the object may have been opened over: "usb", "tcp"
  Caps,         \* buffer sizes of the process that reads
  InitCapacity, \* bytes a fresh util::Buffer holds before it grows (2048)
  MaxBytes,     \* bound: payload bytes in all
  MaxRequests   \* bound: number of WRITE requests


VARIABLES
  bridge,     \* the bridge the requests come over
  sink,       \* the TwibPipe
  arrived,    \* payload bytes received so far, over all requests
  taken,      \* bytes given to the reading process, in order
  handler,    \* "none", "stream" or "discard": the bridge's request handler
  left,       \* payload bytes of the request that have not arrived
  input,      \* bytes that arrived and were not consumed by the handler
  st,         \* the State object of the request
  resp,       \* the responses the last request got
  requests,   \* first and last payload byte of each request so far
  gone

vars == <<bridge, sink, arrived, taken, handler, left, input, st, resp, requests, gone>>

\* State's members; capacity is the size of buffer's vector, size the number of
\* bytes the outstanding pipe->Write was given, and dropped, a ghost, the bytes
\* that were left in the input when the stream was finished.
NewState == [buffer |-> <<>>, capacity |-> InitCapacity, is_writing |-> FALSE,
             is_done |-> FALSE, size |-> 0, dropped |-> {}]

-----------------------------------------------------------------------------
(***************************************************************************)
(* A configuration c = [pipe, st, resp, got] is threaded through the code  *)
(* that runs in one event; got collects what read callbacks were given.    *)
(***************************************************************************)

\* The response is sent; a second one is caught in Commit below.
Respond(c, answer) == [c EXCEPT !.resp = Append(@, answer)]

\* The callback of pipe->Write with eof set.
WriteFailed(c) ==
  LET d == [c EXCEPT !.st.buffer = Drop(@, c.st.size), !.st.is_writing = FALSE]
  IN  IF d.st.is_done THEN d
      ELSE Respond([d EXCEPT !.st.is_done = TRUE], "eof")

\* The callback of pipe->Write without eof, up to the recursive Write; the
\* buffer then holds what arrived during the write.
WriteSucceeded(c) ==
  LET d == [c EXCEPT !.st.buffer = Drop(@, c.st.size), !.st.is_writing = FALSE]
  IN  IF d.st.is_done /\ d.st.buffer = <<>> THEN Respond(d, "ok") ELSE d

\* State::Write: all that is buffered goes to the pipe in one call.
StateWrite(c) ==
  LET started == [c EXCEPT !.st.is_writing = TRUE, !.st.size = Len(c.st.buffer)]
      res == WritePipe(c.pipe, "bridge", c.st.buffer)
      done == [started EXCEPT !.pipe = res.pipe, !.got = @ \o res.got]
  IN  IF c.st.buffer = <<>>
        THEN IF c.st.is_done THEN Respond(c, "ok") ELSE c
      ELSE IF c.pipe.hit_eof THEN WriteFailed(started)
      ELSE IF res.pipe.state = "WritePending" THEN done
      ELSE WriteSucceeded(done)

\* stream.receive: while a write is outstanding only what fits without moving
\* the buffer is taken.
Received(c, bytes) ==
  LET room == c.st.capacity - Len(c.st.buffer)
      k == IF c.st.is_writing THEN Least(Len(bytes), room) ELSE Len(bytes)
      d == [c EXCEPT !.st.buffer = @ \o Take(bytes, k),
                     !.st.capacity = IF Len(c.st.buffer) + k > @
                                       THEN Len(c.st.buffer) + k ELSE @]
  IN  [conf |-> IF d.st.is_writing THEN d ELSE StateWrite(d),
       rest |-> Drop(bytes, k)]

\* Mutant of Finished: the outstanding write is not waited for.
FinishedEarly(c) == Respond([c EXCEPT !.st.is_done = TRUE], "ok")

\* Mutant of Finished: is_done is not set.
FinishedSilently(c) == IF c.st.is_writing THEN c ELSE StateWrite(c)

\* stream.finish: what receive left in the input is not looked at.
Finished(c) ==
  LET d == [c EXCEPT !.st.is_done = TRUE]
  IN  IF d.st.is_writing THEN d ELSE StateWrite(d)

\* What the write callback hands to the pipe when the outstanding write
\* completes.
MoreToWrite == IF st.is_writing THEN Drop(st.buffer, st.size) ELSE <<>>

-----------------------------------------------------------------------------

Here == [pipe |-> sink, st |-> st, resp |-> resp, got |-> <<>>]

\* SendHeader on the USB bridge replaces the request handler.
HandlerAfter(h, c) == IF h = "stream" /\ bridge = "usb" /\ c.resp # <<>> THEN "discard" ELSE h

\* Make configuration c the state.
Commit(c) ==
  /\ UNCHANGED bridge
  /\ sink' = c.pipe
  /\ st' = c.st
  /\ resp' = c.resp
  /\ taken' = taken \o c.got
  /\ gone' = (Len(c.resp) > 1)

\* FlushReceiveBuffer of handler h: the next configuration and what is left of
\* the input.
Flushed(c, bytes, h) ==
  IF h = "discard" THEN [conf |-> c, rest |-> <<>>] ELSE Received(c, bytes)

\* Finalize of handler h flushes once more, then finishes the stream.
Finalized(c, bytes, h) ==
  LET f == Received(c, bytes)
  IN  IF h = "discard" THEN c
      ELSE Finished([f.conf EXCEPT !.st.dropped = Elements(f.rest)])

\* The end of the event that brought the last bytes: the USB bridge finalizes
\* the command in the same event, the TCP bridge in a task of its own.
EndEvent(c, bytes, h, remaining) ==
  LET now == bridge = "usb" /\ remaining = 0
  IN  /\ Commit(IF now THEN Finalized(c, bytes, h) ELSE c)
      /\ input' = IF now THEN <<>> ELSE bytes
      /\ handler' = IF now THEN "none" ELSE h
      /\ left' = remaining

Payload(k) == [i \in 1..k |-> arrived + i]

Init ==
  /\ bridge \in Bridges
  /\ sink = NewPipe
  /\ arrived = 0
  /\ taken = <<>>
  /\ handler = "none"
  /\ left = 0
  /\ input = <<>>
  /\ st = NewState
  /\ resp = <<>>
  /\ requests = <<>>
  /\ gone = FALSE

\* The stream's size has arrived, with the first k of its n bytes:
\* ITwibPipeWriter::Write is called.  A closed pipe is answered, and the stream
\* is set up all the same.  The tool sends a request once the last was answered.
Open(n, k) ==
  /\ ~gone
  /\ handler = "none"
  /\ Len(requests) < MaxRequests
  /\ requests = <<>> \/ resp # <<>>
  /\ arrived + n <= MaxBytes
  /\ LET c == [Here EXCEPT !.st = NewState,
                           !.resp = IF sink.hit_eof THEN <<"eof">> ELSE <<>>]
     IN  EndEvent(c, Payload(k), HandlerAfter("stream", c), n - k)
  /\ arrived' = arrived + k
  /\ requests' = Append(requests, [first |-> arrived + 1, last |-> arrived + n])

\* More of the payload arrives and is flushed to the handler.
Arrive(k) ==
  /\ ~gone
  /\ handler # "none"
  /\ k \in 1..left
  /\ LET f == Flushed(Here, input \o Payload(k), handler)
     IN  EndEvent(f.conf, f.rest, HandlerAfter(handler, f.conf), left - k)
  /\ arrived' = arrived + k
  /\ UNCHANGED requests

\* FinalizeCommand as a task of its own, over TCP.
Finalize ==
  /\ ~gone
  /\ handler # "none"
  /\ left = 0
  /\ Commit(Finalized(Here, input, handler))
  /\ input' = <<>>
  /\ handler' = "none"
  /\ UNCHANGED <<arrived, left, requests>>

-----------------------------------------------------------------------------
(***************************************************************************)
(* The reading process, and the two ends closing.                          *)
(***************************************************************************)

\* The process reads.  If that completes the outstanding write its callback
\* runs, which passes what arrived meanwhile to the pipe, all inside Read.
ProcessRead(cap) ==
  /\ ~gone
  /\ sink.state # "ReadPending"
  /\ LET res == ReadPipe(sink, "process", cap, MoreToWrite)
         c == [Here EXCEPT !.pipe = res.pipe, !.got = res.got]
         exited == /\ sink.state = "WritePending"
                   /\ \/ res.pipe.state # "WritePending"
                      \/ res.pipe.wps[Len(res.pipe.wps)] # sink.wps[Len(sink.wps)]
         first == WriteSucceeded(c)
         again == [first EXCEPT !.st.is_writing = TRUE,
                                !.st.size = Len(first.st.buffer)]
         final == IF ~exited THEN c
                  ELSE IF MoreToWrite = <<>> THEN first
                  ELSE IF sink.hit_eof THEN WriteFailed(again)
                  ELSE IF res.pipe.state = "WritePending" THEN again
                  ELSE WriteSucceeded(again)
     IN  /\ Commit(final)
         /\ handler' = HandlerAfter(handler, final)
  /\ UNCHANGED <<arrived, left, input, requests>>

\* The process exits: MonitoredProcess closes the reader of its input.
ProcessExits ==
  /\ ~gone
  /\ LET c == [Here EXCEPT !.pipe = CloseReaderEnd(@)]
         final == IF sink.state = "WritePending" THEN WriteFailed(c) ELSE c
     IN  /\ Commit(final)
         /\ handler' = HandlerAfter(handler, final)
  /\ UNCHANGED <<arrived, left, input, requests>>

\* CLOSE, or destruction of the object, between requests.
CloseWriter ==
  /\ ~gone
  /\ handler = "none"
  /\ sink' = CloseWriterEnd(sink)
  /\ UNCHANGED <<bridge, arrived, taken, handler, left, input, st, resp, requests,
                 gone>>

Next ==
  \/ \E n \in 0..MaxBytes : \E k \in 0..n : Open(n, k)
  \/ \E k \in 1..MaxBytes : Arrive(k)
  \/ Finalize
  \/ \E cap \in Caps : ProcessRead(cap)
  \/ ProcessExits
  \/ CloseWriter

Spec == Init /\ [][Next]_vars

\* The process goes on reading its input, with room for at least one byte,
\* and the bridge goes on with the request it has begun.
ReadAgain == \E cap \in Caps \ {0} : ProcessRead(cap)
BridgeGoesOn == (\E k \in 1..MaxBytes : Arrive(k)) \/ Finalize

FairSpec == Spec /\ WF_vars(ReadAgain) /\ WF_vars(BridgeGoesOn)

-----------------------------------------------------------------------------
(***************************************************************************)
(* Properties.                                                             *)
(***************************************************************************)

Stored == taken \o sink.buffer \o sink.wps

\* Streaming does not reorder or repeat payload bytes, although a write
\* callback writes again from inside the read that ran it.
InOrder == \A i, j \in 1..Len(Stored) : i < j => Stored[i] < Stored[j]

\* A WRITE over USB is answered at most once: the first answer replaces the
\* request handler, so nothing is left that could answer again.
UsbAnsweredOnce == gone => bridge # "usb"

\* When a WRITE is answered with success, its whole payload was read, or is in
\* the pipe's buffer (README.md: "Writes data from the request payload to the
\* pipe, blocking until it is read"), but for what finish left in the input; and
\* it leaves nothing there of a payload that fits a fresh buffer.
OkMeansWritten ==
  resp = <<"ok">> =>
    LET rq == requests[Len(requests)]
    IN  /\ rq.first..rq.last \subseteq Elements(taken \o sink.buffer) \cup st.dropped
        /\ rq.last - rq.first < InitCapacity => st.dropped = {}

\* The last request has no response yet.
Unanswered == requests # <<>> /\ resp = <<>>
=============================================================================
