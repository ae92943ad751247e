------------------------------ MODULE TwibPipe ------------------------------
(***************************************************************************)
(* twili/TwibPipe.cpp: the byte pipe behind the standard streams of a      *)
(* monitored process and behind named pipes.  Reads and writes are         *)
(* asynchronous: a call either runs its callback at once or leaves it in   *)
(* the pipe (ReadPending, WritePending) until the other end acts.          *)
(*                                                                         *)
(* A byte is its position in the stream of all bytes ever passed to Write, *)
(* so loss, duplication and reordering are visible.  The util::Buffer is   *)
(* the sequence of the bytes between its heads: its Write succeeds exactly *)
(* when the bytes fit under the limit, and its Reserve makes all the room  *)
(* up to the limit available (common/Buffer.cpp compacts before it grows). *)
(*                                                                         *)
(* A read callback consumes what it is offered, up to its own buffer size  *)
(* (IPipeTwib::Read) or entirely (ITwibPipeReader::Read); it never closes  *)
(* the pipe it reads from.  A write callback may call Write again at once  *)
(* (ITwibPipeWriter); parameter `more' of the operators below is what it   *)
(* then writes, and is empty for an IPC writer (IPipeTwib::Write).         *)
(***************************************************************************)
EXTENDS Naturals, Sequences

CONSTANT Limit  \* pipe_buffer_size_limit; 0 makes the pipe synchronous

ASSUME LimitAssumption == Limit \in Nat

NoCaller == "none"

PipeStates == {"Idle", "WritePending", "ReadPending"}

NewPipe == [state |-> "Idle", buffer |-> <<>>, wps |-> <<>>,
            hit_eof |-> FALSE, reader |-> NoCaller, cap |-> 0,
            writer |-> NoCaller]

Least(a, b) == IF a <= b THEN a ELSE b
Take(s, k) == SubSeq(s, 1, k)
Drop(s, k) == SubSeq(s, k + 1, Len(s))
Elements(s) == {s[i] : i \in 1..Len(s)}

-----------------------------------------------------------------------------
(***************************************************************************)
(* Operations on the pipe object.                                          *)
(***************************************************************************)

\* Mutant of Room: the limit is exceeded by one byte.
RoomOffByOne(p) == Limit + 1 - Len(p.buffer)

\* How many bytes Buffer::Reserve has room for.
Room(p) == Limit - Len(p.buffer)

\* Buffer::Write in Idle: all of the data or nothing.
WriteIdle(p, w, data) ==
  IF Len(data) <= Room(p)
    THEN [p EXCEPT !.buffer = @ \o data]
    ELSE [p EXCEPT !.state = "WritePending", !.wps = data, !.writer = w]

\* Leave WritePending, then run the callback, which may write again.
ExitWritePendingState(p, more) ==
  LET idle == [p EXCEPT !.state = "Idle", !.wps = <<>>, !.writer = NoCaller]
  IN  IF more = <<>> \/ p.hit_eof THEN idle ELSE WriteIdle(idle, p.writer, more)

\* FlushWritePendingState would move everything and leave WritePending.
FlushesAll(p) == Len(p.wps) <= Room(p)

\* The bytes are copied behind the write head, which is not advanced: the
\* buffer's readable contents are what they were.
FlushWritePendingState(p, more) ==
  IF FlushesAll(p)
    THEN ExitWritePendingState(p, more)
    ELSE [p EXCEPT !.wps = Drop(@, Room(p))]

\* Mutant of ReadIdle: end of file is not looked at.
ReadIdleIgnoresEof(p, r, cap) ==
  LET k == Least(cap, Len(p.buffer))
  IN  IF p.buffer # <<>>
        THEN [pipe |-> [p EXCEPT !.buffer = Drop(@, k)],
              got |-> Take(p.buffer, k), answer |-> "data"]
        ELSE [pipe |-> [p EXCEPT !.state = "ReadPending", !.reader = r, !.cap = cap],
              got |-> <<>>, answer |-> "none"]

\* TwibPipe::Read in Idle: from the buffer, else end of file, else wait.
ReadIdle(p, r, cap) ==
  IF p.buffer # <<>>
    THEN LET k == Least(cap, Len(p.buffer))
         IN  [pipe |-> [p EXCEPT !.buffer = Drop(@, k)],
              got |-> Take(p.buffer, k), answer |-> "data"]
    ELSE IF p.hit_eof
      THEN [pipe |-> p, got |-> <<>>, answer |-> "eof"]
      ELSE [pipe |-> [p EXCEPT !.state = "ReadPending", !.reader = r, !.cap = cap],
            got |-> <<>>, answer |-> "none"]

\* Read in WritePending once a first flush has not emptied it: from the
\* buffer, else straight from the pending write, then flush again.
ReadWritePending(p, cap, more) ==
  IF p.buffer # <<>>
    THEN LET k == Least(cap, Len(p.buffer))
         IN  [pipe |-> FlushWritePendingState([p EXCEPT !.buffer = Drop(@, k)], more),
              got |-> Take(p.buffer, k), answer |-> "data"]
    ELSE LET k == Least(cap, Len(p.wps))
         IN  [pipe |-> FlushWritePendingState([p EXCEPT !.wps = Drop(@, k)], more),
              got |-> Take(p.wps, k), answer |-> "data"]

\* TwibPipe::Read outside ReadPending, where it aborts.
ReadPipe(p, r, cap, more) ==
  LET q == FlushWritePendingState(p, more)
  IN  IF p.state = "Idle" THEN ReadIdle(p, r, cap)
      ELSE IF ~FlushesAll(p) THEN ReadWritePending(q, cap, more)
      ELSE IF q.state = "Idle" THEN ReadIdle(q, r, cap)
      ELSE ReadWritePending(FlushWritePendingState(q, <<>>), cap, <<>>)

\* TwibPipe::Write of at least one byte into an open pipe outside
\* WritePending, where it aborts.
WritePipe(p, w, data) ==
  LET k == Least(p.cap, Len(data))
      idle == [p EXCEPT !.state = "Idle", !.reader = NoCaller, !.cap = 0]
  IN  IF p.state = "Idle"
        THEN [pipe |-> WriteIdle(p, w, data), got |-> <<>>]
        ELSE [pipe |-> IF k < Len(data)
                         THEN [idle EXCEPT !.state = "WritePending",
                                           !.wps = Drop(data, k), !.writer = w]
                         ELSE idle,
              got |-> Take(data, k)]

\* Mutant of CloseReaderEnd: the state is not left.
CloseReaderKeepsState(p) ==
  [p EXCEPT !.hit_eof = TRUE, !.wps = <<>>, !.reader = NoCaller, !.cap = 0,
            !.writer = NoCaller]

\* TwibPipe::CloseReader: both pending callbacks are told end of file, and the
\* rest of a pending write is dropped.
CloseReaderEnd(p) ==
  [p EXCEPT !.hit_eof = TRUE, !.state = "Idle", !.wps = <<>>,
            !.reader = NoCaller, !.cap = 0, !.writer = NoCaller]

\* Mutant of CloseWriterEnd: a pending write is dropped.
CloseWriterDrops(p) ==
  [p EXCEPT !.hit_eof = TRUE, !.state = "Idle", !.wps = <<>>, !.reader = NoCaller,
            !.cap = 0]

\* Mutant of CloseWriterEnd: a pending reader is told, the pipe is not closed.
CloseWriterNoEof(p) ==
  [p EXCEPT !.hit_eof = p.hit_eof \/ p.state # "ReadPending",
            !.state = IF @ = "ReadPending" THEN "Idle" ELSE @,
            !.reader = NoCaller, !.cap = 0]

\* TwibPipe::CloseWriter: a pending write stays, to be read out before end of
\* file; a pending reader is told end of file.
CloseWriterEnd(p) ==
  [p EXCEPT !.hit_eof = TRUE, !.state = IF @ = "ReadPending" THEN "Idle" ELSE @,
            !.reader = NoCaller, !.cap = 0]
=============================================================================
