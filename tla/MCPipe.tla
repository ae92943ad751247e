------------------------------- MODULE MCPipe -------------------------------
(***************************************************************************)
(* Pipes for TLC, in three settings of which a behaviour is about one:     *)
(* "shared", a buffered pipe opened twice at either end (PipeEnds with the *)
(* constants of the configuration); "sync", the unbuffered pipe of a       *)
(* standard stream with one caller at each end; and "stream", that pipe    *)
(* written to by the bridge's WRITE command (PipeWriter).                  *)
(***************************************************************************)
EXTENDS PipeEnds
CONSTANTS r1, r2, w1, w2,
          Settings      \* the settings a behaviour may be about

VARIABLES setting,
          bridge, sink, arrived, taken, handler, left, input, st, resp, requests, gone

TwoReaders == {r1, r2}
TwoWriters == {w1, w2}

\* A zero-sized buffer, one byte, and more than any write.
ReadSizes == {0, 1, 9}

Sync == INSTANCE PipeEnds WITH Limit <- 0, Readers <- {r1}, Writers <- {w1}
Writer == INSTANCE PipeWriter WITH Limit <- 0, Bridges <- {"usb", "tcp"}, InitCapacity <- 2, MaxBytes <- 4, MaxRequests <- 2

writerVars == <<bridge, sink, arrived, taken, handler, left, input, st, resp, requests, gone>>

InSync(A) == setting = "sync" /\ A
InStream(A) == setting = "stream" /\ A

PipeInit == setting \in Settings /\ Init /\ Writer!Init /\ (setting # "stream" => bridge = "usb")
SharedStep == setting = "shared" /\ Next /\ UNCHANGED <<setting, writerVars>>
SyncStep == InSync(Sync!Next) /\ UNCHANGED <<setting, writerVars>>
StreamStep == InStream(Writer!Next) /\ UNCHANGED <<setting, vars>>
PipeNext == SharedStep \/ SyncStep \/ StreamStep

\* Somebody keeps reading the unbuffered pipe; in "stream" the bridge also
\* goes on with the request it has begun.
PipeFairness ==
  /\ WF_vars(InSync(Sync!ReadAgain))
  /\ WF_writerVars(InStream(Writer!ReadAgain)) /\ WF_writerVars(InStream(Writer!BridgeGoesOn))
PipeSpec == PipeInit /\ [][PipeNext]_<<setting, vars, writerVars>> /\ PipeFairness

-----------------------------------------------------------------------------
\* The unbuffered pipe is an ordered byte stream: it loses nothing that was
\* written unless the reading end is closed, and ends only once it is empty
\* (TwibPipe::CloseWriter: "signal EoF after pending data has been read out").
Unbuffered(s, other) == IF setting = "sync" THEN s ELSE other
AsStream == INSTANCE ByteStream WITH
  sent <- Unbuffered(delivered \o pipe.buffer \o pipe.wps, <<>>),
  seen <- Unbuffered(delivered, <<>>),
  closed <- Unbuffered(pipe.hit_eof, FALSE),
  cut <- Unbuffered(reader_closed, FALSE),
  ended <- Unbuffered(told_eof, FALSE)
SyncIsByteStream == AsStream!StreamSpec

\* Success means read: a write to the unbuffered pipe that reported success, and
\* a WRITE answered with success, were read in full, but for what a payload larger
\* than the first buffer leaves in the input at its end; bytes are never
\* reordered, and a WRITE over USB is answered once (TwibPipe.cpp,
\* ITwibPipeWriter.cpp).
SuccessMeansRead ==
  /\ setting = "sync" => Sync!SynchronousWhenUnbuffered
  /\ InOrder /\ Writer!InOrder
  /\ Writer!UsbAnsweredOnce /\ Writer!OkMeansWritten

\* While somebody keeps reading the unbuffered pipe every pending write
\* completes, and as long as the pipe stays open a WRITE is answered
\* (TwibPipe::Read, ITwibPipeWriter.cpp).
WritesEnd ==
  /\ (setting = "sync" /\ writing # {}) ~> writing = {}
  /\ (setting = "stream" /\ Writer!Unanswered) ~> (~Writer!Unanswered \/ sink.hit_eof)
=============================================================================
