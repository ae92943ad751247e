------------------------------ MODULE PipeEnds ------------------------------
(***************************************************************************)
(* A TwibPipe with the callers at its two ends: the process on one side    *)
(* (twili/service/IPipe.cpp, IPipeTwib) and the bridge on the other        *)
(* (ITwibPipeReader).  Each caller waits for its callback before it calls  *)
(* again; a pipe can be opened more than once, so there may be several.    *)
(***************************************************************************)
EXTENDS TwibPipe

CONSTANTS
  Readers,    \* callers of Read, each waits for its callback
  Writers,    \* callers of Write, each waits for its callback
  Caps,       \* buffer sizes of readers
  MaxChunk,   \* bound: bytes in one Write
  MaxBytes    \* bound: bytes written in all

ASSUME CapsAssumption == Caps \subseteq Nat
ASSUME BoundsAssumption == MaxChunk \in Nat /\ MaxBytes \in Nat

VARIABLES
  pipe,       \* [state, buffer, wps, hit_eof, reader, cap, writer]
  written,    \* number of bytes passed to Write so far
  inflight,   \* the bytes of the write whose callback is outstanding
  acked,      \* bytes whose write callback reported success
  delivered,  \* bytes given to read callbacks, in order
  told_eof,   \* a read callback was given nothing: end of file
  reading,    \* readers whose callback has not run yet
  writing,    \* writers whose callback has not run yet
  reader_closed, \* CloseReader was called
  aborted     \* twili::Abort: the sysmodule is gone

vars == <<pipe, written, inflight, acked, delivered, told_eof, reading,
          writing, reader_closed, aborted>>

Bytes == 1..MaxBytes

PipeType == [state : PipeStates, buffer : Seq(Bytes), wps : Seq(Bytes),
             hit_eof : BOOLEAN, reader : Readers \cup {NoCaller}, cap : Nat,
             writer : Writers \cup {NoCaller}]

-----------------------------------------------------------------------------
(***************************************************************************)
(* Operations.                                                             *)
(***************************************************************************)

Init ==
  /\ pipe = NewPipe
  /\ written = 0
  /\ inflight = {}
  /\ acked = {}
  /\ delivered = <<>>
  /\ told_eof = FALSE
  /\ reading = {}
  /\ writing = {}
  /\ reader_closed = FALSE
  /\ aborted = FALSE

Abort ==
  /\ aborted' = TRUE
  /\ UNCHANGED <<pipe, written, inflight, acked, delivered, told_eof, reading,
                 writing, reader_closed>>

Read(r, cap) ==
  /\ ~aborted
  /\ r \notin reading
  /\ \/ /\ pipe.state = "ReadPending"
        /\ Abort
     \/ /\ pipe.state # "ReadPending"
        /\ LET res == ReadPipe(pipe, r, cap, <<>>)
               done == pipe.state = "WritePending" /\ res.pipe.state # "WritePending"
           IN  /\ pipe' = res.pipe
               /\ delivered' = delivered \o res.got
               /\ told_eof' = (told_eof \/ res.answer = "eof")
               /\ reading' = IF res.answer = "none" THEN reading \cup {r} ELSE reading
               /\ writing' = IF done THEN writing \ {pipe.writer} ELSE writing
               /\ acked' = IF done THEN acked \cup inflight ELSE acked
               /\ inflight' = IF done THEN {} ELSE inflight
        /\ UNCHANGED <<written, reader_closed, aborted>>

\* A write of no bytes, or into a pipe at end of file, runs its callback and
\* leaves no trace; it is the first disjunct for the callers' sake.
Write(w, n) ==
  /\ ~aborted
  /\ w \notin writing
  /\ \/ /\ n = 0 \/ pipe.hit_eof
        /\ UNCHANGED vars
     \/ /\ n > 0 /\ ~pipe.hit_eof
        /\ pipe.state = "WritePending"
        /\ Abort
     \/ /\ n > 0 /\ ~pipe.hit_eof
        /\ pipe.state # "WritePending"
        /\ written + n <= MaxBytes
        /\ LET data == [i \in 1..n |-> written + i]
               res == WritePipe(pipe, w, data)
               stuck == res.pipe.state = "WritePending"
           IN  /\ pipe' = res.pipe
               /\ delivered' = delivered \o res.got
               /\ reading' = reading \ {pipe.reader}
               /\ writing' = IF stuck THEN writing \cup {w} ELSE writing
               /\ acked' = IF stuck THEN acked ELSE acked \cup Elements(data)
               /\ inflight' = IF stuck THEN Elements(data) ELSE inflight
        /\ written' = written + n
        /\ UNCHANGED <<told_eof, reader_closed, aborted>>

CloseReader ==
  /\ ~aborted
  /\ pipe' = CloseReaderEnd(pipe)
  /\ told_eof' = (told_eof \/ pipe.state = "ReadPending")
  /\ reading' = reading \ {pipe.reader}
  /\ writing' = writing \ {pipe.writer}
  /\ inflight' = {}
  /\ reader_closed' = TRUE
  /\ UNCHANGED <<written, acked, delivered, aborted>>

CloseWriter ==
  /\ ~aborted
  /\ pipe' = CloseWriterEnd(pipe)
  /\ told_eof' = (told_eof \/ pipe.state = "ReadPending")
  /\ reading' = reading \ {pipe.reader}
  /\ UNCHANGED <<written, inflight, acked, delivered, writing, reader_closed,
                 aborted>>

Next ==
  \/ \E r \in Readers, cap \in Caps : Read(r, cap)
  \/ \E w \in Writers, n \in 0..MaxChunk : Write(w, n)
  \/ CloseReader
  \/ CloseWriter

Spec == Init /\ [][Next]_vars

\* The reading end keeps asking for data, with room for at least one byte:
\* the output pump of `twib run' and a process reading its standard input.
ReadAgain == \E r \in Readers, cap \in Caps \ {0} : Read(r, cap)

FairSpec == Spec /\ WF_vars(ReadAgain)

-----------------------------------------------------------------------------
(***************************************************************************)
(* Properties.                                                             *)
(***************************************************************************)

\* Every variable of the pipe and of its callers has its type; the buffer's
\* includes pipe_buffer_size_limit.
TypeOK ==
  /\ pipe \in PipeType
  /\ Len(pipe.buffer) <= Limit
  /\ written \in 0..MaxBytes
  /\ inflight \subseteq Bytes
  /\ acked \subseteq Bytes
  /\ delivered \in Seq(Bytes)
  /\ told_eof \in BOOLEAN
  /\ reading \subseteq Readers
  /\ writing \subseteq Writers
  /\ reader_closed \in BOOLEAN
  /\ aborted \in BOOLEAN

Increasing(s) == \A i, j \in 1..Len(s) : i < j => s[i] < s[j]

\* The pipe never reorders or repeats a byte: what was read, then what is
\* buffered, then the rest of the pending write are in the order of writing
\* (Read takes the buffer before the pending write).
InOrder ==
  /\ Increasing(delivered \o pipe.buffer \o pipe.wps)
  /\ \A b \in Elements(delivered \o pipe.buffer \o pipe.wps) : b <= written

\* No callback is forgotten and none runs while it is still stored: a caller
\* waits exactly while the pipe's state holds its callback.
CallersAccounted ==
  /\ reading = IF pipe.state = "ReadPending" THEN {pipe.reader} ELSE {}
  /\ writing = IF pipe.state = "WritePending" THEN {pipe.writer} ELSE {}

\* A reader is never left waiting while there is something to tell it: no
\* buffered byte, no pending write and no end of file (the lost wakeup of an
\* asynchronous pipe).
NoReaderLeftWaiting ==
  pipe.state = "ReadPending" => pipe.buffer = <<>> /\ pipe.wps = <<>> /\ ~pipe.hit_eof

\* With the buffer limit at zero a write that reported success has been read
\* in full (README.md: "block writes until the data is delivered").
SynchronousWhenUnbuffered == Limit = 0 => acked \subseteq Elements(delivered)

\* A byte of a write that reported success is either read or still readable.
AckedNotLost == acked \subseteq Elements(delivered \o pipe.buffer)

\* Nothing is read after end of file was told, whichever end was closed and
\* whatever was pending then.
NothingAfterEof == [][told_eof => delivered' = delivered]_vars
=============================================================================
