----------------------------- MODULE PipeProofs -----------------------------
(***************************************************************************)
(* Proofs about PipeEnds, for any number of readers and writers and any    *)
(* buffer limit.                                                           *)
(***************************************************************************)
EXTENDS PipeEnds, SequenceTheorems, TLAPS

\* What a pipe object satisfies between calls, whatever its callers do.
PipeOK(p) ==
  /\ p \in PipeType
  /\ Len(p.buffer) <= Limit
  /\ p.state # "WritePending" => p.wps = <<>>

-----------------------------------------------------------------------------
(***************************************************************************)
(* Sequences.                                                              *)
(***************************************************************************)

\* The first k elements of a sequence.
LEMMA TakeFacts ==
  ASSUME NEW S, NEW s \in Seq(S), NEW k \in 0..Len(s)
  PROVE  /\ Take(s, k) \in Seq(S)
         /\ Len(Take(s, k)) = k
         /\ \A i \in 1..k : Take(s, k)[i] = s[i]
BY DEF Take

\* All but the first k elements of a sequence.
LEMMA DropFacts ==
  ASSUME NEW S, NEW s \in Seq(S), NEW k \in 0..Len(s)
  PROVE  /\ Drop(s, k) \in Seq(S)
         /\ Len(Drop(s, k)) = Len(s) - k
         /\ \A i \in 1..(Len(s) - k) : Drop(s, k)[i] = s[k + i]
BY DEF Drop

\* The smaller of two numbers.
LEMMA LeastFacts ==
  ASSUME NEW a \in Nat, NEW b \in Nat
  PROVE  Least(a, b) \in 0..a /\ Least(a, b) \in 0..b
BY DEF Least

-----------------------------------------------------------------------------
(***************************************************************************)
(* Updates of a pipe record.                                               *)
(***************************************************************************)

WithBuffer(p, b) == [p EXCEPT !.buffer = b]
WithWps(p, b) == [p EXCEPT !.wps = b]
WithWriter(p, a, b, w) == [p EXCEPT !.state = a, !.wps = b, !.writer = w]
WithReader(p, a, r, c) == [p EXCEPT !.state = a, !.reader = r, !.cap = c]

\* The buffer changes.
LEMMA BufferUpdate ==
  ASSUME NEW p \in PipeType, NEW b \in Seq(Bytes)
  PROVE  LET q == WithBuffer(p, b)
         IN  /\ q \in PipeType
             /\ q.buffer = b /\ q.state = p.state /\ q.wps = p.wps
             /\ q.hit_eof = p.hit_eof /\ q.writer = p.writer
             /\ q.reader = p.reader /\ q.cap = p.cap
BY DEF PipeType, WithBuffer

\* The pending write advances.
LEMMA WpsUpdate ==
  ASSUME NEW p \in PipeType, NEW b \in Seq(Bytes)
  PROVE  LET q == WithWps(p, b)
         IN  /\ q \in PipeType
             /\ q.buffer = p.buffer /\ q.state = p.state /\ q.wps = b
             /\ q.hit_eof = p.hit_eof /\ q.writer = p.writer
             /\ q.reader = p.reader /\ q.cap = p.cap
BY DEF PipeType, WithWps

\* WritePending is entered or left.
LEMMA WriterUpdate ==
  ASSUME NEW p \in PipeType, NEW a \in PipeStates, NEW b \in Seq(Bytes),
         NEW w \in Writers \cup {NoCaller}
  PROVE  LET q == WithWriter(p, a, b, w)
         IN  /\ q \in PipeType
             /\ q.buffer = p.buffer /\ q.state = a /\ q.wps = b
             /\ q.hit_eof = p.hit_eof /\ q.writer = w
             /\ q.reader = p.reader /\ q.cap = p.cap
BY DEF PipeType, WithWriter

\* ReadPending is entered or left.
LEMMA ReaderUpdate ==
  ASSUME NEW p \in PipeType, NEW a \in PipeStates, NEW c \in Nat,
         NEW r \in Readers \cup {NoCaller}
  PROVE  LET q == WithReader(p, a, r, c)
         IN  /\ q \in PipeType
             /\ q.buffer = p.buffer /\ q.state = a /\ q.wps = p.wps
             /\ q.hit_eof = p.hit_eof /\ q.writer = p.writer
             /\ q.reader = r /\ q.cap = c
BY DEF PipeType, WithReader

\* CloseReader: end of file, no callback is left and no write is pending.
LEMMA CloseReaderFacts ==
  ASSUME NEW p \in PipeType
  PROVE  LET q == CloseReaderEnd(p)
         IN  /\ q \in PipeType
             /\ q.buffer = p.buffer /\ q.state = "Idle" /\ q.wps = <<>>
             /\ q.hit_eof = TRUE
<1> DEFINE q == CloseReaderEnd(p)
<1>1. q.buffer = p.buffer /\ q.state = "Idle" /\ q.wps = <<>> /\ q.hit_eof = TRUE
  BY DEF CloseReaderEnd, PipeType
<1>2. q \in PipeType
  <2>1. "Idle" \in PipeStates /\ <<>> \in Seq(Bytes)
    BY DEF PipeStates
  <2> QED
    BY <2>1 DEF CloseReaderEnd, PipeType
<1> QED
  BY <1>1, <1>2, Zenon

\* CloseWriter: end of file, and no reader is left waiting.
LEMMA CloseWriterFacts ==
  ASSUME NEW p \in PipeType
  PROVE  LET q == CloseWriterEnd(p)
         IN  /\ q \in PipeType
             /\ q.buffer = p.buffer /\ q.wps = p.wps /\ q.hit_eof = TRUE
             /\ q.state = IF p.state = "ReadPending" THEN "Idle" ELSE p.state
             /\ q.writer = p.writer
<1> DEFINE q == CloseWriterEnd(p)
<1>1. /\ q.buffer = p.buffer /\ q.wps = p.wps /\ q.hit_eof = TRUE
      /\ q.state = IF p.state = "ReadPending" THEN "Idle" ELSE p.state
      /\ q.writer = p.writer
  BY DEF CloseWriterEnd, PipeType
<1>2. q \in PipeType
  <2>1. (IF p.state = "ReadPending" THEN "Idle" ELSE p.state) \in PipeStates
    BY DEF PipeStates, PipeType
  <2> QED
    BY <2>1 DEF CloseWriterEnd, PipeType
<1> QED
  BY <1>1, <1>2, Zenon

-----------------------------------------------------------------------------
(***************************************************************************)
(* What the operations of TwibPipe do to a pipe.                           *)
(***************************************************************************)

\* ExitWritePendingState, when the callback does not write again.
LEMMA ExitFacts ==
  ASSUME NEW p \in PipeType
  PROVE  LET q == ExitWritePendingState(p, <<>>)
         IN  /\ q \in PipeType
             /\ q.buffer = p.buffer /\ q.state = "Idle" /\ q.wps = <<>>
             /\ q.hit_eof = p.hit_eof
<1> DEFINE q == ExitWritePendingState(p, <<>>)
<1>1. q = WithWriter(p, "Idle", <<>>, NoCaller)
  BY DEF ExitWritePendingState, WithWriter
<1>2. q \in PipeType
  <2>1. /\ "Idle" \in PipeStates /\ <<>> \in Seq(Bytes)
        /\ NoCaller \in Writers \cup {NoCaller}
    BY DEF PipeStates
  <2>2. WithWriter(p, "Idle", <<>>, NoCaller) \in PipeType
    BY <2>1, WriterUpdate, Zenon
  <2> QED
    BY <1>1, <2>2
<1>3. q.buffer = p.buffer /\ q.state = "Idle" /\ q.wps = <<>> /\ q.hit_eof = p.hit_eof
  BY <1>1 DEF WithWriter, PipeType
<1> QED
  BY <1>2, <1>3

\* FlushWritePendingState leaves WritePending exactly if the pending write
\* fits, and never touches the readable bytes or the closed flag.
LEMMA FlushFacts ==
  ASSUME NEW p, PipeOK(p), p.state = "WritePending"
  PROVE  LET q == FlushWritePendingState(p, <<>>)
         IN  /\ PipeOK(q)
             /\ q.state = IF FlushesAll(p) THEN "Idle" ELSE "WritePending"
             /\ q.buffer = p.buffer /\ q.hit_eof = p.hit_eof
             /\ q.state = "WritePending" => q.writer = p.writer
<1>1. p \in PipeType /\ Room(p) \in Nat /\ Len(p.wps) \in Nat
  BY LimitAssumption DEF PipeOK, PipeType, Room
<1>2. CASE FlushesAll(p)
  <2>1. FlushWritePendingState(p, <<>>) = ExitWritePendingState(p, <<>>)
    BY <1>2 DEF FlushWritePendingState
  <2> QED
    BY <1>1, <1>2, <2>1, ExitFacts DEF PipeOK
<1>3. CASE ~FlushesAll(p)
  <2>1. Drop(p.wps, Room(p)) \in Seq(Bytes)
    BY <1>1, <1>3, DropFacts DEF FlushesAll, PipeOK, PipeType
  <2>2. FlushWritePendingState(p, <<>>) = WithWps(p, Drop(p.wps, Room(p)))
    BY <1>3 DEF FlushWritePendingState, WithWps
  <2> QED
    BY <1>1, <1>3, <2>1, <2>2, WpsUpdate DEF PipeOK
<1> QED
  BY <1>2, <1>3

\* A read in Idle is answered with data, with end of file, or not at all; it
\* waits only if there is nothing to read and the pipe is open.
LEMMA ReadIdleFacts ==
  ASSUME NEW p, PipeOK(p), p.state = "Idle", NEW r \in Readers, NEW cap \in Nat
  PROVE  LET res == ReadIdle(p, r, cap)
         IN  /\ PipeOK(res.pipe) /\ res.got \in Seq(Bytes)
             /\ res.pipe.hit_eof = p.hit_eof
             /\ \/ /\ res.answer = "data" /\ p.buffer # <<>>
                   /\ res.pipe.state = "Idle"
                \/ /\ res.answer = "eof" /\ p.buffer = <<>> /\ p.hit_eof
                   /\ res.pipe = p /\ res.got = <<>>
                \/ /\ res.answer = "none" /\ p.buffer = <<>> /\ ~p.hit_eof
                   /\ res.pipe.state = "ReadPending" /\ res.pipe.reader = r
                   /\ res.pipe.buffer = <<>> /\ res.got = <<>>
<1> DEFINE k == Least(cap, Len(p.buffer))
<1>1. p \in PipeType /\ p.buffer \in Seq(Bytes) /\ p.hit_eof \in BOOLEAN
  BY DEF PipeOK, PipeType
<1>2. CASE p.buffer # <<>>
  <2>1. k \in 0..Len(p.buffer)
    <3>1. Len(p.buffer) \in Nat
      BY <1>1
    <3> QED
      BY <3>1, LeastFacts
  <2>2. /\ Take(p.buffer, k) \in Seq(Bytes) /\ Drop(p.buffer, k) \in Seq(Bytes)
        /\ Len(Drop(p.buffer, k)) <= Len(p.buffer)
    BY <1>1, <2>1, TakeFacts, DropFacts
  <2>3. ReadIdle(p, r, cap) = [pipe |-> WithBuffer(p, Drop(p.buffer, k)),
                               got |-> Take(p.buffer, k), answer |-> "data"]
    BY <1>2 DEF ReadIdle, WithBuffer
  <2>4. PipeOK(WithBuffer(p, Drop(p.buffer, k)))
    BY <1>1, <2>2, BufferUpdate, LimitAssumption DEF PipeOK
  <2> QED
    BY <1>1, <1>2, <2>2, <2>3, <2>4, BufferUpdate
<1>3. CASE p.buffer = <<>> /\ p.hit_eof
  <2>1. ReadIdle(p, r, cap) = [pipe |-> p, got |-> <<>>, answer |-> "eof"]
    BY <1>3 DEF ReadIdle
  <2>2. /\ ReadIdle(p, r, cap).pipe = p /\ ReadIdle(p, r, cap).got = <<>>
        /\ ReadIdle(p, r, cap).answer = "eof"
    BY <2>1
  <2>3. <<>> \in Seq(Bytes)
    OBVIOUS
  <2> QED
    BY <1>3, <2>2, <2>3, Zenon
<1>4. CASE p.buffer = <<>> /\ ~p.hit_eof
  <2>1. ReadIdle(p, r, cap) = [pipe |-> WithReader(p, "ReadPending", r, cap),
                               got |-> <<>>, answer |-> "none"]
    BY <1>4 DEF ReadIdle, WithReader
  <2>2. "ReadPending" \in PipeStates
    BY DEF PipeStates
  <2> QED
    BY <1>1, <1>4, <2>1, <2>2, ReaderUpdate DEF PipeOK
<1> QED
  BY <1>1, <1>2, <1>3, <1>4

\* The same for a read in WritePending that a first flush did not end: it is
\* answered with data, and the pending write stays or is done.
LEMMA ReadWritePendingFacts ==
  ASSUME NEW p, PipeOK(p), p.state = "WritePending", NEW cap \in Nat
  PROVE  LET res == ReadWritePending(p, cap, <<>>)
         IN  /\ PipeOK(res.pipe) /\ res.got \in Seq(Bytes)
             /\ res.pipe.hit_eof = p.hit_eof
             /\ res.answer = "data"
             /\ res.pipe.state \in {"Idle", "WritePending"}
             /\ res.pipe.state = "WritePending" => res.pipe.writer = p.writer
<1>1. /\ p \in PipeType /\ p.buffer \in Seq(Bytes) /\ p.wps \in Seq(Bytes)
      /\ Len(p.buffer) \in Nat /\ Len(p.wps) \in Nat
  BY DEF PipeOK, PipeType
<1>2. CASE p.buffer # <<>>
  <2> DEFINE k == Least(cap, Len(p.buffer))
             q == WithBuffer(p, Drop(p.buffer, k))
  <2>1. k \in 0..Len(p.buffer)
    BY <1>1, LeastFacts
  <2>2. /\ Take(p.buffer, k) \in Seq(Bytes) /\ Drop(p.buffer, k) \in Seq(Bytes)
        /\ Len(Drop(p.buffer, k)) <= Len(p.buffer)
    BY <1>1, <2>1, TakeFacts, DropFacts
  <2>3. ReadWritePending(p, cap, <<>>) =
          [pipe |-> FlushWritePendingState(q, <<>>), got |-> Take(p.buffer, k),
           answer |-> "data"]
    BY <1>2 DEF ReadWritePending, WithBuffer
  <2>4. /\ PipeOK(q) /\ q.state = "WritePending"
        /\ q.hit_eof = p.hit_eof /\ q.writer = p.writer
    <3>1. /\ q \in PipeType /\ q.buffer = Drop(p.buffer, k) /\ q.state = p.state
          /\ q.hit_eof = p.hit_eof /\ q.writer = p.writer
      BY <1>1, <2>2, BufferUpdate
    <3> QED
      BY <1>1, <2>2, <3>1, LimitAssumption DEF PipeOK
  <2> HIDE DEF q
  <2> QED
    BY <2>2, <2>3, <2>4, FlushFacts
<1>3. CASE p.buffer = <<>>
  <2> DEFINE k == Least(cap, Len(p.wps))
             q == WithWps(p, Drop(p.wps, k))
  <2>1. k \in 0..Len(p.wps)
    BY <1>1, LeastFacts
  <2>2. Take(p.wps, k) \in Seq(Bytes) /\ Drop(p.wps, k) \in Seq(Bytes)
    BY <1>1, <2>1, TakeFacts, DropFacts
  <2>3. ReadWritePending(p, cap, <<>>) =
          [pipe |-> FlushWritePendingState(q, <<>>), got |-> Take(p.wps, k),
           answer |-> "data"]
    BY <1>3 DEF ReadWritePending, WithWps
  <2>4. /\ PipeOK(q) /\ q.state = "WritePending"
        /\ q.hit_eof = p.hit_eof /\ q.writer = p.writer
    BY <1>1, <2>2, WpsUpdate DEF PipeOK
  <2> HIDE DEF q
  <2> QED
    BY <2>2, <2>3, <2>4, FlushFacts
<1> QED
  BY <1>2, <1>3

\* TwibPipe::Read: it waits only on an open pipe with nothing to read, tells
\* end of file only on a closed one, and a pending write stays its writer's.
LEMMA ReadPipeFacts ==
  ASSUME NEW p, PipeOK(p), p.state # "ReadPending", NEW r \in Readers, NEW cap \in Nat
  PROVE  LET res == ReadPipe(p, r, cap, <<>>)
         IN  /\ PipeOK(res.pipe) /\ res.got \in Seq(Bytes)
             /\ res.pipe.hit_eof = p.hit_eof
             /\ res.answer = "none" <=> res.pipe.state = "ReadPending"
             /\ res.answer = "none" => /\ res.pipe.reader = r /\ ~p.hit_eof
                                       /\ res.pipe.buffer = <<>>
             /\ res.answer = "eof" => /\ p.hit_eof /\ res.pipe.buffer = <<>>
                                      /\ res.pipe.state = "Idle" /\ res.got = <<>>
             /\ res.pipe.state = "WritePending" =>
                  p.state = "WritePending" /\ res.pipe.writer = p.writer
             /\ p.state = "Idle" /\ p.buffer = <<>> =>
                  /\ res.got = <<>> /\ res.pipe.buffer = <<>>
                  /\ p.hit_eof => res.pipe.state = "Idle"
<1>1. p.state \in {"Idle", "WritePending"}
  BY DEF PipeOK, PipeType, PipeStates
<1>2. CASE p.state = "Idle"
  BY <1>2, ReadIdleFacts DEF ReadPipe
<1>3. CASE p.state = "WritePending" /\ ~FlushesAll(p)
  <2>1. ReadPipe(p, r, cap, <<>>) =
          ReadWritePending(FlushWritePendingState(p, <<>>), cap, <<>>)
    BY <1>3 DEF ReadPipe
  <2> QED
    BY <1>3, <2>1, FlushFacts, ReadWritePendingFacts
<1>4. CASE p.state = "WritePending" /\ FlushesAll(p)
  <2>1. FlushWritePendingState(p, <<>>).state = "Idle"
    BY <1>4, FlushFacts
  <2>2. ReadPipe(p, r, cap, <<>>) = ReadIdle(FlushWritePendingState(p, <<>>), r, cap)
    BY <1>4, <2>1 DEF ReadPipe
  <2> QED
    BY <1>4, <2>1, <2>2, FlushFacts, ReadIdleFacts
<1> QED
  BY <1>1, <1>2, <1>3, <1>4

\* TwibPipe::Write: afterwards no reader waits, and if the write waits it is
\* the caller's.
LEMMA WritePipeFacts ==
  ASSUME NEW p, PipeOK(p), p.state # "WritePending", NEW w \in Writers,
         NEW data \in Seq(Bytes)
  PROVE  LET res == WritePipe(p, w, data)
         IN  /\ PipeOK(res.pipe) /\ res.got \in Seq(Bytes)
             /\ res.pipe.hit_eof = p.hit_eof
             /\ res.pipe.state \in {"Idle", "WritePending"}
             /\ res.pipe.state = "WritePending" => res.pipe.writer = w
<1>1. /\ p \in PipeType /\ p.buffer \in Seq(Bytes) /\ Len(p.buffer) \in Nat
      /\ p.cap \in Nat /\ Len(data) \in Nat /\ p.state \in {"Idle", "ReadPending"}
      /\ p.wps = <<>> /\ Len(p.buffer) <= Limit /\ Room(p) = Limit - Len(p.buffer)
  BY DEF PipeOK, PipeType, PipeStates, Room
<1>2. "WritePending" \in PipeStates /\ "Idle" \in PipeStates
  BY DEF PipeStates
<1>3. CASE p.state = "Idle" /\ Len(data) <= Room(p)
  <2> DEFINE q == WithBuffer(p, p.buffer \o data)
  <2>1. WritePipe(p, w, data) = [pipe |-> q, got |-> <<>>]
    BY <1>3 DEF WritePipe, WriteIdle, WithBuffer
  <2>2. p.buffer \o data \in Seq(Bytes) /\ Len(p.buffer \o data) <= Limit
    BY <1>1, <1>3, LimitAssumption
  <2>3. /\ q \in PipeType /\ q.buffer = p.buffer \o data /\ q.state = "Idle"
        /\ q.hit_eof = p.hit_eof /\ q.wps = <<>>
    BY <1>1, <1>3, <2>2, BufferUpdate
  <2> HIDE DEF q
  <2> QED
    BY <2>1, <2>2, <2>3 DEF PipeOK
<1>4. CASE p.state = "Idle" /\ ~(Len(data) <= Room(p))
  <2> DEFINE q == WithWriter(p, "WritePending", data, w)
  <2>1. WritePipe(p, w, data) = [pipe |-> q, got |-> <<>>]
    BY <1>4 DEF WritePipe, WriteIdle, WithWriter
  <2>2. /\ q \in PipeType /\ q.buffer = p.buffer /\ q.state = "WritePending"
        /\ q.hit_eof = p.hit_eof /\ q.writer = w
    BY <1>1, <1>2, WriterUpdate
  <2> HIDE DEF q
  <2> QED
    BY <1>1, <2>1, <2>2 DEF PipeOK
<1>5. CASE p.state = "ReadPending"
  <2> DEFINE k == Least(p.cap, Len(data))
             idle == WithReader(p, "Idle", NoCaller, 0)
             q == WithWriter(idle, "WritePending", Drop(data, k), w)
  <2>1. WritePipe(p, w, data) =
          [pipe |-> IF k < Len(data) THEN q ELSE idle, got |-> Take(data, k)]
    BY <1>5 DEF WritePipe, WithReader, WithWriter
  <2>2. k \in 0..Len(data)
    BY <1>1, LeastFacts
  <2>3. Take(data, k) \in Seq(Bytes) /\ Drop(data, k) \in Seq(Bytes)
    BY <2>2, TakeFacts, DropFacts
  <2>4. /\ idle \in PipeType /\ idle.buffer = p.buffer /\ idle.state = "Idle"
        /\ idle.hit_eof = p.hit_eof /\ idle.wps = <<>>
    BY <1>1, <1>2, ReaderUpdate
  <2> HIDE DEF idle
  <2>5. /\ q \in PipeType /\ q.buffer = p.buffer /\ q.state = "WritePending"
        /\ q.hit_eof = p.hit_eof /\ q.writer = w
    BY <1>2, <2>3, <2>4, WriterUpdate
  <2> HIDE DEF q, k
  <2> QED
    BY <1>1, <2>1, <2>3, <2>4, <2>5 DEF PipeOK
<1> QED
  BY <1>1, <1>3, <1>4, <1>5

-----------------------------------------------------------------------------
(***************************************************************************)
(* The inductive invariant.                                                *)
(***************************************************************************)

\* Once end of file was told there is nothing left to read and there never
\* will be, since a closed pipe takes no writes.
EofSettled ==
  told_eof => pipe.hit_eof /\ pipe.state = "Idle" /\ pipe.buffer = <<>>

IInv ==
  /\ TypeOK
  /\ PipeOK(pipe)
  /\ CallersAccounted
  /\ NoReaderLeftWaiting
  /\ EofSettled

\* A new pipe satisfies the invariant.
LEMMA InitIInv == Init => IInv
<1> SUFFICES ASSUME Init PROVE IInv
  OBVIOUS
<1>1. /\ pipe \in PipeType
      /\ pipe.buffer = <<>> /\ pipe.wps = <<>> /\ pipe.state = "Idle"
  BY DEF Init, NewPipe, PipeType, PipeStates
<1>2. PipeOK(pipe)
  BY <1>1, LimitAssumption DEF PipeOK
<1>3. TypeOK
  <2>1. written \in 0..MaxBytes /\ delivered \in Seq(Bytes)
    BY BoundsAssumption DEF Init
  <2> QED
    BY <1>2, <2>1 DEF Init, TypeOK, PipeOK
<1>4. CallersAccounted /\ NoReaderLeftWaiting /\ EofSettled
  BY <1>1 DEF Init, CallersAccounted, NoReaderLeftWaiting, EofSettled
<1> QED
  BY <1>2, <1>3, <1>4 DEF IInv

\* Read keeps the invariant, and gives nothing away after end of file.
LEMMA ReadStep ==
  ASSUME IInv, NEW r \in Readers, NEW cap \in Caps, Read(r, cap),
         pipe.state # "ReadPending"
  PROVE  IInv' /\ (told_eof => delivered' = delivered)
<1> DEFINE res == ReadPipe(pipe, r, cap, <<>>)
           done == pipe.state = "WritePending" /\ res.pipe.state # "WritePending"
<1>1. /\ pipe' = res.pipe
      /\ delivered' = delivered \o res.got
      /\ told_eof' = (told_eof \/ res.answer = "eof")
      /\ reading' = IF res.answer = "none" THEN reading \cup {r} ELSE reading
      /\ writing' = IF done THEN writing \ {pipe.writer} ELSE writing
      /\ acked' = IF done THEN acked \cup inflight ELSE acked
      /\ inflight' = IF done THEN {} ELSE inflight
      /\ UNCHANGED <<written, reader_closed, aborted>>
  BY DEF Read
<1>2. /\ PipeOK(res.pipe) /\ res.got \in Seq(Bytes)
      /\ res.pipe.hit_eof = pipe.hit_eof
      /\ res.answer = "none" <=> res.pipe.state = "ReadPending"
      /\ res.answer = "none" => /\ res.pipe.reader = r /\ ~pipe.hit_eof
                                /\ res.pipe.buffer = <<>>
      /\ res.answer = "eof" => /\ pipe.hit_eof /\ res.pipe.buffer = <<>>
                               /\ res.pipe.state = "Idle"
      /\ res.pipe.state = "WritePending" =>
           pipe.state = "WritePending" /\ res.pipe.writer = pipe.writer
      /\ pipe.state = "Idle" /\ pipe.buffer = <<>> =>
           /\ res.got = <<>> /\ res.pipe.buffer = <<>>
           /\ pipe.hit_eof => res.pipe.state = "Idle"
  BY ReadPipeFacts, CapsAssumption DEF IInv
<1> HIDE DEF res
<1>3. TypeOK'
  BY <1>1, <1>2 DEF IInv, TypeOK, PipeOK
<1>4. CallersAccounted'
  BY <1>1, <1>2 DEF IInv, CallersAccounted
<1>5. NoReaderLeftWaiting'
  BY <1>1, <1>2 DEF NoReaderLeftWaiting, PipeOK
<1>6. told_eof => delivered' = delivered
  BY <1>1, <1>2 DEF IInv, EofSettled, TypeOK
<1>7. EofSettled'
  BY <1>1, <1>2 DEF IInv, EofSettled
<1> QED
  BY <1>1, <1>2, <1>3, <1>4, <1>5, <1>6, <1>7 DEF IInv

\* Write keeps the invariant, and gives nothing away after end of file.
LEMMA WriteStep ==
  ASSUME IInv, NEW w \in Writers, NEW n \in 0..MaxChunk, Write(w, n),
         n > 0, ~pipe.hit_eof, pipe.state # "WritePending"
  PROVE  IInv' /\ (told_eof => delivered' = delivered)
<1> DEFINE data == [i \in 1..n |-> written + i]
           res == WritePipe(pipe, w, data)
           stuck == res.pipe.state = "WritePending"
<1>1. /\ pipe' = res.pipe
      /\ delivered' = delivered \o res.got
      /\ reading' = reading \ {pipe.reader}
      /\ writing' = IF stuck THEN writing \cup {w} ELSE writing
      /\ acked' = IF stuck THEN acked ELSE acked \cup Elements(data)
      /\ inflight' = IF stuck THEN Elements(data) ELSE inflight
      /\ written + n <= MaxBytes
      /\ written' = written + n
      /\ UNCHANGED <<told_eof, reader_closed, aborted>>
  <2>1. n # 0
    OBVIOUS
  <2> QED
    BY <2>1, Zenon DEF Write
<1>2. data \in Seq(Bytes) /\ Elements(data) \subseteq Bytes
  BY <1>1, BoundsAssumption DEF IInv, TypeOK, Bytes, Elements
<1> HIDE DEF data
<1>3. /\ PipeOK(res.pipe) /\ res.got \in Seq(Bytes)
      /\ res.pipe.hit_eof = pipe.hit_eof
      /\ res.pipe.state \in {"Idle", "WritePending"}
      /\ res.pipe.state = "WritePending" => res.pipe.writer = w
  BY <1>2, WritePipeFacts DEF IInv
<1> HIDE DEF res
<1>4. TypeOK'
  BY <1>1, <1>2, <1>3, BoundsAssumption DEF IInv, TypeOK, PipeOK
<1>5. CallersAccounted'
  BY <1>1, <1>3 DEF IInv, CallersAccounted
<1>6. NoReaderLeftWaiting' /\ ~told_eof /\ EofSettled'
  BY <1>1, <1>3 DEF IInv, NoReaderLeftWaiting, EofSettled
<1> QED
  BY <1>1, <1>3, <1>4, <1>5, <1>6 DEF IInv

\* Closing the reading end keeps the invariant.
LEMMA CloseReaderStep == IInv /\ CloseReader => IInv' /\ delivered' = delivered
<1> SUFFICES ASSUME IInv, CloseReader PROVE IInv' /\ delivered' = delivered
  OBVIOUS
<1>1. /\ pipe' \in PipeType
      /\ pipe'.buffer = pipe.buffer /\ pipe'.state = "Idle" /\ pipe'.wps = <<>>
      /\ pipe'.hit_eof = TRUE
  BY CloseReaderFacts DEF IInv, PipeOK, CloseReader
<1>2. PipeOK(pipe)'
  BY <1>1 DEF IInv, PipeOK
<1>3. TypeOK'
  BY <1>2 DEF IInv, TypeOK, CloseReader, PipeOK
<1>4. CallersAccounted' /\ NoReaderLeftWaiting' /\ EofSettled'
  BY <1>1 DEF IInv, CallersAccounted, NoReaderLeftWaiting, EofSettled, CloseReader
<1> QED
  BY <1>2, <1>3, <1>4 DEF IInv, CloseReader

\* Closing the writing end keeps the invariant.
LEMMA CloseWriterStep == IInv /\ CloseWriter => IInv' /\ delivered' = delivered
<1> SUFFICES ASSUME IInv, CloseWriter PROVE IInv' /\ delivered' = delivered
  OBVIOUS
<1>1. /\ pipe' \in PipeType
      /\ pipe'.buffer = pipe.buffer /\ pipe'.wps = pipe.wps /\ pipe'.hit_eof = TRUE
      /\ pipe'.state = IF pipe.state = "ReadPending" THEN "Idle" ELSE pipe.state
      /\ pipe'.writer = pipe.writer
  BY CloseWriterFacts DEF IInv, PipeOK, CloseWriter
<1>2. PipeOK(pipe)'
  BY <1>1 DEF IInv, PipeOK
<1>3. TypeOK'
  BY <1>2 DEF IInv, TypeOK, CloseWriter, PipeOK
<1>4. CallersAccounted' /\ NoReaderLeftWaiting' /\ EofSettled'
  BY <1>1 DEF IInv, CallersAccounted, NoReaderLeftWaiting, EofSettled, CloseWriter
<1> QED
  BY <1>2, <1>3, <1>4 DEF IInv, CloseWriter

\* A step that leaves everything but `aborted' alone keeps the invariant.
LEMMA AbortStep ==
  IInv /\ (Abort \/ UNCHANGED vars) => IInv' /\ delivered' = delivered
<1> SUFFICES ASSUME IInv, Abort \/ UNCHANGED vars PROVE IInv' /\ delivered' = delivered
  OBVIOUS
<1>1. UNCHANGED <<pipe, written, inflight, acked, delivered, told_eof, reading,
                  writing, reader_closed>>
  BY DEF Abort, vars
<1>2. aborted' \in BOOLEAN
  BY DEF Abort, vars, IInv, TypeOK
<1>3. TypeOK'
  BY <1>1, <1>2 DEF IInv, TypeOK
<1>4. PipeOK(pipe)' /\ CallersAccounted' /\ NoReaderLeftWaiting' /\ EofSettled'
  BY <1>1 DEF IInv, PipeOK, CallersAccounted, NoReaderLeftWaiting, EofSettled
<1> QED
  BY <1>1, <1>3, <1>4 DEF IInv

\* Every step keeps the invariant, and delivers nothing after end of file.
LEMMA NextIInv == IInv /\ [Next]_vars => IInv' /\ (told_eof => delivered' = delivered)
<1> SUFFICES ASSUME IInv, [Next]_vars
             PROVE  IInv' /\ (told_eof => delivered' = delivered)
  OBVIOUS
<1>1. ASSUME NEW r \in Readers, NEW cap \in Caps, Read(r, cap)
      PROVE  IInv' /\ (told_eof => delivered' = delivered)
  <2>1. CASE pipe.state = "ReadPending"
    BY <1>1, <2>1, AbortStep DEF Read
  <2>2. CASE pipe.state # "ReadPending"
    BY <1>1, <2>2, ReadStep
  <2> QED
    BY <2>1, <2>2
<1>2. ASSUME NEW w \in Writers, NEW n \in 0..MaxChunk, Write(w, n)
      PROVE  IInv' /\ (told_eof => delivered' = delivered)
  <2>1. CASE n > 0 /\ ~pipe.hit_eof /\ pipe.state # "WritePending"
    BY <1>2, <2>1, WriteStep
  <2>2. CASE ~(n > 0 /\ ~pipe.hit_eof /\ pipe.state # "WritePending")
    BY <1>2, <2>2, AbortStep DEF Write
  <2> QED
    BY <2>1, <2>2
<1> QED
  BY <1>1, <1>2, CloseReaderStep, CloseWriterStep, AbortStep DEF Next

-----------------------------------------------------------------------------
(***************************************************************************)
(* The theorems.                                                           *)
(***************************************************************************)

\* The invariant holds throughout.
THEOREM Invariance == Spec => []IInv
BY InitIInv, NextIInv, PTL DEF Spec

\* The pipe object and the ghost state of its callers keep their types, and
\* the buffer never grows past pipe_buffer_size_limit (TwibPipe::Write and
\* FlushWritePendingState go through Buffer's limit).
THEOREM TypeCorrect == Spec => []TypeOK
<1>1. IInv => TypeOK
  BY DEF IInv
<1> QED
  BY <1>1, Invariance, PTL

\* Whatever calls Read, Write, CloseReader and CloseWriter receive, a caller
\* waits exactly while the pipe's state holds its callback: none is forgotten
\* and none runs twice.
THEOREM CallbacksAccounted == Spec => []CallersAccounted
<1>1. IInv => CallersAccounted
  BY DEF IInv
<1> QED
  BY <1>1, Invariance, PTL

\* No lost wakeup: a reader whose callback the pipe holds has nothing to be
\* told, neither data nor end of file.
THEOREM NoLostWakeup == Spec => []NoReaderLeftWaiting
<1>1. IInv => NoReaderLeftWaiting
  BY DEF IInv
<1> QED
  BY <1>1, Invariance, PTL

\* End of file is final: no read callback is given a byte after one was told
\* end of file.
THEOREM EofIsFinal == Spec => NothingAfterEof
<1>1. IInv /\ [Next]_vars => [told_eof => delivered' = delivered]_vars
  BY NextIInv
<1> QED
  BY <1>1, Invariance, PTL DEF Spec, NothingAfterEof
-----------------------------------------------------------------------------
(***************************************************************************)
(* The order of the bytes.  InOrder speaks of a concatenation; here the    *)
(* three parts are kept apart: each is increasing, and each is below the   *)
(* ones behind it.                                                         *)
(***************************************************************************)

Below(s, t) == \A i \in 1..Len(s), j \in 1..Len(t) : s[i] < t[j]
UpTo(s, n) == \A i \in 1..Len(s) : s[i] <= n
InLine(d, b, w, n) ==
  /\ Increasing(d) /\ Increasing(b) /\ Increasing(w)
  /\ Below(d, b) /\ Below(d, w) /\ Below(b, w)
  /\ UpTo(d, n) /\ UpTo(b, n) /\ UpTo(w, n)

\* Where the elements of a concatenation come from.
LEMMA ConcatFacts ==
  ASSUME NEW s \in Seq(Nat), NEW t \in Seq(Nat)
  PROVE  /\ s \o t \in Seq(Nat) /\ Len(s \o t) = Len(s) + Len(t)
         /\ \A i \in 1..Len(s) : (s \o t)[i] = s[i]
         /\ \A i \in 1..Len(t) : (s \o t)[Len(s) + i] = t[i]
         /\ \A i \in 1..Len(s \o t) :
              \/ i \in 1..Len(s) /\ (s \o t)[i] = s[i]
              \/ i - Len(s) \in 1..Len(t) /\ (s \o t)[i] = t[i - Len(s)]
OBVIOUS

\* A concatenation is increasing if its parts are, the second above the first.
LEMMA ConcatIncreasing ==
  ASSUME NEW s \in Seq(Nat), NEW t \in Seq(Nat)
  PROVE  Increasing(s \o t) <=> Increasing(s) /\ Increasing(t) /\ Below(s, t)
<1> DEFINE st == s \o t
<1>1. /\ st \in Seq(Nat) /\ Len(st) = Len(s) + Len(t)
      /\ \A i \in 1..Len(s) : st[i] = s[i]
      /\ \A i \in 1..Len(t) : st[Len(s) + i] = t[i]
      /\ \A i \in 1..Len(st) : \/ i \in 1..Len(s) /\ st[i] = s[i]
                               \/ i - Len(s) \in 1..Len(t) /\ st[i] = t[i - Len(s)]
  BY ConcatFacts
<1> HIDE DEF st
<1>2. Len(s) \in Nat /\ Len(t) \in Nat /\ Len(st) = Len(s) + Len(t)
  BY <1>1
<1>3. ASSUME Increasing(st) PROVE Increasing(s) /\ Increasing(t) /\ Below(s, t)
  <2>1. Increasing(s)
    BY <1>1, <1>2, <1>3 DEF Increasing
  <2>2. ASSUME NEW i \in 1..Len(t), NEW j \in 1..Len(t), i < j PROVE t[i] < t[j]
    <3>1. /\ Len(s) + i \in 1..Len(st) /\ Len(s) + j \in 1..Len(st)
          /\ Len(s) + i < Len(s) + j
      BY <1>2, <2>2
    <3> QED
      BY <1>1, <1>3, <3>1 DEF Increasing
  <2>3. ASSUME NEW i \in 1..Len(s), NEW j \in 1..Len(t) PROVE s[i] < t[j]
    <3>1. i \in 1..Len(st) /\ Len(s) + j \in 1..Len(st) /\ i < Len(s) + j
      BY <1>2
    <3> QED
      BY <1>1, <1>3, <3>1 DEF Increasing
  <2> QED
    BY <2>1, <2>2, <2>3 DEF Increasing, Below
<1>4. ASSUME Increasing(s), Increasing(t), Below(s, t) PROVE Increasing(st)
  <2>1. ASSUME NEW i \in 1..Len(st), NEW j \in 1..Len(st), i < j PROVE st[i] < st[j]
    <3>1. CASE i \in 1..Len(s) /\ st[i] = s[i] /\ j \in 1..Len(s) /\ st[j] = s[j]
      BY <1>4, <2>1, <3>1 DEF Increasing
    <3>2. CASE /\ i \in 1..Len(s) /\ st[i] = s[i]
               /\ j - Len(s) \in 1..Len(t) /\ st[j] = t[j - Len(s)]
      BY <1>4, <3>2 DEF Below
    <3>3. CASE /\ i - Len(s) \in 1..Len(t) /\ st[i] = t[i - Len(s)]
               /\ j - Len(s) \in 1..Len(t) /\ st[j] = t[j - Len(s)]
      <4>1. i - Len(s) < j - Len(s)
        BY <1>2, <2>1
      <4> QED
        BY <1>4, <3>3, <4>1 DEF Increasing
    <3>4. ~(i - Len(s) \in 1..Len(t) /\ j \in 1..Len(s))
      BY <1>2, <2>1
    <3> QED
      BY <1>1, <3>1, <3>2, <3>3, <3>4
  <2> QED
    BY <2>1 DEF Increasing
<1> QED
  BY <1>3, <1>4 DEF st

\* A concatenation is above, below and bounded as its parts are.
LEMMA ConcatBelow ==
  ASSUME NEW s \in Seq(Nat), NEW t \in Seq(Nat), NEW u \in Seq(Nat), NEW n \in Nat
  PROVE  /\ Below(s \o t, u) <=> Below(s, u) /\ Below(t, u)
         /\ Below(u, s \o t) <=> Below(u, s) /\ Below(u, t)
         /\ UpTo(s \o t, n) <=> UpTo(s, n) /\ UpTo(t, n)
<1> DEFINE st == s \o t
<1>1. /\ st \in Seq(Nat) /\ Len(st) = Len(s) + Len(t)
      /\ \A i \in 1..Len(s) : st[i] = s[i]
      /\ \A i \in 1..Len(t) : st[Len(s) + i] = t[i]
      /\ \A i \in 1..Len(st) : \/ i \in 1..Len(s) /\ st[i] = s[i]
                               \/ i - Len(s) \in 1..Len(t) /\ st[i] = t[i - Len(s)]
  BY ConcatFacts
<1>2. Len(s) \in Nat /\ Len(t) \in Nat
  OBVIOUS
<1>3. /\ \A i \in 1..Len(s) : i \in 1..Len(st)
      /\ \A i \in 1..Len(t) : Len(s) + i \in 1..Len(st)
  BY <1>1, <1>2
<1> HIDE DEF st
<1>4. Below(st, u) <=> Below(s, u) /\ Below(t, u)
  BY <1>1, <1>3 DEF Below
<1>5. Below(u, st) <=> Below(u, s) /\ Below(u, t)
  BY <1>1, <1>3 DEF Below
<1>6. UpTo(st, n) <=> UpTo(s, n) /\ UpTo(t, n)
  BY <1>1, <1>3 DEF UpTo
<1> QED
  BY <1>4, <1>5, <1>6 DEF st

\* The two parts a sequence is cut into: they make it up again, and what holds
\* of all its elements holds of theirs.
LEMMA CutFacts ==
  ASSUME NEW S, NEW s \in Seq(S), NEW k \in 0..Len(s)
  PROVE  Take(s, k) \o Drop(s, k) = s
<1>1. /\ Take(s, k) \in Seq(S) /\ Len(Take(s, k)) = k
      /\ \A i \in 1..k : Take(s, k)[i] = s[i]
  BY TakeFacts
<1>2. /\ Drop(s, k) \in Seq(S) /\ Len(Drop(s, k)) = Len(s) - k
      /\ \A i \in 1..(Len(s) - k) : Drop(s, k)[i] = s[k + i]
  BY DropFacts
<1> DEFINE a == Take(s, k)
           b == Drop(s, k)
<1> HIDE DEF a, b
<1>3. a \o b \in Seq(S) /\ Len(a \o b) = Len(s)
  BY <1>1, <1>2 DEF a, b
<1>4. ASSUME NEW i \in 1..Len(s) PROVE (a \o b)[i] = s[i]
  <2>1. CASE i <= k
    BY <1>1, <1>2, <2>1 DEF a, b
  <2>2. CASE ~(i <= k)
    <3>1. i - k \in 1..(Len(s) - k)
      BY <2>2
    <3>2. (a \o b)[i] = b[i - k]
      BY <1>1, <1>2, <2>2 DEF a, b
    <3> QED
      BY <1>2, <3>1, <3>2 DEF b
  <2> QED
    BY <2>1, <2>2
<1>5. a \o b = s
  BY <1>3, <1>4, SeqEqual
<1> QED
  BY <1>5 DEF a, b

\* An increasing sequence cut in two.
LEMMA CutInLine ==
  ASSUME NEW s \in Seq(Nat), NEW k \in 0..Len(s), NEW u \in Seq(Nat), NEW n \in Nat
  PROVE  /\ Take(s, k) \in Seq(Nat) /\ Drop(s, k) \in Seq(Nat)
         /\ Increasing(s) => /\ Increasing(Take(s, k)) /\ Increasing(Drop(s, k))
                             /\ Below(Take(s, k), Drop(s, k))
         /\ Below(s, u) => Below(Take(s, k), u) /\ Below(Drop(s, k), u)
         /\ Below(u, s) => Below(u, Take(s, k)) /\ Below(u, Drop(s, k))
         /\ UpTo(s, n) => UpTo(Take(s, k), n) /\ UpTo(Drop(s, k), n)
<1> DEFINE a == Take(s, k)
           b == Drop(s, k)
<1>1. a \in Seq(Nat) /\ b \in Seq(Nat)
  BY TakeFacts, DropFacts
<1>2. a \o b = s
  BY CutFacts
<1> HIDE DEF a, b
<1>3. Increasing(s) => Increasing(a) /\ Increasing(b) /\ Below(a, b)
  BY <1>1, <1>2, ConcatIncreasing
<1>4. /\ Below(s, u) => Below(a, u) /\ Below(b, u)
      /\ Below(u, s) => Below(u, a) /\ Below(u, b)
      /\ UpTo(s, n) => UpTo(a, n) /\ UpTo(b, n)
  BY <1>1, <1>2, ConcatBelow
<1> QED
  BY <1>1, <1>3, <1>4 DEF a, b

\* The parts are in line exactly if the whole is in order.
LEMMA InLineMeans ==
  ASSUME NEW d \in Seq(Nat), NEW b \in Seq(Nat), NEW w \in Seq(Nat), NEW n \in Nat
  PROVE  InLine(d, b, w, n) <=>
           Increasing(d \o b \o w) /\ \A x \in Elements(d \o b \o w) : x <= n
<1> DEFINE db == d \o b
<1>1. db \in Seq(Nat)
  BY ConcatFacts
<1>2. /\ Increasing(db) <=> Increasing(d) /\ Increasing(b) /\ Below(d, b)
      /\ Below(db, w) <=> Below(d, w) /\ Below(b, w)
      /\ UpTo(db, n) <=> UpTo(d, n) /\ UpTo(b, n)
  BY ConcatIncreasing, ConcatBelow
<1> HIDE DEF db
<1>3. /\ Increasing(db \o w) <=> Increasing(db) /\ Increasing(w) /\ Below(db, w)
      /\ UpTo(db \o w, n) <=> UpTo(db, n) /\ UpTo(w, n)
  BY <1>1, ConcatIncreasing, ConcatBelow
<1>4. UpTo(db \o w, n) <=> \A x \in Elements(db \o w) : x <= n
  BY DEF UpTo, Elements
<1>5. InLine(d, b, w, n) <=>
        Increasing(db \o w) /\ \A x \in Elements(db \o w) : x <= n
  BY <1>2, <1>3, <1>4, Zenon DEF InLine
<1> QED
  BY <1>5 DEF db

-----------------------------------------------------------------------------
(***************************************************************************)
(* What the operations of TwibPipe do to the bytes.  Flushing drops bytes  *)
(* from the front of a pending write, so they stay in order but not all    *)
(* arrive; without a buffer nothing is dropped.                            *)
(***************************************************************************)

\* Bytes are numbers.
LEMMA BytesAreNumbers ==
  ASSUME NEW s \in Seq(Bytes)
  PROVE  s \in Seq(Nat)
BY BoundsAssumption DEF Bytes

\* The empty sequence is in line with everything.
LEMMA EmptyInLine ==
  ASSUME NEW s, NEW n
  PROVE  /\ <<>> \in Seq(Nat) /\ Len(<<>>) = 0
         /\ Increasing(<<>>) /\ UpTo(<<>>, n) /\ Below(s, <<>>) /\ Below(<<>>, s)
BY DEF Increasing, UpTo, Below

\* Bytes read from the buffer.
LEMMA BufferRead ==
  ASSUME NEW d \in Seq(Nat), NEW b \in Seq(Nat), NEW w \in Seq(Nat), NEW n \in Nat,
         InLine(d, b, w, n), NEW k \in 0..Len(b)
  PROVE  InLine(d \o Take(b, k), Drop(b, k), w, n)
<1> DEFINE t == Take(b, k)
           r == Drop(b, k)
<1>1. /\ t \in Seq(Nat) /\ r \in Seq(Nat)
      /\ Increasing(t) /\ Increasing(r) /\ Below(t, r)
      /\ Below(d, t) /\ Below(d, r) /\ Below(t, w) /\ Below(r, w)
      /\ UpTo(t, n) /\ UpTo(r, n)
  BY CutInLine DEF InLine
<1> HIDE DEF t, r
<1>2. Increasing(d \o t) /\ Below(d \o t, r) /\ Below(d \o t, w) /\ UpTo(d \o t, n)
  BY <1>1, ConcatIncreasing, ConcatBelow DEF InLine
<1>3. InLine(d \o t, r, w, n)
  BY <1>1, <1>2 DEF InLine
<1> QED
  BY <1>3 DEF t, r

\* Bytes read from a pending write, the buffer being empty.
LEMMA PendingRead ==
  ASSUME NEW d \in Seq(Nat), NEW w \in Seq(Nat), NEW n \in Nat,
         InLine(d, <<>>, w, n), NEW k \in 0..Len(w)
  PROVE  InLine(d \o Take(w, k), <<>>, Drop(w, k), n)
<1> DEFINE t == Take(w, k)
           r == Drop(w, k)
<1>1. /\ t \in Seq(Nat) /\ r \in Seq(Nat)
      /\ Increasing(t) /\ Increasing(r) /\ Below(t, r)
      /\ Below(d, t) /\ Below(d, r) /\ UpTo(t, n) /\ UpTo(r, n)
  BY CutInLine DEF InLine
<1> HIDE DEF t, r
<1>2. Increasing(d \o t) /\ Below(d \o t, r) /\ UpTo(d \o t, n)
  BY <1>1, ConcatIncreasing, ConcatBelow DEF InLine
<1>3. InLine(d \o t, <<>>, r, n)
  BY <1>1, <1>2, EmptyInLine DEF InLine
<1> QED
  BY <1>3 DEF t, r

\* Bytes dropped from the front of a pending write.
LEMMA PendingDropped ==
  ASSUME NEW d \in Seq(Nat), NEW b \in Seq(Nat), NEW w \in Seq(Nat), NEW n \in Nat,
         InLine(d, b, w, n), NEW k \in 0..Len(w)
  PROVE  InLine(d, b, Drop(w, k), n) /\ InLine(d, b, <<>>, n)
<1> DEFINE r == Drop(w, k)
<1>1. Increasing(r) /\ Below(d, r) /\ Below(b, r) /\ UpTo(r, n)
  BY CutInLine DEF InLine
<1> HIDE DEF r
<1>2. InLine(d, b, r, n) /\ InLine(d, b, <<>>, n)
  BY <1>1, EmptyInLine DEF InLine
<1> QED
  BY <1>2 DEF r

\* FlushWritePendingState keeps the order, and without a buffer the bytes.
LEMMA FlushBytes ==
  ASSUME NEW p, PipeOK(p), p.state = "WritePending",
         NEW d \in Seq(Nat), NEW n \in Nat, InLine(d, p.buffer, p.wps, n)
  PROVE  LET q == FlushWritePendingState(p, <<>>)
         IN  /\ InLine(d, q.buffer, q.wps, n)
             /\ Limit = 0 => q.wps = p.wps
<1>1. /\ p \in PipeType /\ Room(p) \in Nat /\ Len(p.wps) \in Nat
      /\ p.buffer \in Seq(Bytes) /\ p.wps \in Seq(Bytes)
      /\ Limit = 0 => Room(p) = 0
  BY LimitAssumption DEF PipeOK, PipeType, Room
<1>2. p.buffer \in Seq(Nat) /\ p.wps \in Seq(Nat)
  BY <1>1, BytesAreNumbers
<1>3. CASE FlushesAll(p)
  <2>1. /\ FlushWritePendingState(p, <<>>).buffer = p.buffer
        /\ FlushWritePendingState(p, <<>>).wps = <<>>
    BY <1>1, <1>3, ExitFacts DEF FlushWritePendingState
  <2>2. Limit = 0 => p.wps = <<>>
    BY <1>1, <1>3 DEF FlushesAll
  <2>3. InLine(d, p.buffer, <<>>, n)
    BY <1>1, <1>2, PendingDropped
  <2> QED
    BY <2>1, <2>2, <2>3
<1>4. CASE ~FlushesAll(p)
  <2> DEFINE r == Drop(p.wps, Room(p))
  <2>1. Room(p) \in 0..Len(p.wps)
    BY <1>1, <1>4 DEF FlushesAll
  <2>2. r \in Seq(Bytes) /\ InLine(d, p.buffer, r, n)
    BY <1>1, <1>2, <2>1, DropFacts, PendingDropped
  <2>3. Limit = 0 => r = p.wps
    BY <1>1, SubSeqFull DEF Drop
  <2> HIDE DEF r
  <2>4. FlushWritePendingState(p, <<>>) = WithWps(p, r)
    BY <1>4 DEF FlushWritePendingState, WithWps, r
  <2>5. WithWps(p, r).buffer = p.buffer /\ WithWps(p, r).wps = r
    BY <1>1, <2>2, WpsUpdate
  <2> QED
    BY <2>2, <2>3, <2>4, <2>5
<1> QED
  BY <1>3, <1>4

\* Without a limit to fill, the buffer is empty.
LEMMA Unbuffered ==
  ASSUME NEW p, PipeOK(p), Limit = 0
  PROVE  p.buffer = <<>>
BY DEF PipeOK, PipeType

\* A read in Idle.
LEMMA ReadIdleBytes ==
  ASSUME NEW p, PipeOK(p), p.state = "Idle", NEW r \in Readers, NEW cap \in Nat,
         NEW d \in Seq(Nat), NEW n \in Nat, InLine(d, p.buffer, p.wps, n)
  PROVE  LET res == ReadIdle(p, r, cap)
         IN  /\ InLine(d \o res.got, res.pipe.buffer, res.pipe.wps, n)
             /\ Limit = 0 => res.got \o res.pipe.wps = p.wps
<1>1. /\ p \in PipeType /\ p.buffer \in Seq(Bytes) /\ p.wps = <<>>
      /\ p.buffer \in Seq(Nat) /\ Len(p.buffer) \in Nat
  BY BytesAreNumbers DEF PipeOK, PipeType
<1>2. CASE p.buffer # <<>>
  <2> DEFINE k == Least(cap, Len(p.buffer))
             t == Take(p.buffer, k)
             b == Drop(p.buffer, k)
  <2>1. k \in 0..Len(p.buffer)
    BY <1>1, LeastFacts
  <2>2. b \in Seq(Bytes) /\ InLine(d \o t, b, p.wps, n)
    <3>1. <<>> \in Seq(Nat)
      OBVIOUS
    <3> HIDE DEF k
    <3>2. b \in Seq(Bytes)
      BY <1>1, <2>1, DropFacts
    <3>3. InLine(d \o t, b, p.wps, n)
      BY <1>1, <2>1, <3>1, BufferRead
    <3> QED
      BY <3>2, <3>3
  <2>3. ReadIdle(p, r, cap) = [pipe |-> WithBuffer(p, b), got |-> t, answer |-> "data"]
    BY <1>2 DEF ReadIdle, WithBuffer
  <2> HIDE DEF b, t
  <2>4. WithBuffer(p, b).buffer = b /\ WithBuffer(p, b).wps = p.wps
    BY <1>1, <2>2, BufferUpdate
  <2>5. Limit # 0
    BY <1>2, Unbuffered
  <2> QED
    BY <2>2, <2>3, <2>4, <2>5
<1>3. CASE p.buffer = <<>>
  <2>1. LET res == ReadIdle(p, r, cap)
        IN  /\ res.got = <<>> /\ res.pipe.buffer = p.buffer /\ res.pipe.wps = p.wps
    <3>1. CASE p.hit_eof
      BY <1>3, <3>1 DEF ReadIdle
    <3>2. CASE ~p.hit_eof
      <4>1. ReadIdle(p, r, cap).pipe = WithReader(p, "ReadPending", r, cap)
        BY <1>3, <3>2 DEF ReadIdle, WithReader
      <4>2. /\ ReadIdle(p, r, cap).pipe.buffer = p.buffer
            /\ ReadIdle(p, r, cap).pipe.wps = p.wps
        <5>1. /\ WithReader(p, "ReadPending", r, cap).buffer = p.buffer
              /\ WithReader(p, "ReadPending", r, cap).wps = p.wps
          BY <1>1 DEF WithReader, PipeType
        <5> QED
          BY <4>1, <5>1
      <4>3. ReadIdle(p, r, cap).got = <<>>
        BY <1>3, <3>2 DEF ReadIdle
      <4> QED
        BY <4>2, <4>3
    <3> QED
      BY <3>1, <3>2
  <2>2. d \o <<>> = d /\ <<>> \o p.wps = p.wps
    BY <1>1, ConcatEmptySeq
  <2> QED
    BY <2>1, <2>2
<1> QED
  BY <1>2, <1>3

\* A read in WritePending that a first flush did not end.
LEMMA ReadWritePendingBytes ==
  ASSUME NEW p, PipeOK(p), p.state = "WritePending", NEW cap \in Nat,
         NEW d \in Seq(Nat), NEW n \in Nat, InLine(d, p.buffer, p.wps, n)
  PROVE  LET res == ReadWritePending(p, cap, <<>>)
         IN  /\ InLine(d \o res.got, res.pipe.buffer, res.pipe.wps, n)
             /\ Limit = 0 => res.got \o res.pipe.wps = p.wps
<1>1. /\ p \in PipeType /\ p.buffer \in Seq(Bytes) /\ p.wps \in Seq(Bytes)
      /\ p.buffer \in Seq(Nat) /\ p.wps \in Seq(Nat)
      /\ Len(p.buffer) \in Nat /\ Len(p.wps) \in Nat
  BY BytesAreNumbers DEF PipeOK, PipeType
<1>2. CASE p.buffer # <<>>
  <2> DEFINE k == Least(cap, Len(p.buffer))
             t == Take(p.buffer, k)
             b == Drop(p.buffer, k)
             q == WithBuffer(p, b)
  <2>1. k \in 0..Len(p.buffer)
    BY <1>1, LeastFacts
  <2>2. /\ t \in Seq(Nat) /\ b \in Seq(Bytes) /\ Len(b) <= Len(p.buffer)
        /\ InLine(d \o t, b, p.wps, n)
    <3> HIDE DEF k
    <3>1. t \in Seq(Nat)
      BY <1>1, <2>1, TakeFacts
    <3>2. b \in Seq(Bytes) /\ Len(b) <= Len(p.buffer)
      BY <1>1, <2>1, DropFacts
    <3>3. InLine(d \o t, b, p.wps, n)
      BY <1>1, <2>1, BufferRead
    <3> QED
      BY <3>1, <3>2, <3>3
  <2>3. ReadWritePending(p, cap, <<>>) =
          [pipe |-> FlushWritePendingState(q, <<>>), got |-> t, answer |-> "data"]
    BY <1>2 DEF ReadWritePending, WithBuffer
  <2> HIDE DEF t, b
  <2>4. /\ q \in PipeType /\ q.buffer = b /\ q.state = "WritePending" /\ q.wps = p.wps
    BY <1>1, <2>2, BufferUpdate
  <2>5. PipeOK(q)
    BY <1>1, <2>2, <2>4, LimitAssumption DEF PipeOK
  <2>6. Limit # 0
    BY <1>2, Unbuffered
  <2> HIDE DEF q
  <2>7. d \o t \in Seq(Nat)
    BY <2>2
  <2> QED
    <3> DEFINE f == FlushWritePendingState(q, <<>>)
               res == ReadWritePending(p, cap, <<>>)
    <3>1. InLine(d \o t, f.buffer, f.wps, n)
      BY <2>2, <2>4, <2>5, <2>7, FlushBytes
    <3>2. res.pipe = f /\ res.got = t
      BY <2>3
    <3> QED
      BY <2>6, <3>1, <3>2, Zenon
<1>3. CASE p.buffer = <<>>
  <2> DEFINE k == Least(cap, Len(p.wps))
             t == Take(p.wps, k)
             w == Drop(p.wps, k)
             q == WithWps(p, w)
  <2>1. k \in 0..Len(p.wps)
    BY <1>1, LeastFacts
  <2>2. /\ t \in Seq(Nat) /\ w \in Seq(Bytes) /\ t \o w = p.wps
        /\ InLine(d \o t, <<>>, w, n)
    <3> HIDE DEF k
    <3>1. t \in Seq(Nat)
      BY <1>1, <2>1, TakeFacts
    <3>2. w \in Seq(Bytes) /\ t \o w = p.wps
      BY <1>1, <2>1, DropFacts, CutFacts
    <3>3. InLine(d \o t, <<>>, w, n)
      BY <1>1, <1>3, <2>1, PendingRead
    <3> QED
      BY <3>1, <3>2, <3>3
  <2>3. ReadWritePending(p, cap, <<>>) =
          [pipe |-> FlushWritePendingState(q, <<>>), got |-> t, answer |-> "data"]
    BY <1>3 DEF ReadWritePending, WithWps
  <2> HIDE DEF t, w
  <2>4. /\ PipeOK(q) /\ q.buffer = <<>> /\ q.state = "WritePending" /\ q.wps = w
    BY <1>1, <1>3, <2>2, WpsUpdate DEF PipeOK
  <2> HIDE DEF q
  <2>5. d \o t \in Seq(Nat)
    BY <2>2
  <2>6. LET f == FlushWritePendingState(q, <<>>)
        IN  InLine(d \o t, f.buffer, f.wps, n) /\ (Limit = 0 => f.wps = w)
    BY <2>2, <2>4, <2>5, FlushBytes
  <2>7. /\ ReadWritePending(p, cap, <<>>).pipe = FlushWritePendingState(q, <<>>)
        /\ ReadWritePending(p, cap, <<>>).got = t
    BY <2>3
  <2> QED
    BY <2>2, <2>6, <2>7, Zenon
<1> QED
  BY <1>2, <1>3

\* TwibPipe::Read keeps the order, and without a buffer it loses nothing.
LEMMA ReadPipeBytes ==
  ASSUME NEW p, PipeOK(p), p.state # "ReadPending", NEW r \in Readers, NEW cap \in Nat,
         NEW d \in Seq(Nat), NEW n \in Nat, InLine(d, p.buffer, p.wps, n)
  PROVE  LET res == ReadPipe(p, r, cap, <<>>)
         IN  /\ InLine(d \o res.got, res.pipe.buffer, res.pipe.wps, n)
             /\ Limit = 0 => res.got \o res.pipe.wps = p.wps
<1>1. p.state \in {"Idle", "WritePending"}
  BY DEF PipeOK, PipeType, PipeStates
<1>2. CASE p.state = "Idle"
  BY <1>2, ReadIdleBytes DEF ReadPipe
<1>3. CASE p.state = "WritePending"
  <2> DEFINE q == FlushWritePendingState(p, <<>>)
  <2>1. /\ PipeOK(q) /\ q.state = IF FlushesAll(p) THEN "Idle" ELSE "WritePending"
        /\ InLine(d, q.buffer, q.wps, n) /\ (Limit = 0 => q.wps = p.wps)
    BY <1>3, FlushFacts, FlushBytes
  <2>2. ReadPipe(p, r, cap, <<>>) = IF FlushesAll(p) THEN ReadIdle(q, r, cap)
                                    ELSE ReadWritePending(q, cap, <<>>)
    BY <1>3, <2>1 DEF ReadPipe
  <2> HIDE DEF q
  <2>3. CASE FlushesAll(p)
    <3>1. /\ InLine(d \o ReadIdle(q, r, cap).got, ReadIdle(q, r, cap).pipe.buffer,
                    ReadIdle(q, r, cap).pipe.wps, n)
          /\ Limit = 0 =>
               ReadIdle(q, r, cap).got \o ReadIdle(q, r, cap).pipe.wps = q.wps
      BY <2>1, <2>3, ReadIdleBytes
    <3>2. ReadPipe(p, r, cap, <<>>) = ReadIdle(q, r, cap)
      BY <2>2, <2>3
    <3> QED
      BY <2>1, <3>1, <3>2, Zenon
  <2>4. CASE ~FlushesAll(p)
    <3> DEFINE res == ReadWritePending(q, cap, <<>>)
    <3>1. /\ InLine(d \o res.got, res.pipe.buffer, res.pipe.wps, n)
          /\ Limit = 0 => res.got \o res.pipe.wps = q.wps
      BY <2>1, <2>4, ReadWritePendingBytes
    <3>2. ReadPipe(p, r, cap, <<>>) = res
      BY <2>2, <2>4
    <3> QED
      BY <2>1, <3>1, <3>2, Zenon
  <2> QED
    BY <2>3, <2>4
<1> QED
  BY <1>1, <1>2, <1>3

\* The m bytes that follow n, and the result of an operation that keeps the
\* order and, without a buffer, all the bytes of s.
Follows(data, n, m) == Len(data) = m /\ \A i \in 1..m : data[i] = n + i
Passed(d, res, n, s) ==
  /\ InLine(d \o res.got, res.pipe.buffer, res.pipe.wps, n)
  /\ Limit = 0 => res.got \o res.pipe.wps = s

\* TwibPipe::Write of the bytes that follow n: they come behind all others, and
\* without a buffer none is lost.
LEMMA WritePipeBytes ==
  ASSUME NEW p, PipeOK(p), p.state # "WritePending", NEW w \in Writers,
         p.state = "ReadPending" => p.buffer = <<>>,
         NEW n \in Nat, NEW m \in Nat, NEW data \in Seq(Bytes),
         Follows(data, n, m),
         NEW d \in Seq(Nat), InLine(d, p.buffer, p.wps, n)
  PROVE  Passed(d, WritePipe(p, w, data), n + m, data)
<1>1. /\ p \in PipeType /\ p.buffer \in Seq(Bytes) /\ Len(p.buffer) \in Nat
      /\ p.cap \in Nat /\ Len(data) \in Nat /\ p.state \in {"Idle", "ReadPending"}
      /\ p.wps = <<>> /\ Room(p) = Limit - Len(p.buffer)
      /\ Len(p.buffer) <= Limit
  BY DEF PipeOK, PipeType, PipeStates, Room
<1>2. "WritePending" \in PipeStates /\ "Idle" \in PipeStates
  BY DEF PipeStates
<1>3. p.buffer \in Seq(Nat) /\ data \in Seq(Nat) /\ n + m \in Nat
  BY <1>1, BytesAreNumbers
<1>4. /\ Increasing(data) /\ UpTo(data, n + m)
      /\ \A s \in Seq(Nat) : UpTo(s, n) => UpTo(s, n + m) /\ Below(s, data)
  <2>1. Len(data) = m /\ \A i \in 1..m : data[i] = n + i
    BY DEF Follows
  <2>2. Increasing(data) /\ UpTo(data, n + m)
    BY <2>1 DEF Increasing, UpTo
  <2>3. ASSUME NEW s \in Seq(Nat), UpTo(s, n) PROVE UpTo(s, n + m) /\ Below(s, data)
    <3>1. \A i \in 1..Len(s) : s[i] \in Nat /\ s[i] <= n
      BY <2>3 DEF UpTo
    <3>2. UpTo(s, n + m)
      BY <3>1 DEF UpTo
    <3>3. ASSUME NEW i \in 1..Len(s), NEW j \in 1..Len(data) PROVE s[i] < data[j]
      <4>1. s[i] \in Nat /\ s[i] <= n /\ data[j] = n + j /\ j \in 1..m
        BY <2>1, <3>1
      <4> QED
        BY <4>1
    <3> QED
      BY <3>2, <3>3 DEF Below
  <2> QED
    BY <2>2, <2>3
<1>5. InLine(d, p.buffer, data, n + m)
  BY <1>3, <1>4 DEF InLine
<1>6. d \o <<>> = d /\ <<>> \o data = data
  BY <1>3, ConcatEmptySeq
<1>7. CASE p.state = "Idle" /\ Len(data) <= Room(p)
  <2> DEFINE b == p.buffer \o data
  <2>1. b \in Seq(Bytes)
    BY <1>1
  <2>2. InLine(d, b, <<>>, n + m)
    <3>1. Increasing(b)
      BY <1>3, <1>5, ConcatIncreasing DEF InLine
    <3>2. Below(d, b) /\ UpTo(b, n + m)
      <4>1. /\ Below(d, b) <=> Below(d, p.buffer) /\ Below(d, data)
            /\ UpTo(b, n + m) <=> UpTo(p.buffer, n + m) /\ UpTo(data, n + m)
        BY <1>3, ConcatBelow
      <4> QED
        BY <1>5, <4>1 DEF InLine
    <3> HIDE DEF b
    <3> QED
      BY <1>5, <3>1, <3>2, EmptyInLine DEF InLine
  <2>3. WritePipe(p, w, data) = [pipe |-> WithBuffer(p, b), got |-> <<>>]
    BY <1>7 DEF WritePipe, WriteIdle, WithBuffer
  <2> HIDE DEF b
  <2>4. WithBuffer(p, b).buffer = b /\ WithBuffer(p, b).wps = <<>>
    BY <1>1, <2>1, BufferUpdate
  <2>5. Limit = 0 => data = <<>>
    BY <1>1, <1>7
  <2> QED
    <3>1. WritePipe(p, w, data).pipe = WithBuffer(p, b) /\ WritePipe(p, w, data).got = <<>>
      BY <2>3
    <3>2. Limit = 0 => <<>> \o <<>> = data
      BY <1>6, <2>5
    <3> QED
      BY <1>6, <2>2, <2>4, <3>1, <3>2, Zenon DEF Passed
<1>8. CASE p.state = "Idle" /\ ~(Len(data) <= Room(p))
  <2> DEFINE q == WithWriter(p, "WritePending", data, w)
  <2>1. WritePipe(p, w, data) = [pipe |-> q, got |-> <<>>]
    BY <1>8 DEF WritePipe, WriteIdle, WithWriter
  <2>2. q.buffer = p.buffer /\ q.wps = data
    BY <1>1 DEF WithWriter, PipeType
  <2> HIDE DEF q
  <2>3. WritePipe(p, w, data).pipe = q /\ WritePipe(p, w, data).got = <<>>
    BY <2>1
  <2> QED
    BY <1>5, <1>6, <2>2, <2>3, Zenon DEF Passed
<1>9. CASE p.state = "ReadPending"
  <2> DEFINE k == Least(p.cap, Len(data))
             t == Take(data, k)
             e == Drop(data, k)
             idle == WithReader(p, "Idle", NoCaller, 0)
             q == WithWriter(idle, "WritePending", e, w)
  <2>1. k \in 0..Len(data)
    BY <1>1, LeastFacts
  <2>2. /\ e \in Seq(Bytes) /\ t \o e = data /\ InLine(d \o t, <<>>, e, n + m)
        /\ (~(k < Len(data)) => e = <<>>)
    <3> HIDE DEF k
    <3>1. p.buffer = <<>>
      BY <1>9
    <3>2. InLine(d, <<>>, data, n + m)
      BY <1>5, <3>1
    <3>3. InLine(d \o t, <<>>, e, n + m)
      BY <1>3, <2>1, <3>2, PendingRead
    <3>4. e \in Seq(Bytes) /\ t \o e = data /\ Len(e) = Len(data) - k
      BY <2>1, DropFacts, CutFacts
    <3>5. ~(k < Len(data)) => e = <<>>
      BY <1>1, <2>1, <3>4
    <3> QED
      BY <3>3, <3>4, <3>5
  <2>3. WritePipe(p, w, data) =
          [pipe |-> IF k < Len(data) THEN q ELSE idle, got |-> t]
    BY <1>9 DEF WritePipe, WithReader, WithWriter
  <2>4. idle \in PipeType /\ idle.buffer = <<>> /\ idle.wps = <<>>
    BY <1>1, <1>2, <1>9, ReaderUpdate
  <2> HIDE DEF idle, k, t, e
  <2>5. q.buffer = <<>> /\ q.wps = e
    BY <1>2, <2>2, <2>4, WriterUpdate
  <2> HIDE DEF q
  <2>6. /\ WritePipe(p, w, data).got = t
        /\ WritePipe(p, w, data).pipe.buffer = <<>>
        /\ WritePipe(p, w, data).pipe.wps = e
    BY <2>2, <2>3, <2>4, <2>5
  <2> QED
    BY <2>2, <2>6, Zenon DEF Passed
<1> QED
  BY <1>1, <1>7, <1>8, <1>9

-----------------------------------------------------------------------------
(***************************************************************************)
(* Bytes are never reordered, and without a buffer never acknowledged      *)
(* unread.                                                                 *)
(***************************************************************************)

OrderInv == InLine(delivered, pipe.buffer, pipe.wps, written)

\* Without a buffer: what a write that is not acknowledged has handed over is
\* read or pending.
SyncInv == Limit = 0 => /\ acked \subseteq Elements(delivered)
                        /\ inflight \subseteq Elements(delivered \o pipe.wps)

\* The bytes of the next write.
LEMMA NewBytes ==
  ASSUME NEW a \in Nat, NEW n \in Nat, a + n <= MaxBytes
  PROVE  [i \in 1..n |-> a + i] \in Seq(Bytes)
<1>1. \A i \in 1..n : a + i \in Bytes
  BY BoundsAssumption DEF Bytes
<1> QED
  BY <1>1

\* What Read moves.
LEMMA ReadMoves ==
  ASSUME IInv, OrderInv, NEW r \in Readers, NEW cap \in Caps, Read(r, cap),
         pipe.state # "ReadPending"
  PROVE  \E got \in Seq(Bytes) :
           /\ delivered' = delivered \o got
           /\ OrderInv'
           /\ Limit = 0 => got \o pipe'.wps = pipe.wps
<1> DEFINE res == ReadPipe(pipe, r, cap, <<>>)
<1>1. /\ pipe' = res.pipe /\ delivered' = delivered \o res.got /\ written' = written
  BY DEF Read
<1>2. PipeOK(pipe) /\ cap \in Nat /\ delivered \in Seq(Nat) /\ written \in Nat
  BY CapsAssumption, BytesAreNumbers DEF IInv, TypeOK
<1>3. res.got \in Seq(Bytes)
  BY <1>2, ReadPipeFacts
<1>4. /\ InLine(delivered \o res.got, res.pipe.buffer, res.pipe.wps, written)
      /\ Limit = 0 => res.got \o res.pipe.wps = pipe.wps
  BY <1>2, ReadPipeBytes DEF OrderInv
<1> HIDE DEF res
<1>5. OrderInv'
  BY <1>1, <1>4, Zenon DEF OrderInv
<1> QED
  BY <1>1, <1>3, <1>4, <1>5

\* What Write moves.
LEMMA WriteMoves ==
  ASSUME IInv, OrderInv, NEW w \in Writers, NEW n \in 0..MaxChunk, Write(w, n),
         n > 0, ~pipe.hit_eof, pipe.state # "WritePending"
  PROVE  \E got, data \in Seq(Bytes) :
           /\ delivered' = delivered \o got
           /\ OrderInv'
           /\ data # <<>>
           /\ Limit = 0 => got \o pipe'.wps = data
           /\ acked' = IF pipe'.state = "WritePending" THEN acked
                       ELSE acked \cup Elements(data)
           /\ inflight' = IF pipe'.state = "WritePending" THEN Elements(data) ELSE inflight
           /\ UNCHANGED <<told_eof, reader_closed>>
           /\ pipe'.hit_eof = pipe.hit_eof
<1> DEFINE data == [i \in 1..n |-> written + i]
           res == WritePipe(pipe, w, data)
           stuck == res.pipe.state = "WritePending"
<1>1. /\ pipe' = res.pipe /\ delivered' = delivered \o res.got
      /\ acked' = IF stuck THEN acked ELSE acked \cup Elements(data)
      /\ inflight' = IF stuck THEN Elements(data) ELSE inflight
      /\ written + n <= MaxBytes /\ written' = written + n
      /\ UNCHANGED <<told_eof, reader_closed>>
  <2>1. n # 0
    OBVIOUS
  <2> QED
    BY <2>1, Zenon DEF Write
<1>2. /\ PipeOK(pipe) /\ delivered \in Seq(Nat) /\ written \in Nat /\ n \in Nat
      /\ pipe.state = "ReadPending" => pipe.buffer = <<>>
  BY BytesAreNumbers, BoundsAssumption DEF IInv, TypeOK, NoReaderLeftWaiting
<1>3. data \in Seq(Bytes)
  BY <1>1, <1>2, NewBytes
<1>4. Len(data) = n /\ (\A i \in 1..n : data[i] = written + i) /\ data # <<>>
  BY <1>2
<1> HIDE DEF data
<1>5. res.got \in Seq(Bytes) /\ res.pipe.hit_eof = pipe.hit_eof
  BY <1>2, <1>3, WritePipeFacts
<1>6. InLine(delivered, pipe.buffer, pipe.wps, written)
  BY DEF OrderInv
<1>7. /\ InLine(delivered \o res.got, res.pipe.buffer, res.pipe.wps, written + n)
      /\ Limit = 0 => res.got \o res.pipe.wps = data
  <2>1. Follows(data, written, n)
    BY <1>4 DEF Follows
  <2>2. Passed(delivered, WritePipe(pipe, w, data), written + n, data)
    BY <1>2, <1>3, <1>6, <2>1, WritePipeBytes
  <2> QED
    BY <2>2, Zenon DEF Passed
<1> HIDE DEF res
<1>8. OrderInv'
  BY <1>1, <1>7, Zenon DEF OrderInv
<1>9. /\ delivered' = delivered \o res.got
      /\ Limit = 0 => res.got \o pipe'.wps = data
      /\ acked' = IF pipe'.state = "WritePending" THEN acked
                  ELSE acked \cup Elements(data)
      /\ inflight' = IF pipe'.state = "WritePending" THEN Elements(data) ELSE inflight
      /\ pipe'.hit_eof = pipe.hit_eof
  BY <1>1, <1>5, <1>7, Zenon
<1> QED
  BY <1>1, <1>3, <1>4, <1>5, <1>8, <1>9, Zenon

\* What the other steps do: only closing the reading end takes bytes away, the
\* pending ones.
LEMMA OtherSteps ==
  ASSUME IInv, OrderInv, CloseReader \/ CloseWriter \/ Abort \/ UNCHANGED vars
  PROVE  /\ OrderInv'
         /\ delivered' = delivered /\ acked' = acked /\ pipe'.buffer = pipe.buffer
         /\ pipe'.wps = IF CloseReader THEN <<>> ELSE pipe.wps
         /\ inflight' = IF CloseReader THEN {} ELSE inflight
<1>0. pipe \in PipeType
  BY DEF IInv, PipeOK
<1>1. CASE CloseReader
  <2>1. /\ delivered' = delivered /\ acked' = acked /\ written' = written
        /\ inflight' = {} /\ pipe' = CloseReaderEnd(pipe)
    BY <1>1 DEF CloseReader
  <2>2. pipe'.buffer = pipe.buffer /\ pipe'.wps = <<>>
    BY <1>0, <2>1, CloseReaderFacts
  <2>3. InLine(delivered, pipe.buffer, <<>>, written)
    BY EmptyInLine DEF OrderInv, InLine
  <2>4. OrderInv'
    BY <2>1, <2>2, <2>3 DEF OrderInv
  <2> QED
    BY <1>1, <2>1, <2>2, <2>4
<1>2. CASE ~CloseReader
  <2>1. UNCHANGED <<delivered, acked, written, inflight>>
    BY <1>2 DEF CloseWriter, Abort, vars
  <2>2. pipe'.buffer = pipe.buffer /\ pipe'.wps = pipe.wps
    BY <1>0, <1>2, CloseWriterFacts DEF CloseWriter, Abort, vars
  <2>3. OrderInv'
    BY <2>1, <2>2 DEF OrderInv
  <2> QED
    BY <1>2, <2>1, <2>2, <2>3
<1> QED
  BY <1>1, <1>2

\* The steps of the pipe, by what they move.
LEMMA NextCases ==
  ASSUME [Next]_vars
  PROVE  \/ \E r \in Readers, cap \in Caps : Read(r, cap) /\ pipe.state # "ReadPending"
         \/ \E w \in Writers, n \in 0..MaxChunk :
              Write(w, n) /\ n > 0 /\ ~pipe.hit_eof /\ pipe.state # "WritePending"
         \/ CloseReader \/ CloseWriter \/ Abort \/ UNCHANGED vars
<1>1. ASSUME NEW r \in Readers, NEW cap \in Caps, Read(r, cap), pipe.state = "ReadPending"
      PROVE  Abort
  BY <1>1 DEF Read
<1>2. ASSUME NEW w \in Writers, NEW n \in 0..MaxChunk, Write(w, n),
             ~(n > 0 /\ ~pipe.hit_eof /\ pipe.state # "WritePending")
      PROVE  Abort \/ UNCHANGED vars
  BY <1>2 DEF Write
<1> QED
  BY <1>1, <1>2 DEF Next

\* Every step keeps the order.
LEMMA OrderNext == IInv /\ OrderInv /\ [Next]_vars => OrderInv'
<1> SUFFICES ASSUME IInv, OrderInv, [Next]_vars PROVE OrderInv'
  OBVIOUS
<1> QED
  BY NextCases, ReadMoves, WriteMoves, OtherSteps

\* A concatenation has the elements of its parts.
LEMMA ConcatElements ==
  ASSUME NEW S, NEW s \in Seq(S), NEW t \in Seq(S)
  PROVE  /\ Elements(s) \subseteq Elements(s \o t)
         /\ Elements(t) \subseteq Elements(s \o t)
<1> DEFINE st == s \o t
<1>1. /\ Len(st) = Len(s) + Len(t) /\ Len(s) \in Nat /\ Len(t) \in Nat
      /\ \A i \in 1..Len(s) : st[i] = s[i]
      /\ \A i \in 1..Len(t) : st[Len(s) + i] = t[i]
  OBVIOUS
<1> HIDE DEF st
<1>2. /\ \A i \in 1..Len(s) : i \in 1..Len(st)
      /\ \A i \in 1..Len(t) : Len(s) + i \in 1..Len(st)
  BY <1>1
<1>3. Elements(s) \subseteq Elements(st) /\ Elements(t) \subseteq Elements(st)
  BY <1>1, <1>2 DEF Elements
<1> QED
  BY <1>3 DEF st

\* Without a buffer no step acknowledges what was not read: the last byte of a
\* pending write leaves it by a read.
LEMMA SyncNext == IInv /\ OrderInv /\ SyncInv /\ [Next]_vars => SyncInv'
<1> SUFFICES ASSUME IInv, OrderInv, SyncInv, [Next]_vars, Limit = 0
             PROVE  /\ acked' \subseteq Elements(delivered')
                    /\ inflight' \subseteq Elements(delivered' \o pipe'.wps)
  BY DEF SyncInv
<1>0. /\ delivered \in Seq(Bytes) /\ pipe.wps \in Seq(Bytes) /\ pipe'.wps \in Seq(Bytes)
      /\ pipe'.state # "WritePending" => pipe'.wps = <<>>
      /\ acked \subseteq Elements(delivered)
      /\ inflight \subseteq Elements(delivered \o pipe.wps)
  <2>1. IInv'
    BY NextIInv
  <2>2. PipeOK(pipe) /\ PipeOK(pipe')
    BY <2>1 DEF IInv, PipeOK
  <2> QED
    BY <2>2 DEF IInv, TypeOK, SyncInv, PipeOK, PipeType
<1>1. ASSUME NEW r \in Readers, NEW cap \in Caps, Read(r, cap), pipe.state # "ReadPending"
      PROVE  /\ acked' \subseteq Elements(delivered')
             /\ inflight' \subseteq Elements(delivered' \o pipe'.wps)
  <2>1. PICK got \in Seq(Bytes) :
          delivered' = delivered \o got /\ got \o pipe'.wps = pipe.wps
    BY <1>1, ReadMoves
  <2>2. delivered' \o pipe'.wps = delivered \o pipe.wps
    <3> DEFINE v == pipe'.wps
    <3>1. delivered \in Seq(Bytes) /\ got \in Seq(Bytes) /\ v \in Seq(Bytes)
      BY <1>0
    <3> HIDE DEF v
    <3>2. (delivered \o got) \o v = delivered \o (got \o v)
      BY <3>1, ConcatAssociative
    <3> QED
      BY <2>1, <3>2 DEF v
  <2>3. Elements(delivered) \subseteq Elements(delivered')
    BY <1>0, <2>1, ConcatElements
  <2>4. CASE pipe.state = "WritePending" /\ pipe'.state # "WritePending"
    <3>1. acked' = acked \cup inflight /\ inflight' = {}
      BY <1>1, <2>4 DEF Read
    <3>2. delivered' = delivered \o pipe.wps
      BY <1>0, <2>1, <2>4, ConcatEmptySeq
    <3> QED
      BY <1>0, <2>3, <3>1, <3>2
  <2>5. CASE ~(pipe.state = "WritePending" /\ pipe'.state # "WritePending")
    <3>1. acked' = acked /\ inflight' = inflight
      BY <1>1, <2>5 DEF Read
    <3> QED
      BY <1>0, <2>2, <2>3, <3>1
  <2> QED
    BY <2>4, <2>5
<1>2. ASSUME NEW w \in Writers, NEW n \in 0..MaxChunk, Write(w, n),
             n > 0, ~pipe.hit_eof, pipe.state # "WritePending"
      PROVE  /\ acked' \subseteq Elements(delivered')
             /\ inflight' \subseteq Elements(delivered' \o pipe'.wps)
  <2>1. PICK got, data \in Seq(Bytes) :
           /\ delivered' = delivered \o got
           /\ got \o pipe'.wps = data
           /\ acked' = IF pipe'.state = "WritePending" THEN acked
                       ELSE acked \cup Elements(data)
           /\ inflight' = IF pipe'.state = "WritePending" THEN Elements(data) ELSE inflight
    BY <1>2, WriteMoves
  <2>2. delivered' \o pipe'.wps = delivered \o data
    <3> DEFINE v == pipe'.wps
    <3>1. delivered \in Seq(Bytes) /\ got \in Seq(Bytes) /\ v \in Seq(Bytes)
      BY <1>0
    <3> HIDE DEF v
    <3>2. (delivered \o got) \o v = delivered \o (got \o v)
      BY <3>1, ConcatAssociative
    <3> QED
      BY <2>1, <3>2 DEF v
  <2>3. /\ Elements(delivered) \subseteq Elements(delivered')
        /\ Elements(delivered) \subseteq Elements(delivered \o data)
        /\ Elements(data) \subseteq Elements(delivered \o data)
    BY <1>0, <2>1, ConcatElements
  <2>4. inflight \subseteq Elements(delivered)
    <3>1. pipe.wps = <<>>
      BY <1>2 DEF IInv, PipeOK
    <3> QED
      BY <1>0, <3>1, ConcatEmptySeq
  <2>5. CASE pipe'.state = "WritePending"
    BY <1>0, <2>1, <2>2, <2>3, <2>5
  <2>6. CASE pipe'.state # "WritePending"
    <3>1. delivered' = delivered \o data
      BY <1>0, <2>1, <2>6, ConcatEmptySeq
    <3> QED
      BY <1>0, <2>1, <2>2, <2>3, <2>4, <2>6, <3>1
  <2> QED
    BY <2>5, <2>6
<1>3. ASSUME CloseReader \/ CloseWriter \/ Abort \/ UNCHANGED vars
      PROVE  /\ acked' \subseteq Elements(delivered')
             /\ inflight' \subseteq Elements(delivered' \o pipe'.wps)
  BY <1>0, <1>3, OtherSteps
<1> QED
  BY <1>1, <1>2, <1>3, NextCases

\* Order and acknowledgements, throughout.
LEMMA BytesInvariant == Spec => [](IInv /\ OrderInv /\ SyncInv)
<1>1. Init => OrderInv /\ SyncInv
  <2> SUFFICES ASSUME Init PROVE OrderInv /\ SyncInv
    OBVIOUS
  <2>1. /\ delivered = <<>> /\ pipe.buffer = <<>> /\ pipe.wps = <<>>
        /\ acked = {} /\ inflight = {}
    BY DEF Init, NewPipe
  <2>2. OrderInv
    BY <2>1, EmptyInLine DEF OrderInv, InLine
  <2> QED
    BY <2>1, <2>2 DEF SyncInv
<1> QED
  BY <1>1, InitIInv, NextIInv, OrderNext, SyncNext, PTL DEF Spec

\* The pipe never reorders or repeats a byte, whatever its limit and however
\* reads, writes and closings interleave.
THEOREM BytesInOrder == Spec => []InOrder
<1>1. IInv /\ OrderInv => InOrder
  <2> SUFFICES ASSUME IInv, OrderInv PROVE InOrder
    OBVIOUS
  <2>1. /\ delivered \in Seq(Nat) /\ pipe.buffer \in Seq(Nat) /\ pipe.wps \in Seq(Nat)
        /\ written \in Nat
    BY BytesAreNumbers, BoundsAssumption DEF IInv, TypeOK, PipeType
  <2> QED
    BY <2>1, InLineMeans DEF OrderInv, InOrder
<1> QED
  BY <1>1, BytesInvariant, PTL

\* With pipe_buffer_size_limit at zero a write reports success only when all
\* of it was read.
THEOREM SuccessIsDelivery == Spec => []SynchronousWhenUnbuffered
<1>1. SyncInv => SynchronousWhenUnbuffered
  BY DEF SyncInv, SynchronousWhenUnbuffered
<1> QED
  BY <1>1, BytesInvariant, PTL

-----------------------------------------------------------------------------
(***************************************************************************)
(* The unbuffered pipe implements ByteStream.                              *)
(***************************************************************************)

AsStream == INSTANCE ByteStream WITH
  sent <- delivered \o pipe.buffer \o pipe.wps, seen <- delivered,
  closed <- pipe.hit_eof, cut <- reader_closed, ended <- told_eof

\* A sequence is a prefix of every longer one.
LEMMA PrefixFacts ==
  ASSUME NEW s \in Seq(Bytes), NEW t \in Seq(Bytes)
  PROVE  AsStream!Prefix(s, s \o t) /\ AsStream!Prefix(s, s)
<1> DEFINE st == s \o t
<1>1. st \in Seq(Bytes) /\ Len(st) = Len(s) + Len(t) /\ \A i \in 1..Len(s) : st[i] = s[i]
  OBVIOUS
<1> HIDE DEF st
<1>2. Len(s) <= Len(st) /\ Len(s) \in 0..Len(st)
  BY <1>1
<1>3. /\ Take(st, Len(s)) \in Seq(Bytes) /\ Len(Take(st, Len(s))) = Len(s)
      /\ \A i \in 1..Len(s) : Take(st, Len(s))[i] = st[i]
  BY <1>1, <1>2, TakeFacts
<1>4. s = SubSeq(st, 1, Len(s))
  BY <1>1, <1>3, SeqEqual DEF Take
<1>5. s = SubSeq(s, 1, Len(s))
  BY SubSeqFull
<1> QED
  BY <1>2, <1>4, <1>5 DEF st, AsStream!Prefix

\* Without a buffer the stream is what was read and what is pending.
LEMMA StreamIs ==
  ASSUME NEW p, PipeOK(p), NEW d \in Seq(Bytes), Limit = 0
  PROVE  d \o p.buffer \o p.wps = d \o p.wps /\ p.wps \in Seq(Bytes)
<1>1. p.wps \in Seq(Bytes)
  BY DEF PipeOK, PipeType
<1>2. p.buffer = <<>>
  BY Unbuffered
<1>3. d \o <<>> = d
  BY ConcatEmptySeq
<1> QED
  BY <1>1, <1>2, <1>3

\* The same before and after a step.
LEMMA StreamStep ==
  ASSUME IInv, IInv', Limit = 0
  PROVE  /\ delivered \o pipe.buffer \o pipe.wps = delivered \o pipe.wps
         /\ (delivered \o pipe.buffer \o pipe.wps)' = delivered' \o pipe'.wps
         /\ delivered \in Seq(Bytes) /\ delivered' \in Seq(Bytes)
         /\ pipe.wps \in Seq(Bytes) /\ pipe'.wps \in Seq(Bytes)
         /\ told_eof \in BOOLEAN
<1>1. /\ PipeOK(pipe) /\ delivered \in Seq(Bytes) /\ delivered' \in Seq(Bytes)
      /\ told_eof \in BOOLEAN
  BY DEF IInv, TypeOK
<1>2. PipeOK(pipe')
  BY DEF IInv, PipeOK
<1> QED
  BY <1>1, <1>2, StreamIs

\* Reading receives what is next, ends the stream when it is empty, or waits.
LEMMA ReadRefines ==
  ASSUME IInv, OrderInv, Limit = 0, NEW r \in Readers, NEW cap \in Caps, Read(r, cap),
         pipe.state # "ReadPending"
  PROVE  [AsStream!StreamNext]_(AsStream!streamVars)
<1> DEFINE res == ReadPipe(pipe, r, cap, <<>>)
           sent == delivered \o pipe.buffer \o pipe.wps
<1>1. /\ pipe' = res.pipe /\ delivered' = delivered \o res.got
      /\ told_eof' = (told_eof \/ res.answer = "eof") /\ reader_closed' = reader_closed
  BY DEF Read
<1>2. PipeOK(pipe) /\ cap \in Nat /\ delivered \in Seq(Nat) /\ written \in Nat
  BY CapsAssumption, BytesAreNumbers DEF IInv, TypeOK
<1>3. /\ PipeOK(res.pipe) /\ res.got \in Seq(Bytes) /\ res.pipe.hit_eof = pipe.hit_eof
      /\ res.answer = "eof" => pipe.hit_eof /\ res.pipe.state = "Idle" /\ res.got = <<>>
  BY <1>2, ReadPipeFacts
<1>4. res.got \o res.pipe.wps = pipe.wps
  BY <1>2, ReadPipeBytes DEF OrderInv
<1> HIDE DEF res
<1>5. IInv'
  BY NextIInv DEF Next
<1>6. /\ sent = delivered \o pipe.wps /\ sent' = delivered' \o pipe'.wps
      /\ delivered \in Seq(Bytes) /\ delivered' \in Seq(Bytes)
      /\ pipe.wps \in Seq(Bytes) /\ pipe'.wps \in Seq(Bytes) /\ told_eof \in BOOLEAN
  BY <1>5, StreamStep
<1>7. sent' = sent
  <2> DEFINE g == res.got
             v == pipe'.wps
  <2>1. g \in Seq(Bytes) /\ v \in Seq(Bytes) /\ g \o v = pipe.wps
    BY <1>1, <1>3, <1>4, <1>6
  <2>2. delivered' = delivered \o g
    BY <1>1
  <2> HIDE DEF g, v, sent
  <2>3. (delivered \o g) \o v = delivered \o (g \o v)
    <3>1. delivered \in Seq(Bytes) /\ g \in Seq(Bytes) /\ v \in Seq(Bytes)
      BY <1>6, <2>1
    <3> QED
      BY <3>1, ConcatAssociative
  <2> QED
    BY <1>6, <2>1, <2>2, <2>3 DEF v
<1>8. pipe'.hit_eof = pipe.hit_eof
  BY <1>1, <1>3
<1> HIDE DEF sent
<1>9. CASE res.answer = "eof"
  <2>1. /\ delivered' = delivered /\ told_eof' = TRUE /\ pipe.hit_eof
    BY <1>1, <1>3, <1>6, <1>9, ConcatEmptySeq
  <2>2. pipe'.wps = <<>>
    BY <1>1, <1>3, <1>9 DEF PipeOK
  <2>3. sent = delivered
    BY <1>6, <1>7, <2>1, <2>2, ConcatEmptySeq
  <2> QED
    BY <1>1, <1>7, <1>8, <2>1, <2>3
    DEF sent, AsStream!StreamNext, AsStream!End
<1>10. CASE res.answer # "eof" /\ res.got = <<>>
  <2>1. delivered' = delivered /\ told_eof' = told_eof
    BY <1>1, <1>6, <1>10, ConcatEmptySeq
  <2> QED
    BY <1>1, <1>7, <1>8, <2>1 DEF sent, AsStream!streamVars
<1>11. CASE res.answer # "eof" /\ res.got # <<>>
  <2>1. Len(delivered') > Len(delivered) /\ told_eof' = told_eof
    BY <1>1, <1>3, <1>6, <1>11
  <2>2. AsStream!Prefix(delivered, delivered')
    BY <1>1, <1>3, <1>6, PrefixFacts
  <2>3. AsStream!Prefix(delivered', sent)
    <3>1. sent = delivered' \o pipe'.wps
      BY <1>6, <1>7
    <3> QED
      BY <1>6, <3>1, PrefixFacts
  <2> QED
    BY <1>1, <1>7, <1>8, <2>1, <2>2, <2>3
    DEF sent, AsStream!StreamNext, AsStream!Receive
<1> QED
  BY <1>9, <1>10, <1>11

\* Writing sends, and a reader that waits receives some of it at once.
LEMMA WriteRefines ==
  ASSUME IInv, OrderInv, Limit = 0, NEW w \in Writers, NEW n \in 0..MaxChunk, Write(w, n),
         n > 0, ~pipe.hit_eof, pipe.state # "WritePending"
  PROVE  AsStream!StreamNext
<1> DEFINE sent == delivered \o pipe.buffer \o pipe.wps
<1>1. PICK got, data \in Seq(Bytes) :
         /\ delivered' = delivered \o got /\ data # <<>>
         /\ got \o pipe'.wps = data
         /\ UNCHANGED <<told_eof, reader_closed>>
         /\ pipe'.hit_eof = pipe.hit_eof
  BY WriteMoves
<1>2. IInv'
  BY NextIInv DEF Next
<1>3. /\ sent = delivered \o pipe.wps /\ sent' = delivered' \o pipe'.wps
      /\ delivered \in Seq(Bytes) /\ delivered' \in Seq(Bytes)
      /\ pipe'.wps \in Seq(Bytes)
  BY <1>2, StreamStep
<1>4. sent = delivered
  <2>1. pipe.wps = <<>>
    BY DEF IInv, PipeOK
  <2> QED
    BY <1>3, <2>1, ConcatEmptySeq
<1> HIDE DEF sent
<1>5. sent' = delivered \o data
  <2> DEFINE v == pipe'.wps
  <2>1. v \in Seq(Bytes) /\ got \o v = data /\ sent' = delivered' \o v
    BY <1>1, <1>3
  <2> HIDE DEF v
  <2>2. (delivered \o got) \o v = delivered \o (got \o v)
    <3>1. delivered \in Seq(Bytes) /\ got \in Seq(Bytes) /\ v \in Seq(Bytes)
      BY <1>3, <2>1
    <3> QED
      BY <3>1, ConcatAssociative
  <2> QED
    BY <1>1, <2>1, <2>2
<1>6. Len(sent') > Len(sent) /\ AsStream!Prefix(sent, sent')
  <2>1. Len(delivered \o data) = Len(delivered) + Len(data) /\ Len(data) > 0
    BY <1>1, <1>3
  <2>2. Len(delivered) \in Nat
    BY <1>3
  <2>3. AsStream!Prefix(delivered, delivered \o data)
    BY <1>3, PrefixFacts
  <2> QED
    BY <1>4, <1>5, <2>1, <2>2, <2>3
<1>7. AsStream!Prefix(delivered, delivered')
  BY <1>1, <1>3, PrefixFacts
<1>8. AsStream!Prefix(delivered', sent')
  BY <1>3, PrefixFacts
<1> QED
  BY <1>1, <1>6, <1>7, <1>8 DEF sent, AsStream!StreamNext, AsStream!Send

\* Closing an end ends the stream if a reader waits.
LEMMA CloseRefines ==
  ASSUME IInv, Limit = 0, CloseReader \/ CloseWriter
  PROVE  AsStream!StreamNext
<1> DEFINE sent == delivered \o pipe.buffer \o pipe.wps
<1>1. IInv'
  BY NextIInv DEF Next
<1>2. /\ sent = delivered \o pipe.wps /\ sent' = delivered' \o pipe'.wps
      /\ delivered \in Seq(Bytes) /\ pipe.wps \in Seq(Bytes) /\ told_eof \in BOOLEAN
  BY <1>1, StreamStep
<1>3. /\ delivered' = delivered
      /\ told_eof' = (told_eof \/ pipe.state = "ReadPending")
      /\ reader_closed' = (CloseReader \/ reader_closed)
      /\ CloseReader => reader_closed' = TRUE
      /\ ~CloseReader => reader_closed' = reader_closed
  BY DEF CloseReader, CloseWriter, IInv, TypeOK
<1>4. /\ pipe'.hit_eof = TRUE
      /\ pipe'.wps = IF CloseReader THEN <<>> ELSE pipe.wps
  BY CloseReaderFacts, CloseWriterFacts DEF CloseReader, CloseWriter, IInv, PipeOK
<1>5. delivered \o <<>> = delivered
  BY <1>2, ConcatEmptySeq
<1> HIDE DEF sent
<1>6. CASE pipe.state = "ReadPending"
  <2>1. pipe.wps = <<>>
    BY <1>6 DEF IInv, NoReaderLeftWaiting
  <2>2. sent = delivered /\ sent' = sent /\ told_eof' = TRUE
    BY <1>2, <1>3, <1>4, <1>5, <1>6, <2>1
  <2> QED
    BY <1>3, <1>4, <2>2 DEF sent, AsStream!StreamNext, AsStream!End
<1>7. CASE pipe.state # "ReadPending" /\ CloseReader
  <2>1. sent' = delivered /\ told_eof' = told_eof /\ reader_closed' = TRUE
    BY <1>2, <1>3, <1>4, <1>5, <1>7
  <2>2. AsStream!Prefix(delivered, sent) /\ AsStream!Prefix(delivered, delivered)
    BY <1>2, PrefixFacts
  <2>3. AsStream!Prefix(sent', sent) /\ AsStream!Prefix(delivered, sent')
    BY <2>1, <2>2
  <2> QED
    BY <1>3, <1>4, <2>1, <2>3 DEF sent, AsStream!StreamNext, AsStream!CloseReadingEnd
<1>8. CASE pipe.state # "ReadPending" /\ ~CloseReader
  <2>1. sent' = sent /\ told_eof' = told_eof /\ reader_closed' = reader_closed
    BY <1>2, <1>3, <1>4, <1>8
  <2> QED
    BY <1>3, <1>4, <2>1 DEF sent, AsStream!StreamNext, AsStream!CloseWritingEnd
<1> QED
  BY <1>6, <1>7, <1>8

\* With pipe_buffer_size_limit at zero a TwibPipe is an ordered byte stream:
\* whatever its callers do, bytes are lost only by closing the reading end, and
\* end of file is told only when everything was read (TwibPipe::CloseWriter:
\* "signal EoF after pending data has been read out").
THEOREM UnbufferedIsByteStream == Limit = 0 => (Spec => AsStream!StreamSpec)
<1> SUFFICES ASSUME Limit = 0 PROVE Spec => AsStream!StreamSpec
  OBVIOUS
<1>1. Init => AsStream!StreamInit
  <2> SUFFICES ASSUME Init PROVE AsStream!StreamInit
    OBVIOUS
  <2>1. /\ delivered = <<>> /\ pipe.buffer = <<>> /\ pipe.wps = <<>>
        /\ pipe.hit_eof = FALSE /\ reader_closed = FALSE /\ told_eof = FALSE
    BY DEF Init, NewPipe
  <2> QED
    BY <2>1 DEF AsStream!StreamInit
<1>2. IInv /\ OrderInv /\ SyncInv /\ [Next]_vars
        => [AsStream!StreamNext]_(AsStream!streamVars)
  <2> SUFFICES ASSUME IInv, OrderInv, [Next]_vars
               PROVE  [AsStream!StreamNext]_(AsStream!streamVars)
    OBVIOUS
  <2>1. ASSUME Abort \/ UNCHANGED vars PROVE UNCHANGED AsStream!streamVars
    BY <2>1 DEF Abort, vars, AsStream!streamVars
  <2> QED
    BY <2>1, NextCases, ReadRefines, WriteRefines, CloseRefines
<1> QED
  BY <1>1, <1>2, BytesInvariant, PTL DEF Spec, AsStream!StreamSpec
=============================================================================
