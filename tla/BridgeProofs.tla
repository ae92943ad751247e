---------------------------- MODULE BridgeProofs ----------------------------
(***************************************************************************)
(* Proofs about UsbBridge, for any sequence of requests, buffer size and   *)
(* number of failures.                                                     *)
(***************************************************************************)
EXTENDS UsbBridge, SequenceTheorems, TLAPS

Units == Seq(1..N)
Readers == [hdr : 0..N, got : Nat, ids : Nat, buf : Units, handler : 0..N, state : 0..N,
            object : Int]
Handlers == [streaming : BOOLEAN, bad : BOOLEAN, used : Units, sink : Units]
Places == {"down", "idle", "advance", "return", "finalize", "finish", "cleanup", "sending",
           "abort", "null state", "fatal"}
Threads == [at : Places, sending : 0..N, then : {"idle", "advance", "finish", "cleanup"},
            next : Int, inMeta : BOOLEAN, faults : Int]
Logs == [run : SUBSET (1..N), begun : SUBSET (1..N), answered : SUBSET (0..N),
         later : SUBSET (1..N), cut : SUBSET (0..N), raced : BOOLEAN]
DataStates == {"none", "payload", "payload done", "ids", "ids done"}
Endpoints == [meta : {"none", "posted", "done"}, hdr : 0..N, data : DataStates,
              room : Nat, moved : Units]
Hosts == [req : 1..N, at : {"meta", "data", "objs", "done"}, left : Nat]

\* The main thread is, or will be once the response is sent, about to go on with
\* the current request.
GoesOn == main.at = "advance" \/ (main.at = "sending" /\ main.then = "advance")

\* The reader expects data of the current request.
Reading == GoesOn \/ ep.data # "none"

BridgeType ==
  /\ host \in Hosts /\ ep \in Endpoints /\ rd \in Readers /\ hs \in [1..N -> Handlers]
  /\ main \in Threads /\ log \in Logs
  /\ Reading => rd.hdr # None
  /\ ep.meta = "done" => ep.hdr # None

\* The next header the host sends.
Upcoming == IF host.at = "meta" THEN host.req ELSE host.req + 1

Blank == [streaming |-> FALSE, bad |-> FALSE, used |-> <<>>, sink |-> <<>>]

\* The reader has met the request.
Seen(i) == i \in log.run \/ i \in log.begun \/ i \in log.later \/ i = rd.hdr \/ hs[i] # Blank

\* Headers come in order and each once.
Fresh ==
  /\ \A i \in 1..N : Seen(i) => i < Upcoming
  /\ ep.meta = "done" => /\ ep.hdr < Upcoming
                         /\ \A i \in 1..N : Seen(i) => i < ep.hdr

\* A handler takes no more than its parameters and no more than the payload; it
\* runs the command with all its parameters, and one without a stream with all of
\* the payload.
Taken(one) == Len(one.used) + Len(one.sink)
Unpacks(i, h) ==
  /\ Len(h.used) <= Req[i].par
  /\ h.streaming => Len(h.used) = Req[i].par /\ (Req[i].stream \/ Req[i].par >= Req[i].size)
Bounded(i) ==
  /\ Unpacks(i, hs[i]) /\ Taken(hs[i]) <= Req[i].size
  /\ i \in log.run => hs[i].streaming

\* The reader points to the handler of the current request or to none, and a
\* request is answered by its handler or later, not both.
HandlerInv ==
  /\ rd.handler \in {None, rd.hdr} /\ rd.state = rd.handler
  /\ rd.hdr # None => rd.got <= Req[rd.hdr].size
  /\ \A i \in 1..N : Bounded(i)
  /\ log.later \cap log.begun = {}
  /\ rd.handler # None =>
       /\ Taken(hs[rd.handler]) + Len(rd.buf) <= rd.got
       /\ rd.handler \notin log.begun
       /\ rd.handler \in log.later => \/ hs[rd.handler].streaming /\ ~Req[rd.handler].stream
                                      \/ main.at = "cleanup"

\* The payload of the current request that the host has yet to send.
Rest == Req[rd.hdr].size - rd.got - (IF ep.data = "payload done" THEN Len(ep.moved) ELSE 0)

\* The main thread is in the middle of a request, or will be once the response
\* is sent.
Busy == \/ main.at \in {"advance", "finalize", "finish", "cleanup"}
        \/ main.at = "sending" /\ main.then # "idle"

\* The host is about to send what the reader expects of the current request.
Expected ==
  /\ Rest >= 0
  /\ Rest > 0 => host.at = "data" /\ host.req = rd.hdr /\ host.left = Rest
  /\ Rest = 0 /\ Req[rd.hdr].objs > 0 /\ ep.data # "ids done"
       => host.at = "objs" /\ host.req = rd.hdr

\* The host is about to send what follows the header that has arrived.
Follows ==
  /\ Req[ep.hdr].size > 0 => /\ host.at = "data" /\ host.req = ep.hdr
                             /\ host.left = Req[ep.hdr].size
  /\ Req[ep.hdr].size = 0 /\ Req[ep.hdr].objs > 0 => host.at = "objs" /\ host.req = ep.hdr

\* What is posted, or has arrived, is what the reader expects.
Matches ==
  /\ ep.data \in {"payload", "payload done"} => rd.got < Req[rd.hdr].size
  /\ ep.data \in {"ids", "ids done"} => rd.got = Req[rd.hdr].size /\ Req[rd.hdr].objs > 0
  /\ ep.data = "payload done" => Own(rd.hdr, ep.moved)

\* Unless a header overtook data, the host is where the reader expects it to be.
Sync ==
  /\ main.at # "abort"
  /\ Busy => ep.data = "none"
  /\ Reading => Expected
  /\ Matches
  /\ ep.meta = "done" => Follows

\* Then every unit is where it belongs.
Kept ==
  /\ rd.handler # None => Own(rd.handler, rd.buf)
  /\ \A i \in 1..N : Own(i, hs[i].used) /\ Own(i, hs[i].sink)

ReaderInv == BridgeType /\ Fresh /\ HandlerInv /\ HandlerLive /\ (~log.raced => Sync /\ Kept)

-----------------------------------------------------------------------------
(***************************************************************************)
(* The operators of the model.                                             *)
(***************************************************************************)

\* The requests and their parts.
LEMMA RequestFacts ==
  ASSUME ConstantsOK
  PROVE  /\ N \in Nat \ {0}
         /\ \A i \in 1..N : /\ Req[i].par \in Nat /\ Req[i].size \in Nat
                            /\ Req[i].objs \in Nat /\ Req[i].exp \in Nat
                            /\ Req[i].stream \in BOOLEAN /\ Req[i].obj \in Nat
<1>1. Req \in Seq(Requests) /\ N > 0 /\ N = Len(Req)
  BY DEF ConstantsOK, N
<1>2. N \in Nat \ {0}
  BY <1>1
<1>3. \A i \in 1..N : Req[i] \in Requests
  BY <1>1
<1> QED
  BY <1>2, <1>3 DEF Requests

\* The first and the remaining units of a buffer.
LEMMA SplitFacts ==
  ASSUME NEW S, NEW buf \in Seq(S), NEW n \in 0..Len(buf)
  PROVE  /\ SubSeq(buf, 1, n) \in Seq(S) /\ Len(SubSeq(buf, 1, n)) = n
         /\ \A j \in 1..n : SubSeq(buf, 1, n)[j] = buf[j]
         /\ SubSeq(buf, n + 1, Len(buf)) \in Seq(S)
         /\ Len(SubSeq(buf, n + 1, Len(buf))) = Len(buf) - n
         /\ \A j \in 1..(Len(buf) - n) : SubSeq(buf, n + 1, Len(buf))[j] = buf[n + j]
<1>1. Len(buf) \in Nat /\ n \in Nat /\ n <= Len(buf)
  OBVIOUS
<1>2. /\ SubSeq(buf, 1, n) \in Seq(S) /\ Len(SubSeq(buf, 1, n)) = n
      /\ \A j \in 1..n : SubSeq(buf, 1, n)[j] = buf[j]
  BY <1>1
<1>3. /\ SubSeq(buf, n + 1, Len(buf)) \in Seq(S)
      /\ Len(SubSeq(buf, n + 1, Len(buf))) = Len(buf) - n
      /\ \A j \in 1..(Len(buf) - n) : SubSeq(buf, n + 1, Len(buf))[j] = buf[n + j]
  BY <1>1
<1> QED
  BY <1>2, <1>3

\* Units appended.
LEMMA JoinFacts ==
  ASSUME NEW S, NEW s \in Seq(S), NEW u \in Seq(S), NEW k
  PROVE  /\ s \o u \in Seq(S) /\ Len(s \o u) = Len(s) + Len(u)
         /\ Own(k, s) /\ Own(k, u) => Own(k, s \o u)
<1> DEFINE w == s \o u
           m == Len(s)
           n == Len(u)
<1>1. /\ w \in Seq(S) /\ Len(w) = m + n /\ m \in Nat /\ n \in Nat
      /\ \A i \in 1..Len(w) : w[i] = IF i <= m THEN s[i] ELSE u[i - m]
  BY ConcatProperties
<1> HIDE DEF w
<1>2. ASSUME Own(k, s), Own(k, u) PROVE Own(k, w)
  <2> SUFFICES ASSUME NEW j \in 1..Len(w) PROVE w[j] = k
    BY DEF Own
  <2>1. CASE j <= m
    BY <1>1, <1>2, <2>1 DEF Own
  <2>2. CASE ~(j <= m)
    <3>1. j - m \in 1..n
      BY <1>1, <2>2
    <3> QED
      BY <1>1, <1>2, <2>2, <3>1 DEF Own
  <2> QED
    BY <2>1, <2>2
<1> QED
  BY <1>1, <1>2 DEF w

\* What is done with the buffer b, the handler h becoming g and the rest r.
Flushes(i, h, b, g, r) ==
  /\ g \in Handlers /\ r \in Units
  /\ Unpacks(i, g) /\ Taken(g) + Len(r) <= Taken(h) + Len(b)
  /\ h.streaming => g.streaming
  /\ Own(i, h.used) /\ Own(i, h.sink) /\ Own(i, b)
       => Own(i, g.used) /\ Own(i, g.sink) /\ Own(i, r)

\* FlushReceiveBuffer unpacks parameters.
LEMMA UnpackFacts ==
  ASSUME ConstantsOK, NEW i \in 1..N, NEW buf \in Units, hs[i] \in Handlers,
         Unpacks(i, hs[i]), ~hs[i].streaming
  PROVE  /\ Flushes(i, hs[i], buf, Unpacked(i, buf).h, Unpacked(i, buf).buf)
         /\ Unpacked(i, buf).does \in {"waits", "runs", "refuses"}
         /\ Unpacked(i, buf).does = "runs" => Unpacked(i, buf).h.streaming
<1> DEFINE h == hs[i]
           n == Lesser(Req[i].par - Len(h.used), Len(buf))
           head == SubSeq(buf, 1, n)
           rest == SubSeq(buf, n + 1, Len(buf))
           used == h.used \o head
           g == [h EXCEPT !.used = used]
           s == [g EXCEPT !.streaming = TRUE]
           b == [g EXCEPT !.bad = TRUE]
           u == Unpacked(i, buf)
<1>1. /\ Req[i].par \in Nat /\ Req[i].size \in Nat /\ Req[i].exp \in Nat
      /\ Req[i].stream \in BOOLEAN /\ Len(buf) \in Nat
  BY RequestFacts DEF Units
<1>2. h \in Handlers /\ h.used \in Units /\ h.sink \in Units /\ ~h.streaming
      /\ Len(h.used) \in Nat /\ Len(h.used) <= Req[i].par /\ Len(h.sink) \in Nat
  BY DEF Handlers, Units, Unpacks
<1>3. n \in 0..Len(buf) /\ n <= Req[i].par - Len(h.used)
  BY <1>1, <1>2 DEF Lesser
<1>4. /\ head \in Units /\ Len(head) = n /\ \A j \in 1..n : head[j] = buf[j]
      /\ rest \in Units /\ Len(rest) = Len(buf) - n
      /\ \A j \in 1..(Len(buf) - n) : rest[j] = buf[n + j]
  BY <1>3, SplitFacts DEF Units
<1>5. u = IF Len(g.used) < Req[i].par THEN [h |-> g, buf |-> rest, does |-> "waits"]
          ELSE IF StreamFits(Req[i], Len(g.used))
          THEN [h |-> s, buf |-> rest, does |-> "runs"]
          ELSE [h |-> b, buf |-> rest, does |-> "refuses"]
  BY DEF Unpacked
<1> HIDE DEF h, n, head, rest, u
<1>6. /\ used \in Units /\ Len(used) = Len(h.used) + n
      /\ Own(i, h.used) /\ Own(i, head) => Own(i, used)
  BY <1>2, <1>4, JoinFacts DEF Units
<1> HIDE DEF used
<1>7. /\ g \in Handlers /\ g.used = used /\ g.sink = h.sink /\ ~g.streaming
      /\ s \in Handlers /\ s.used = used /\ s.sink = h.sink /\ s.streaming
      /\ b \in Handlers /\ b.used = used /\ b.sink = h.sink /\ ~b.streaming
  BY <1>2, <1>6 DEF Handlers
<1> HIDE DEF g, s, b
<1>8. Own(i, buf) => Own(i, head) /\ Own(i, rest)
  <2> SUFFICES ASSUME Own(i, buf) PROVE Own(i, head) /\ Own(i, rest)
    OBVIOUS
  <2>1. \A j \in 1..n : j \in 1..Len(buf)
    BY <1>1, <1>3
  <2>2. \A j \in 1..(Len(buf) - n) : n + j \in 1..Len(buf)
    BY <1>1, <1>3
  <2> QED
    BY <1>4, <2>1, <2>2 DEF Own
<1>9. ASSUME NEW x \in Handlers, x.used = used, x.sink = h.sink,
             x.streaming => /\ Len(used) = Req[i].par
                            /\ Req[i].stream \/ Req[i].par >= Req[i].size
      PROVE  Flushes(i, h, buf, x, rest)
  <2>1. Unpacks(i, x)
    BY <1>1, <1>2, <1>3, <1>6, <1>9 DEF Unpacks
  <2>2. Taken(x) + Len(rest) <= Taken(h) + Len(buf)
    <3>1. /\ Len(x.used) = Len(h.used) + n /\ Len(x.sink) = Len(h.sink)
          /\ Len(rest) = Len(buf) - n /\ n \in Nat
      BY <1>3, <1>4, <1>6, <1>9
    <3>2. (Len(x.used) + Len(x.sink)) + Len(rest) <= (Len(h.used) + Len(h.sink)) + Len(buf)
      <4>1. PICK a \in Nat, c \in Nat, d \in Nat, m \in Nat :
              a = Len(h.used) /\ c = Len(h.sink) /\ d = Len(buf) /\ m = n
        BY <1>1, <1>2, <3>1
      <4>2. Len(x.used) = a + m /\ Len(x.sink) = c /\ Len(rest) = d - m
        BY <3>1, <4>1
      <4>3. ((a + m) + c) + (d - m) <= (a + c) + d
        OBVIOUS
      <4> QED
        BY <4>1, <4>2, <4>3, Zenon
    <3> QED
      BY <3>2 DEF Taken
  <2> QED
    BY <1>2, <1>4, <1>6, <1>8, <1>9, <2>1, <2>2 DEF Flushes
<1>10. CASE Len(used) < Req[i].par
  <2>1. u = [h |-> g, buf |-> rest, does |-> "waits"]
    BY <1>5, <1>7, <1>10
  <2>2. Flushes(i, h, buf, g, rest)
    BY <1>7, <1>9
  <2> QED
    BY <2>1, <2>2 DEF h, u
<1>11. CASE ~(Len(used) < Req[i].par)
  <2>1. Len(used) = Req[i].par
    BY <1>1, <1>2, <1>3, <1>6, <1>11
  <2>2. CASE StreamFits(Req[i], Len(used))
    <3>1. u = [h |-> s, buf |-> rest, does |-> "runs"]
      BY <1>5, <1>7, <1>11, <2>2
    <3>2. Req[i].stream \/ Req[i].par >= Req[i].size
      BY <2>1, <2>2 DEF StreamFits
    <3>3. Flushes(i, h, buf, s, rest)
      BY <1>7, <1>9, <2>1, <3>2
    <3> QED
      BY <1>7, <3>1, <3>3 DEF h, u
  <2>3. CASE ~StreamFits(Req[i], Len(used))
    <3>1. u = [h |-> b, buf |-> rest, does |-> "refuses"]
      BY <1>5, <1>7, <1>11, <2>3
    <3>2. Flushes(i, h, buf, b, rest)
      BY <1>7, <1>9
    <3> QED
      BY <3>1, <3>2 DEF h, u
  <2> QED
    BY <2>2, <2>3
<1> QED
  BY <1>10, <1>11

\* FlushReceiveBuffer on a handler that has its parameters, or that refused.
LEMMA FlushedFacts ==
  ASSUME ConstantsOK, NEW i \in 1..N, NEW buf \in Units, hs[i] \in Handlers,
         Unpacks(i, hs[i])
  PROVE  /\ Flushes(i, hs[i], buf, Flushed(i, buf).h, Flushed(i, buf).buf)
         /\ Flushed(i, buf).does \in {"waits", "runs", "refuses"}
         /\ Flushed(i, buf).does = "runs" => Flushed(i, buf).h.streaming /\ ~hs[i].streaming
         /\ Flushed(i, buf).does = "refuses" =>
              ~hs[i].streaming \/ (~Req[i].stream /\ buf # <<>>)
<1> DEFINE h == hs[i]
           f == Flushed(i, buf)
           e == [h EXCEPT !.sink = @ \o buf]
           b == [h EXCEPT !.bad = TRUE]
<1>1. /\ h \in Handlers /\ h.used \in Units /\ h.sink \in Units
      /\ h.streaming \in BOOLEAN /\ h.bad \in BOOLEAN
      /\ Len(h.used) \in Nat /\ Len(h.sink) \in Nat /\ Len(buf) \in Nat
  BY DEF Handlers, Units
<1>2. /\ <<>> \in Units /\ Len(<<>>) = 0 /\ Own(i, <<>>)
  BY DEF Units, Own
<1>3. f = IF h.bad THEN [h |-> h, buf |-> <<>>, does |-> "waits"]
          ELSE IF ~h.streaming THEN Unpacked(i, buf)
          ELSE IF Req[i].stream THEN [h |-> e, buf |-> <<>>, does |-> "waits"]
          ELSE IF buf # <<>> THEN [h |-> b, buf |-> buf, does |-> "refuses"]
          ELSE [h |-> h, buf |-> buf, does |-> "waits"]
  BY DEF Flushed
<1>4. /\ h.sink \o buf \in Units /\ Len(h.sink \o buf) = Len(h.sink) + Len(buf)
      /\ Own(i, h.sink) /\ Own(i, buf) => Own(i, h.sink \o buf)
  BY <1>1, JoinFacts DEF Units
<1>5. /\ e \in Handlers /\ e.used = h.used /\ e.sink = h.sink \o buf
      /\ e.streaming = h.streaming
      /\ b \in Handlers /\ b.used = h.used /\ b.sink = h.sink /\ b.streaming = h.streaming
  BY <1>1, <1>4 DEF Handlers
<1> HIDE DEF e, b
<1>6. Unpacks(i, h) /\ Unpacks(i, e) /\ Unpacks(i, b)
  BY <1>5 DEF Unpacks
<1>7. CASE h.bad
  <2>1. Flushes(i, h, buf, h, <<>>)
    BY <1>1, <1>2, <1>6 DEF Flushes, Taken
  <2> QED
    BY <1>3, <1>7, <2>1
<1>8. CASE ~h.bad /\ ~h.streaming
  <2>1. f = Unpacked(i, buf)
    BY <1>3, <1>8
  <2> QED
    BY <1>8, <2>1, UnpackFacts
<1>9. CASE ~h.bad /\ h.streaming /\ Req[i].stream
  <2>1. f = [h |-> e, buf |-> <<>>, does |-> "waits"]
    BY <1>3, <1>9
  <2>2. Taken(e) + Len(<<>>) <= Taken(h) + Len(buf)
    <3>1. (Len(e.used) + Len(e.sink)) + Len(<<>>) <= (Len(h.used) + Len(h.sink)) + Len(buf)
      <4>1. PICK a \in Nat, c \in Nat, d \in Nat :
              a = Len(h.used) /\ c = Len(h.sink) /\ d = Len(buf)
        BY <1>1
      <4>2. Len(e.used) = a /\ Len(e.sink) = c + d /\ Len(<<>>) = 0
        BY <1>2, <1>4, <1>5, <4>1
      <4>3. (a + (c + d)) + 0 <= (a + c) + d
        OBVIOUS
      <4> QED
        BY <4>1, <4>2, <4>3, Zenon
    <3> QED
      BY <3>1 DEF Taken
  <2>3. Own(i, h.sink) /\ Own(i, buf) => Own(i, e.sink)
    BY <1>4, <1>5
  <2>4. Flushes(i, h, buf, e, <<>>)
    BY <1>2, <1>5, <1>6, <2>2, <2>3 DEF Flushes
  <2> QED
    BY <2>1, <2>4
<1>10. CASE ~h.bad /\ h.streaming /\ ~Req[i].stream
  <2>1. /\ buf # <<>> => f = [h |-> b, buf |-> buf, does |-> "refuses"]
        /\ buf = <<>> => f = [h |-> h, buf |-> buf, does |-> "waits"]
    BY <1>3, <1>10
  <2>2. Flushes(i, h, buf, b, buf)
    BY <1>1, <1>5, <1>6 DEF Flushes, Taken
  <2>3. Flushes(i, h, buf, h, buf)
    BY <1>1, <1>6 DEF Flushes, Taken
  <2> QED
    BY <1>10, <2>1, <2>2, <2>3
<1> QED
  BY <1>1, <1>7, <1>8, <1>9, <1>10, RequestFacts

-----------------------------------------------------------------------------
(***************************************************************************)
(* What the steps share.                                                   *)
(***************************************************************************)

\* A response begun for the request i.
Answers(r, i, m, l) ==
  /\ rd' \in Readers /\ rd'.handler = None /\ rd'.state = None /\ rd'.hdr = r.hdr
  /\ rd'.got = r.got /\ rd'.buf = r.buf /\ rd'.object = r.object
  /\ main' \in Threads /\ main'.at = "sending" /\ main'.then = m.then
  /\ log' \in Logs /\ log'.run = l.run /\ log'.later = l.later /\ log'.raced = l.raced
  /\ log'.begun = l.begun \cup {i}

\* Responds on a request that was not answered (ResponseOpener).
LEMMA RespondFacts ==
  ASSUME NEW r \in Readers, NEW i \in 1..N, NEW m \in Threads, NEW l \in Logs,
         i \notin l.begun, N \in Nat, Responds(r, i, m, l)
  PROVE  Answers(r, i, m, l)
<1>1. /\ rd' \in Readers /\ rd'.handler = None /\ rd'.state = None /\ rd'.hdr = r.hdr
      /\ rd'.got = r.got /\ rd'.buf = r.buf /\ rd'.object = r.object
  <2>1. rd' = [r EXCEPT !.handler = 0, !.state = 0]
    BY DEF Responds, ResetHandler, None
  <2>2. 0 \in 0..N
    OBVIOUS
  <2> QED
    BY <2>1, <2>2 DEF Readers, None
<1>2. /\ main' \in Threads /\ main'.at = "sending" /\ main'.then = m.then
  <2>1. main' = [m EXCEPT !.at = "sending", !.sending = i]
    BY DEF Responds
  <2>2. "sending" \in Places /\ i \in 0..N
    BY DEF Places
  <2> QED
    BY <2>1, <2>2 DEF Threads
<1>3. /\ log' \in Logs /\ log'.run = l.run /\ log'.later = l.later /\ log'.raced = l.raced
      /\ log'.begun = l.begun \cup {i}
  <2>1. PICK c \in SUBSET (0..N) : log' = [l EXCEPT !.begun = @ \cup {i}, !.cut = c]
    <3>1. l.cut \in SUBSET (0..N) /\ r.handler \in 0..N
      BY DEF Logs, Readers
    <3>2. (IF r.handler \notin {None, i} THEN l.cut \cup {r.handler} ELSE l.cut) \in SUBSET (0..N)
      BY <3>1
    <3> QED
      BY <3>2 DEF Responds
  <2> QED
    BY <2>1 DEF Logs
<1> QED
  BY <1>1, <1>2, <1>3 DEF Answers

\* What a flush of the reader r does to the handler i.
Handled(i, r, m) ==
  /\ hs' \in [1..N -> Handlers] /\ \A j \in 1..N : j # i => hs'[j] = hs[j]
  /\ Flushes(i, hs[i], r.buf, hs'[i], rd'.buf)
  /\ log'.run = log.run \/ (log'.run = log.run \cup {i} /\ hs'[i].streaming)
  /\ \/ /\ rd'.handler = i /\ rd'.state = r.state /\ main'.at = m.then
        /\ log'.begun = log.begun /\ objects' = objects
        /\ \/ log'.later = log.later
           \/ log'.later = log.later \cup {i} /\ hs'[i].streaming /\ ~Req[i].stream
     \/ /\ rd'.handler = None /\ rd'.state = None /\ main'.at = "sending"
        /\ log'.begun = log.begun \cup {i} /\ log'.later = log.later
        /\ i \notin log.later

\* What a flush of the reader r does.
Delivers(r, m) ==
  /\ rd' \in Readers /\ rd'.hdr = r.hdr /\ rd'.got = r.got /\ rd'.object = r.object
  /\ main' \in Threads /\ main'.then = m.then /\ log' \in Logs /\ log'.raced = log.raced
  /\ r.handler = None => /\ rd'.handler = None /\ rd'.state = r.state /\ main'.at = m.then
                         /\ hs' = hs /\ log' = log /\ rd'.buf = <<>>
  /\ r.handler # None => Handled(r.handler, r, m)

\* The reader's handler has taken no more than what came, and has not answered.
Ready(r) ==
  LET i == r.handler
  IN /\ Unpacks(i, hs[i]) /\ Taken(hs[i]) + Len(r.buf) <= r.got /\ r.got <= Req[i].size
     /\ i \notin log.begun
     /\ i \in log.later => hs[i].streaming /\ ~Req[i].stream


\* An answering handler has not left its opener with the command: only a command
\* without a stream keeps it while the request is read, and its handler has taken
\* the whole payload.
LEMMA NotPromised ==
  ASSUME ConstantsOK, NEW i \in 1..N, NEW h \in Handlers, NEW buf \in Units, NEW got \in Nat,
         Unpacks(i, h), Taken(h) + Len(buf) <= got, got <= Req[i].size,
         h.streaming, ~Req[i].stream
  PROVE  buf = <<>> /\ got = Req[i].size
<1>1. /\ Req[i].par \in Nat /\ Req[i].size \in Nat
      /\ Len(h.used) \in Nat /\ Len(h.sink) \in Nat /\ Len(buf) \in Nat
  BY RequestFacts DEF Handlers, Units
<1>2. Len(h.used) = Req[i].par /\ Req[i].par >= Req[i].size
  BY DEF Unpacks
<1>3. (Len(h.used) + Len(h.sink)) + Len(buf) <= got
  BY DEF Taken
<1>4. PICK a \in Nat, b \in Nat, c \in Nat, s \in Nat :
        a = Len(h.used) /\ b = Len(h.sink) /\ c = Len(buf) /\ s = Req[i].size
  BY <1>1
<1>5. (a + b) + c <= got /\ got <= s /\ a >= s
  BY <1>2, <1>3, <1>4
<1>6. c = 0 /\ got = s
  BY <1>5
<1>7. Len(buf) = 0
  BY <1>4, <1>6
<1> QED
  BY <1>4, <1>6, <1>7 DEF Units

\* FlushReceiveBuffer.
LEMMA FlushFacts ==
  ASSUME ConstantsOK, NEW r \in Readers, NEW m \in Threads,
         hs \in [1..N -> Handlers], log \in Logs, m.then \in Places,
         r.handler # None => Ready(r),
         FlushReceiveBuffer(r, m)
  PROVE  Delivers(r, m)
<1>1. N \in Nat /\ \A i \in 1..N : Req[i].stream \in BOOLEAN
  BY RequestFacts
<1>2. r.buf \in Units /\ <<>> \in Units /\ r.handler \in 0..N /\ r.got \in Nat
  BY DEF Readers, Units
<1>3. CASE r.handler = None
  <2>1. /\ rd' = [r EXCEPT !.buf = <<>>] /\ main' = [m EXCEPT !.at = m.then]
        /\ hs' = hs /\ log' = log
    BY <1>3 DEF FlushReceiveBuffer
  <2>2. /\ rd' \in Readers /\ rd'.hdr = r.hdr /\ rd'.got = r.got /\ rd'.object = r.object
        /\ rd'.handler = r.handler /\ rd'.state = r.state /\ rd'.buf = <<>>
    BY <1>2, <2>1 DEF Readers
  <2>3. main' \in Threads /\ main'.then = m.then /\ main'.at = m.then
    BY <2>1 DEF Threads
  <2> QED
    BY <1>3, <2>1, <2>2, <2>3 DEF Delivers
<1>4. CASE r.handler # None
  <2> PICK i \in 1..N : i = r.handler
    BY <1>1, <1>2, <1>4 DEF None
  <2> DEFINE f == Flushed(i, r.buf)
             q == [r EXCEPT !.buf = f.buf]
             l == [log EXCEPT !.run = @ \cup {i}]
  <2>1. /\ Unpacks(i, hs[i]) /\ Taken(hs[i]) + Len(r.buf) <= r.got /\ r.got <= Req[i].size
        /\ i \notin log.begun /\ hs[i] \in Handlers
        /\ i \in log.later => hs[i].streaming /\ ~Req[i].stream
    BY <1>4 DEF Ready
  <2>2. /\ Flushes(i, hs[i], r.buf, f.h, f.buf)
        /\ f.does \in {"waits", "runs", "refuses"}
        /\ f.does = "runs" => f.h.streaming /\ ~hs[i].streaming
        /\ f.does = "refuses" => ~hs[i].streaming \/ (~Req[i].stream /\ r.buf # <<>>)
    BY <1>2, <2>1, FlushedFacts
  <2>3. i \in log.later => f.does = "waits"
    BY <1>2, <2>1, <2>2, NotPromised
  <2>4. /\ hs' = [hs EXCEPT ![i] = f.h]
        /\ f.does = "waits" => /\ rd' = q /\ main' = [m EXCEPT !.at = m.then]
                               /\ objects' = objects /\ log' = log
        /\ f.does = "refuses" => Responds(q, i, m, log) /\ UNCHANGED objects
        /\ f.does = "runs" => Runs(i, q, m)
    BY <1>4, <2>2 DEF FlushReceiveBuffer
  <2>5. f.h \in Handlers /\ f.buf \in Units
    BY <2>2 DEF Flushes
  <2> HIDE DEF f
  <2>6. /\ q \in Readers /\ q.hdr = r.hdr /\ q.got = r.got /\ q.object = r.object
        /\ q.handler = i /\ q.state = r.state /\ q.buf = f.buf
    BY <2>5 DEF Readers
  <2>7. /\ hs' \in [1..N -> Handlers] /\ \A j \in 1..N : j # i => hs'[j] = hs[j]
        /\ hs'[i] = f.h
    BY <2>4, <2>5
  <2>8. l \in Logs /\ l.run = log.run \cup {i} /\ l.begun = log.begun /\ l.later = log.later
        /\ l.raced = log.raced
    BY DEF Logs
  <2> HIDE DEF q, l
  <2> DEFINE on == [m EXCEPT !.at = m.then]
  <2>9. on \in Threads /\ on.then = m.then /\ on.at = m.then
    BY DEF Threads
  <2> HIDE DEF on
  <2>10. ASSUME NEW g \in Logs, g.run = log.run \/ (g.run = log.run \cup {i} /\ f.h.streaming),
                g.begun = log.begun, g.raced = log.raced,
                \/ g.later = log.later
                \/ g.later = log.later \cup {i} /\ f.h.streaming /\ ~Req[i].stream,
                rd' = q, main' = on, log' = g, objects' = objects
         PROVE  Delivers(r, m)
    <3>1. Handled(i, r, m)
      BY <2>2, <2>6, <2>7, <2>9, <2>10 DEF Handled
    <3> QED
      BY <1>4, <2>6, <2>9, <2>10, <3>1 DEF Delivers
  <2>11. ASSUME NEW g \in Logs, g.run = log.run \/ (g.run = log.run \cup {i} /\ f.h.streaming),
                g.begun = log.begun, g.raced = log.raced, g.later = log.later,
                NEW t \in Threads, t.then = m.then, Responds(q, i, t, g), f.does # "waits"
         PROVE  Delivers(r, m)
    <3>1. Answers(q, i, t, g)
      BY <1>1, <2>1, <2>6, <2>11, RespondFacts
    <3>2. /\ rd' \in Readers /\ rd'.handler = None /\ rd'.state = None /\ rd'.hdr = r.hdr
          /\ rd'.got = r.got /\ rd'.buf = f.buf /\ rd'.object = r.object
          /\ main' \in Threads /\ main'.at = "sending" /\ main'.then = m.then
          /\ log' \in Logs /\ log'.run = g.run /\ log'.later = log.later
          /\ log'.raced = log.raced /\ log'.begun = log.begun \cup {i}
      BY <2>6, <2>11, <3>1 DEF Answers
    <3>3. Handled(i, r, m)
      BY <2>2, <2>3, <2>7, <2>11, <3>2 DEF Handled
    <3> QED
      BY <1>4, <3>2, <3>3 DEF Delivers
  <2>12. CASE f.does = "waits"
    BY <2>4, <2>10, <2>12 DEF on
  <2>13. CASE f.does = "refuses"
    BY <2>4, <2>11, <2>13
  <2>14. CASE f.does = "runs"
    <3>0. f.h.streaming
      BY <2>2, <2>14
    <3>1. \/ /\ rd' = q /\ main' = on /\ log' = l /\ objects' = objects
          \/ Responds(q, i, m, l)
          \/ Responds(q, i, [m EXCEPT !.next = @ + 1], l)
          \/ /\ ~Req[i].stream /\ rd' = q /\ main' = on
             /\ log' = [l EXCEPT !.later = @ \cup {i}] /\ objects' = objects
      BY <2>4, <2>14 DEF Runs, l, on
    <3>2. CASE rd' = q /\ main' = on /\ log' = l /\ objects' = objects
      BY <2>8, <2>10, <3>0, <3>2
    <3>3. CASE Responds(q, i, m, l)
      BY <2>8, <2>11, <2>14, <3>0, <3>3
    <3>4. CASE Responds(q, i, [m EXCEPT !.next = @ + 1], l)
      <4> DEFINE t == [m EXCEPT !.next = @ + 1]
      <4>1. t \in Threads /\ t.then = m.then
        BY DEF Threads
      <4> HIDE DEF t
      <4> QED
        BY <2>8, <2>11, <2>14, <3>0, <3>4, <4>1 DEF t
    <3>5. CASE /\ ~Req[i].stream /\ rd' = q /\ main' = on
               /\ log' = [l EXCEPT !.later = @ \cup {i}] /\ objects' = objects
      <4> DEFINE g == [l EXCEPT !.later = @ \cup {i}]
      <4>1. g \in Logs /\ g.run = l.run /\ g.begun = l.begun /\ g.raced = l.raced
            /\ g.later = l.later \cup {i}
        BY <2>8 DEF Logs
      <4> HIDE DEF g
      <4>2. log' = g
        BY <3>5 DEF g
      <4> QED
        BY <2>8, <2>10, <3>0, <3>5, <4>1, <4>2
    <3> QED
      BY <3>1, <3>2, <3>3, <3>4, <3>5
  <2> QED
    BY <2>2, <2>12, <2>13, <2>14
<1> QED
  BY <1>3, <1>4

-----------------------------------------------------------------------------
(***************************************************************************)
(* Parts of the invariant that a step does not touch.                      *)
(***************************************************************************)

\* No header arrives and no request is met.
LEMMA FreshKept ==
  ASSUME Fresh, Upcoming' = Upcoming,
         ep'.meta = "done" => ep.meta = "done" /\ ep'.hdr = ep.hdr,
         \A i \in 1..N : Seen(i)' => Seen(i)
  PROVE  Fresh'
BY DEF Fresh

\* The reader has met no request but the current one anew.
LEMMA SeenKept ==
  ASSUME rd'.hdr = rd.hdr, hs' = hs, log'.run = log.run, log'.begun = log.begun,
         log'.later = log.later
  PROVE  \A i \in 1..N : Seen(i)' => Seen(i)
BY DEF Seen

\* Reader, handlers and what they did stay.
LEMMA HandlerKept ==
  ASSUME HandlerInv, rd' = rd, hs' = hs, log'.run = log.run, log'.begun = log.begun,
         log'.later = log.later, main.at = "cleanup" => main'.at = "cleanup"
  PROVE  HandlerInv'
<1>1. \A i \in 1..N : Bounded(i) => Bounded(i)'
  BY DEF Bounded
<1> QED
  BY <1>1 DEF HandlerInv

\* The reader lets go of the handler, which may have answered.
LEMMA HandlerReleased ==
  ASSUME HandlerInv, hs' = hs, log'.run = log.run, rd'.hdr = rd.hdr,
         rd.hdr # None => rd'.got <= Req[rd.hdr].size,
         rd'.handler = None, rd'.state = None, log'.later \cap log'.begun = {}
  PROVE  HandlerInv'
<1>1. \A i \in 1..N : Bounded(i) => Bounded(i)'
  BY DEF Bounded
<1> QED
  BY <1>1 DEF HandlerInv

\* The buffered units and the handlers stay, or the reader lets go of the handler.
LEMMA UnitsKept ==
  ASSUME Kept, hs' = hs, rd'.handler = None \/ (rd'.handler = rd.handler /\ rd'.buf = rd.buf)
  PROVE  Kept'
BY DEF Kept

\* Nothing is posted and nothing arrives.
LEMMA SyncKept ==
  ASSUME Sync, host' = host, rd'.hdr = rd.hdr, rd'.got = rd.got, ep'.data = ep.data,
         ep'.moved = ep.moved, ep'.meta = "done" => ep.meta = "done" /\ ep'.hdr = ep.hdr,
         Reading' => Reading, Busy' => ep.data = "none", main'.at # "abort"
  PROVE  Sync'
<1>1. Rest' = Rest
  BY DEF Rest
<1>2. Expected => Expected'
  BY <1>1 DEF Expected
<1>3. Matches => Matches'
  BY DEF Matches
<1>4. ep'.meta = "done" => (Follows => Follows')
  BY DEF Follows
<1> QED
  BY <1>2, <1>3, <1>4 DEF Sync

\* The types of the parts.
LEMMA TypeFacts ==
  ASSUME ConstantsOK, BridgeType
  PROVE  /\ N \in Nat \ {0}
         /\ host.req \in 1..N /\ host.left \in Nat
         /\ host.at \in {"meta", "data", "objs", "done"}
         /\ ep.hdr \in 0..N /\ ep.data \in DataStates /\ ep.room \in Nat /\ ep.moved \in Units
         /\ Len(ep.moved) \in Nat
         /\ rd.hdr \in 0..N /\ rd.got \in Nat /\ rd.buf \in Units /\ Len(rd.buf) \in Nat
         /\ rd.handler \in 0..N /\ rd.state \in 0..N
         /\ \A i \in 1..N : hs[i] \in Handlers
         /\ main.then \in {"idle", "advance", "finish", "cleanup"} /\ main.at \in Places
         /\ log.later \subseteq 1..N /\ log.begun \subseteq 1..N /\ log.run \subseteq 1..N
<1>1. N \in Nat \ {0}
  BY RequestFacts
<1>2. host \in Hosts /\ ep \in Endpoints /\ rd \in Readers /\ hs \in [1..N -> Handlers]
      /\ main \in Threads /\ log \in Logs
  BY DEF BridgeType
<1>3. ep.moved \in Units /\ rd.buf \in Units
  BY <1>2 DEF Endpoints, Readers
<1>4. Len(ep.moved) \in Nat /\ Len(rd.buf) \in Nat
  BY <1>3 DEF Units
<1>5. host.req \in 1..N /\ host.left \in Nat /\ host.at \in {"meta", "data", "objs", "done"}
  BY <1>2 DEF Hosts
<1>6. ep.hdr \in 0..N /\ ep.data \in DataStates /\ ep.room \in Nat
  BY <1>2 DEF Endpoints
<1>7. rd.hdr \in 0..N /\ rd.got \in Nat /\ rd.handler \in 0..N /\ rd.state \in 0..N
  BY <1>2 DEF Readers
<1>8. main.then \in {"idle", "advance", "finish", "cleanup"} /\ main.at \in Places
  BY <1>2 DEF Threads
<1>9. log.later \subseteq 1..N /\ log.begun \subseteq 1..N /\ log.run \subseteq 1..N
  BY <1>2 DEF Logs
<1> QED
  BY <1>1, <1>2, <1>3, <1>4, <1>5, <1>6, <1>7, <1>8, <1>9

\* The host goes on with its next request.
LEMMA NextFacts ==
  ASSUME ConstantsOK, host \in Hosts
  PROVE  /\ NextRequest \in Hosts
         /\ host' = NextRequest /\ host.at # "meta" => Upcoming' = Upcoming
         /\ host' = NextRequest => Upcoming' = host.req + 1
<1>1. N \in Nat \ {0} /\ host.req \in 1..N
  BY RequestFacts DEF Hosts
<1>2. NextRequest \in Hosts
  <2>1. CASE host.req = N
    BY <2>1 DEF NextRequest, Hosts
  <2>2. CASE host.req # N
    <3>1. host.req + 1 \in 1..N
      BY <1>1, <2>2
    <3> QED
      BY <2>2, <3>1 DEF NextRequest, Hosts
  <2> QED
    BY <2>1, <2>2
<1>3. ASSUME host' = NextRequest PROVE Upcoming' = host.req + 1
  <2>1. CASE host.req = N
    <3>1. host'.at = "done" /\ host'.req = host.req
      BY <1>3, <2>1 DEF NextRequest, Hosts
    <3> QED
      BY <3>1 DEF Upcoming
  <2>2. CASE host.req # N
    BY <1>3, <2>2 DEF NextRequest, Upcoming
  <2> QED
    BY <2>1, <2>2
<1>4. host.at # "meta" => Upcoming = host.req + 1
  BY DEF Upcoming
<1> QED
  BY <1>2, <1>3, <1>4

\* A header arrives, the next one.
LEMMA HostSendMetaKeeps ==
  ASSUME ConstantsOK, ReaderInv, HostSendMeta
  PROVE  ReaderInv'
<1> DEFINE q == Req[host.req]
<1>1. /\ BridgeType /\ Fresh /\ HandlerInv /\ HandlerLive /\ (~log.raced => Sync /\ Kept)
      /\ host.at = "meta" /\ ep.meta = "posted"
      /\ ep' = [ep EXCEPT !.meta = "done", !.hdr = host.req]
      /\ host' = (IF q.size > 0 THEN [host EXCEPT !.at = "data", !.left = q.size]
                  ELSE IF q.objs > 0 THEN [host EXCEPT !.at = "objs"] ELSE NextRequest)
      /\ rd' = rd /\ hs' = hs /\ objects' = objects /\ main' = main /\ log' = log
  BY DEF ReaderInv, HostSendMeta
<1>2. /\ N \in Nat \ {0} /\ host.req \in 1..N /\ rd.hdr \in 0..N /\ host.req \in 0..N
      /\ host.req # None
  BY <1>1, TypeFacts DEF None
<1>3. q.size \in Nat /\ q.objs \in Nat
  BY <1>2, RequestFacts
<1> HIDE DEF q
<1>4. host \in Hosts /\ ep \in Endpoints
  BY <1>1 DEF BridgeType
<1>5. ep' \in Endpoints /\ ep'.meta = "done" /\ ep'.hdr = host.req /\ ep'.data = ep.data
      /\ ep'.moved = ep.moved
  BY <1>1, <1>2, <1>4 DEF Endpoints
<1>6. /\ host' \in Hosts
      /\ q.size > 0 => host'.at = "data" /\ host'.req = host.req /\ host'.left = q.size
      /\ q.size = 0 /\ q.objs > 0 => host'.at = "objs" /\ host'.req = host.req
      /\ Upcoming' = host.req + 1
  <2>1. CASE q.size > 0
    <3>1. host' = [host EXCEPT !.at = "data", !.left = q.size]
      BY <1>1, <2>1
    <3>2. host' \in Hosts /\ host'.at = "data" /\ host'.req = host.req /\ host'.left = q.size
      BY <1>3, <1>4, <3>1 DEF Hosts
    <3> QED
      BY <1>3, <2>1, <3>2 DEF Upcoming
  <2>2. CASE q.size = 0 /\ q.objs > 0
    <3>1. host' = [host EXCEPT !.at = "objs"]
      BY <1>1, <2>2
    <3>2. host' \in Hosts /\ host'.at = "objs" /\ host'.req = host.req
      BY <1>4, <3>1 DEF Hosts
    <3> QED
      BY <2>2, <3>2 DEF Upcoming
  <2>3. CASE q.size = 0 /\ q.objs = 0
    <3>1. host' = NextRequest
      BY <1>1, <2>3
    <3> QED
      BY <1>4, <2>3, <3>1, NextFacts
  <2> QED
    BY <1>3, <2>1, <2>2, <2>3
<1>7. BridgeType'
  BY <1>1, <1>2, <1>5, <1>6 DEF BridgeType, Reading, GoesOn
<1>8. Fresh'
  <2>1. Upcoming = host.req
    BY <1>1 DEF Upcoming
  <2>2. \A i \in 1..N : Seen(i)' => Seen(i)
    BY <1>1, SeenKept
  <2>3. \A i \in 1..N : Seen(i) => i < host.req
    BY <1>1, <2>1 DEF Fresh
  <2>4. \A i \in 1..N : i < host.req => i < host.req + 1
    BY <1>2
  <2>5. host.req < host.req + 1
    BY <1>2
  <2> QED
    BY <1>5, <1>6, <2>2, <2>3, <2>4, <2>5 DEF Fresh
<1>9. HandlerInv' /\ HandlerLive'
  BY <1>1, HandlerKept DEF HandlerLive
<1>10. ASSUME ~log.raced PROVE Sync' /\ Kept'
  <2>1. Sync /\ Kept
    BY <1>1, <1>10
  <2>2. Kept'
    BY <1>1, <2>1, UnitsKept
  <2>3. Reading' => Reading
    BY <1>1, <1>5 DEF Reading, GoesOn
  <2>4. Rest' = Rest
    BY <1>1, <1>5 DEF Rest
  <2>5. Reading => Expected'
    BY <1>1, <1>5, <2>1, <2>4 DEF Sync, Expected
  <2>6. Matches'
    BY <1>1, <1>5, <2>1 DEF Sync, Matches
  <2>7. Follows'
    BY <1>5, <1>6 DEF Follows, q
  <2>8. main'.at # "abort" /\ (Busy' => ep'.data = "none")
    BY <1>1, <1>5, <2>1 DEF Sync, Busy
  <2> QED
    BY <2>2, <2>3, <2>5, <2>6, <2>7, <2>8 DEF Sync
<1> QED
  BY <1>1, <1>7, <1>8, <1>9, <1>10 DEF ReaderInv

\* The units of a transfer.
LEMMA TransferFacts ==
  ASSUME ConstantsOK, BridgeType, NEW k \in Nat, Completes(k)
  PROVE  /\ ep' \in Endpoints /\ ep'.meta = ep.meta /\ ep'.hdr = ep.hdr
         /\ ep'.data = (IF ep.data = "payload" THEN "payload done" ELSE "ids done")
         /\ ep'.moved \in Units /\ Len(ep'.moved) = k /\ Own(host.req, ep'.moved)
<1> DEFINE w == [j \in 1..k |-> host.req]
<1>1. host.req \in 1..N /\ ep \in Endpoints
  BY TypeFacts DEF BridgeType
<1>2. w \in Units /\ Len(w) = k /\ Own(host.req, w)
  <2>1. w \in Seq(1..N)
    BY <1>1
  <2>2. Len(w) = k
    BY <2>1
  <2> QED
    BY <2>1, <2>2 DEF Units, Own
<1>3. ep' = [ep EXCEPT !.data = IF ep.data = "payload" THEN "payload done" ELSE "ids done",
                       !.moved = w]
  BY DEF Completes
<1> HIDE DEF w
<1>4. (IF ep.data = "payload" THEN "payload done" ELSE "ids done") \in DataStates
  BY DEF DataStates
<1> QED
  BY <1>1, <1>2, <1>3, <1>4 DEF Endpoints

\* Payload arrives.
LEMMA HostSendDataKeeps ==
  ASSUME ConstantsOK, ReaderInv, HostSendData
  PROVE  ReaderInv'
<1> PICK k \in 1..Lesser(host.left, ep.room) :
       /\ Completes(k)
       /\ host' = IF k < host.left THEN [host EXCEPT !.left = @ - k]
                  ELSE IF Req[host.req].objs > 0 THEN [host EXCEPT !.at = "objs", !.left = 0]
                  ELSE NextRequest
  BY DEF HostSendData
<1>1. /\ BridgeType /\ Fresh /\ HandlerInv /\ HandlerLive /\ (~log.raced => Sync /\ Kept)
      /\ host.at = "data" /\ ep.data \in {"payload", "ids"}
      /\ rd' = rd /\ hs' = hs /\ objects' = objects /\ main' = main /\ log' = log
  BY DEF ReaderInv, HostSendData
<1>2. /\ N \in Nat \ {0} /\ host.req \in 1..N /\ rd.hdr \in 0..N /\ host.left \in Nat
      /\ ep.room \in Nat
  BY <1>1, TypeFacts
<1>3. k \in Nat /\ 1 <= k /\ k <= host.left
  BY <1>2 DEF Lesser
<1>4. Req[host.req].size \in Nat /\ Req[host.req].objs \in Nat /\ host \in Hosts
  BY <1>1, <1>2, RequestFacts DEF BridgeType
<1>5. /\ ep' \in Endpoints /\ ep'.meta = ep.meta /\ ep'.hdr = ep.hdr
      /\ ep'.data = (IF ep.data = "payload" THEN "payload done" ELSE "ids done")
      /\ ep'.moved \in Units /\ Len(ep'.moved) = k /\ Own(host.req, ep'.moved)
  BY <1>1, <1>3, TransferFacts
<1>6. /\ host' \in Hosts /\ Upcoming' = Upcoming
      /\ k < host.left => host'.at = "data" /\ host'.req = host.req /\ host'.left = host.left - k
      /\ k = host.left /\ Req[host.req].objs > 0 => host'.at = "objs" /\ host'.req = host.req
  <2>1. CASE k < host.left
    <3>1. host' = [host EXCEPT !.left = host.left - k]
      BY <2>1
    <3>2. host.left - k \in Nat
      BY <1>2, <1>3
    <3>3. /\ host' \in Hosts /\ host'.at = "data" /\ host'.req = host.req
          /\ host'.left = host.left - k
      BY <1>1, <1>4, <3>1, <3>2 DEF Hosts
    <3> QED
      BY <1>1, <2>1, <3>3 DEF Upcoming
  <2>2. CASE k = host.left /\ Req[host.req].objs > 0
    <3>1. host' = [host EXCEPT !.at = "objs", !.left = 0]
      BY <1>2, <2>2
    <3>2. host' \in Hosts /\ host'.at = "objs" /\ host'.req = host.req
      <4>1. 0 \in Nat /\ "objs" \in {"meta", "data", "objs", "done"}
        OBVIOUS
      <4> QED
        BY <1>4, <3>1, <4>1 DEF Hosts
    <3> QED
      BY <1>1, <1>2, <2>2, <3>2 DEF Upcoming
  <2>3. CASE k = host.left /\ Req[host.req].objs = 0
    <3>1. host' = NextRequest
      BY <1>2, <2>3
    <3> QED
      BY <1>1, <1>2, <1>4, <2>3, <3>1, NextFacts
  <2> QED
    BY <1>2, <1>3, <1>4, <2>1, <2>2, <2>3
<1>7. Reading /\ rd.hdr # None
  BY <1>1 DEF BridgeType, Reading
<1>8. BridgeType'
  BY <1>1, <1>5, <1>6, <1>7 DEF BridgeType
<1>9. Fresh'
  BY <1>1, <1>5, <1>6, SeenKept, FreshKept
<1>10. HandlerInv' /\ HandlerLive'
  BY <1>1, HandlerKept DEF HandlerLive
<1>11. ASSUME ~log.raced PROVE Sync' /\ Kept'
  <2>1. Sync /\ Kept
    BY <1>1, <1>11
  <2>2. Kept'
    BY <1>1, <2>1, UnitsKept
  <2>3. rd.hdr \in 1..N
    BY <1>2, <1>7 DEF None
  <2>4. rd.got \in Nat /\ Req[rd.hdr].size \in Nat /\ Req[rd.hdr].objs \in Nat
    BY <1>1, <2>3, TypeFacts, RequestFacts
  <2>5. PICK s \in Nat, g \in Nat : s = Req[rd.hdr].size /\ g = rd.got
    BY <2>4
  <2>a. Rest = s - g
    <3>1. Rest = (s - g) - 0
      BY <1>1, <2>5 DEF Rest
    <3> QED
      BY <3>1
  <2>6. ep.data = "payload"
    <3> SUFFICES ASSUME ep.data = "ids" PROVE FALSE
      BY <1>1
    <3>1. g = s /\ Req[rd.hdr].objs > 0
      BY <2>1, <2>5 DEF Sync, Matches
    <3>2. Rest = 0
      BY <2>a, <3>1
    <3>3. Expected
      BY <1>7, <2>1 DEF Sync
    <3> QED
      BY <1>1, <3>1, <3>2, <3>3 DEF Expected
  <2>7. rd.got < Req[rd.hdr].size
    BY <2>1, <2>6 DEF Sync, Matches
  <2>8. host.req = rd.hdr /\ host.left = s - g
    <3>1. s - g > 0
      BY <2>5, <2>7
    <3>2. Expected
      BY <1>7, <2>1 DEF Sync
    <3> QED
      BY <2>a, <3>1, <3>2 DEF Expected
  <2>9. ep'.data = "payload done"
    BY <1>5, <2>6
  <2>10. Rest' = (s - g) - k
    BY <1>1, <1>5, <2>5, <2>9 DEF Rest
  <2>11. PICK t \in Nat : t = host.left - k /\ t = (s - g) - k
    BY <1>2, <1>3, <2>8
  <2>12. Expected'
    <3>1. t >= 0
      BY <2>11
    <3>2. t > 0 => host'.at = "data" /\ host'.req = rd'.hdr /\ host'.left = t
      BY <1>1, <1>2, <1>3, <1>6, <2>8, <2>11
    <3>3. t = 0 /\ Req[rd'.hdr].objs > 0 => host'.at = "objs" /\ host'.req = rd'.hdr
      BY <1>1, <1>2, <1>3, <1>6, <2>8, <2>11
    <3>4. Rest' = t
      BY <2>10, <2>11
    <3> QED
      BY <3>1, <3>2, <3>3, <3>4, Zenon DEF Expected
  <2>13. Matches'
    BY <1>1, <1>5, <2>7, <2>8, <2>9 DEF Matches
  <2>14. ep'.meta = "done" => Follows'
    <3> SUFFICES ASSUME ep.meta = "done" PROVE Follows'
      BY <1>5
    <3>1. rd.hdr < ep.hdr
      BY <1>1, <2>3 DEF Fresh, Seen
    <3>2. host.req # ep.hdr
      BY <2>3, <2>8, <3>1
    <3>3. Follows
      BY <2>1 DEF Sync
    <3>4. ~(Req[ep.hdr].size > 0) /\ ~(Req[ep.hdr].size = 0 /\ Req[ep.hdr].objs > 0)
      BY <3>2, <3>3 DEF Follows
    <3> QED
      BY <1>5, <3>4 DEF Follows
  <2>15. main'.at # "abort" /\ ~Busy'
    BY <1>1, <2>1, <2>6 DEF Sync, Busy
  <2> QED
    BY <2>2, <2>12, <2>13, <2>14, <2>15 DEF Sync
<1> QED
  BY <1>1, <1>8, <1>9, <1>10, <1>11 DEF ReaderInv

\* Object ids arrive.
LEMMA HostSendObjsKeeps ==
  ASSUME ConstantsOK, ReaderInv, HostSendObjs
  PROVE  ReaderInv'
<1>1. /\ BridgeType /\ Fresh /\ HandlerInv /\ HandlerLive /\ (~log.raced => Sync /\ Kept)
      /\ host.at = "objs" /\ ep.data \in {"payload", "ids"} /\ host' = NextRequest
      /\ Completes(Req[host.req].objs)
      /\ rd' = rd /\ hs' = hs /\ objects' = objects /\ main' = main /\ log' = log
  BY DEF ReaderInv, HostSendObjs
<1>2. N \in Nat \ {0} /\ host.req \in 1..N /\ rd.hdr \in 0..N
  BY <1>1, TypeFacts
<1>3. PICK k \in Nat : k = Req[host.req].objs
  BY <1>2, RequestFacts
<1>4. host \in Hosts
  BY <1>1 DEF BridgeType
<1>5. /\ ep' \in Endpoints /\ ep'.meta = ep.meta /\ ep'.hdr = ep.hdr
      /\ ep'.data = (IF ep.data = "payload" THEN "payload done" ELSE "ids done")
      /\ ep'.moved \in Units
  BY <1>1, <1>3, TransferFacts
<1>6. host' \in Hosts /\ Upcoming' = Upcoming
  BY <1>1, <1>4, NextFacts
<1>7. Reading /\ rd.hdr # None
  BY <1>1 DEF BridgeType, Reading
<1>8. BridgeType'
  BY <1>1, <1>5, <1>6, <1>7 DEF BridgeType
<1>9. Fresh'
  BY <1>1, <1>5, <1>6, SeenKept, FreshKept
<1>10. HandlerInv' /\ HandlerLive'
  BY <1>1, HandlerKept DEF HandlerLive
<1>11. ASSUME ~log.raced PROVE Sync' /\ Kept'
  <2>1. Sync /\ Kept
    BY <1>1, <1>11
  <2>2. Kept'
    BY <1>1, <2>1, UnitsKept
  <2>3. rd.hdr \in 1..N
    BY <1>2, <1>7 DEF None
  <2>4. rd.got \in Nat /\ Req[rd.hdr].size \in Nat /\ Req[rd.hdr].objs \in Nat
    BY <1>1, <2>3, TypeFacts, RequestFacts
  <2>5. PICK s \in Nat, g \in Nat : s = Req[rd.hdr].size /\ g = rd.got
    BY <2>4
  <2>a. Rest = s - g
    <3>1. Rest = (s - g) - 0
      BY <1>1, <2>5 DEF Rest
    <3> QED
      BY <3>1
  <2>6. ep.data = "ids"
    <3> SUFFICES ASSUME ep.data = "payload" PROVE FALSE
      BY <1>1
    <3>1. rd.got < Req[rd.hdr].size
      BY <2>1 DEF Sync, Matches
    <3>2. s - g > 0
      BY <2>5, <3>1
    <3>3. Expected
      BY <1>7, <2>1 DEF Sync
    <3> QED
      BY <1>1, <2>a, <3>2, <3>3 DEF Expected
  <2>7. rd.got = Req[rd.hdr].size /\ Req[rd.hdr].objs > 0
    BY <2>1, <2>6 DEF Sync, Matches
  <2>8. host.req = rd.hdr
    <3>1. Rest = 0
      BY <2>5, <2>a, <2>7
    <3>2. Expected
      BY <1>7, <2>1 DEF Sync
    <3> QED
      BY <2>6, <2>7, <3>1, <3>2 DEF Expected
  <2>9. ep'.data = "ids done"
    BY <1>5, <2>6
  <2>10. Rest' = 0
    <3>1. Rest' = (s - g) - 0
      BY <1>1, <2>5, <2>9 DEF Rest
    <3> QED
      BY <2>5, <2>7, <3>1
  <2>11. Expected'
    <3>1. 0 >= 0 /\ ~(0 > 0)
      OBVIOUS
    <3> QED
      BY <2>9, <2>10, <3>1, Zenon DEF Expected
  <2>12. Matches'
    BY <1>1, <2>7, <2>9 DEF Matches
  <2>13. ep'.meta = "done" => Follows'
    <3> SUFFICES ASSUME ep.meta = "done" PROVE Follows'
      BY <1>5
    <3>1. rd.hdr < ep.hdr
      BY <1>1, <2>3 DEF Fresh, Seen
    <3>2. host.req # ep.hdr
      BY <2>3, <2>8, <3>1
    <3>3. Follows
      BY <2>1 DEF Sync
    <3>4. ~(Req[ep.hdr].size > 0) /\ ~(Req[ep.hdr].size = 0 /\ Req[ep.hdr].objs > 0)
      BY <3>2, <3>3 DEF Follows
    <3> QED
      BY <1>5, <3>4 DEF Follows
  <2>14. main'.at # "abort" /\ ~Busy'
    BY <1>1, <2>1, <2>6 DEF Sync, Busy
  <2> QED
    BY <2>2, <2>11, <2>12, <2>13, <2>14 DEF Sync
<1> QED
  BY <1>1, <1>8, <1>9, <1>10, <1>11 DEF ReaderInv

\* A step of the main thread that changes neither reader nor handlers, takes
\* nothing from the endpoints and does not leave a request half way.
LEMMA PassingKeeps ==
  ASSUME ConstantsOK, ReaderInv, host' = host, rd' = rd, hs' = hs, objects' = objects,
         ep' \in Endpoints, ep'.data = ep.data, ep'.moved = ep.moved, ep'.hdr = ep.hdr,
         ep'.meta = "done" => ep.meta = "done",
         main' \in Threads, main.at = "cleanup" => main'.at = "cleanup",
         log' \in Logs, log'.run = log.run, log'.begun = log.begun, log'.later = log.later,
         log'.raced = log.raced, GoesOn' => GoesOn,
         ~log.raced => main'.at # "abort" /\ (Busy' => ep.data = "none")
  PROVE  ReaderInv'
<1>1. BridgeType /\ Fresh /\ HandlerInv /\ HandlerLive /\ (~log.raced => Sync /\ Kept)
  BY DEF ReaderInv
<1>2. Reading' => Reading
  BY DEF Reading
<1>3. BridgeType'
  BY <1>1, <1>2 DEF BridgeType
<1>4. Fresh'
  <2>1. Upcoming' = Upcoming
    BY DEF Upcoming
  <2> QED
    BY <1>1, <2>1, SeenKept, FreshKept
<1>5. HandlerInv' /\ HandlerLive'
  BY <1>1, HandlerKept DEF HandlerLive
<1>6. ASSUME ~log.raced PROVE Sync' /\ Kept'
  BY <1>1, <1>2, <1>6, SyncKept, UnitsKept
<1> QED
  BY <1>1, <1>3, <1>4, <1>5, <1>6 DEF ReaderInv

\* Both endpoints are ready.
LEMMA USBStateChangeCallbackKeeps ==
  ASSUME ConstantsOK, ReaderInv, USBStateChangeCallback
  PROVE  ReaderInv'
<1>1. /\ main.at = "down" /\ main' = [main EXCEPT !.at = "idle"]
      /\ ep' = [ep EXCEPT !.meta = "posted"]
      /\ host' = host /\ rd' = rd /\ hs' = hs /\ objects' = objects /\ log' = log
  BY DEF USBStateChangeCallback
<1>2. ep \in Endpoints /\ main \in Threads /\ log \in Logs
  BY DEF ReaderInv, BridgeType
<1>3. /\ ep' \in Endpoints /\ ep'.data = ep.data /\ ep'.moved = ep.moved /\ ep'.hdr = ep.hdr
      /\ ep'.meta = "posted"
  BY <1>1, <1>2 DEF Endpoints
<1>4. main' \in Threads /\ main'.at = "idle"
  BY <1>1, <1>2 DEF Threads, Places
<1>5. ~GoesOn' /\ ~Busy'
  BY <1>4 DEF GoesOn, Busy
<1> QED
  BY <1>1, <1>2, <1>3, <1>4, <1>5, PassingKeeps

\* The transfers of a response are done.
LEMMA ResponseSentKeeps ==
  ASSUME ConstantsOK, ReaderInv, ResponseSent
  PROVE  ReaderInv'
<1>1. /\ main.at = "sending"
      /\ main' = [main EXCEPT !.at = main.then, !.sending = None, !.then = "idle"]
      /\ log' = [log EXCEPT !.answered = @ \cup {main.sending}]
      /\ host' = host /\ ep' = ep /\ rd' = rd /\ hs' = hs /\ objects' = objects
  BY DEF ResponseSent
<1>2. ep \in Endpoints /\ main \in Threads /\ log \in Logs /\ (~log.raced => Sync)
  BY DEF ReaderInv, BridgeType
<1>3. N \in Nat
  BY RequestFacts
<1>4. main' \in Threads /\ main'.at = main.then
  <2>1. main.then \in Places
    BY <1>2 DEF Threads, Places
  <2>2. None \in 0..N
    BY <1>3 DEF None
  <2> QED
    BY <1>1, <1>2, <2>1, <2>2 DEF Threads
<1>5. /\ log' \in Logs /\ log'.run = log.run /\ log'.begun = log.begun
      /\ log'.later = log.later /\ log'.raced = log.raced
  <2>1. log.answered \cup {main.sending} \in SUBSET (0..N)
    BY <1>2 DEF Logs, Threads
  <2> QED
    BY <1>1, <1>2, <2>1 DEF Logs
<1>6. GoesOn' => GoesOn
  BY <1>1, <1>2, <1>4 DEF GoesOn, Threads
<1>7. main'.at # "abort" /\ (Busy' => Busy)
  BY <1>1, <1>2, <1>4 DEF Threads, Busy
<1> QED
  BY <1>1, <1>2, <1>4, <1>5, <1>6, <1>7, PassingKeeps DEF Sync

\* A callback returns.
LEMMA ReturnKeeps ==
  ASSUME ConstantsOK, ReaderInv, Return
  PROVE  ReaderInv'
<1>1. /\ main.at = "return" /\ main' = [main EXCEPT !.at = "idle", !.inMeta = FALSE]
      /\ ep' = IF main.inMeta THEN [ep EXCEPT !.meta = "posted"] ELSE ep
      /\ host' = host /\ rd' = rd /\ hs' = hs /\ objects' = objects /\ log' = log
  BY DEF Return
<1>2. ep \in Endpoints /\ main \in Threads /\ log \in Logs
  BY DEF ReaderInv, BridgeType
<1>3. /\ ep' \in Endpoints /\ ep'.data = ep.data /\ ep'.moved = ep.moved /\ ep'.hdr = ep.hdr
      /\ ep'.meta = "done" => ep.meta = "done"
  <2>1. CASE main.inMeta
    BY <1>1, <1>2, <2>1 DEF Endpoints
  <2>2. CASE ~main.inMeta
    BY <1>1, <1>2, <2>2
  <2> QED
    BY <2>1, <2>2
<1>4. main' \in Threads /\ main'.at = "idle"
  BY <1>1, <1>2 DEF Threads, Places
<1>5. ~GoesOn' /\ ~Busy'
  BY <1>4 DEF GoesOn, Busy
<1> QED
  BY <1>1, <1>2, <1>3, <1>4, <1>5, PassingKeeps

\* The service ends.
LEMMA EndsKeeps ==
  ASSUME ConstantsOK, ReaderInv, NEW how \in {"abort", "null state", "fatal"},
         main.at # "cleanup", Ends(how), how = "abort" => log.raced
  PROVE  ReaderInv'
<1>1. /\ main' = [main EXCEPT !.at = how]
      /\ host' = host /\ ep' = ep /\ rd' = rd /\ hs' = hs /\ objects' = objects /\ log' = log
  BY DEF Ends
<1>2. ep \in Endpoints /\ main \in Threads /\ log \in Logs
  BY DEF ReaderInv, BridgeType
<1>3. main' \in Threads /\ main'.at = how
  <2>1. how \in Places
    BY DEF Places
  <2> QED
    BY <1>1, <1>2, <2>1 DEF Threads
<1>4. ~GoesOn' /\ ~Busy'
  BY <1>3 DEF GoesOn, Busy
<1> QED
  BY <1>1, <1>2, <1>3, <1>4, PassingKeeps

\* The interface is reset.
LEMMA ResetKeeps ==
  ASSUME ConstantsOK, ReaderInv, main.at # "cleanup", ResetInterface
  PROVE  ReaderInv'
<1>1. /\ BridgeType /\ Fresh /\ HandlerInv /\ HandlerLive /\ (~log.raced => Sync /\ Kept)
      /\ ep' = Idle
      /\ host' = IF host.at \in {"meta", "done"} THEN host ELSE NextRequest
      /\ main' = [main EXCEPT !.at = "down", !.then = "idle", !.inMeta = FALSE,
                              !.faults = Lesser(@ + 1, MaxFaults)]
      /\ log' = [log EXCEPT !.cut = @ \cup {rd.hdr, ep.hdr}]
      /\ rd' = rd /\ hs' = hs /\ objects' = objects
  BY DEF ReaderInv, ResetInterface
<1>2. /\ host \in Hosts /\ ep \in Endpoints /\ main \in Threads /\ log \in Logs /\ rd \in Readers
      /\ N \in Nat
  BY <1>1, RequestFacts DEF BridgeType
<1>3. ep' \in Endpoints /\ ep'.data = "none" /\ ep'.meta = "none"
  <2>1. <<>> \in Units /\ None \in 0..N /\ 0 \in Nat
    BY <1>2 DEF Units, None
  <2> QED
    BY <1>1, <2>1 DEF Idle, Endpoints, DataStates
<1>4. main' \in Threads /\ main'.at = "down"
  <2>1. Lesser(main.faults + 1, MaxFaults) \in Int
    BY <1>2 DEF Lesser, Threads, ConstantsOK
  <2> QED
    BY <1>1, <1>2, <2>1 DEF Threads, Places
<1>5. /\ log' \in Logs /\ log'.run = log.run /\ log'.begun = log.begun
      /\ log'.later = log.later /\ log'.raced = log.raced
  <2>1. log.cut \cup {rd.hdr, ep.hdr} \in SUBSET (0..N)
    BY <1>2 DEF Logs, Readers, Endpoints
  <2> QED
    BY <1>1, <1>2, <2>1 DEF Logs
<1>6. host' \in Hosts /\ Upcoming' = Upcoming
  <2>1. CASE host.at \in {"meta", "done"}
    BY <1>1, <1>2, <2>1 DEF Upcoming
  <2>2. CASE host.at \notin {"meta", "done"}
    BY <1>1, <1>2, <2>2, NextFacts
  <2> QED
    BY <2>1, <2>2
<1>7. ~GoesOn' /\ ~Busy' /\ ~Reading'
  BY <1>3, <1>4 DEF GoesOn, Busy, Reading
<1>8. BridgeType'
  BY <1>1, <1>2, <1>3, <1>4, <1>5, <1>6, <1>7 DEF BridgeType
<1>9. Fresh'
  BY <1>1, <1>3, <1>5, <1>6, SeenKept, FreshKept
<1>10. HandlerInv' /\ HandlerLive'
  BY <1>1, <1>4, <1>5, HandlerKept DEF HandlerLive
<1>11. ASSUME ~log.raced PROVE Sync' /\ Kept'
  <2>1. Kept'
    BY <1>1, <1>11, UnitsKept
  <2>2. Matches'
    BY <1>3 DEF Matches
  <2> QED
    BY <1>3, <1>4, <1>7, <2>1, <2>2 DEF Sync
<1> QED
  BY <1>1, <1>5, <1>8, <1>9, <1>10, <1>11 DEF ReaderInv

\* The next buffer of the current request is posted.
LEMMA PostsKeeps ==
  ASSUME ConstantsOK, ReaderInv, main.at = "advance", NEW what \in {"payload", "ids"},
         NEW room \in Nat, Posts(what, room), rd.hdr \in 1..N,
         what = "payload" => rd.got < Req[rd.hdr].size,
         what = "ids" => rd.got >= Req[rd.hdr].size /\ Req[rd.hdr].objs > 0
  PROVE  ReaderInv'
<1>1. /\ BridgeType /\ Fresh /\ HandlerInv /\ HandlerLive /\ (~log.raced => Sync /\ Kept)
      /\ ep' = [ep EXCEPT !.data = what, !.room = room, !.moved = <<>>]
      /\ main' = [main EXCEPT !.at = "return"]
      /\ host' = host /\ rd' = rd /\ hs' = hs /\ objects' = objects /\ log' = log
  BY DEF ReaderInv, Posts
<1>2. ep \in Endpoints /\ main \in Threads /\ rd.hdr # None /\ N \in Nat
  BY <1>1, RequestFacts DEF BridgeType, None
<1>3. /\ ep' \in Endpoints /\ ep'.data = what /\ ep'.moved = <<>> /\ ep'.meta = ep.meta
      /\ ep'.hdr = ep.hdr
  <2>1. <<>> \in Units
    BY DEF Units
  <2>2. what \in DataStates
    BY DEF DataStates
  <2> QED
    BY <1>1, <1>2, <2>1, <2>2 DEF Endpoints
<1>4. main' \in Threads /\ main'.at = "return"
  BY <1>1, <1>2 DEF Threads, Places
<1>5. ~Busy' /\ main'.at # "abort"
  BY <1>4 DEF Busy
<1>6. BridgeType'
  BY <1>1, <1>2, <1>3, <1>4 DEF BridgeType
<1>7. Fresh'
  <2>1. Upcoming' = Upcoming
    BY <1>1 DEF Upcoming
  <2> QED
    BY <1>1, <1>3, <2>1, SeenKept, FreshKept
<1>8. HandlerInv' /\ HandlerLive'
  BY <1>1, HandlerKept DEF HandlerLive
<1>9. ASSUME ~log.raced PROVE Sync' /\ Kept'
  <2>1. Sync /\ Kept
    BY <1>1, <1>9
  <2>2. Kept'
    BY <1>1, <2>1, UnitsKept
  <2>3. ep.data = "none" /\ Expected
    BY <2>1 DEF Sync, Busy, Reading, GoesOn
  <2>4. PICK s \in Nat, g \in Nat : s = Req[rd.hdr].size /\ g = rd.got
    BY <1>1, RequestFacts, TypeFacts
  <2>5. Rest = (s - g) - 0
    BY <2>3, <2>4 DEF Rest
  <2>6. Rest' = (s - g) - 0
    BY <1>1, <1>3, <2>4 DEF Rest
  <2>7. Expected'
    BY <1>1, <1>3, <2>3, <2>5, <2>6, Zenon DEF Expected
  <2>8. s - g >= 0
    <3>1. Rest = s - g
      BY <2>5
    <3> QED
      BY <2>3, <3>1 DEF Expected
  <2>9. what = "ids" => rd.got = Req[rd.hdr].size
    BY <2>4, <2>8
  <2>10. Matches'
    BY <1>1, <1>3, <2>9 DEF Matches
  <2>11. ep'.meta = "done" => Follows'
    BY <1>1, <1>3, <2>1 DEF Sync, Follows
  <2> QED
    BY <1>5, <2>2, <2>7, <2>10, <2>11 DEF Sync
<1> QED
  BY <1>1, <1>6, <1>7, <1>8, <1>9 DEF ReaderInv

\* What comes next of the current request.
LEMMA AdvanceKeeps ==
  ASSUME ConstantsOK, ReaderInv, Advance
  PROVE  ReaderInv'
<1>1. /\ BridgeType /\ (~log.raced => Sync) /\ main.at = "advance"
  BY DEF ReaderInv, Advance
<1>2. rd.hdr \in 1..N
  <2>1. rd.hdr # None /\ rd.hdr \in 0..N /\ N \in Nat
    BY <1>1, TypeFacts DEF BridgeType, Reading, GoesOn
  <2> QED
    BY <2>1 DEF None
<1>3. PICK s \in Nat, g \in Nat, o \in Nat : s = Req[rd.hdr].size /\ g = rd.got /\ o = Req[rd.hdr].objs
  BY <1>1, <1>2, TypeFacts, RequestFacts
<1>4. CASE rd.got < Req[rd.hdr].size /\ PostDataBuffer
  <2>1. PICK room \in Nat : room = Lesser(DataSize, s - g)
    BY <1>3, <1>4 DEF Lesser, ConstantsOK
  <2>2. Posts("payload", room)
    BY <1>3, <1>4, <2>1 DEF PostDataBuffer
  <2> QED
    BY <1>1, <1>2, <1>4, <2>2, PostsKeeps
<1>5. CASE rd.got >= Req[rd.hdr].size /\ Req[rd.hdr].objs > 0 /\ PostObjectBuffer
  <2>1. CASE Req[rd.hdr].objs > DataSize
    <3>1. ResetInterface
      BY <1>5, <2>1 DEF PostObjectBuffer
    <3> QED
      BY <1>1, <3>1, ResetKeeps
  <2>2. CASE ~(Req[rd.hdr].objs > DataSize)
    <3>1. Posts("ids", o)
      BY <1>3, <1>5, <2>2 DEF PostObjectBuffer
    <3> QED
      BY <1>1, <1>2, <1>5, <3>1, PostsKeeps
  <2> QED
    BY <2>1, <2>2
<1>6. CASE main' = [main EXCEPT !.at = "finalize"] /\ UNCHANGED <<host, ep, rd, hs, objects, log>>
  <2>1. ep \in Endpoints /\ main \in Threads /\ log \in Logs
    BY <1>1 DEF BridgeType
  <2>2. main' \in Threads /\ main'.at = "finalize"
    BY <1>6, <2>1 DEF Threads, Places
  <2>3. ~GoesOn'
    BY <2>2 DEF GoesOn
  <2>4. ~log.raced => ep.data = "none"
    BY <1>1 DEF Sync, Busy
  <2> QED
    BY <1>1, <1>6, <2>1, <2>2, <2>3, <2>4, PassingKeeps
<1> QED
  BY <1>4, <1>5, <1>6 DEF Advance

\* A step of the main thread that lets go of the handler, perhaps with an answer
\* to the request i, outside the reading of a request.
LEMMA ReleasingKeeps ==
  ASSUME ConstantsOK, ReaderInv, host' = host, ep' = ep, hs' = hs,
         rd' \in Readers, rd'.hdr = rd.hdr, rd'.got = rd.got, rd'.handler = None,
         rd'.state = None,
         main' \in Threads, main'.at # "abort", GoesOn' => GoesOn,
         log' \in Logs, log'.run = log.run, log'.raced = log.raced,
         log'.later \cap log'.begun = {},
         \A i \in 1..N : i \in log'.later \/ i \in log'.begun => Seen(i),
         ~log.raced => (Busy' => ep.data = "none")
  PROVE  ReaderInv'
<1>1. BridgeType /\ Fresh /\ HandlerInv /\ HandlerLive /\ (~log.raced => Sync /\ Kept)
  BY DEF ReaderInv
<1>2. Reading' => Reading
  BY DEF Reading
<1>3. BridgeType'
  BY <1>1, <1>2 DEF BridgeType
<1>4. Fresh'
  <2>1. Upcoming' = Upcoming
    BY DEF Upcoming
  <2>2. \A i \in 1..N : Seen(i)' => Seen(i)
    BY DEF Seen
  <2> QED
    BY <1>1, <2>1, <2>2, FreshKept
<1>5. HandlerInv' /\ HandlerLive'
  <2>1. rd.hdr # None => rd'.got <= Req[rd.hdr].size
    BY <1>1 DEF HandlerInv
  <2> QED
    BY <1>1, <2>1, HandlerReleased DEF HandlerLive
<1>6. ASSUME ~log.raced PROVE Sync' /\ Kept'
  BY <1>1, <1>2, <1>6, SyncKept, UnitsKept
<1> QED
  BY <1>1, <1>3, <1>4, <1>5, <1>6 DEF ReaderInv

\* A command that kept its opener answers.
LEMMA RespondLaterKeeps ==
  ASSUME ConstantsOK, ReaderInv, RespondLater
  PROVE  ReaderInv'
<1>1. /\ BridgeType /\ HandlerInv /\ main.at = "idle"
      /\ host' = host /\ ep' = ep /\ hs' = hs /\ objects' = objects
  BY DEF ReaderInv, RespondLater
<1>2. PICK i \in log.later :
        Responds(rd, i, [main EXCEPT !.then = "idle"], [log EXCEPT !.later = @ \ {i}])
  BY DEF RespondLater
<1> DEFINE m == [main EXCEPT !.then = "idle"]
           l == [log EXCEPT !.later = @ \ {i}]
<1>3. main \in Threads /\ log \in Logs /\ rd \in Readers /\ N \in Nat
  BY <1>1, RequestFacts DEF BridgeType
<1>4. i \in 1..N /\ i \notin log.begun /\ log.later \cap log.begun = {}
  BY <1>1, <1>3 DEF Logs, HandlerInv
<1>5. m \in Threads /\ m.then = "idle"
  BY <1>3 DEF Threads
<1>6. /\ l \in Logs /\ l.later = log.later \ {i} /\ l.begun = log.begun /\ l.run = log.run
      /\ l.raced = log.raced
  BY <1>3 DEF Logs
<1>7. Responds(rd, i, m, l)
  BY <1>2
<1> HIDE DEF m, l
<1>8. Answers(rd, i, m, l)
  BY <1>3, <1>4, <1>5, <1>6, <1>7, RespondFacts
<1>9. /\ rd' \in Readers /\ rd'.handler = None /\ rd'.state = None /\ rd'.hdr = rd.hdr
      /\ rd'.got = rd.got
      /\ main' \in Threads /\ main'.at = "sending" /\ main'.then = "idle"
      /\ log' \in Logs /\ log'.run = log.run /\ log'.later = log.later \ {i}
      /\ log'.raced = log.raced /\ log'.begun = log.begun \cup {i}
  BY <1>5, <1>6, <1>8 DEF Answers
<1>10. ~GoesOn' /\ ~Busy'
  BY <1>9 DEF GoesOn, Busy
<1>11. log'.later \cap log'.begun = {}
  BY <1>4, <1>9
<1>12. \A j \in 1..N : j \in log'.later \/ j \in log'.begun => Seen(j)
  BY <1>9 DEF Seen
<1> QED
  BY <1>1, <1>9, <1>10, <1>11, <1>12, ReleasingKeeps

\* The object's dispatcher drops the handler.
LEMMA CleanupCommandKeeps ==
  ASSUME ConstantsOK, ReaderInv, CleanupCommand
  PROVE  ReaderInv'
<1>1. /\ BridgeType /\ HandlerInv /\ main.at = "cleanup"
      /\ rd' = [ResetHandler(rd) EXCEPT !.object = -1]
      /\ main' = [main EXCEPT !.at = "return"]
      /\ host' = host /\ ep' = ep /\ hs' = hs /\ log' = log
  BY DEF ReaderInv, CleanupCommand
<1>2. main \in Threads /\ log \in Logs /\ rd \in Readers /\ N \in Nat
  BY <1>1, RequestFacts DEF BridgeType
<1>3. /\ rd' \in Readers /\ rd'.hdr = rd.hdr /\ rd'.got = rd.got /\ rd'.handler = None
      /\ rd'.state = None
  <2>1. rd' = [rd EXCEPT !.handler = 0, !.state = 0, !.object = -1]
    BY <1>1, <1>2 DEF ResetHandler, None, Readers
  <2>2. 0 \in 0..N /\ -1 \in Int
    BY <1>2
  <2> QED
    BY <1>2, <2>1, <2>2 DEF Readers, None
<1>4. main' \in Threads /\ main'.at = "return"
  BY <1>1, <1>2 DEF Threads, Places
<1>5. ~GoesOn' /\ ~Busy'
  BY <1>4 DEF GoesOn, Busy
<1>6. /\ log.later \cap log.begun = {}
      /\ \A j \in 1..N : j \in log.later \/ j \in log.begun => Seen(j)
  BY <1>1 DEF HandlerInv, Seen
<1> QED
  BY <1>1, <1>2, <1>3, <1>4, <1>5, <1>6, ReleasingKeeps

\* The stream ends.
LEMMA FinishKeeps ==
  ASSUME ConstantsOK, ReaderInv, Finish
  PROVE  ReaderInv'
<1>1. /\ BridgeType /\ Fresh /\ HandlerInv /\ HandlerLive /\ (~log.raced => Sync /\ Kept)
      /\ main.at = "finish"
      /\ host' = host /\ ep' = ep /\ hs' = hs /\ objects' = objects
  BY DEF ReaderInv, Finish
<1>2. main \in Threads /\ log \in Logs /\ rd \in Readers /\ N \in Nat /\ ep \in Endpoints
      /\ rd.handler \in 0..N
  BY <1>1, TypeFacts DEF BridgeType
<1>3. ~log.raced => ep.data = "none"
  BY <1>1 DEF Sync, Busy
<1> DEFINE m == [main EXCEPT !.then = "cleanup"]
<1>4. m \in Threads /\ m.then = "cleanup"
  BY <1>2 DEF Threads
<1> HIDE DEF m
<1>5. \/ /\ rd.handler # None /\ HasStream(rd.handler) /\ Responds(rd, rd.handler, m, log)
      \/ /\ rd.handler # None /\ HasStream(rd.handler)
         /\ log' = [log EXCEPT !.later = @ \cup {rd.handler}]
         /\ main' = [main EXCEPT !.at = "cleanup"] /\ rd' = rd
      \/ main' = [main EXCEPT !.at = "cleanup"] /\ rd' = rd /\ log' = log
  BY DEF Finish, m
<1>6. CASE /\ rd.handler # None /\ HasStream(rd.handler) /\ Responds(rd, rd.handler, m, log)
  <2>1. PICK i \in 1..N : i = rd.handler
    BY <1>2, <1>6 DEF None
  <2>2. i \notin log.begun /\ i \notin log.later /\ log.later \cap log.begun = {}
    BY <1>1, <1>6, <2>1 DEF HandlerInv, HasStream
  <2>3. Answers(rd, i, m, log)
    BY <1>2, <1>4, <1>6, <2>1, <2>2, RespondFacts
  <2>4. /\ rd' \in Readers /\ rd'.handler = None /\ rd'.state = None /\ rd'.hdr = rd.hdr
        /\ rd'.got = rd.got
        /\ main' \in Threads /\ main'.at = "sending" /\ main'.then = "cleanup"
        /\ log' \in Logs /\ log'.run = log.run /\ log'.later = log.later
        /\ log'.raced = log.raced /\ log'.begun = log.begun \cup {i}
    BY <1>4, <2>3 DEF Answers
  <2>5. ~GoesOn'
    BY <2>4 DEF GoesOn
  <2>6. log'.later \cap log'.begun = {}
    BY <2>2, <2>4
  <2>7. i = rd.hdr
    BY <1>1, <1>6, <2>1 DEF HandlerInv
  <2>8. \A j \in 1..N : j \in log'.later \/ j \in log'.begun => Seen(j)
    BY <2>4, <2>7 DEF Seen
  <2> QED
    BY <1>1, <1>3, <2>4, <2>5, <2>6, <2>8, ReleasingKeeps
<1>7. CASE /\ rd.handler # None /\ HasStream(rd.handler)
           /\ log' = [log EXCEPT !.later = @ \cup {rd.handler}]
           /\ main' = [main EXCEPT !.at = "cleanup"] /\ rd' = rd
  <2>1. PICK i \in 1..N : i = rd.handler
    BY <1>2, <1>7 DEF None
  <2>2. i \notin log.begun /\ i = rd.hdr
    BY <1>1, <1>7, <2>1 DEF HandlerInv
  <2>3. main' \in Threads /\ main'.at = "cleanup"
    BY <1>2, <1>7 DEF Threads, Places
  <2>4. /\ log' \in Logs /\ log'.run = log.run /\ log'.later = log.later \cup {i}
        /\ log'.raced = log.raced /\ log'.begun = log.begun
    BY <1>2, <1>7, <2>1 DEF Logs
  <2>5. ~GoesOn' /\ (Reading' => Reading)
    BY <1>1, <2>3 DEF GoesOn, Reading
  <2>6. BridgeType'
    BY <1>1, <1>2, <1>7, <2>3, <2>4, <2>5 DEF BridgeType
  <2>7. Fresh'
    <3>1. Upcoming' = Upcoming
      BY <1>1 DEF Upcoming
    <3>2. \A j \in 1..N : Seen(j)' => Seen(j)
      BY <1>1, <1>7, <2>2, <2>4 DEF Seen
    <3> QED
      BY <1>1, <3>1, <3>2, FreshKept
  <2>8. HandlerInv'
    <3>1. \A j \in 1..N : Bounded(j) => Bounded(j)'
      BY <1>1, <2>4 DEF Bounded
    <3>2. log'.later \cap log'.begun = {}
      BY <1>1, <2>2, <2>4 DEF HandlerInv
    <3> QED
      BY <1>1, <1>7, <2>3, <2>4, <3>1, <3>2 DEF HandlerInv
  <2>9. HandlerLive'
    BY <1>1, <1>7 DEF HandlerLive
  <2>10. ASSUME ~log.raced PROVE Sync' /\ Kept'
    <3>1. Sync /\ Kept /\ ep.data = "none"
      BY <1>1, <1>3, <2>10
    <3> QED
      BY <1>1, <1>7, <2>3, <2>5, <3>1, SyncKept, UnitsKept
  <2> QED
    BY <1>1, <2>4, <2>6, <2>7, <2>8, <2>9, <2>10 DEF ReaderInv
<1>8. CASE main' = [main EXCEPT !.at = "cleanup"] /\ rd' = rd /\ log' = log
  <2>1. main' \in Threads /\ main'.at = "cleanup"
    BY <1>2, <1>8 DEF Threads, Places
  <2>2. ~GoesOn'
    BY <2>1 DEF GoesOn
  <2> QED
    BY <1>1, <1>2, <1>3, <1>8, <2>1, <2>2, PassingKeeps
<1> QED
  BY <1>5, <1>6, <1>7, <1>8

\* What the header of the request i leaves behind: an answer under way, or the
\* handler its object's dispatcher has made.
Served(i) ==
  /\ rd' \in Readers /\ rd'.hdr = i /\ rd'.got = 0 /\ rd'.buf = <<>>
  /\ main' \in Threads /\ main'.then = "advance"
  /\ log' \in Logs /\ log'.run = log.run /\ log'.later = log.later /\ log'.raced = Raced
  /\ \/ /\ rd'.handler = None /\ rd'.state = None /\ main'.at = "sending"
        /\ log'.begun = log.begun \cup {i}
     \/ /\ rd'.handler = i /\ rd'.state = i /\ main'.at = "advance" /\ log'.begun = log.begun
        /\ rd'.object = Req[i].obj /\ Req[i].obj \in DOMAIN objects
        /\ objects' = [objects EXCEPT ![Req[i].obj] = i]

\* BeginProcessingCommand.
LEMMA HeaderFacts ==
  ASSUME ConstantsOK, BridgeType, NEW i \in 1..N, i \notin log.begun,
         BeginProcessingCommand(i, [main EXCEPT !.then = "advance", !.inMeta = TRUE])
  PROVE  Served(i)
<1> DEFINE m == [main EXCEPT !.then = "advance", !.inMeta = TRUE]
           l == [log EXCEPT !.raced = Raced]
           h == NewHeader(i)
           p == [h EXCEPT !.object = Req[i].obj]
           q == [h EXCEPT !.object = Req[i].obj, !.handler = i]
<1>1. main \in Threads /\ log \in Logs /\ rd \in Readers /\ N \in Nat /\ Req[i].obj \in Int
  BY RequestFacts DEF BridgeType
<1>2. m \in Threads /\ m.then = "advance"
  BY <1>1 DEF Threads
<1>3. /\ l \in Logs /\ l.run = log.run /\ l.later = log.later /\ l.begun = log.begun
      /\ l.raced = Raced
  <2>1. Raced \in BOOLEAN
    BY <1>1 DEF Raced, Logs
  <2> QED
    BY <1>1, <2>1 DEF Logs
<1>4. /\ h \in Readers /\ h.hdr = i /\ h.got = 0 /\ h.buf = <<>> /\ h.state = i
      /\ h.handler = None
  <2>1. h = [rd EXCEPT !.hdr = i, !.got = 0, !.ids = 0, !.buf = <<>>, !.state = i, !.handler = 0]
    BY DEF NewHeader, None
  <2>2. i \in 0..N /\ 0 \in Nat /\ 0 \in 0..N
    BY <1>1
  <2>3. <<>> \in Units
    BY DEF Units
  <2> HIDE DEF h
  <2> QED
    BY <1>1, <2>1, <2>2, <2>3 DEF Readers, None
<1>5. \/ Responds(h, i, m, l)
      \/ Responds(p, i, m, l)
      \/ /\ rd' = q /\ objects' = [objects EXCEPT ![Req[i].obj] = i]
         /\ main' = [m EXCEPT !.at = "advance"] /\ log' = l /\ Req[i].obj \in DOMAIN objects
  BY Zenon DEF BeginProcessingCommand
<1> HIDE DEF h, m, l
<1>6. p \in Readers /\ p.hdr = i /\ p.got = 0 /\ p.buf = <<>>
  BY <1>1, <1>4 DEF Readers
<1>7. /\ q \in Readers /\ q.hdr = i /\ q.got = 0 /\ q.buf = <<>> /\ q.handler = i
      /\ q.state = i /\ q.object = Req[i].obj
  <2>1. i \in 0..N
    BY <1>1
  <2> QED
    BY <1>1, <1>4, <2>1 DEF Readers
<1> HIDE DEF p, q
<1>8. ASSUME NEW r \in Readers, r.hdr = i, r.got = 0, r.buf = <<>>, Responds(r, i, m, l)
      PROVE  Served(i)
  <2>1. Answers(r, i, m, l)
    BY <1>1, <1>2, <1>3, <1>8, RespondFacts
  <2> QED
    BY <1>2, <1>3, <1>8, <2>1 DEF Answers, Served
<1>9. ASSUME rd' = q, objects' = [objects EXCEPT ![Req[i].obj] = i],
             main' = [m EXCEPT !.at = "advance"], log' = l, Req[i].obj \in DOMAIN objects
      PROVE  Served(i)
  <2>1. main' \in Threads /\ main'.then = "advance" /\ main'.at = "advance"
    BY <1>2, <1>9 DEF Threads, Places
  <2> QED
    BY <1>3, <1>7, <1>9, <2>1 DEF Served
<1> QED
  BY <1>4, <1>5, <1>6, <1>8, <1>9

\* A header is served.
LEMMA MetadataKeeps ==
  ASSUME ConstantsOK, ReaderInv, MetadataTransactionCompleted
  PROVE  ReaderInv'
<1>1. /\ BridgeType /\ Fresh /\ HandlerInv /\ HandlerLive /\ (~log.raced => Sync /\ Kept)
      /\ main.at = "idle" /\ ep.meta = "done" /\ ep' = [ep EXCEPT !.meta = "none"]
      /\ BeginProcessingCommand(ep.hdr, [main EXCEPT !.then = "advance", !.inMeta = TRUE])
      /\ host' = host /\ hs' = hs
  BY DEF ReaderInv, MetadataTransactionCompleted
<1>2. PICK i \in 1..N : i = ep.hdr
  <2>1. ep.hdr # None /\ ep.hdr \in 0..N /\ N \in Nat
    BY <1>1, TypeFacts DEF BridgeType
  <2> QED
    BY <2>1 DEF None
<1>3. ~Seen(i)
  <2>1. Seen(i) => i < i
    BY <1>1, <1>2 DEF Fresh
  <2> QED
    BY <2>1
<1>4. /\ i \notin log.run /\ i \notin log.begun /\ i \notin log.later /\ i # rd.hdr
      /\ hs[i] = Blank
  BY <1>3 DEF Seen
<1>5. Served(i)
  BY <1>1, <1>2, <1>4, HeaderFacts
<1>6. /\ ep' \in Endpoints /\ ep'.meta = "none" /\ ep'.data = ep.data /\ ep'.moved = ep.moved
  <2>1. ep \in Endpoints
    BY <1>1 DEF BridgeType
  <2> QED
    BY <1>1, <2>1 DEF Endpoints
<1>7. i # None /\ i \in 0..N
  BY RequestFacts DEF None
<1>8. BridgeType'
  BY <1>1, <1>5, <1>6, <1>7 DEF BridgeType, Served
<1>9. Fresh'
  <2>1. Upcoming' = Upcoming
    BY <1>1 DEF Upcoming
  <2>2. \A j \in 1..N : Seen(j)' => Seen(j) \/ j = i
    BY <1>1, <1>5 DEF Seen, Served
  <2>3. i < Upcoming
    BY <1>1, <1>2 DEF Fresh
  <2> QED
    BY <1>1, <1>6, <2>1, <2>2, <2>3 DEF Fresh
<1>10. HandlerInv'
  <2>1. rd'.handler \in {None, rd'.hdr} /\ rd'.state = rd'.handler
    BY <1>5 DEF Served
  <2>2. rd'.got <= Req[rd'.hdr].size
    <3>1. Req[i].size \in Nat
      BY RequestFacts
    <3>2. 0 <= Req[i].size
      BY <3>1
    <3> QED
      BY <1>5, <3>2 DEF Served
  <2>3. \A j \in 1..N : Bounded(j)'
    <3>1. \A j \in 1..N : Bounded(j) => Bounded(j)'
      BY <1>1, <1>5 DEF Bounded, Served
    <3> QED
      BY <1>1, <3>1 DEF HandlerInv
  <2>4. log'.later \cap log'.begun = {}
    BY <1>1, <1>4, <1>5 DEF HandlerInv, Served
  <2>5. rd'.handler # None =>
          /\ Taken(hs'[rd'.handler]) + Len(rd'.buf) <= rd'.got
          /\ rd'.handler \notin log'.begun /\ rd'.handler \notin log'.later
    <3> SUFFICES ASSUME rd'.handler # None
                 PROVE  /\ Taken(hs'[rd'.handler]) + Len(rd'.buf) <= rd'.got
                        /\ rd'.handler \notin log'.begun /\ rd'.handler \notin log'.later
      OBVIOUS
    <3>1. /\ rd'.handler = i /\ rd'.buf = <<>> /\ rd'.got = 0 /\ log'.begun = log.begun
          /\ log'.later = log.later
      BY <1>5 DEF Served
    <3>2. hs'[i].used = <<>> /\ hs'[i].sink = <<>>
      BY <1>1, <1>4 DEF Blank
    <3>3. Len(<<>>) = 0 /\ (0 + 0) + 0 <= 0
      OBVIOUS
    <3>4. Taken(hs'[i]) + Len(<<>>) <= 0
      BY <3>2, <3>3, Zenon DEF Taken
    <3> QED
      BY <1>4, <3>1, <3>4
  <2> QED
    BY <2>1, <2>2, <2>3, <2>4, <2>5 DEF HandlerInv
<1>11. HandlerLive'
  BY <1>5 DEF HandlerLive, Served
<1>12. ASSUME ~log'.raced PROVE Sync' /\ Kept'
  <2>1. ~log.raced /\ ep.data = "none"
    BY <1>5, <1>12 DEF Served, Raced
  <2>2. Sync /\ Kept
    BY <1>1, <2>1
  <2>3. Follows
    BY <1>1, <2>2 DEF Sync
  <2>4. PICK s \in Nat : s = Req[i].size
    BY RequestFacts
  <2>5. rd'.hdr = i /\ rd'.got = 0 /\ ep'.data = "none" /\ rd'.buf = <<>>
    BY <1>5, <1>6, <2>1 DEF Served
  <2>6. Rest' = s
    <3>1. Rest' = (s - 0) - 0
      BY <2>4, <2>5 DEF Rest
    <3> QED
      BY <3>1
  <2>7. Expected'
    <3>1. s >= 0
      BY <2>4
    <3>2. s > 0 => host'.at = "data" /\ host'.req = rd'.hdr /\ host'.left = s
      BY <1>1, <1>2, <2>3, <2>4, <2>5 DEF Follows
    <3>3. s = 0 /\ Req[rd'.hdr].objs > 0 => host'.at = "objs" /\ host'.req = rd'.hdr
      BY <1>1, <1>2, <2>3, <2>4, <2>5 DEF Follows
    <3> QED
      BY <2>6, <3>1, <3>2, <3>3, Zenon DEF Expected
  <2>8. Matches'
    BY <2>5 DEF Matches
  <2>9. main'.at # "abort"
    BY <1>5 DEF Served
  <2>10. Kept'
    <3>1. Own(rd'.handler, <<>>)
      BY DEF Own
    <3> QED
      BY <1>1, <2>2, <2>5, <3>1 DEF Kept
  <2> QED
    BY <1>6, <2>5, <2>7, <2>8, <2>9, <2>10 DEF Sync
<1> QED
  BY <1>8, <1>9, <1>10, <1>11, <1>12 DEF ReaderInv

\* The reader reads some request.
LEMMA CurrentFacts ==
  ASSUME ConstantsOK, BridgeType, Reading
  PROVE  rd.hdr \in 1..N
<1>1. rd.hdr # None /\ rd.hdr \in 0..N /\ N \in Nat
  BY TypeFacts DEF BridgeType
<1> QED
  BY <1>1 DEF None

\* The object ids have arrived, and are as many as announced.
LEMMA ReceiveIdsKeeps ==
  ASSUME ConstantsOK, ReaderInv, ReceiveIds
  PROVE  ReaderInv'
<1>1. /\ BridgeType /\ Fresh /\ HandlerInv /\ HandlerLive /\ (~log.raced => Sync /\ Kept)
      /\ main.at = "idle" /\ ep.data \in {"payload done", "ids done"}
      /\ rd.got = Req[rd.hdr].size
  BY DEF ReaderInv, ReceiveIds
<1>2. rd.hdr \in 1..N
  BY <1>1, CurrentFacts DEF Reading
<1>3. CASE ep.data = "payload done"
  <2>1. Ends("abort")
    BY <1>3 DEF ReceiveIds, Abort
  <2>2. PICK s \in Nat : s = Req[rd.hdr].size
    BY <1>2, RequestFacts
  <2>3. ~(rd.got < Req[rd.hdr].size)
    <3>1. ~(s < s)
      OBVIOUS
    <3> QED
      BY <1>1, <2>2, <3>1, Zenon
  <2>4. log.raced
    BY <1>1, <1>3, <2>3 DEF Sync, Matches
  <2> QED
    BY <1>1, <2>1, <2>4, EndsKeeps
<1>4. CASE ep.data = "ids done" /\ Len(ep.moved) # Req[rd.hdr].objs
  <2>1. ResetInterface
    BY <1>4 DEF ReceiveIds
  <2> QED
    BY <1>1, <2>1, ResetKeeps
<1>5. CASE ep.data = "ids done" /\ Len(ep.moved) = Req[rd.hdr].objs
  <2>1. /\ rd' = [rd EXCEPT !.ids = Len(ep.moved)]
        /\ main' = [main EXCEPT !.at = "finalize"]
        /\ ep' = [ep EXCEPT !.data = "none", !.moved = <<>>]
        /\ host' = host /\ hs' = hs /\ objects' = objects /\ log' = log
    BY <1>5 DEF ReceiveIds
  <2>2. rd \in Readers /\ main \in Threads /\ ep \in Endpoints /\ Len(ep.moved) \in Nat
    BY <1>1, TypeFacts DEF BridgeType
  <2>3. /\ rd' \in Readers /\ rd'.hdr = rd.hdr /\ rd'.got = rd.got /\ rd'.buf = rd.buf
        /\ rd'.handler = rd.handler /\ rd'.state = rd.state /\ rd'.object = rd.object
    BY <2>1, <2>2 DEF Readers
  <2>4. main' \in Threads /\ main'.at = "finalize"
    BY <2>1, <2>2 DEF Threads, Places
  <2>5. /\ ep' \in Endpoints /\ ep'.data = "none" /\ ep'.meta = ep.meta /\ ep'.hdr = ep.hdr
    <3>1. <<>> \in Units
      BY DEF Units
    <3> QED
      BY <2>1, <2>2, <3>1 DEF Endpoints, DataStates
  <2>6. ~GoesOn' /\ ~Reading'
    BY <2>4, <2>5 DEF GoesOn, Reading
  <2>7. BridgeType'
    BY <1>1, <2>1, <2>3, <2>4, <2>5, <2>6 DEF BridgeType
  <2>8. Fresh'
    <3>1. Upcoming' = Upcoming
      BY <2>1 DEF Upcoming
    <3> QED
      BY <1>1, <2>1, <2>3, <2>5, <3>1, SeenKept, FreshKept
  <2>9. HandlerInv'
    <3>1. \A i \in 1..N : Bounded(i) => Bounded(i)'
      BY <2>1 DEF Bounded
    <3> QED
      BY <1>1, <2>1, <2>3, <3>1 DEF HandlerInv
  <2>10. HandlerLive'
    BY <1>1, <2>1, <2>3 DEF HandlerLive
  <2>11. ASSUME ~log.raced PROVE Sync' /\ Kept'
    <3>1. Sync /\ Kept
      BY <1>1, <2>11
    <3>2. Kept'
      BY <2>1, <2>3, <3>1, UnitsKept
    <3>3. Matches'
      BY <2>5 DEF Matches
    <3>4. ep'.meta = "done" => Follows'
      BY <2>1, <2>5, <3>1 DEF Sync, Follows
    <3> QED
      BY <2>4, <2>5, <2>6, <3>2, <3>3, <3>4 DEF Sync
  <2> QED
    BY <2>1, <2>7, <2>8, <2>9, <2>10, <2>11 DEF ReaderInv
<1> QED
  BY <1>1, <1>3, <1>4, <1>5

\* What is left of a payload when a transfer has moved n units.
LEMMA LeftFacts ==
  ASSUME NEW s \in Nat, NEW g \in Nat, NEW n \in Nat
  PROVE  (s - g) - n = (s - (g + n)) - 0
OBVIOUS

\* A payload transfer was taken: the reader and the host agree on what is left.
LEMMA TakenInSync ==
  ASSUME ConstantsOK, BridgeType, Sync, host' = host, ep.data = "payload done",
         ep'.data = "none", ep'.meta = ep.meta, ep'.hdr = ep.hdr, rd'.hdr = rd.hdr,
         NEW g \in Nat, NEW n \in Nat, rd.got = g, Len(ep.moved) = n, rd'.got = g + n,
         main'.at # "abort"
  PROVE  Sync'
<1>1. rd.hdr \in 1..N
  BY CurrentFacts DEF Reading
<1>2. PICK s \in Nat : s = Req[rd.hdr].size
  BY <1>1, RequestFacts
<1>3. Rest = (s - g) - n
  BY <1>2 DEF Rest
<1>4. Rest' = (s - (g + n)) - 0
  BY <1>2 DEF Rest
<1>5. Rest' = Rest
  BY <1>3, <1>4, LeftFacts, Zenon
<1>6. Expected
  BY DEF Sync, Reading
<1>7. Expected'
  BY <1>5, <1>6, Zenon DEF Expected
<1>8. Matches'
  BY DEF Matches
<1>9. ep'.meta = "done" => Follows'
  BY DEF Sync, Follows
<1> QED
  BY <1>7, <1>8, <1>9 DEF Sync

\* A handler's units are counted.
LEMMA TakenFacts ==
  ASSUME NEW h \in Handlers
  PROVE  Taken(h) \in Nat
<1>1. Len(h.used) \in Nat /\ Len(h.sink) \in Nat
  BY DEF Handlers, Units
<1>2. PICK a \in Nat, b \in Nat : a = Len(h.used) /\ b = Len(h.sink)
  BY <1>1
<1>3. Taken(h) = a + b
  BY <1>2, Zenon DEF Taken
<1> QED
  BY <1>3

\* A flush keeps the handlers in order, and their units where they belong.
LEMMA DeliveryKeeps ==
  ASSUME ConstantsOK, BridgeType, HandlerInv, HandlerLive, Fresh,
         NEW r \in Readers, NEW m \in Threads, Delivers(r, m),
         r.hdr = rd.hdr, r.handler = rd.handler, r.state = rd.state, r.object = rd.object,
         rd.hdr # None => r.got <= Req[rd.hdr].size,
         r.handler # None => Ready(r),
         host' = host, ep'.meta = ep.meta, ep'.hdr = ep.hdr
  PROVE  /\ Fresh' /\ HandlerInv' /\ HandlerLive'
         /\ Kept /\ (rd.handler # None => Own(rd.handler, r.buf)) => Kept'
<1>0. Upcoming' = Upcoming
  BY DEF Upcoming
<1>1. /\ rd.handler \in {None, rd.hdr} /\ rd.state = rd.handler
      /\ \A i \in 1..N : Bounded(i)
      /\ log.later \cap log.begun = {}
  BY DEF HandlerInv
<1>2. /\ rd' \in Readers /\ rd'.hdr = rd.hdr /\ rd'.got = r.got /\ rd'.object = rd.object
  BY DEF Delivers
<1>3. CASE rd.handler = None
  <2>1. rd'.handler = None /\ rd'.state = None /\ hs' = hs /\ log' = log
    BY <1>1, <1>3 DEF Delivers
  <2>2. Fresh'
    BY <1>0, <1>2, <2>1, SeenKept, FreshKept
  <2>3. HandlerInv'
    BY <1>1, <1>2, <2>1, HandlerReleased
  <2>4. HandlerLive'
    BY <2>1 DEF HandlerLive
  <2>5. Kept => Kept'
    BY <2>1, UnitsKept
  <2> QED
    BY <2>2, <2>3, <2>4, <2>5
<1>4. CASE rd.handler # None
  <2>1. PICK i \in 1..N : i = rd.handler
    <3>1. rd.handler \in 0..N /\ N \in Nat
      BY TypeFacts
    <3> QED
      BY <1>4, <3>1 DEF None
  <2>2. Handled(i, r, m)
    BY <1>4, <2>1 DEF Delivers
  <2>3. /\ i = rd.hdr /\ i = r.handler /\ i # None /\ hs[i] \in Handlers /\ r.got \in Nat
        /\ r.buf \in Units
    BY <1>1, <1>4, <2>1, TypeFacts DEF Readers
  <2>4. /\ Taken(hs[i]) + Len(r.buf) <= r.got /\ r.got <= Req[i].size
        /\ i \notin log.begun /\ (i \in log.later => hs[i].streaming /\ ~Req[i].stream)
    BY <1>4, <2>1, <2>3 DEF Ready
  <2>5. Flushes(i, hs[i], r.buf, hs'[i], rd'.buf)
    BY <2>2 DEF Handled
  <2>6. /\ hs'[i] \in Handlers /\ rd'.buf \in Units /\ Unpacks(i, hs'[i])
        /\ Taken(hs'[i]) + Len(rd'.buf) <= Taken(hs[i]) + Len(r.buf)
        /\ hs[i].streaming => hs'[i].streaming
    BY <2>5 DEF Flushes
  <2>7. Taken(hs'[i]) + Len(rd'.buf) <= r.got /\ Taken(hs'[i]) <= Req[i].size
    <3>1. PICK a \in Nat, b \in Nat : a = Taken(hs[i]) /\ b = Taken(hs'[i])
      BY <2>3, <2>6, TakenFacts
    <3>2. PICK c \in Nat, d \in Nat, s \in Nat :
            c = Len(r.buf) /\ d = Len(rd'.buf) /\ s = Req[i].size
      BY <2>3, <2>6, RequestFacts DEF Units
    <3>3. b + d <= a + c
      BY <2>6, <3>1, <3>2, Zenon
    <3>4. a + c <= r.got /\ r.got <= s
      BY <2>4, <3>1, <3>2, Zenon
    <3>5. b + d <= r.got /\ b <= s
      BY <2>3, <3>3, <3>4
    <3> QED
      BY <3>1, <3>2, <3>5, Zenon
  <2>8. Fresh'
    <3>1. \A j \in 1..N : Seen(j)' => Seen(j)
      <4> SUFFICES ASSUME NEW j \in 1..N, Seen(j)', j # i PROVE Seen(j)
        BY <2>3 DEF Seen
      <4>1. hs'[j] = hs[j] /\ (j \in log'.run => j \in log.run)
            /\ (j \in log'.begun => j \in log.begun) /\ (j \in log'.later => j \in log.later)
        BY <2>2 DEF Handled
      <4> QED
        BY <1>2, <4>1 DEF Seen
    <3> QED
      BY <1>0, <3>1, FreshKept
  <2>9. HandlerInv'
    <3>1. rd'.handler \in {None, rd'.hdr} /\ rd'.state = rd'.handler
      BY <1>1, <1>2, <2>1, <2>2, <2>3 DEF Handled
    <3>2. rd'.hdr # None => rd'.got <= Req[rd'.hdr].size
      BY <1>2
    <3>3. ASSUME NEW j \in 1..N PROVE Bounded(j)'
      <4>1. CASE j = i
        <5>1. j \in log'.run => hs'[j].streaming
          BY <1>1, <2>2, <2>6, <4>1 DEF Handled, Bounded
        <5> QED
          BY <2>6, <2>7, <4>1, <5>1 DEF Bounded
      <4>2. CASE j # i
        <5>1. hs'[j] = hs[j] /\ (j \in log'.run => j \in log.run)
          BY <2>2, <4>2 DEF Handled
        <5> QED
          BY <1>1, <5>1 DEF Bounded
      <4> QED
        BY <4>1, <4>2
    <3>4. log'.later \cap log'.begun = {}
      BY <1>1, <2>2, <2>4 DEF Handled
    <3>5. ASSUME rd'.handler # None
          PROVE  /\ Taken(hs'[rd'.handler]) + Len(rd'.buf) <= rd'.got
                 /\ rd'.handler \notin log'.begun
                 /\ rd'.handler \in log'.later =>
                      hs'[rd'.handler].streaming /\ ~Req[rd'.handler].stream
      <4>1. /\ rd'.handler = i /\ log'.begun = log.begun
            /\ \/ log'.later = log.later
               \/ log'.later = log.later \cup {i} /\ hs'[i].streaming /\ ~Req[i].stream
        BY <2>2, <3>5 DEF Handled
      <4>2. i \in log'.later => hs'[i].streaming /\ ~Req[i].stream
        BY <2>4, <2>6, <4>1
      <4> QED
        BY <1>2, <2>4, <2>7, <4>1, <4>2
    <3> QED
      BY <3>1, <3>2, <3>3, <3>4, <3>5 DEF HandlerInv
  <2>10. HandlerLive'
    BY <1>2, <2>1, <2>2 DEF HandlerLive, Handled
  <2>11. ASSUME Kept, Own(i, r.buf) PROVE Kept'
    <3>1. Own(i, hs'[i].used) /\ Own(i, hs'[i].sink) /\ Own(i, rd'.buf)
      BY <2>5, <2>11 DEF Flushes, Kept
    <3>2. \A j \in 1..N : j # i => hs'[j] = hs[j]
      BY <2>2 DEF Handled
    <3>3. rd'.handler # None => rd'.handler = i
      BY <2>2 DEF Handled
    <3> QED
      BY <2>11, <3>1, <3>2, <3>3 DEF Kept
  <2>12. Kept /\ (rd.handler # None => Own(rd.handler, r.buf)) => Kept'
    BY <1>4, <2>1, <2>11, Zenon
  <2> QED
    BY <2>8, <2>9, <2>10, <2>12, Zenon
<1> QED
  BY <1>3, <1>4

\* Payload is taken.
LEMMA ReceivePayloadKeeps ==
  ASSUME ConstantsOK, ReaderInv, ReceivePayload
  PROVE  ReaderInv'
<1>1. /\ BridgeType /\ Fresh /\ HandlerInv /\ HandlerLive /\ (~log.raced => Sync /\ Kept)
      /\ main.at = "idle" /\ ep.data \in {"payload done", "ids done"}
      /\ rd.got # Req[rd.hdr].size
  BY DEF ReaderInv, ReceivePayload
<1>2. rd.hdr \in 1..N
  BY <1>1, CurrentFacts DEF Reading
<1>3. CASE ep.data = "ids done"
  <2>1. Ends("abort")
    BY <1>3 DEF ReceivePayload, Abort
  <2>2. log.raced
    BY <1>1, <1>3 DEF Sync, Matches
  <2> QED
    BY <1>1, <2>1, <2>2, EndsKeeps
<1>4. CASE ep.data = "payload done" /\ rd.got + Len(ep.moved) > Req[rd.hdr].size
  <2>1. ResetInterface
    BY <1>4 DEF ReceivePayload
  <2> QED
    BY <1>1, <2>1, ResetKeeps
<1>5. CASE ep.data = "payload done" /\ ~(rd.got + Len(ep.moved) > Req[rd.hdr].size)
  <2> DEFINE r == [rd EXCEPT !.got = @ + Len(ep.moved), !.buf = @ \o ep.moved]
             m == [main EXCEPT !.then = "advance"]
  <2>1. /\ ep' = [ep EXCEPT !.data = "none", !.moved = <<>>] /\ FlushReceiveBuffer(r, m)
        /\ host' = host
    BY <1>5 DEF ReceivePayload
  <2>2. /\ rd \in Readers /\ main \in Threads /\ ep \in Endpoints /\ log \in Logs
        /\ hs \in [1..N -> Handlers] /\ N \in Nat
    BY <1>1, TypeFacts DEF BridgeType
  <2>3. PICK g \in Nat, n \in Nat, c \in Nat, s \in Nat :
          g = rd.got /\ n = Len(ep.moved) /\ c = Len(rd.buf) /\ s = Req[rd.hdr].size
    BY <1>1, <1>2, TypeFacts, RequestFacts
  <2>4. ep.moved \in Units /\ rd.buf \in Units
    BY <1>1, TypeFacts
  <2>5. /\ rd.buf \o ep.moved \in Units /\ Len(rd.buf \o ep.moved) = Len(rd.buf) + Len(ep.moved)
        /\ Own(rd.hdr, rd.buf) /\ Own(rd.hdr, ep.moved) => Own(rd.hdr, rd.buf \o ep.moved)
    BY <2>4, JoinFacts DEF Units
  <2>6. g + n <= s /\ g + n \in Nat
    <3>1. ~(g + n > s)
      BY <1>5, <2>3, Zenon
    <3> QED
      BY <3>1
  <2>7. /\ r \in Readers /\ r.got = g + n /\ r.buf = rd.buf \o ep.moved /\ r.hdr = rd.hdr
        /\ r.handler = rd.handler /\ r.state = rd.state /\ r.object = rd.object
    <3>1. r = [rd EXCEPT !.got = g + n, !.buf = rd.buf \o ep.moved]
      BY <2>3, Zenon
    <3> HIDE DEF r
    <3> QED
      BY <2>2, <2>5, <2>6, <3>1 DEF Readers
  <2>8. m \in Threads /\ m.then = "advance" /\ m.then \in Places
    BY <2>2 DEF Threads, Places
  <2> HIDE DEF r, m
  <2>9. r.handler # None => Ready(r)
    <3> SUFFICES ASSUME rd.handler # None PROVE Ready(r)
      BY <2>7
    <3>1. rd.handler = rd.hdr
      BY <1>1 DEF HandlerInv
    <3>2. PICK i \in 1..N : i = rd.handler
      BY <1>2, <3>1
    <3>3. /\ Bounded(i) /\ Taken(hs[i]) + Len(rd.buf) <= rd.got /\ i \notin log.begun
          /\ i \in log.later => hs[i].streaming /\ ~Req[i].stream
      BY <1>1, <3>2 DEF HandlerInv
    <3>4. PICK t \in Nat : t = Taken(hs[i])
      BY <2>2, TakenFacts
    <3>5. t + c <= g
      BY <2>3, <3>3, <3>4, Zenon
    <3>6. t + (c + n) <= g + n
      BY <3>5
    <3>7. Len(r.buf) = c + n
      BY <2>3, <2>5, <2>7, Zenon
    <3>8. Taken(hs[i]) + Len(r.buf) <= r.got /\ r.got <= Req[i].size
      BY <2>3, <2>6, <2>7, <3>1, <3>2, <3>4, <3>6, <3>7, Zenon
    <3>9. Unpacks(i, hs[i])
      BY <3>3 DEF Bounded
    <3> QED
      BY <2>7, <3>2, <3>3, <3>8, <3>9 DEF Ready
  <2>10. Delivers(r, m)
    BY <2>1, <2>2, <2>7, <2>8, <2>9, FlushFacts
  <2>11. /\ ep' \in Endpoints /\ ep'.data = "none" /\ ep'.meta = ep.meta /\ ep'.hdr = ep.hdr
    <3>1. <<>> \in Units
      BY DEF Units
    <3> QED
      BY <2>1, <2>2, <3>1 DEF Endpoints, DataStates
  <2>12. rd.hdr # None => r.got <= Req[rd.hdr].size
    BY <2>3, <2>6, <2>7, Zenon
  <2>13. /\ Fresh' /\ HandlerInv' /\ HandlerLive'
         /\ Kept /\ (rd.handler # None => Own(rd.handler, r.buf)) => Kept'
    BY <1>1, <2>1, <2>7, <2>8, <2>9, <2>10, <2>11, <2>12, DeliveryKeeps
  <2>14. /\ rd' \in Readers /\ rd'.hdr = rd.hdr /\ rd'.got = g + n
         /\ main' \in Threads /\ log' \in Logs /\ log'.raced = log.raced
    BY <2>7, <2>10 DEF Delivers
  <2>15. hs' \in [1..N -> Handlers] /\ main'.at \in {"advance", "sending"}
    BY <2>2, <2>8, <2>10 DEF Delivers, Handled
  <2>16. BridgeType'
    <3>1. rd.hdr # None
      BY <1>2, <2>2 DEF None
    <3> QED
      BY <1>1, <2>1, <2>11, <2>14, <2>15, <3>1 DEF BridgeType
  <2>17. ASSUME ~log.raced PROVE Sync' /\ Kept'
    <3>1. Sync /\ Kept
      BY <1>1, <2>17
    <3>2. Sync'
      BY <1>1, <1>5, <2>1, <2>3, <2>11, <2>14, <2>15, <3>1, TakenInSync
    <3>3. Own(rd.hdr, ep.moved)
      BY <1>5, <3>1 DEF Sync, Matches
    <3>4. rd.handler # None => rd.handler = rd.hdr /\ Own(rd.hdr, rd.buf)
      BY <1>1, <3>1 DEF HandlerInv, Kept
    <3>5. rd.handler # None => Own(rd.handler, r.buf)
      BY <2>5, <2>7, <3>3, <3>4
    <3> QED
      BY <2>13, <3>1, <3>2, <3>5
  <2> QED
    BY <2>13, <2>14, <2>16, <2>17 DEF ReaderInv
<1> QED
  BY <1>1, <1>3, <1>4, <1>5

\* Memory runs out while payload is taken.
LEMMA OutOfMemoryKeeps ==
  ASSUME ConstantsOK, ReaderInv, OutOfMemory
  PROVE  ReaderInv'
<1>1. /\ BridgeType /\ Fresh /\ HandlerInv /\ HandlerLive /\ (~log.raced => Sync /\ Kept)
      /\ main.at = "idle" /\ ep.data = "payload done"
      /\ rd.got + Len(ep.moved) <= Req[rd.hdr].size /\ Len(ep.moved) > 0
  BY DEF ReaderInv, OutOfMemory
<1>2. rd.hdr \in 1..N
  BY <1>1, CurrentFacts DEF Reading
<1>3. CASE rd.state = None
  <2>1. Ends("null state")
    BY <1>3 DEF OutOfMemory
  <2> QED
    BY <1>1, <2>1, EndsKeeps
<1>4. CASE rd.state # None
  <2> DEFINE r == [rd EXCEPT !.got = @ + Len(ep.moved), !.object = -1]
             m == [main EXCEPT !.then = "advance"]
  <2>1. /\ ep' = [ep EXCEPT !.data = "none", !.moved = <<>>]
        /\ Responds(r, rd.state, m, log) /\ host' = host /\ hs' = hs
    BY <1>4 DEF OutOfMemory
  <2>2. /\ rd \in Readers /\ main \in Threads /\ ep \in Endpoints /\ log \in Logs
        /\ hs \in [1..N -> Handlers] /\ N \in Nat
    BY <1>1, TypeFacts DEF BridgeType
  <2>3. PICK g \in Nat, n \in Nat, c \in Nat, s \in Nat :
          g = rd.got /\ n = Len(ep.moved) /\ c = Len(rd.buf) /\ s = Req[rd.hdr].size
    BY <1>1, <1>2, TypeFacts, RequestFacts
  <2>4. g + n <= s /\ n > 0
    BY <1>1, <2>3, Zenon
  <2>5. g + n \in Nat /\ g # s /\ g <= s
    BY <2>4
  <2>6. r \in Readers /\ r.got = g + n /\ r.hdr = rd.hdr
    <3>1. r = [rd EXCEPT !.got = g + n, !.object = -1]
      BY <2>3, Zenon
    <3>2. -1 \in Int
      OBVIOUS
    <3> HIDE DEF r
    <3> QED
      BY <2>2, <2>5, <3>1, <3>2 DEF Readers
  <2>7. m \in Threads /\ m.then = "advance"
    BY <2>2 DEF Threads
  <2> HIDE DEF r, m
  <2>8. PICK i \in 1..N : i = rd.state /\ i = rd.handler /\ i = rd.hdr
    BY <1>1, <1>2, <1>4 DEF HandlerInv
  <2>9. /\ Unpacks(i, hs[i]) /\ Taken(hs[i]) + Len(rd.buf) <= rd.got /\ i \notin log.begun
        /\ i \in log.later => hs[i].streaming /\ ~Req[i].stream
        /\ log.later \cap log.begun = {}
    <3>1. i # None
      BY <1>4, <2>8
    <3> QED
      BY <1>1, <2>8, <3>1 DEF HandlerInv, Bounded
  <2>10. i \notin log.later
    <3> SUFFICES ASSUME i \in log.later PROVE FALSE
      OBVIOUS
    <3>1. rd.got = Req[i].size
      <4>1. rd.got <= Req[i].size /\ rd.got \in Nat
        BY <2>3, <2>5, <2>8, Zenon
      <4>2. rd.buf \in Units /\ hs[i] \in Handlers
        BY <1>1, TypeFacts
      <4> QED
        BY <2>9, <4>1, <4>2, NotPromised
    <3> QED
      BY <2>3, <2>5, <2>8, <3>1, Zenon
  <2>11. Answers(r, i, m, log)
    BY <2>1, <2>2, <2>6, <2>7, <2>8, <2>9, RespondFacts
  <2>12. /\ rd' \in Readers /\ rd'.handler = None /\ rd'.state = None /\ rd'.hdr = rd.hdr
         /\ rd'.got = g + n
         /\ main' \in Threads /\ main'.at = "sending"
         /\ log' \in Logs /\ log'.run = log.run /\ log'.later = log.later
         /\ log'.raced = log.raced /\ log'.begun = log.begun \cup {i}
    BY <2>6, <2>7, <2>11 DEF Answers
  <2>13. /\ ep' \in Endpoints /\ ep'.data = "none" /\ ep'.meta = ep.meta /\ ep'.hdr = ep.hdr
    <3>1. <<>> \in Units
      BY DEF Units
    <3> QED
      BY <2>1, <2>2, <3>1 DEF Endpoints, DataStates
  <2>14. BridgeType'
    <3>1. rd.hdr # None
      BY <1>2, <2>2 DEF None
    <3> QED
      BY <1>1, <2>1, <2>12, <2>13, <3>1 DEF BridgeType
  <2>15. Fresh'
    <3>1. Upcoming' = Upcoming
      BY <2>1 DEF Upcoming
    <3>2. \A j \in 1..N : Seen(j)' => Seen(j)
      BY <2>1, <2>8, <2>12 DEF Seen
    <3> QED
      BY <1>1, <2>13, <3>1, <3>2, FreshKept
  <2>16. HandlerInv' /\ HandlerLive'
    <3>1. rd.hdr # None => rd'.got <= Req[rd.hdr].size
      BY <2>3, <2>4, <2>12, Zenon
    <3>2. log'.later \cap log'.begun = {}
      BY <2>9, <2>10, <2>12
    <3> QED
      BY <1>1, <2>1, <2>12, <3>1, <3>2, HandlerReleased DEF HandlerLive
  <2>17. ASSUME ~log.raced PROVE Sync' /\ Kept'
    <3>1. Sync /\ Kept
      BY <1>1, <2>17
    <3> QED
      BY <1>1, <2>1, <2>3, <2>12, <2>13, <3>1, TakenInSync, UnitsKept
  <2> QED
    BY <2>12, <2>14, <2>15, <2>16, <2>17 DEF ReaderInv
<1> QED
  BY <1>3, <1>4

\* The last flush of a request.
LEMMA FinalizeCommandKeeps ==
  ASSUME ConstantsOK, ReaderInv, FinalizeCommand
  PROVE  ReaderInv'
<1> DEFINE m == [main EXCEPT !.then = "finish"]
<1>1. /\ BridgeType /\ Fresh /\ HandlerInv /\ HandlerLive /\ (~log.raced => Sync /\ Kept)
      /\ main.at = "finalize" /\ FlushReceiveBuffer(rd, m) /\ host' = host /\ ep' = ep
  BY DEF ReaderInv, FinalizeCommand
<1>2. /\ rd \in Readers /\ main \in Threads /\ ep \in Endpoints /\ log \in Logs
      /\ hs \in [1..N -> Handlers] /\ N \in Nat /\ rd.handler \in 0..N
  BY <1>1, TypeFacts DEF BridgeType
<1>3. m \in Threads /\ m.then = "finish" /\ m.then \in Places
  BY <1>2 DEF Threads, Places
<1> HIDE DEF m
<1>4. rd.hdr # None => rd.got <= Req[rd.hdr].size
  BY <1>1 DEF HandlerInv
<1>5. rd.handler # None => Ready(rd)
  <2> SUFFICES ASSUME rd.handler # None PROVE Ready(rd)
    OBVIOUS
  <2>1. PICK i \in 1..N : i = rd.handler
    BY <1>2 DEF None
  <2>2. /\ Bounded(i) /\ Taken(hs[i]) + Len(rd.buf) <= rd.got /\ i \notin log.begun
        /\ i \in log.later => hs[i].streaming /\ ~Req[i].stream
        /\ i = rd.hdr
    BY <1>1, <2>1 DEF HandlerInv
  <2> QED
    BY <1>4, <2>1, <2>2 DEF Ready, Bounded
<1>6. Delivers(rd, m)
  BY <1>1, <1>2, <1>3, <1>5, FlushFacts
<1>7. /\ Fresh' /\ HandlerInv' /\ HandlerLive'
      /\ Kept /\ (rd.handler # None => Own(rd.handler, rd.buf)) => Kept'
  BY <1>1, <1>2, <1>3, <1>4, <1>5, <1>6, DeliveryKeeps
<1>8. /\ rd' \in Readers /\ rd'.hdr = rd.hdr /\ rd'.got = rd.got
      /\ main' \in Threads /\ main'.then = "finish" /\ log' \in Logs /\ log'.raced = log.raced
  BY <1>3, <1>6 DEF Delivers
<1>9. hs' \in [1..N -> Handlers] /\ main'.at \in {"finish", "sending"}
  BY <1>2, <1>3, <1>6 DEF Delivers, Handled
<1>10. ~GoesOn' /\ (Reading' => Reading)
  BY <1>1, <1>8, <1>9 DEF GoesOn, Reading
<1>11. BridgeType'
  BY <1>1, <1>8, <1>9, <1>10 DEF BridgeType
<1>12. ASSUME ~log.raced PROVE Sync' /\ Kept'
  <2>1. Sync /\ Kept
    BY <1>1, <1>12
  <2>2. ep.data = "none" /\ main'.at # "abort"
    BY <1>1, <1>9, <2>1 DEF Sync, Busy
  <2>3. Sync'
    BY <1>1, <1>8, <1>10, <2>1, <2>2, SyncKept
  <2>4. Kept'
    BY <1>7, <2>1 DEF Kept
  <2> QED
    BY <2>3, <2>4
<1> QED
  BY <1>7, <1>8, <1>11, <1>12 DEF ReaderInv

-----------------------------------------------------------------------------
(***************************************************************************)
(* The invariant and what follows from it.                                 *)
(***************************************************************************)

\* The invariant holds initially.
LEMMA InitReader ==
  ASSUME ConstantsOK, Init
  PROVE  ReaderInv
<1>1. N \in Nat \ {0}
  BY RequestFacts
<1>2. /\ host = [req |-> 1, at |-> "meta", left |-> 0] /\ ep = Idle
      /\ rd = [hdr |-> 0, got |-> 0, ids |-> 0, buf |-> <<>>, handler |-> 0, state |-> 0,
               object |-> -1]
      /\ hs = [i \in 1..N |-> Blank]
      /\ main = [at |-> "down", sending |-> 0, then |-> "idle", next |-> 1,
                 inMeta |-> FALSE, faults |-> 0]
      /\ log = [run |-> {}, begun |-> {}, answered |-> {}, later |-> {}, cut |-> {},
                raced |-> FALSE]
  BY DEF Init, Blank, None
<1>3. <<>> \in Units /\ Len(<<>>) = 0
  BY DEF Units
<1>4. 0 \in 0..N /\ 1 \in 1..N /\ 0 \in Nat /\ -1 \in Int
  BY <1>1
<1>5. host \in Hosts
  BY <1>2, <1>4 DEF Hosts
<1>6. ep \in Endpoints /\ ep.data = "none" /\ ep.meta = "none"
  BY <1>2, <1>3, <1>4 DEF Idle, Endpoints, DataStates, None
<1>7. rd \in Readers
  BY <1>2, <1>3, <1>4 DEF Readers
<1>8. main \in Threads
  BY <1>2, <1>4 DEF Threads, Places
<1>9. log \in Logs
  BY <1>2 DEF Logs
<1>10. hs \in [1..N -> Handlers]
  <2>1. Blank \in Handlers
    BY <1>3 DEF Blank, Handlers
  <2> QED
    BY <1>2, <2>1
<1>11. ~GoesOn /\ ~Busy /\ ~Reading
  BY <1>2, <1>6 DEF GoesOn, Busy, Reading
<1>12. BridgeType
  BY <1>5, <1>6, <1>7, <1>8, <1>9, <1>10, <1>11 DEF BridgeType
<1>13. Fresh
  <2>1. \A i \in 1..N : ~Seen(i)
    <3> SUFFICES ASSUME NEW i \in 1..N PROVE ~Seen(i)
      OBVIOUS
    <3>1. i # 0
      BY <1>1
    <3> QED
      BY <1>2, <3>1 DEF Seen
  <2> QED
    BY <1>6, <2>1 DEF Fresh
<1>14. HandlerInv
  <2>1. \A i \in 1..N : Bounded(i)
    <3> SUFFICES ASSUME NEW i \in 1..N PROVE Bounded(i)
      OBVIOUS
    <3>1. hs[i].used = <<>> /\ hs[i].sink = <<>> /\ ~hs[i].streaming
      BY <1>2 DEF Blank
    <3>2. 0 <= Req[i].par /\ 0 + 0 <= Req[i].size
      BY RequestFacts
    <3>3. Unpacks(i, hs[i])
      BY <1>3, <3>1, <3>2, Zenon DEF Unpacks
    <3>4. Taken(hs[i]) <= Req[i].size
      BY <1>3, <3>1, <3>2, Zenon DEF Taken
    <3> QED
      BY <1>2, <3>3, <3>4 DEF Bounded
  <2> QED
    BY <1>2, <2>1 DEF HandlerInv, None
<1>15. HandlerLive
  BY <1>2 DEF HandlerLive, None
<1>16. Sync
  <2>1. Matches
    BY <1>6 DEF Matches
  <2> QED
    BY <1>2, <1>6, <1>11, <2>1 DEF Sync
<1>17. Kept
  <2>1. \A i \in 1..N : Own(i, hs[i].used) /\ Own(i, hs[i].sink)
    BY <1>2 DEF Blank, Own
  <2> QED
    BY <1>2, <2>1 DEF Kept, None
<1> QED
  BY <1>12, <1>13, <1>14, <1>15, <1>16, <1>17 DEF ReaderInv

\* A failed request transfer or posting resets the interface; a failed response or
\* report, and memory that runs out in OpenRequest, end the service.
LEMMA FailsKeeps ==
  ASSUME ConstantsOK, ReaderInv, Fails
  PROVE  ReaderInv'
<1>1. CASE MetaFails \/ DataFails
  BY <1>1, ResetKeeps DEF MetaFails, DataFails
<1>2. CASE PostFails
  <2>1. main.at # "cleanup" /\ ResetInterface
    BY <1>2 DEF PostFails, Posting
  <2> QED
    BY <2>1, ResetKeeps
<1>3. CASE ResponseFails \/ ReportFails \/ OpenFails
  <2>1. main.at # "cleanup" /\ Ends("fatal")
    BY <1>3 DEF ResponseFails, ReportFails, OpenFails
  <2> QED
    BY <2>1, EndsKeeps
<1>4. CASE OutOfMemory
  BY <1>4, OutOfMemoryKeeps
<1> QED
  BY <1>1, <1>2, <1>3, <1>4, Zenon DEF Fails

\* Every step keeps the invariant.
LEMMA NextReader ==
  ASSUME ConstantsOK, ReaderInv, [Next]_vars
  PROVE  ReaderInv'
<1>1. CASE UNCHANGED vars
  <2>1. /\ host' = host /\ ep' = ep /\ rd' = rd /\ hs' = hs /\ objects' = objects
        /\ main' = main /\ log' = log
    BY <1>1 DEF vars
  <2>2. /\ ep \in Endpoints /\ main \in Threads /\ log \in Logs
        /\ ~log.raced => main.at # "abort" /\ (Busy => ep.data = "none")
    BY DEF ReaderInv, BridgeType, Sync
  <2>3. (GoesOn' => GoesOn) /\ (Busy' => Busy)
    BY <2>1 DEF GoesOn, Busy
  <2> QED
    BY <2>1, <2>2, <2>3, PassingKeeps
<1>2. CASE HostSends
  BY <1>2, HostSendMetaKeeps, HostSendDataKeeps, HostSendObjsKeeps DEF HostSends
<1>3. CASE MainThread
  <2> DEFINE Goal == ReaderInv'
  <2>1. USBStateChangeCallback => Goal
    BY USBStateChangeCallbackKeeps
  <2>2. MetadataTransactionCompleted => Goal
    BY MetadataKeeps
  <2>3. Advance => Goal
    BY AdvanceKeeps
  <2>4. Return => Goal
    BY ReturnKeeps
  <2>5. ReceiveIds => Goal
    BY ReceiveIdsKeeps
  <2>6. ReceivePayload => Goal
    BY ReceivePayloadKeeps
  <2>7. FinalizeCommand => Goal
    BY FinalizeCommandKeeps
  <2>8. Finish => Goal
    BY FinishKeeps
  <2>9. CleanupCommand => Goal
    BY CleanupCommandKeeps
  <2>10. ResponseSent => Goal
    BY ResponseSentKeeps
  <2> HIDE DEF Goal
  <2>11. Goal
    BY <1>3, <2>1, <2>2, <2>3, <2>4, <2>5, <2>6, <2>7, <2>8, <2>9, <2>10, Zenon DEF MainThread
  <2> QED
    BY <2>11 DEF Goal
<1>4. CASE RespondLater
  BY <1>4, RespondLaterKeeps
<1>5. CASE Fails
  BY <1>5, FailsKeeps
<1> QED
  BY <1>1, <1>2, <1>3, <1>4, <1>5, Zenon DEF Next

\* The invariant says that commands run with what was sent for them, that the
\* reader's handler is alive, and that no second response and no unexpected transfer
\* aborts twili.
LEMMA ReaderSound ==
  ASSUME ConstantsOK, ReaderInv
  PROVE  BridgeSound
<1>1. BridgeType /\ HandlerInv /\ HandlerLive /\ (~log.raced => Sync /\ Kept)
  BY DEF ReaderInv
<1>2. RequestsIntact
  <2> SUFFICES ASSUME ~log.raced, NEW i \in log.run
               PROVE  /\ Own(i, hs[i].used) /\ Len(hs[i].used) = Req[i].par
                      /\ Own(i, hs[i].sink) /\ Len(hs[i].sink) <= Req[i].size - Req[i].par
    BY DEF RequestsIntact
  <2>1. i \in 1..N /\ hs[i] \in Handlers
    BY <1>1, TypeFacts
  <2>2. /\ hs[i].streaming /\ Len(hs[i].used) = Req[i].par /\ Taken(hs[i]) <= Req[i].size
    BY <1>1, <2>1 DEF HandlerInv, Bounded, Unpacks
  <2>3. Own(i, hs[i].used) /\ Own(i, hs[i].sink)
    BY <1>1, <2>1 DEF Kept
  <2>4. Len(hs[i].used) \in Nat /\ Len(hs[i].sink) \in Nat /\ Req[i].size \in Nat
    BY <2>1, RequestFacts DEF Handlers, Units
  <2>5. PICK a \in Nat, b \in Nat, s \in Nat :
          a = Len(hs[i].used) /\ b = Len(hs[i].sink) /\ s = Req[i].size
    BY <2>4
  <2>6. a + b <= s
    BY <2>2, <2>5, Zenon DEF Taken
  <2>7. b <= s - a
    BY <2>6
  <2>8. Len(hs[i].sink) <= Req[i].size - Req[i].par
    BY <2>2, <2>5, <2>7, Zenon
  <2> QED
    BY <2>2, <2>3, <2>8
<1>3. NeverAborts
  BY <1>1 DEF NeverAborts, Sync
<1> QED
  BY <1>1, <1>2, <1>3 DEF BridgeSound

\* Whatever the requests, however the payload is cut and whichever transfer or
\* posting fails: a command runs with its own parameters and stream bytes, the
\* handler the reader points to is one its object still holds, and neither a second
\* response nor an unexpected transfer aborts twili, unless a header overtook data.
\* The aborts of a failing response transfer, a failing report and a lack of memory
\* are steps of the specification and outside the claim (RequestReader.cpp,
\* RequestHandler.hpp, ResponseOpener.cpp, USBBridge.cpp).
THEOREM BridgeAlwaysSound == Spec => []BridgeSound
<1> USE BridgeAssumption
<1>1. Init => ReaderInv
  BY InitReader
<1>2. ReaderInv /\ [Next]_vars => ReaderInv'
  BY NextReader
<1>3. ReaderInv => BridgeSound
  BY ReaderSound
<1> QED
  BY <1>1, <1>2, <1>3, PTL DEF Spec
=============================================================================
