----------------------------- MODULE GdbPacket -----------------------------
(***************************************************************************)
(* The remote serial protocol's packets (twib/tool/GdbConnection.cpp):     *)
(* Process takes the bytes as they come and makes packets of them; Respond *)
(* frames a reply; Encode and Decode write and read hexadecimal numbers.   *)
(* Characters are their codes.                                             *)
(***************************************************************************)
EXTENDS Integers, Sequences, SequencesExt

CONSTANTS Messages,   \* what gdb may send, sequences of characters
          Ids,        \* process and thread ids in replies
          MaxSends    \* bound: packets and interrupts from gdb

Dollar == 36
Hash == 35
Brace == 125
Star == 42
Plus == 43
Break == 3
Xor20(c) == IF (c \div 32) % 2 = 1 THEN c - 32 ELSE c + 32

VARIABLES sent,    \* what gdb sent, messages and interrupts (history)
          line,    \* bytes on their way to the stub
          rx,      \* GdbConnection: state, message_buffer, checksum, checksum_hex
          ack,     \* ack_enabled
          got,     \* what Process returned (history)
          error,   \* error_flag
          reply    \* the last reply: what Respond was given and what it wrote
vars == <<sent, line, rx, ack, got, error, reply>>

Interrupt == <<"interrupt">>
Packet(m) == <<"packet", m>>

-----------------------------------------------------------------------------
\* EncodeHexNybble writes '0'.. and 'a'..; DecodeHexNybble reads 'A'.. as well.
EncodeHexNybble(n) == IF n < 10 THEN 48 + n ELSE 97 + n - 10
DecodeHexNybble(c) == CASE c \in 48..57 -> c - 48
                        [] c \in 97..102 -> c - 97 + 10
                        [] c \in 65..70 -> c - 65 + 10
                        [] OTHER -> 0
EncodeByte(b) == <<EncodeHexNybble(b \div 16), EncodeHexNybble(b % 16)>>
DecodeHexByte(h) == DecodeHexNybble(h[1]) * 16 + DecodeHexNybble(h[2])

\* Encode: with size 0 every byte that is zero is left out.  IdBytes is enough
\* for the ids of an instance.
IdBytes == 3
ByteOf(n, k) == (n \div 256 ^ k) % 256
Encode(n, size) ==
  FlattenSeq([j \in 1..(IF size = 0 THEN IdBytes ELSE size) |->
    LET b == ByteOf(n, (IF size = 0 THEN IdBytes ELSE size) - j)
    IN IF size # 0 \/ b # 0 THEN EncodeByte(b) ELSE <<>>])
Decode(s) == FoldLeft(LAMBDA n, c : n * 16 + DecodeHexNybble(c), 0, s)

Checksum(s) == FoldLeft(LAMBDA n, c : (n + c) % 256, 0, s)

-----------------------------------------------------------------------------
\* Mutant of Special: the escape character itself is sent as it is.
BraceNot == {Hash, Dollar, Star}

\* Respond: the characters with a meaning are escaped.
Special == {Hash, Dollar, Brace, Star}
Escaped(m, set) == FlattenSeq([k \in 1..Len(m) |-> IF m[k] \in set THEN <<Brace, Xor20(m[k])>> ELSE <<m[k]>>])
Framed(data) == <<Dollar>> \o data \o <<Hash>> \o Encode(Checksum(data), 1)
Respond(m) == Framed(Escaped(m, Special))
\* gdb frames its packets in the same way (external), with digits of either case.
GdbFrames(m) == Framed(Escaped(m, {Hash, Dollar, Brace, Star}))
UpperDigits(s) == [k \in DOMAIN s |-> IF k > Len(s) - 2 /\ s[k] \in 97..102 THEN s[k] - 32 ELSE s[k]]

\* Process, one character: the next state, and what it returns.
Stays(r) == [rx |-> r, out |-> <<>>, err |-> FALSE]
Feed(r, c, acking) ==
  CASE r.state = "open" /\ c = Plus -> Stays(r)
    [] r.state = "open" /\ c = Break -> [Stays(r) EXCEPT !.out = <<Interrupt>>]
    [] r.state = "open" /\ c = Dollar -> Stays([r EXCEPT !.state = "data", !.msg = <<>>, !.sum = 0])
    [] r.state = "open" /\ c \notin {Plus, Break, Dollar} -> [Stays(r) EXCEPT !.err = TRUE]
    [] r.state = "data" /\ c = Hash -> Stays([r EXCEPT !.state = "sum0"])
    [] r.state = "data" /\ c = Brace -> Stays([r EXCEPT !.state = "escape", !.sum = (@ + c) % 256])
    [] r.state = "data" /\ c \notin {Hash, Brace} ->
         Stays([r EXCEPT !.msg = Append(@, c), !.sum = (@ + c) % 256])
    [] r.state = "escape" ->
         Stays([r EXCEPT !.state = "data", !.msg = Append(@, Xor20(c)), !.sum = (@ + c) % 256])
    [] r.state = "sum0" -> Stays([r EXCEPT !.state = "sum1", !.hex = <<c>>])
    [] r.state = "sum1" ->
         LET next == [r EXCEPT !.state = "open", !.hex = <<>>]
         IN IF DecodeHexByte(Append(r.hex, c)) = r.sum
            THEN [Stays(next) EXCEPT !.out = <<Packet(r.msg)>>]
            ELSE [Stays(next) EXCEPT !.err = ~acking]   \* '-' asks for it again

Idle == [state |-> "open", msg |-> <<>>, sum |-> 0, hex |-> <<>>]

Init ==
  /\ sent = <<>> /\ line = <<>> /\ rx = Idle /\ ack = TRUE /\ got = <<>> /\ error = FALSE
  /\ reply = [id |-> 0, msg |-> <<>>, wrote |-> Respond(<<>>)]

\* gdb (external): a packet, possibly spoilt on the way as long as it can be
\* asked for again; an interrupt.
Spoilt(s) == Append(Front(s), IF Last(s) = 48 THEN 49 ELSE 48)

GdbSends ==
  /\ Len(sent) < MaxSends /\ line = <<>>
  /\ \/ \E m \in Messages : /\ sent' = Append(sent, Packet(m))
                            /\ line' \in {GdbFrames(m), UpperDigits(GdbFrames(m))}
     \/ \E m \in Messages \ {<<>>} :
          ack /\ line' = Spoilt(GdbFrames(m)) /\ UNCHANGED sent
     \/ sent' = Append(sent, Interrupt) /\ line' = <<Break>>
  /\ UNCHANGED <<rx, ack, got, error, reply>>

Process ==
  /\ line # <<>> /\ ~error
  /\ LET f == Feed(rx, Head(line), ack)
     IN rx' = f.rx /\ got' = got \o f.out /\ error' = f.err
  /\ line' = Tail(line)
  /\ UNCHANGED <<sent, ack, reply>>

\* The stub answers: with an id, or with data as it came.
Answer ==
  /\ line = <<>> /\ got # <<>>
  /\ \/ \E n \in Ids : reply' = [id |-> n, msg |-> Encode(n, 0), wrote |-> Respond(Encode(n, 0))]
     \/ /\ Last(got) # Interrupt
        /\ reply' = [id |-> 0, msg |-> Last(got)[2], wrote |-> Respond(Last(got)[2])]
  /\ UNCHANGED <<sent, line, rx, ack, got, error>>

StartNoAckMode ==
  /\ line = <<>> /\ ack
  /\ ack' = FALSE
  /\ UNCHANGED <<sent, line, rx, got, error, reply>>

Next == GdbSends \/ Process \/ Answer \/ StartNoAckMode
Spec == Init /\ [][Next]_vars

-----------------------------------------------------------------------------
\* Process returns the packets and interrupts that gdb sent, in order, each
\* once, whatever characters they hold and however a spoilt packet came in
\* between; a reply read by the same rules is what the stub meant, and an id in
\* it too, if it has no zero byte (Encode leaves out all of them, not only the
\* leading ones).
HasZeroByte(n) == n = 0 \/ \E k \in 0..IdBytes - 1 : ByteOf(n, k) = 0 /\ n >= 256 ^ k
Received(s) == FoldLeft(LAMBDA r, c : [rx |-> Feed(r.rx, c, FALSE).rx, out |-> r.out \o Feed(r.rx, c, FALSE).out],
                        [rx |-> Idle, out |-> <<>>], s).out
PacketsIntact ==
  /\ IsPrefix(got, sent) /\ ~error
  /\ line = <<>> => got = sent
  /\ Received(reply.wrote) = <<Packet(reply.msg)>>
  /\ HasZeroByte(reply.id) \/ Decode(reply.msg) = reply.id
=============================================================================
