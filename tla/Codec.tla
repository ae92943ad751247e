------------------------------- MODULE Codec -------------------------------
(***************************************************************************)
(* How a call's arguments and results travel: packed by the tool           *)
(* (twib/tool/Packing.hpp), received piece by piece into a util::Buffer    *)
(* (common/Buffer.cpp), unpacked as far as they have arrived               *)
(* (twili/bridge/Unpacking.hpp); results packed with an announced size     *)
(* (twili/bridge/Packing.hpp) and unpacked by the tool.                    *)
(* An integer is Width bytes, least significant first.                     *)
(***************************************************************************)
EXTENDS Integers, Sequences, SequencesExt, FiniteSetsExt

CONSTANTS Base,      \* values of a byte
          Width,     \* bytes of an integer: 8 in the code, for sizes and values
          Calls,     \* argument lists: sequences of values
          Results,   \* result lists
          Initial    \* bytes a Buffer has at first, 2048

\* A value: its type and its contents.  "pod" is an integer, "vec" bytes (a
\* string or MsgPack too), "strings" a vector of strings, "stream" the bytes of
\* an InputStream, "object" a bridge object.
Byte == 0..Base - 1

VARIABLES args,    \* the arguments of the call
          wire,    \* packed bytes that have not arrived
          buf,     \* the console's payload_buffer: data, read_head, write_head
          hold,    \* UnpackingHolder: values so far, has_size and size of the next
          result,  \* the result of the call
          reply    \* the response: announced size and objects, payload, objects
vars == <<args, wire, buf, hold, result, reply>>

-----------------------------------------------------------------------------
\* util::Buffer.
ReadAvailable(b) == b.write - b.read
Contents(b) == SubSeq(b.data, b.read + 1, b.write)

\* Mutant of Compact: only the read head is moved.
HeadsKept(b) ==
  [b EXCEPT !.data = [k \in 1..Len(b.data) |-> b.data[IF b.read + k <= Len(b.data) THEN b.read + k ELSE k]],
            !.read = 0]

\* Buffer::Compact: what is unread moves to the front.
Compact(b) ==
  [b EXCEPT !.data = [k \in 1..Len(b.data) |-> b.data[IF b.read + k <= Len(b.data) THEN b.read + k ELSE k]],
            !.write = @ - b.read, !.read = 0]
Grown(b, n) == [b EXCEPT !.data = [k \in 1..n |-> IF k <= Len(b.data) THEN b.data[k] ELSE 0]]
EnsureSpace(b, size) ==
  LET c == IF b.write + size > Len(b.data) THEN Compact(b) ELSE b
  IN IF c.write + size > Len(c.data) THEN Grown(c, c.write + size) ELSE c
Write(b, bytes) ==
  LET c == EnsureSpace(b, Len(bytes))
  IN [c EXCEPT !.data = [k \in 1..Len(c.data) |->
                           IF k > c.write /\ k <= c.write + Len(bytes) THEN bytes[k - c.write] ELSE c.data[k]],
               !.write = @ + Len(bytes)]
CanRead(b, size) == b.read + size <= b.write
MarkRead(b, size) == [b EXCEPT !.read = @ + size]

EmptyBuffer == [data |-> [k \in 1..Initial |-> 0], read |-> 0, write |-> 0]

-----------------------------------------------------------------------------
\* twib/tool/Packing.hpp and twili/bridge/Packing.hpp write the same bytes.
EncodeInt(n) == [k \in 1..Width |-> (n \div Base ^ (k - 1)) % Base]
DecodeInt(b) == FoldLeft(LAMBDA n, k : n + b[k] * Base ^ (k - 1), 0, [k \in 1..Width |-> k])

PackBytes(s) == EncodeInt(Len(s)) \o s
\* objects is what ResponseWriter::Object has collected so far.
Pack(v, objects) ==
  CASE v.type = "pod" -> EncodeInt(v.val)
    [] v.type \in {"vec", "stream"} -> PackBytes(v.val)
    [] v.type = "strings" -> EncodeInt(Len(v.val)) \o FlattenSeq([k \in 1..Len(v.val) |-> PackBytes(v.val[k])])
    [] v.type = "object" -> EncodeInt(Len(objects))
IsObject(v) == v.type = "object"
ObjectsOf(vs) == SelectSeq(vs, IsObject)
PackAll(vs) == FlattenSeq([k \in 1..Len(vs) |-> Pack(vs[k], ObjectsOf(SubSeq(vs, 1, k - 1)))])

\* PackingHelper::GetSize, what RespondOk announces before it writes.
GetSize(v) ==
  CASE v.type \in {"pod", "object"} -> Width
    [] v.type \in {"vec", "stream"} -> Width + Len(v.val)
    [] v.type = "strings" -> Width + FoldLeft(LAMBDA n, s : n + Width + Len(s), 0, v.val)
GetObjectCount(v) == IF v.type = "object" THEN 1 ELSE 0
Total(Op(_), vs) == FoldLeft(LAMBDA n, v : n + Op(v), 0, vs)

-----------------------------------------------------------------------------
\* UnpackingHolder::Unpack: one helper after the other, until one has not
\* enough.  A helper remembers a size it has read.
Types == [k \in 1..Len(args) |-> args[k].type]

RECURSIVE Unpack(_, _)
Unpack(b, h) ==
  LET k == Len(h.values) + 1
      Got(c, v) == Unpack(c, [values |-> Append(h.values, [type |-> Types[k], val |-> v]),
                              has_size |-> FALSE, size |-> 0])
      int == DecodeInt(SubSeq(b.data, b.read + 1, b.read + Width))
      stop == [buf |-> b, hold |-> h]
  IN CASE k > Len(args) -> stop
       [] k <= Len(args) /\ ~h.has_size /\ ~CanRead(b, Width) -> stop
       [] k <= Len(args) /\ ~h.has_size /\ CanRead(b, Width) ->
            CASE Types[k] = "pod" -> Got(MarkRead(b, Width), int)
              [] Types[k] = "stream" -> Got(MarkRead(b, Width), int)   \* expected_size
              [] OTHER -> Unpack(MarkRead(b, Width), [h EXCEPT !.has_size = TRUE, !.size = int])
       [] k <= Len(args) /\ h.has_size ->
            IF CanRead(b, h.size) THEN Got(MarkRead(b, h.size), SubSeq(b.data, b.read + 1, b.read + h.size))
            ELSE stop

\* The tool's side, over the whole payload.
RECURSIVE ToolUnpack(_, _, _)
ToolUnpack(types, s, objects) ==
  IF types = <<>> THEN <<>>
  ELSE LET n == DecodeInt(SubSeq(s, 1, Width))
           After(len) == SubSeq(s, Width + len + 1, Len(s))
           strings[k \in 0..n] ==
             IF k = 0 THEN [out |-> <<>>, rest |-> After(0)]
             ELSE LET p == strings[k - 1]
                      len == DecodeInt(SubSeq(p.rest, 1, Width))
                  IN [out |-> Append(p.out, SubSeq(p.rest, Width + 1, Width + len)),
                      rest |-> SubSeq(p.rest, Width + len + 1, Len(p.rest))]
           Rest(r) == ToolUnpack(Tail(types), r, objects)
       IN CASE Head(types) = "pod" -> <<[type |-> "pod", val |-> n]>> \o Rest(After(0))
            [] Head(types) = "vec" -> <<[type |-> "vec", val |-> SubSeq(s, Width + 1, Width + n)]>> \o Rest(After(n))
            [] Head(types) = "strings" -> <<[type |-> "strings", val |-> strings[n].out]>> \o Rest(strings[n].rest)
            [] Head(types) = "object" -> <<objects[n + 1]>> \o Rest(After(0))

-----------------------------------------------------------------------------
NoReply == [size |-> 0, count |-> 0, payload |-> <<>>, objects |-> <<>>]

Init ==
  /\ args \in Calls
  /\ wire = PackAll(args)
  /\ buf = EmptyBuffer
  /\ hold = [values |-> <<>>, has_size |-> FALSE, size |-> 0]
  /\ result \in Results
  /\ reply = NoReply

\* A piece of the payload arrives and is unpacked as far as it goes.
Arrive ==
  \E n \in 1..Len(wire) :
    LET u == Unpack(Write(buf, SubSeq(wire, 1, n)), hold)
    IN /\ buf' = u.buf /\ hold' = u.hold
       /\ wire' = SubSeq(wire, n + 1, Len(wire))
       /\ UNCHANGED <<args, result, reply>>

\* ResponseOpener::RespondOk: the sizes first, then the values.
RespondOk ==
  /\ wire = <<>> /\ Len(hold.values) = Len(args) /\ reply = NoReply
  /\ reply' = [size |-> Total(GetSize, result), count |-> Total(GetObjectCount, result),
               payload |-> PackAll(result), objects |-> ObjectsOf(result)]
  /\ UNCHANGED <<args, wire, buf, hold, result>>

Done == wire = <<>> /\ UNCHANGED vars
Next == Arrive \/ RespondOk \/ Done
Spec == Init /\ [][Next]_vars

-----------------------------------------------------------------------------
\* What UnpackingHolder makes of a value: of a stream, its size; the bytes
\* stay in the buffer for its receive.
Seen(v) == IF v.type = "stream" THEN [v EXCEPT !.val = Len(@)] ELSE v
StreamBytes == IF args # <<>> /\ Last(args).type = "stream" THEN Last(args).val ELSE <<>>

\* However the payload is cut, the arguments unpacked so far are those that
\* were packed, and when all has arrived they are complete and the buffer holds
\* what is left of the stream.
ArgumentsIntact ==
  /\ hold.values = [k \in 1..Len(hold.values) |-> Seen(args[k])]
  /\ wire = <<>> => Len(hold.values) = Len(args) /\ Contents(buf) = StreamBytes

\* A response is as long as it was announced, with as many objects, and the
\* tool gets from it the values the console packed.
ResultIntact ==
  reply # NoReply =>
    /\ Len(reply.payload) = reply.size /\ Len(reply.objects) = reply.count
    /\ ToolUnpack([k \in 1..Len(result) |-> result[k].type], reply.payload, reply.objects) = result
=============================================================================
