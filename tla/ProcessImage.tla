---------------------------- MODULE ProcessImage ----------------------------
(***************************************************************************)
(* The file system a launched process is loaded from                       *)
(* (twili/process/fs): an NRO is presented to the loader as an NSO, made   *)
(* of a header in memory and three segments of the NRO                     *)
(* (TransmutationFile, NSOTransmutationFile, NRONSOTransmutationFile); the *)
(* loader opens /main, /rtld and /main.npdm and reads where it likes.      *)
(***************************************************************************)
EXTENDS Integers, Sequences, SequencesExt

CONSTANTS Nros,         \* NRO files: whether the header is valid, its three
                        \* segments (offset, size) and the bytes
          Files,        \* what SetMain, SetRtld and SetNpdm may be given
          HeaderSize,   \* size of the NSO header, 0x100
          MaxRead       \* bound: offsets and sizes the loader reads at

Names == {"/main", "/rtld", "/main.npdm"}

VARIABLES nro,    \* the executable
          files,  \* ProcessFileSystem: what is behind every name
          open,   \* the loader's open file, by its name
          last    \* the last read: where, how much, and what came of it
vars == <<nro, files, open, last>>

-----------------------------------------------------------------------------
\* ActualFile: what there is, up to size.
Least(a, b) == IF a < b THEN a ELSE b
FileRead(bytes, offset, size) ==
  IF offset > Len(bytes) THEN <<>> ELSE SubSeq(bytes, offset + 1, offset + Least(size, Len(bytes) - offset))

\* A segment: in memory, or backed by a range of the NRO.
Memory(s) == [file |-> s, offset |-> 0, size |-> Len(s)]
Backed(h) == [file |-> nro.bytes, offset |-> h.offset, size |-> h.size]
SegmentRead(seg, offset, size) == FileRead(seg.file, seg.offset + offset, size)

\* NSOTransmutationFile: the header, with file offsets that follow from the
\* sizes; memory offsets are the same less the header.
Sizes(n) == [k \in 1..3 |-> n.segments[k].size]
FileOffset(n, k) == HeaderSize + FoldLeft(LAMBDA a, b : a + b, 0, SubSeq(Sizes(n), 1, k - 1))
Header(n) == [k \in 1..HeaderSize |-> IF k <= 3 THEN <<FileOffset(n, k), Sizes(n)[k]>> ELSE <<"header">>]
Segments(n) == <<Memory(Header(n))>> \o [k \in 1..3 |-> Backed(n.segments[k])]

-----------------------------------------------------------------------------
\* Mutant of OffsetAfter: a segment is taken to be read to its end.
OffsetSkips(acc, seg, n) == acc.offset + seg.size

\* The position after n bytes of a segment.
OffsetAfter(acc, seg, n) == acc.offset + n

\* TransmutationFile::Read: over the segments, until size bytes are read.
Through(acc, seg) ==
  LET end == acc.begin + seg.size
      n == Least(end - acc.offset, acc.size)
      got == SegmentRead(seg, acc.offset - acc.begin, n)
  IN IF acc.err \/ acc.size = 0 THEN acc
     ELSE IF acc.offset >= end THEN [acc EXCEPT !.begin = end]
     ELSE IF Len(got) < n THEN [acc EXCEPT !.err = TRUE, !.out = @ \o got]
     ELSE [acc EXCEPT !.begin = end, !.offset = OffsetAfter(acc, seg, n), !.size = @ - n, !.out = @ \o got]

Read(segs, offset, size) ==
  FoldLeft(Through, [begin |-> 0, offset |-> offset, size |-> size, out |-> <<>>, err |-> FALSE], segs)

GetSize(segs) == FoldLeft(LAMBDA n, seg : n + seg.size, 0, segs)

-----------------------------------------------------------------------------
\* The segments behind a name: the transmuted NRO or a plain file.
Contents(f) == IF f = "nro" THEN Segments(nro) ELSE <<Memory(f)>>
NoRead == [offset |-> 0, size |-> 0, r |-> "none", out |-> <<>>, total |-> 0]

Init ==
  /\ nro \in Nros /\ files = [n \in Names |-> "none"] /\ open = "none" /\ last = NoRead

\* NRONSOTransmutationFile::Create and SetMain; SetRtld and SetNpdm.
SetMain ==
  /\ files["/main"] = "none" /\ nro.valid
  /\ files' = [files EXCEPT !["/main"] = "nro"]
  /\ UNCHANGED <<nro, open, last>>

SetFile(n) ==
  /\ n # "/main" /\ files[n] = "none"
  /\ \E f \in Files : files' = [files EXCEPT ![n] = f]
  /\ UNCHANGED <<nro, open, last>>

\* IFileSystem::OpenFile compares whole names; 0x202 if nothing is there.
OpenFile(n) ==
  /\ files[n] # "none" /\ open # n
  /\ open' = n /\ last' = NoRead
  /\ UNCHANGED <<nro, files>>

IFileRead(offset, size) ==
  /\ open # "none"
  /\ LET a == Read(Contents(files[open]), offset, size)
     IN last' = [offset |-> offset, size |-> size, r |-> IF a.err THEN "io" ELSE "ok", out |-> a.out,
                 total |-> GetSize(Contents(files[open]))]
  /\ UNCHANGED <<nro, files, open>>

Next == \/ SetMain \/ (\E n \in Names : SetFile(n) \/ OpenFile(n))
        \/ \E offset, size \in 0..MaxRead : IFileRead(offset, size)
Spec == Init /\ [][Next]_vars

-----------------------------------------------------------------------------
\* What the loader should see: the header, then the segments one after the
\* other; beyond the NRO's end there is nothing.
Whole == IF files[open] = "nro"
         THEN Header(nro) \o FlattenSeq([k \in 1..3 |-> FileRead(nro.bytes, nro.segments[k].offset, nro.segments[k].size)])
         ELSE files[open]
Truncated == files[open] = "nro" /\ \E k \in 1..3 : nro.segments[k].offset + nro.segments[k].size > Len(nro.bytes)

\* Wherever the loader reads in the file it opened, across any borders, it gets
\* that part of the image, as much of it as there is; a segment that the NRO
\* does not contain is an I/O error.
ImageFaithful ==
  last.r # "none" =>
    /\ Truncated \/ last.r = "ok"
    /\ last.r = "ok" /\ ~Truncated =>
         last.out = FileRead(Whole, last.offset, last.size) /\ last.total = Len(Whole)
    /\ last.r = "ok" => Len(last.out) <= last.size
=============================================================================
