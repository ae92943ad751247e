------------------------------ MODULE CoreDump ------------------------------
(***************************************************************************)
(* ELFCrashReport::Generate (twili/ELFCrashReport.cpp): twili attaches to  *)
(* a process, collects its threads, memory and modules, lays out an ELF    *)
(* core file, announces its size and streams it.  The file is a sequence   *)
(* of bytes; a structure is told by its first byte, the rest is filler.    *)
(***************************************************************************)
EXTENDS Integers, Sequences, SequencesExt, FiniteSets, FiniteSetsExt

CONSTANTS Dumped,       \* processes: modules, debug events, memory regions
          Space,        \* size of the address space, 2^64: vaddr wraps to 0
          EhdrSize, PhdrSize, NhdrSize,   \* sizes of the ELF structures
          DescSize,     \* size of a note's contents, by its type
          NameSize,     \* length of a note's name, by its type
          MaxNsos,      \* Services::GetNsoInfos: modules asked for, 0x10
          Transfer,     \* ResponseWriter::GetMaxTransferSize
          MaxPhdrs      \* values of e_phnum, 2^16

Signals == {"ILL", "TRAP", "SEGV", "BUS"}

VARIABLES proc,    \* the process, alive or killed
          pc,      \* where Generate is
          debug,   \* debug events not fetched, address of the next region
          report,  \* the ELFCrashReport: threads, vmas, notes
          size,    \* what was announced: total_size, notes_offset, ph_offset
          out,     \* what was written
          at       \* the write loop: vma and offset
vars == <<proc, pc, debug, report, size, out, at>>

-----------------------------------------------------------------------------
Padded(n) == ((n + 3) \div 4) * 4
Bytes(first, n) == IF n = 0 THEN <<>> ELSE <<first>> \o [k \in 1..n - 1 |-> <<"fill">>]
\* AddNote: namesz and descsz are the lengths before padding.
Note(type, content) ==
  [type |-> type, content |-> content, namesz |-> NameSize[type], descsz |-> DescSize[type],
   name |-> Padded(NameSize[type]), desc |-> Padded(DescSize[type])]
AddNote(r, type, content) == [r EXCEPT !.notes = Append(@, Note(type, content))]

Init ==
  /\ proc \in [p : Dumped, alive : {TRUE}]
  /\ pc = "notes" /\ out = <<>>
  /\ debug = [events |-> proc.p.events, vaddr |-> 0]
  /\ report = [threads |-> <<>>, vmas |-> <<>>, notes |-> <<>>]
  /\ size = [total |-> 0, notes |-> 0, ph |-> 0]
  /\ at = [vma |-> 1, offset |-> 0]

\* Services::GetNsoInfos: the vector is resized to what is asked for, then to
\* what was found; when ldr:dmnt does not know the process it stays full of
\* empty modules.
GetNsoInfos(known) == IF known THEN proc.p.nsos ELSE [k \in 1..MaxNsos |-> "empty"]

\* Process::AddNotes and MonitoredProcess::AddNotes, before the attach; the
\* result of GetNsoInfos is discarded.
AddNotes ==
  /\ pc = "notes"
  /\ \E known \in BOOLEAN :
       LET nsos == GetNsoInfos(known)
           aux == IF proc.p.monitored THEN <<Note("AUXV", "entry")>> ELSE <<>>
       IN report' = [report EXCEPT !.notes = [k \in 1..Len(nsos) |-> Note("NSO", nsos[k])] \o aux]
  /\ pc' = "attach" /\ UNCHANGED <<proc, debug, size, out, at>>

DebugActiveProcess ==
  /\ pc = "attach" /\ proc.alive
  /\ pc' = "events" /\ UNCHANGED <<proc, debug, report, size, out, at>>

\* The one failure that is answered: somebody else debugs the process, or it
\* is gone.
AttachFails ==
  /\ pc = "attach"
  /\ pc' = "refused" /\ UNCHANGED <<proc, debug, report, size, out, at>>

\* The signal of an exception; the variable is uninitialised for a type the
\* switch does not know.
SignalsOf(exception) ==
  CASE exception \in {"UNDEFINED_INSTRUCTION", "BAD_SVC_ID"} -> {"ILL"}
    [] exception \in {"BREAKPOINT", "USER_BREAK", "DEBUGGER_ATTACHED", "DEBUGGER_BREAK"} -> {"TRAP"}
    [] exception \in {"INSTRUCTION_ABORT", "DATA_ABORT_MISC"} -> {"SEGV"}
    [] exception = "PC_SP_ALIGNMENT_FAULT" -> {"BUS"}
    [] OTHER -> Signals

\* std::map::emplace keeps an entry that is there.
AddThread(r, id) ==
  IF id \in DOMAIN r.threads THEN r
  ELSE [r EXCEPT !.threads = [t \in DOMAIN @ \cup {id} |-> IF t = id THEN "none" ELSE @[t]]]
\* The kernel has told of a thread before it tells of its exceptions: GetThread of
\* any other would be the map's end.
SetSignal(r, id, signal) == IF id = 0 THEN r ELSE [r EXCEPT !.threads[id] = signal]

GetDebugEvent ==
  /\ pc = "events" /\ debug.events # <<>>
  /\ debug' = [debug EXCEPT !.events = Tail(@)]
  /\ LET e == Head(debug.events)
     IN \/ /\ e.t = "process"
           /\ report' = AddNote(AddNote(report, "PRPSINFO", "process"), "PROCESS", "process")
        \/ /\ e.t = "thread"
           /\ report' = AddNote(AddThread(report, e.id), "THREAD", e.id)
        \/ /\ e.t = "exception"
           /\ \E signal \in SignalsOf(e.exception) : report' = SetSignal(report, e.id, signal)
        \/ /\ e.t \in {"exit", "unknown"} /\ UNCHANGED report
  /\ UNCHANGED <<proc, pc, size, out, at>>

EventsDone ==
  /\ pc = "events" /\ debug.events = <<>>
  /\ pc' = "memory" /\ UNCHANGED <<proc, debug, report, size, out, at>>

\* QueryDebugProcessMemory: the region that contains vaddr.
RegionAt(vaddr) == CHOOSE r \in Range(proc.p.memory) : r.addr <= vaddr /\ vaddr < r.addr + r.size
Included(r) == r.readable /\ ~r.io

AddVMA ==
  /\ pc = "memory" /\ proc.alive
  /\ LET r == RegionAt(debug.vaddr)
         next == (r.addr + r.size) % Space
     IN /\ report' = IF Included(r)
                     THEN [report EXCEPT !.vmas = Append(@, [addr |-> r.addr, size |-> r.size, file_offset |-> 0])]
                     ELSE report
        /\ debug' = [debug EXCEPT !.vaddr = next]
        /\ pc' = IF next = 0 THEN "threads" ELSE "memory"
  /\ UNCHANGED <<proc, size, out, at>>

\* GeneratePRSTATUS of every thread, in the order of the ids.
GeneratePRSTATUS ==
  /\ pc = "threads" /\ proc.alive
  /\ LET ids == SetToSortSeq(DOMAIN report.threads, <)
     IN report' = [report EXCEPT !.notes = @ \o
                     [k \in 1..Len(ids) |-> Note("PRSTATUS", <<ids[k], report.threads[ids[k]]>>)]]
  /\ pc' = "layout" /\ UNCHANGED <<proc, debug, size, out, at>>

-----------------------------------------------------------------------------
\* Mutant of SizeOfNote: the padding is not counted.
UnpaddedSize(n) == NhdrSize + n.namesz + n.descsz

\* The size a note takes in the file, padded.
SizeOfNote(n) == NhdrSize + n.name + n.desc

\* The offsets, BeginOk with the total size, the size and the ELF header.
Layout ==
  /\ pc = "layout"
  /\ LET Vmas(k) == FoldLeft(LAMBDA n, v : n + v.size, EhdrSize, SubSeq(report.vmas, 1, k))
         notes == Vmas(Len(report.vmas))
         ph == FoldLeft(LAMBDA n, note : n + SizeOfNote(note), notes, report.notes)
         phnum == 1 + Len(report.vmas)
     IN /\ report' = [report EXCEPT !.vmas = [k \in 1..Len(@) |-> [@[k] EXCEPT !.file_offset = Vmas(k - 1)]]]
        /\ size' = [total |-> ph + PhdrSize * phnum, notes |-> notes, ph |-> ph]
        /\ out' = Bytes(<<"ehdr", ph, phnum % MaxPhdrs>>, EhdrSize)
  /\ pc' = "vmas" /\ UNCHANGED <<proc, debug, at>>

\* One turn of the inner loop: at most a transfer buffer.
WriteVMA ==
  /\ pc = "vmas" /\ at.vma <= Len(report.vmas) /\ proc.alive
  /\ LET v == report.vmas[at.vma]
         n == IF Transfer > v.size - at.offset THEN v.size - at.offset ELSE Transfer
     IN /\ out' = out \o [k \in 1..n |-> <<"mem", v.addr + at.offset + k - 1>>]
        /\ at' = IF at.offset + Transfer < v.size THEN [at EXCEPT !.offset = @ + Transfer]
                 ELSE [vma |-> at.vma + 1, offset |-> 0]
  /\ UNCHANGED <<proc, pc, debug, report, size>>

NoteBytes(n) == Bytes(<<"nhdr", n.namesz, n.descsz, n.type>>, NhdrSize) \o Bytes(<<"name">>, n.name)
                \o Bytes(<<"desc", n.content>>, n.desc)
NotesBytes == FlattenSeq([k \in 1..Len(report.notes) |-> NoteBytes(report.notes[k])])
Phdr(type, offset, vaddr, filesz) == Bytes(<<"phdr", type, offset, vaddr, filesz>>, PhdrSize)

\* Notes, program headers and Finalize.
WriteNotesAndPhdrs ==
  /\ pc = "vmas" /\ at.vma > Len(report.vmas)
  /\ out' = out \o NotesBytes \o Phdr("NOTE", size.notes, 0, Len(NotesBytes))
            \o FlattenSeq([k \in 1..Len(report.vmas) |->
                  Phdr("LOAD", report.vmas[k].file_offset, report.vmas[k].addr, report.vmas[k].size)])
  /\ pc' = "done" /\ UNCHANGED <<proc, debug, report, size, at>>

\* External: the process is killed; what twili asks of the kernel from then on
\* fails, and twili::Assert aborts twili.
ProcessKilled ==
  /\ proc.alive /\ pc \notin {"done", "refused", "abort"}
  /\ proc' = [proc EXCEPT !.alive = FALSE]
  /\ UNCHANGED <<pc, debug, report, size, out, at>>
AssertFails ==
  /\ ~proc.alive
  /\ pc \in {"memory", "threads"} \/ (pc = "vmas" /\ at.vma <= Len(report.vmas))
  /\ pc' = "abort" /\ UNCHANGED <<proc, debug, report, size, out, at>>

Next ==
  \/ AddNotes \/ DebugActiveProcess \/ AttachFails \/ GetDebugEvent \/ EventsDone \/ AddVMA \/ GeneratePRSTATUS
  \/ Layout \/ WriteVMA \/ WriteNotesAndPhdrs \/ ProcessKilled \/ AssertFails
Spec == Init /\ [][Next]_vars

-----------------------------------------------------------------------------
\* A reader of the file: the structure at an offset, the notes of a segment.
ByteAt(offset) == out[offset + 1]
Headers == LET e == ByteAt(0) IN [k \in 1..e[3] |-> ByteAt(e[2] + (k - 1) * PhdrSize)]
NotesRead ==
  LET h == CHOOSE h \in Range(Headers) : h[2] = "NOTE"
      read[k \in 0..Len(report.notes)] ==
        IF k = 0 THEN [offset |-> h[3], found |-> <<>>]
        ELSE LET p == read[k - 1]
             IN IF p.offset >= h[3] + h[5] THEN p
                ELSE LET n == ByteAt(p.offset)
                         desc == p.offset + NhdrSize + Padded(n[2])
                     IN [offset |-> desc + Padded(n[3]), found |-> Append(p.found, <<n[4], ByteAt(desc)[2]>>)]
  IN read[Len(report.notes)]
FinalSignal(id) ==
  LET own == SelectSeq(proc.p.events, LAMBDA e : e.t = "exception" /\ e.id = id)
  IN IF own = <<>> THEN {"none"} ELSE SignalsOf(Last(own).exception)

\* A core file is as long as it was announced, and whoever follows its headers
\* finds every readable region that is not I/O, at its address and with its
\* contents, every thread with the signal that stopped it, the process, and its
\* modules or, if ldr:dmnt does not know it, empty ones; nothing follows the
\* last note.
CoreSound ==
  pc = "done" =>
    /\ Len(out) = size.total
    /\ {<<h[4], h[5]>> : h \in {h \in Range(Headers) : h[2] = "LOAD"}}
         = {<<r.addr, r.size>> : r \in {r \in Range(proc.p.memory) : r.readable /\ ~r.io}}
    /\ \A h \in Range(Headers) :
         h[2] = "LOAD" => \A k \in 0..h[5] - 1 : ByteAt(h[3] + k) = <<"mem", h[4] + k>>
    /\ LET found == NotesRead.found
           Of(type) == {n[2] : n \in {n \in Range(found) : n[1] = type}}
       IN /\ NotesRead.offset = size.ph
          /\ Of("PROCESS") = {"process"}
          /\ Of("NSO") \in {{"empty"}, Range(proc.p.nsos)}
          /\ LET ids == {e.id : e \in {e \in Range(proc.p.events) : e.t = "thread"}}
             IN /\ Of("THREAD") = ids /\ {p[1] : p \in Of("PRSTATUS")} = ids
                /\ \A p \in Of("PRSTATUS") : p[2] \in FinalSignal(p[1])
=============================================================================
