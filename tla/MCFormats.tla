------------------------------ MODULE MCFormats ------------------------------
(***************************************************************************)
(* The data formats, for TLC: what is packed for a call, framed for gdb,   *)
(* presented to the loader, handed to a new program, dumped as a core file *)
(* or sent to a service is what its reader gets.  A behaviour is about one *)
(* of the formats, chosen at the start.                                    *)
(***************************************************************************)
EXTENDS Integers, Sequences, TLC

VARIABLES format,
          args, wire, buf, hold, result, reply,                \* Codec
          sent, line, rx, ack, got, error, answer,             \* GdbPacket
          nro, files, open, last,                              \* ProcessImage
          proc, pc, debug, report, size, out, at,              \* CoreDump
          version, step, call, msg, served, outcome, returned, observer, closed,  \* SystemServices
          next_index, sd, obj, shim, launched                  \* Homebrew

-----------------------------------------------------------------------------
\* Calls and results: integers of two bytes of one bit, a buffer of three bytes
\* at first; empty, short and growing vectors in every position.
Pod(n) == [type |-> "pod", val |-> n]
Vec(s) == [type |-> "vec", val |-> s]
Strings(s) == [type |-> "strings", val |-> s]
Stream(s) == [type |-> "stream", val |-> s]
Object(o) == [type |-> "object", val |-> o]
Texts == {<<>>, <<1>>, <<0, 1, 1>>}
MCCalls == {<<>>} \cup {<<Pod(n), Vec(s)>> : n \in 0..3, s \in Texts}
           \cup {<<Vec(s), Vec(u), Pod(2)>> : s \in Texts, u \in Texts}
           \cup {<<Pod(1), Stream(s)>> : s \in Texts}
MCResults == {<<>>, <<Pod(3)>>} \cup {<<Vec(s), Strings(<<s, u>>)>> : s \in Texts, u \in Texts}
             \cup {<<Object("o"), Strings(<<>>), Object("p")>>}
Call == INSTANCE Codec WITH Base <- 2, Width <- 2, Initial <- 3, Calls <- MCCalls, Results <- MCResults

\* Packets of up to two characters, every special one among them.
Chars == {35, 36, 42, 125, 3, 97}
MCMessages == {<<>>} \cup {<<c>> : c \in Chars} \cup {<<c, d>> : c \in {125, 97}, d \in Chars}
Gdb == INSTANCE GdbPacket WITH Messages <- MCMessages, Ids <- {0, 1, 255, 256, 4660, 65537}, MaxSends <- 2,
                               reply <- answer

\* NROs whose segments touch, are empty, overlap a gap, or lie beyond the end.
Seg(o, s) == [offset |-> o, size |-> s]
MCNros == {[valid |-> v, segments |-> s, bytes |-> <<"a", "b", "c", "d", "e">>] :
             v \in BOOLEAN, s \in {<<Seg(0, 2), Seg(2, 1), Seg(3, 2)>>, <<Seg(1, 3), Seg(4, 0), Seg(4, 1)>>,
                                   <<Seg(0, 0), Seg(2, 2), Seg(4, 3)>>}}
Image == INSTANCE ProcessImage WITH Nros <- MCNros, Files <- {<<>>, <<"x">>, <<"y", "z">>}, HeaderSize <- 4,
                                    MaxRead <- 10

\* Processes with up to two threads, with and without exceptions; memory with
\* holes, I/O, a region larger than the transfer buffer, or nothing readable.
Reg(a, s, r, i) == [addr |-> a, size |-> s, readable |-> r, io |-> i]
Attach(ids) == <<[t |-> "process"]>> \o [k \in 1..Len(ids) |-> [t |-> "thread", id |-> ids[k]]]
Exc(id, x) == [t |-> "exception", id |-> id, exception |-> x]
MCDumped ==
  {[nsos |-> n, monitored |-> m, memory |-> r, events |-> e] :
     n \in {<<>>, <<"rtld", "main">>}, m \in BOOLEAN,
     r \in {<<Reg(0, 2, FALSE, FALSE), Reg(2, 3, TRUE, FALSE), Reg(5, 2, TRUE, TRUE), Reg(7, 1, TRUE, FALSE)>>,
            <<Reg(0, 8, FALSE, FALSE)>>, <<Reg(0, 5, TRUE, FALSE), Reg(5, 3, FALSE, FALSE)>>},
     e \in {Attach(<<2>>) \o <<Exc(0, "DEBUGGER_ATTACHED")>>,
            Attach(<<2, 1>>) \o <<Exc(1, "DATA_ABORT_MISC"), Exc(2, "BAD_SVC_ID")>>,
            Attach(<<1, 2>>) \o <<Exc(2, "unknown"), [t |-> "exit"]>>,
            Attach(<<3>>) \o <<Exc(3, "PC_SP_ALIGNMENT_FAULT"), Exc(3, "USER_BREAK")>>}}
NoteTypes == {"PRPSINFO", "PROCESS", "THREAD", "PRSTATUS", "NSO", "AUXV"}
MCDescSize == [t \in NoteTypes |-> CASE t = "PRSTATUS" -> 5 [] t = "PROCESS" -> 4 [] t = "NSO" -> 3 [] OTHER -> 2]
MCNameSize == [t \in NoteTypes |-> IF t \in {"PROCESS", "THREAD", "NSO"} THEN 5 ELSE 4]
Core == INSTANCE CoreDump WITH Dumped <- MCDumped, Space <- 8, EhdrSize <- 3, PhdrSize <- 2, NhdrSize <- 3,
                               DescSize <- MCDescSize, NameSize <- MCNameSize, MaxNsos <- 1, Transfer <- 2, MaxPhdrs <- 65536

\* Every version at which something changed, and one below the first.
Service == INSTANCE SystemServices WITH Majors <- {0, 1, 4, 5, 6, 9, 10, 11, 12, 13}, at <- step, result <- returned

\* Free memory around the increment, none, and plenty; settings that are not
\* whole increments, and larger than what there is.
Mem(a, u, s, r) == [available |-> a, used |-> u, size |-> s, reserved |-> r]
MCMemory == {Mem(20, 3, 0, 0), Mem(8, 4, 0, 0), Mem(9, 4, 5, 0), Mem(20, 3, 5, 0), Mem(20, 3, 0, 5), Mem(20, 3, 0, 30)}

\* An applet and a program of the shell, which two tools stream, the second in
\* two modules.  A program leaves nothing, its own file, another one or a bad
\* path as the next to load, and an argument that is short or has no end.
Home == INSTANCE Homebrew WITH
  Kind <- "a" :> "applet" @@ "b" :> "shell", Modules <- "a" :> <<2>> @@ "b" :> <<1, 1>>,
  Names <- <<"f0", "f1", "f2">>, SdFiles <- {<<"other">>}, ArgvMax <- 3,
  Memory <- MCMemory, Incr <- 4, DefaultHeap <- 12,
  Paths <- {<<"nul", "nul">>, <<"sdmc", "f0">>, <<"other", "nul">>, <<"sdmc", "nul">>},
  Argvs <- {<<"nul", "nul", "nul">>, <<"x", "nul", "y">>, <<"x", "y", "z">>}

-----------------------------------------------------------------------------
callVars == <<args, wire, buf, hold, result, reply>>
gdbVars == <<sent, line, rx, ack, got, error, answer>>
imageVars == <<nro, files, open, last>>
coreVars == <<proc, pc, debug, report, size, out, at>>
serviceVars == <<version, step, call, msg, served, outcome, returned, observer, closed>>
homeVars == <<next_index, sd, obj, shim, launched>>

\* The state of the formats a behaviour is not about.
CallIdle == args = <<>> /\ wire = <<>> /\ buf = <<>> /\ hold = <<>> /\ result = <<>> /\ reply = <<>>
GdbIdle == sent = <<>> /\ line = <<>> /\ rx = <<>> /\ ack = FALSE /\ got = <<>> /\ error = FALSE /\ answer = <<>>
ImageIdle == nro = <<>> /\ files = <<>> /\ open = "none" /\ last = <<>>
CoreIdle == proc = <<>> /\ pc = "" /\ debug = <<>> /\ report = <<>> /\ size = 0 /\ out = <<>> /\ at = 0
ServiceIdle == version = 0 /\ step = "" /\ call = "" /\ msg = <<>> /\ served = <<>> /\ outcome = "" /\ returned = <<>>
               /\ observer = <<>> /\ closed = {}
HomeIdle == next_index = 0 /\ sd = <<>> /\ obj = <<>> /\ shim = <<>> /\ launched = ""

Init == \/ format = "call" /\ Call!Init /\ GdbIdle /\ ImageIdle /\ CoreIdle /\ ServiceIdle /\ HomeIdle
        \/ format = "gdb" /\ CallIdle /\ Gdb!Init /\ ImageIdle /\ CoreIdle /\ ServiceIdle /\ HomeIdle
        \/ format = "image" /\ CallIdle /\ GdbIdle /\ Image!Init /\ CoreIdle /\ ServiceIdle /\ HomeIdle
        \/ format = "core" /\ CallIdle /\ GdbIdle /\ ImageIdle /\ Core!Init /\ ServiceIdle /\ HomeIdle
        \/ format = "service" /\ CallIdle /\ GdbIdle /\ ImageIdle /\ CoreIdle /\ Service!Init /\ HomeIdle
        \/ format = "homebrew" /\ CallIdle /\ GdbIdle /\ ImageIdle /\ CoreIdle /\ ServiceIdle /\ Home!Init

CallStep == format = "call" /\ Call!Next /\ UNCHANGED <<format, gdbVars, imageVars, coreVars, serviceVars, homeVars>>
GdbStep == format = "gdb" /\ Gdb!Next /\ UNCHANGED <<format, callVars, imageVars, coreVars, serviceVars, homeVars>>
ImageStep == format = "image" /\ Image!Next /\ UNCHANGED <<format, callVars, gdbVars, coreVars, serviceVars, homeVars>>
CoreStep == format = "core" /\ Core!Next /\ UNCHANGED <<format, callVars, gdbVars, imageVars, serviceVars, homeVars>>
ServiceStep == format = "service" /\ Service!Next /\ UNCHANGED <<format, callVars, gdbVars, imageVars, coreVars, homeVars>>
HomeStep == format = "homebrew" /\ Home!Next /\ UNCHANGED <<format, callVars, gdbVars, imageVars, coreVars, serviceVars>>

Next == CallStep \/ GdbStep \/ ImageStep \/ CoreStep \/ ServiceStep \/ HomeStep
Spec == Init /\ [][Next]_<<format, callVars, gdbVars, imageVars, coreVars, serviceVars, homeVars>>

-----------------------------------------------------------------------------
\* However a payload is cut, twili unpacks the arguments the tool packed, and
\* the tool unpacks from a response, which is as long as announced, the results
\* twili packed (Packing.hpp, Unpacking.hpp, Buffer.cpp).  twili's own calls of
\* the console's services are served as meant (Services.cpp, tipc.hpp).
CallIntact == /\ format = "call" => Call!ArgumentsIntact /\ Call!ResultIntact
              /\ format = "service" => Service!ServedAsMeant

\* The stub gets the packets and interrupts gdb sent, and gdb what the stub
\* answers (GdbConnection.cpp).
PacketsIntact == format = "gdb" => Gdb!PacketsIntact

\* The loader reads the image of the NRO, wherever it reads (process/fs), and
\* a program starts in the environment meant for it (FileManager.cpp,
\* IHBABIShim.cpp, AppletTracker.cpp HBLLoad).
ImageFaithful == /\ format = "image" => Image!ImageFaithful
                 /\ format = "homebrew" => Home!EnvironmentSound

\* A core file holds what its headers say and all that it should
\* (ELFCrashReport.cpp).
CoreSound == format = "core" => Core!CoreSound
=============================================================================
