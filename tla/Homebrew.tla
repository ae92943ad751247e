------------------------------ MODULE Homebrew ------------------------------
(***************************************************************************)
(* How a program gets from the tool to its first instruction, and on to    *)
(* the program it names as its successor: the code is streamed to a        *)
(* temporary file (ITwibProcessMonitor::AppendCode, FileManager), the shim *)
(* in the new process asks twili for its environment and for leave to      *)
(* start (applet_host, shell_shim; IHBABIShim), and what the program leaves*)
(* in NEXT_LOAD_PATH is loaded next (AppletTracker::HBLLoad).              *)
(*                                                                         *)
(* A string is a sequence of units: "nul", "sdmc" for the prefix sdmc:/,   *)
(* and names.  The SD card does not fail.                                  *)
(***************************************************************************)
EXTENDS MonitoredProcess, Integers, Sequences, FiniteSetsExt

CONSTANTS Kind,        \* Kind[p]: "applet" or "shell", for the streamed programs
          Modules,     \* Modules[p]: the sizes of the modules the tool appends
          Names,       \* names of temporary files: Names[next_index]
          SdFiles,     \* paths of other programs on the SD card
          Paths,       \* what a program may leave in next_load_path ...
          Argvs,       \* ... and in next_load_argv: buffers, whole
          ArgvMax,     \* sizeof(current_argv)
          Memory,      \* what an applet may find: memory available and used, and the settings
          Incr,        \* heap_incr_multiple
          DefaultHeap  \* the heap when nothing is free

VARIABLES next_index,  \* FileManager::next_index
          sd,          \* sd[name]: owner and length of a temporary file
          obj,         \* obj[p]: the MonitoredProcess
          shim,        \* shim[p]: the shim in the process
          launched     \* bound: the one streamed program that is launched
vars == <<next_index, sd, obj, shim, launched>>

Streamed == DOMAIN Kind
Successor == "next"
Procs == Streamed \cup {Successor}
KindOf(p) == IF p = Successor THEN "applet" ELSE Kind[p]

\* MonitoredProcess: the state, files, argv and next load; stream is the file
\* AppendCode writes, asked what argv and files should be.
NoProgram == [mp |-> NewProcess, files |-> <<>>, argv |-> <<>>, next_path |-> <<>>, next_argv |-> <<>>,
              stream |-> "none", module |-> 0, asked |-> <<>>, result |-> 0]
NoShim == [at |-> "none", out |-> "none", count |-> 0, entries |-> <<>>, memory |-> <<>>,
           path |-> <<>>, argv |-> <<>>]

\* FileManager::FileManager leaves an empty directory.
Init ==
  /\ next_index = 1
  /\ sd = [n \in {Names[i] : i \in 1..Len(Names)} |-> [of |-> "none", len |-> 0]]
  /\ obj = [p \in Procs |-> NoProgram]
  /\ shim = [p \in Procs |-> NoShim]
  /\ launched \in Streamed

\* The C string in a buffer; one without a NUL is read on into what follows.
CString(buf) ==
  LET nuls == {k \in 1..Len(buf) : buf[k] = "nul"}
  IN IF nuls # {} THEN {SubSeq(buf, 1, Min(nuls) - 1)} ELSE {buf, Append(buf, "junk")}

-----------------------------------------------------------------------------
\* Streaming the code.

\* FileManager::CreateFile gives every file a name of its own.
CreateFile(p) == next_index' = next_index + 1

\* AppendCode, before the tool launches: the file is made and its name, as
\* homebrew knows it, becomes argv ...
AppendCode(p) ==
  /\ obj[p].mp.state = "Created" /\ obj[p].stream = "none" /\ obj[p].module < Len(Modules[p])
  /\ next_index <= Len(Names)
  /\ CreateFile(p)
  /\ LET name == Names[next_index]
     IN /\ obj' = [obj EXCEPT ![p].argv = <<"sdmc", name>>, ![p].asked = <<"sdmc", name>>,
                              ![p].stream = name, ![p].module = @ + 1]
        /\ sd' = [sd EXCEPT ![name] = [of |-> p, len |-> 0]]
  /\ UNCHANGED shim

\* ... each part that arrives is written ...
Receive(p) ==
  /\ obj[p].stream # "none" /\ sd[obj[p].stream].len < Modules[p][obj[p].module]
  /\ sd' = [sd EXCEPT ![obj[p].stream] = [of |-> p, len |-> @.len + 1]]
  /\ UNCHANGED <<next_index, obj, shim>>

\* ... and at the end the file is opened again and appended to files.
Finish(p) ==
  /\ obj[p].stream # "none" /\ sd[obj[p].stream].len >= Modules[p][obj[p].module]
  /\ obj' = [obj EXCEPT ![p].files = Append(@, <<"sdmc", obj[p].stream>>), ![p].stream = "none"]
  /\ UNCHANGED <<next_index, sd, shim>>

\* Launch; PrepareForLaunch takes exactly one module, otherwise the process
\* exits before it has begun.
Launchable(p) == Len(obj[p].files) = 1
Loading(p) == IF Launchable(p) THEN "start" ELSE "none"

Launch(p) ==
  /\ p \in {launched, Successor}
  /\ obj[p].mp.state = "Created" /\ obj[p].stream = "none" /\ obj[p].files # <<>>
  /\ \E suspend \in {"no", "yes"} :
       LET q == Launched(obj[p].mp, suspend)
       IN obj' = [obj EXCEPT ![p].mp = IF Launchable(p) THEN q ELSE Exited(q)]
  /\ shim' = [shim EXCEPT ![p].at = Loading(p)]
  /\ UNCHANGED <<next_index, sd>>

-----------------------------------------------------------------------------
\* The shim, one request to twili per action.

At(p, pc) == shim[p].at = pc
Entry(key, val) == [key |-> key, val |-> val]

\* ITwiliService::OpenPipe finds the process by its pid: the pipes of a process
\* that is attached, twili's own log for any other.
OpenPipe(p) == IF obj[p].mp.proc = "attached" THEN "tool" ELSE "log"

\* The shim opens its output before it is attached ...
ShimStarts(p) ==
  /\ At(p, "start")
  /\ shim' = [shim EXCEPT ![p].at = "attach", ![p].out = OpenPipe(p)]
  /\ UNCHANGED <<next_index, sd, obj>>

\* ... and the program opens its own.
OpensOutput(p) ==
  /\ At(p, "run") /\ shim[p].out = "log"
  /\ shim' = [shim EXCEPT ![p].out = OpenPipe(p)]
  /\ UNCHANGED <<next_index, sd, obj>>

\* OpenAppletShim and OpenHBABIShim, or OpenShellShim: the process is attached
\* to the object twili has for it.
OpenShim(p) ==
  /\ At(p, "attach")
  /\ obj' = [obj EXCEPT ![p].mp = Attached(@)]
  /\ shim' = [shim EXCEPT ![p].at = "count"]
  /\ UNCHANGED <<next_index, sd>>

\* AddHBABIEntries of the process.
HBABIEntries(p) == <<Entry("TWILI_PRESENT", "none"), Entry("SYSCALL_AVAILABLE_HINT", "none")>>
                   \o (IF KindOf(p) = "applet" THEN <<Entry("APPLET_TYPE", "library")>> ELSE <<>>)

GetLoaderConfigEntryCount(p) ==
  /\ At(p, "count")
  /\ shim' = [shim EXCEPT ![p].at = "entries", ![p].count = Len(HBABIEntries(p))]
  /\ UNCHANGED <<next_index, sd, obj>>

\* GetLoaderConfigEntries; none of them holds a handle to be exchanged, and
\* none that is mandatory is unknown.  The main thread's handle is the shim's.
GetLoaderConfigEntries(p) ==
  /\ At(p, "entries")
  /\ shim' = [shim EXCEPT ![p].at = "process",
                          ![p].entries = SubSeq(HBABIEntries(p), 1, shim[p].count)
                                         \o <<Entry("MAIN_THREAD_HANDLE", p)>>]
  /\ UNCHANGED <<next_index, sd, obj>>

GetProcessHandle(p) ==
  /\ At(p, "process")
  /\ shim' = [shim EXCEPT ![p].at = "argv",
                          ![p].entries = @ \o <<Entry("PROCESS_HANDLE", p), Entry("NEXT_LOAD_PATH", p)>>]
  /\ UNCHANGED <<next_index, sd, obj>>

\* GetArgv copies as much as the buffer, which was zeroed, holds.
Copied(s) == [k \in 1..ArgvMax |-> IF k <= Len(s) THEN s[k] ELSE "nul"]

\* An applet's heap: what is free, in whole increments and less one of them,
\* or as the settings ask: no more than one size, or all but another.
RoundDown(n) == (n \div Incr) * Incr
RoundUp(n) == RoundDown(n + Incr - 1)
Free(m) == IF m.available > m.used + Incr THEN RoundDown(m.available - m.used - Incr) ELSE 0
Largest(m) == IF Free(m) = 0 THEN DefaultHeap ELSE Free(m)
HeapSize(m) ==
  IF m.size # 0 THEN Min({Largest(m), RoundUp(m.size)})
  ELSE IF m.reserved # 0 /\ RoundUp(m.reserved) < Largest(m) THEN Largest(m) - RoundUp(m.reserved)
  ELSE Largest(m)

\* What is left is added: for an applet the heap, and the end of the list.
GetArgv(p) ==
  /\ At(p, "argv")
  /\ \E m \in IF KindOf(p) = "applet" THEN Memory ELSE {<<>>} :
       shim' = [shim EXCEPT ![p].at = "wait", ![p].memory = m,
         ![p].entries = @ \o <<Entry("ARGV", Copied(obj[p].argv))>>
                          \o (IF KindOf(p) = "applet" THEN <<Entry("OVERRIDE_HEAP", HeapSize(m))>> ELSE <<>>)
                          \o <<Entry("END_OF_LIST", "none")>>]
  /\ UNCHANGED <<next_index, sd, obj>>

\* WaitToStart is answered now, or when the process is continued or ends.
AsksToStart(p) ==
  /\ At(p, "wait")
  /\ obj' = [obj EXCEPT ![p].mp = WaitToStart(@)]
  /\ shim' = [shim EXCEPT ![p].at = "waiting"]
  /\ UNCHANGED <<next_index, sd>>

Answered(p) ==
  /\ At(p, "waiting") /\ obj[p].mp.reply # "none"
  /\ shim' = [shim EXCEPT ![p].at = IF obj[p].mp.reply = "ok" THEN "run" ELSE "returning"]
  /\ UNCHANGED <<next_index, sd, obj>>

\* The program returns, and has left what it likes in the buffers.
Returns(p) ==
  /\ At(p, "run") /\ shim[p].out # "log"
  /\ \E path \in Paths, argv \in Argvs :
       shim' = [shim EXCEPT ![p].at = "setnext", ![p].path = path, ![p].argv = argv]
  /\ UNCHANGED <<next_index, sd, obj>>

SetNextLoadPath(p) ==
  /\ At(p, "setnext")
  /\ \E path \in CString(shim[p].path), argv \in CString(shim[p].argv) :
       obj' = [obj EXCEPT ![p].next_path = path, ![p].next_argv = argv]
  /\ shim' = [shim EXCEPT ![p].at = "setexit"]
  /\ UNCHANGED <<next_index, sd>>

SetExitCode(p) ==
  /\ At(p, "setexit")
  /\ obj' = [obj EXCEPT ![p].result = 1]
  /\ shim' = [shim EXCEPT ![p].at = "returning"]
  /\ UNCHANGED <<next_index, sd>>

-----------------------------------------------------------------------------
\* HBLLoad: the prefix is replaced by the mount point, and what cannot be
\* opened is not loaded.  Bound: one successor.
Transmuted(path) == IF path # <<>> /\ path[1] = "sdmc" THEN Tail(path) ELSE path
Exists(path) == path \in SdFiles
                \/ \E i \in 1..Len(Names) : path = <<Names[i]>> /\ sd[Names[i]].of # "none"

HBLLoad(p, objs) ==
  LET path == Transmuted(objs[p].next_path)
  IN IF Exists(path) /\ objs[Successor].mp.state = "Created" /\ objs[Successor].files = <<>>
     THEN [objs EXCEPT ![Successor] =
             [NoProgram EXCEPT !.files = <<<<"sdmc">> \o path>>, !.argv = objs[p].next_argv,
                               !.asked = objs[p].next_argv]]
     ELSE objs

\* AppletTracker's monitor, when the process it watches has exited.
Notified(p, objs) ==
  IF KindOf(p) = "applet" /\ objs[p].next_path # <<>> THEN HBLLoad(p, objs) ELSE objs

\* The process ends: its shim returns, or it crashes or is terminated at any
\* time; what it had asked to be loaded next is loaded all the same.
ProcessEnds(p) ==
  /\ shim[p].at \notin {"none", "start", "attach"}
  /\ obj' = Notified(p, [obj EXCEPT ![p].mp = Exited(@)])
  /\ shim' = [shim EXCEPT ![p] = NoShim]
  /\ UNCHANGED <<next_index, sd>>

\* The debugger continues, or the tool terminates, a suspended process; one
\* that is not suspended ends when it is terminated.
Continue(p) ==
  /\ obj[p].mp.slcb = "stored"
  /\ obj' = [obj EXCEPT ![p].mp = Continued(@)]
  /\ UNCHANGED <<next_index, sd, shim>>

Terminate(p) ==
  /\ obj[p].mp.slcb = "stored"
  /\ obj' = [obj EXCEPT ![p].mp = Terminated(@)]
  /\ UNCHANGED <<next_index, sd, shim>>

-----------------------------------------------------------------------------
Shim(p) == ShimStarts(p) \/ OpensOutput(p) \/ OpenShim(p) \/ GetLoaderConfigEntryCount(p) \/ GetLoaderConfigEntries(p)
           \/ GetProcessHandle(p) \/ GetArgv(p) \/ AsksToStart(p) \/ Answered(p)
           \/ Returns(p) \/ SetNextLoadPath(p) \/ SetExitCode(p)
Next == /\ \/ \E p \in Streamed : AppendCode(p) \/ Receive(p) \/ Finish(p)
           \/ \E p \in Procs : Launch(p) \/ Shim(p) \/ ProcessEnds(p) \/ Continue(p) \/ Terminate(p)
        /\ UNCHANGED launched
Spec == Init /\ [][Next]_vars

-----------------------------------------------------------------------------
Keys(p) == [k \in 1..Len(shim[p].entries) |-> shim[p].entries[k].key]
Value(p, key) == shim[p].entries[CHOOSE k \in DOMAIN Keys(p) : Keys(p)[k] = key].val

\* The heap is whole increments, as much as was asked for if there is so much,
\* and no more than was free, unless nothing was.
HeapSound(m, heap) ==
  /\ heap > 0 /\ heap % Incr = 0
  /\ Free(m) > 0 => heap <= m.available - m.used
  /\ m.size # 0 /\ m.size <= Largest(m) => heap >= m.size /\ heap < m.size + Incr
  /\ m.size = 0 /\ m.reserved < Largest(m) - Incr => heap <= Largest(m) - m.reserved

\* A program that runs was given leave to, its list of entries has every key
\* once and ends where it should, and its argument is the one meant for it.
\* For a streamed program that is the file with its own code, all of it,
\* however the streams of two tools interleave; for a successor it is what its
\* predecessor left.  An argument that fills the buffer has no end.  An
\* applet's heap fits.
EnvironmentSound ==
  \A p \in Procs : At(p, "run") =>
    /\ obj[p].mp.state = "Running" /\ OpenPipe(p) = "tool"
    /\ \A i, j \in DOMAIN Keys(p) : Keys(p)[i] = Keys(p)[j] => i = j
    /\ Keys(p)[Len(Keys(p))] = "END_OF_LIST"
    /\ Value(p, "PROCESS_HANDLE") = p
    /\ Len(obj[p].asked) < ArgvMax => CString(Value(p, "ARGV")) = {obj[p].asked}
    /\ KindOf(p) = "applet" => HeapSound(shim[p].memory, Value(p, "OVERRIDE_HEAP"))
    /\ p \in Streamed => LET file == sd[obj[p].files[1][2]]
                         IN file.of = p /\ file.len = Modules[p][1] /\ obj[p].files[1] = obj[p].asked
=============================================================================
