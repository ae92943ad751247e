--------------------------- MODULE DeviceCommands ---------------------------
(***************************************************************************)
(* The subcommands of twib that ask something of the console              *)
(* (twib/tool/Twib.cpp main, tool/interfaces/ITwibDeviceInterface.cpp),    *)
(* and what twili does for them (bridge/interfaces/                        *)
(* ITwibDeviceInterface.cpp, process/UnmonitoredProcess.cpp, twili.cpp):   *)
(* several tools at once, over one twibd.  twili handles one event at a    *)
(* time, on its main thread; an Assert that fails takes it down.           *)
(*                                                                         *)
(* Processes are known by their id; 0 is one of the console's own.  `run'  *)
(* and the file commands have modules of their own, and so have core files *)
(* and twibd; here the console named Home is modelled and any other only   *)
(* answers.                                                                *)
(***************************************************************************)
EXTENDS Integers, Sequences, FiniteSets, SequencesExt

CONSTANTS Tools,
          Scenes,        \* the tools' command lines, and the console when they start
          Consoles, Home,
          Pids,          \* process ids, with 0
          Titles,        \* titles that may be launched
          Units,         \* bound: what is written to the named pipe
          CoreSize,      \* length of a core file
          MaxChanges     \* bound: times a console is attached or detached

None == "none"
Nothing == -1     \* no pid, no exit code, no core written yet

VARIABLES tool,       \* the tools
          core,       \* core files on the host: how much was written
          consoles,   \* what twibd lists
          changes,
          twili,      \* "up", or why it is not
          inbox,      \* tools whose request has reached twili
          procs,      \* the console's processes
          mon,        \* the monitored process: MonitoredProcess::state and the pid
          monitored,  \* monitored_processes
          pipe,       \* the named pipe: named_pipes
          wait,       \* wh_debug_title
          debugger    \* the process a tool holds an ITwibDebugger of
vars == <<tool, core, consoles, changes, twili, inbox, procs, mon, monitored, pipe, wait, debugger>>
console == <<twili, procs, mon, monitored, pipe, wait>>

NoProcess == [is |-> "none", title |-> None]
NoWait == [tool |-> None, title |-> None, signalled |-> FALSE]
NewTool(line) == [cmd |-> line, at |-> "start", listed |-> {}, dev |-> None, hit |-> None, reply |-> None,
                  value |-> {}, printed |-> <<>>, written |-> 0, ferror |-> FALSE, exit |-> Nothing]

Init ==
  /\ \E s \in Scenes :
       /\ tool = [t \in Tools |-> NewTool(s.lines[t])]
       /\ procs = s.procs /\ mon = s.mon /\ monitored = IF s.mon.state = "Exited" THEN <<>> ELSE <<"m">>
       /\ pipe = [made |-> s.sent > 0, data |-> <<>>, sent |-> s.sent, reader |-> None]
  /\ core = [t \in Tools |-> Nothing]
  /\ consoles \in SUBSET Consoles /\ changes = 0
  /\ twili = "up" /\ inbox = {}
  /\ wait = NoWait /\ debugger = [t \in Tools |-> Nothing]

Op(t) == tool[t].cmd.op
Arg(t) == tool[t].cmd.arg
Alive(p) == p \in Pids /\ procs[p].is = "alive"
Debugged(p) == \E t \in Tools : debugger[t] = p

-----------------------------------------------------------------------------
(***************************************************************************)
(* The tool.                                                               *)
(***************************************************************************)
Goes(t, r) == tool' = [tool EXCEPT ![t] = r]
ToolOnly == UNCHANGED <<consoles, changes, inbox, console>>

\* A tool that ends gives up its objects, which twibd then closes; a read of a
\* pipe that is pending stays where it is.
Exit(t, r, code) == Goes(t, [r EXCEPT !.at = "end", !.exit = code]) /\ debugger' = [debugger EXCEPT ![t] = Nothing]

\* list-devices prints what twibd lists.
ListDevices(t) ==
  /\ tool[t].at = "start" /\ Op(t) = "list-devices"
  /\ Exit(t, [tool[t] EXCEPT !.value = consoles], 0) /\ UNCHANGED core /\ ToolOnly

\* The console that -d names, or the only one there is.
SelectDevice(t) ==
  /\ tool[t].at = "start" /\ Op(t) # "list-devices"
  /\ \/ /\ tool[t].cmd.dev # None /\ UNCHANGED debugger
        /\ Goes(t, [tool[t] EXCEPT !.at = "selected", !.dev = tool[t].cmd.dev])
     \/ /\ tool[t].cmd.dev = None /\ Cardinality(consoles) # 1 /\ Exit(t, tool[t], 1)
     \/ \E d \in consoles :
          /\ tool[t].cmd.dev = None /\ consoles = {d} /\ UNCHANGED debugger
          /\ Goes(t, [tool[t] EXCEPT !.at = "selected", !.dev = d, !.listed = consoles])
  /\ UNCHANGED core /\ ToolOnly

\* coredump opens its file before it asks for the core; err asks for nothing.
Begin(t) ==
  /\ tool[t].at = "selected"
  /\ \/ /\ Op(t) = "coredump"
        /\ \/ core' = [core EXCEPT ![t] = 0] /\ Goes(t, [tool[t] EXCEPT !.at = "sending"]) /\ UNCHANGED debugger
           \/ UNCHANGED core /\ Exit(t, tool[t], 1)
     \/ Op(t) = "err" /\ Exit(t, tool[t], 0) /\ UNCHANGED core
     \/ Op(t) \notin {"coredump", "err"} /\ Goes(t, [tool[t] EXCEPT !.at = "sending"]) /\ UNCHANGED <<core, debugger>>
  /\ ToolOnly

\* SendSmartSyncRequest; twibd refuses a request for a console it has not.
Send(t) ==
  /\ tool[t].at = "sending"
  /\ Goes(t, [tool[t] EXCEPT !.at = "waiting", !.reply = IF tool[t].dev \in consoles THEN None ELSE "error"])
  /\ inbox' = IF tool[t].dev = Home /\ Home \in consoles THEN inbox \cup {t} ELSE inbox
  /\ UNCHANGED <<core, consoles, changes, console, debugger>>

\* External: another console answers.
Elsewhere(t) ==
  /\ tool[t].at = "waiting" /\ tool[t].reply = None /\ tool[t].dev \in consoles \ {Home}
  /\ \E r \in {"ok", "error"} : /\ Op(t) = "open-named-pipe" => r = "error"
                               /\ Goes(t, [tool[t] EXCEPT !.hit = tool[t].dev, !.reply = r])
  /\ UNCHANGED <<core, debugger>> /\ ToolOnly

\* The request returns: an error ends the tool (ResultError::Die); a core is
\* written, a pipe is read again, modules are asked for once a debugger is open.
Returns(t) ==
  /\ tool[t].at = "waiting" /\ tool[t].reply # None
  /\ LET r == [tool[t] EXCEPT !.reply = None]
     IN \/ tool[t].reply = "error" /\ Exit(t, r, 1)
        \/ /\ tool[t].reply = "ok"
           /\ CASE Op(t) = "coredump" -> Goes(t, [r EXCEPT !.at = "writing"]) /\ UNCHANGED debugger
                [] Op(t) = "open-named-pipe" ->
                     /\ Goes(t, [r EXCEPT !.at = "sending", !.printed = @ \o tool[t].value, !.value = <<>>])
                     /\ UNCHANGED debugger
                [] Op(t) = "get-module-info" /\ debugger[t] # Nothing /\ tool[t].written = 0 ->
                     Goes(t, [r EXCEPT !.at = "sending", !.written = 1]) /\ UNCHANGED debugger
                [] OTHER -> Exit(t, r, 0)
  /\ UNCHANGED core /\ ToolOnly

\* The loop around fwrite.  The error of a stream lasts, and is only logged; an
\* error of fclose, which writes what is still buffered, is not seen.
WriteCore(t) ==
  /\ tool[t].at = "writing"
  /\ \/ tool[t].written = CoreSize /\ Exit(t, tool[t], 0) /\ UNCHANGED core
     \/ /\ tool[t].written = CoreSize /\ Exit(t, [tool[t] EXCEPT !.ferror = TRUE], 0)
        /\ core' = [core EXCEPT ![t] = @ - 1]
     \/ /\ tool[t].written < CoreSize /\ ~tool[t].ferror /\ UNCHANGED debugger
        /\ \E k \in 0..(CoreSize - tool[t].written) :
             /\ core' = [core EXCEPT ![t] = @ + k]
             /\ \/ k > 0 /\ Goes(t, [tool[t] EXCEPT !.written = @ + k])
                \/ k < CoreSize - tool[t].written /\ Goes(t, [tool[t] EXCEPT !.ferror = TRUE])
  /\ ToolOnly

\* The user interrupts a tool that takes too long.
Interrupt(t) ==
  /\ tool[t].at = "waiting" /\ tool[t].reply = None /\ Exit(t, tool[t], 130)
  /\ UNCHANGED core /\ ToolOnly

Tool(t) == ListDevices(t) \/ SelectDevice(t) \/ Begin(t) \/ Send(t) \/ Returns(t) \/ WriteCore(t)

-----------------------------------------------------------------------------
(***************************************************************************)
(* twili.                                                                  *)
(***************************************************************************)

\* The answer to a request; whoever asked may be gone.
Answered(t, r, v) ==
  IF tool[t].at = "waiting" THEN [tool EXCEPT ![t].reply = r, ![t].value = v, ![t].hit = Home] ELSE tool

Handles(t, ops) == /\ t \in inbox /\ twili = "up" /\ Op(t) \in ops
                   /\ inbox' = inbox \ {t} /\ UNCHANGED <<core, consoles, changes>>
Respond(t, r, v) == tool' = Answered(t, r, v)
Abort == twili' = "aborted" /\ UNCHANGED tool

\* twili::Assert on a call to the console that fails, before there is an answer.
AssertFails == twili' = "failed" /\ UNCHANGED <<tool, procs, mon, monitored, pipe, wait, debugger>>

\* The monitored process of that pid, which is 0 before it attached.
FindMonitoredProcess(p) == SelectSeq(monitored, LAMBDA m : mon.pid = p)

Kills(p) == procs' = [procs EXCEPT ![p].is = "killed"]

\* MonitoredProcess::Terminate.  The console may refuse to terminate what is dead.
TerminateMonitored ==
  \/ /\ mon.state = "Created" /\ mon' = [mon EXCEPT !.state = "Exited"] /\ monitored' = <<>>
     /\ UNCHANGED <<procs, twili>>
  \/ mon.state # "Created" /\ mon.pid = 0 /\ UNCHANGED <<mon, monitored, procs, twili>>
  \/ mon.pid # 0 /\ Alive(mon.pid) /\ Kills(mon.pid) /\ UNCHANGED <<mon, monitored, twili>>
  \/ mon.pid # 0 /\ ~Alive(mon.pid) /\ twili' \in {"up", "aborted"} /\ UNCHANGED <<mon, monitored, procs>>

\* UnmonitoredProcess::Terminate: by the program manager, or as its debugger.
TerminateUnmonitored(p) ==
  /\ \/ Alive(p) /\ Kills(p) /\ UNCHANGED twili
     \/ (~Alive(p) \/ Debugged(p)) /\ twili' = "aborted" /\ UNCHANGED procs
  /\ UNCHANGED <<mon, monitored>>

Terminate(t) ==
  /\ Handles(t, {"terminate"})
  /\ IF FindMonitoredProcess(Arg(t)) # <<>> THEN TerminateMonitored ELSE TerminateUnmonitored(Arg(t))
  /\ IF twili' = "up" THEN Respond(t, "ok", {}) ELSE UNCHANGED tool
  /\ UNCHANGED <<pipe, wait, debugger>>

\* The core is made of a process that can be debugged; its contents are
\* CoreDump's subject.
CoreDump(t) ==
  /\ Handles(t, {"coredump"})
  /\ \/ /\ Respond(t, IF Alive(Arg(t)) /\ ~Debugged(Arg(t)) THEN "ok" ELSE "error", {})
        /\ UNCHANGED <<console, debugger>>
     \/ Alive(Arg(t)) /\ ~Debugged(Arg(t)) /\ AssertFails

\* OpenActiveDebugger, then GetNsoInfos of the debugger.
OpenActiveDebugger(t) ==
  /\ Handles(t, {"get-module-info"})
  /\ \/ /\ debugger[t] = Nothing /\ Alive(Arg(t)) /\ ~Debugged(Arg(t)) /\ UNCHANGED console
        /\ Respond(t, "ok", {}) /\ debugger' = IF tool[t].at = "waiting" THEN [debugger EXCEPT ![t] = Arg(t)] ELSE debugger
     \/ /\ debugger[t] = Nothing /\ (~Alive(Arg(t)) \/ Debugged(Arg(t))) /\ Respond(t, "error", {})
        /\ UNCHANGED <<console, debugger>>
     \/ debugger[t] # Nothing /\ (\E r \in {"ok", "error"} : Respond(t, r, {})) /\ UNCHANGED <<console, debugger>>
     \/ debugger[t] # Nothing /\ AssertFails

\* ListProcesses: every process there was when the list was taken has its row;
\* one that ends before its turn, or is debugged, has an error in it.
ListProcesses(t) ==
  /\ Handles(t, {"ps"})
  /\ \/ AssertFails
     \/ LET there == {p \in Pids : Alive(p)} IN
        /\ \E ends \in SUBSET (there \ {0}) :
          /\ procs' = [p \in Pids |-> IF p \in ends THEN [procs[p] EXCEPT !.is = "exited"] ELSE procs[p]]
          /\ \E early \in SUBSET ends :
               Respond(t, "ok", {[pid |-> p, ok |-> p \notin early /\ ~Debugged(p)] : p \in there})
        /\ UNCHANGED <<twili, mon, monitored, pipe, wait, debugger>>

\* The console's services are asked one after the other, and may fail; that one
\* cannot be reached at all is fatal.
Identify(t) ==
  /\ Handles(t, {"identify"})
  /\ \/ (\E r \in {"ok", "error"} : Respond(t, r, {})) /\ UNCHANGED <<console, debugger>>
     \/ AssertFails
GetMemoryInfo(t) ==
  /\ Handles(t, {"get-memory-info"}) /\ \E r \in {"ok", "error"} : Respond(t, r, {})
  /\ UNCHANGED <<console, debugger>>
PrintDebugInfo(t) ==
  /\ Handles(t, {"debug"}) /\ Respond(t, "ok", {})
  /\ UNCHANGED <<console, debugger>>

\* Either way to reboot reaches its service, answers, and then asks; that the
\* console fails one of these is fatal.
Reboots(t) ==
  \/ /\ twili' \in {"rebooting", "aborted"} /\ Respond(t, "ok", {})
     /\ UNCHANGED <<procs, mon, monitored, pipe, wait, debugger>>
  \/ AssertFails
Reboot(t) == Handles(t, {"reboot"}) /\ Reboots(t)
RebootUnsafe(t) == Handles(t, {"reboot -u"}) /\ Reboots(t)

\* A process of a title starts; a hook on the title signals its event.
Starts(title, p) ==
  /\ procs[p] = NoProcess /\ procs' = [procs EXCEPT ![p] = [is |-> "alive", title |-> title]]
  /\ wait' = IF wait.title = title THEN [wait EXCEPT !.signalled = TRUE] ELSE wait

LaunchUnmonitoredProcess(t) ==
  /\ Handles(t, {"launch"})
  /\ \/ \E p \in Pids : Starts(Arg(t), p) /\ Respond(t, "ok", {p})
     \/ Respond(t, "error", {}) /\ UNCHANGED <<procs, wait>>
  /\ UNCHANGED <<twili, mon, monitored, pipe, debugger>>

\* One wait at a time; the hook may be taken by another debugger.
WaitToDebugTitle(t) ==
  /\ Handles(t, {"wait"})
  /\ \/ wait # NoWait /\ Respond(t, "error", {}) /\ UNCHANGED wait
     \/ wait = NoWait /\ Respond(t, "error", {}) /\ UNCHANGED wait
     \/ wait = NoWait /\ wait' = [tool |-> t, title |-> Arg(t), signalled |-> FALSE] /\ UNCHANGED tool
  /\ UNCHANGED <<twili, procs, mon, monitored, pipe, debugger>>

\* The hook's event: the process that has the title now, if any.
TitleStarted ==
  /\ twili = "up" /\ wait.signalled
  /\ LET there == {p \in Pids : Alive(p) /\ procs[p].title = wait.title}
     IN \/ \E p \in there : Respond(wait.tool, "ok", {p})
        \/ there = {} /\ Respond(wait.tool, "error", {})
  /\ wait' = NoWait
  /\ UNCHANGED <<core, consoles, changes, inbox, twili, procs, mon, monitored, pipe, debugger>>

\* ListNamedPipes, OpenNamedPipe.
NamedPipes(t) ==
  /\ \/ Handles(t, {"list-named-pipes"}) /\ Respond(t, "ok", IF pipe.made THEN {"pipe"} ELSE {})
     \/ /\ Handles(t, {"open-named-pipe"}) /\ tool[t].written = 0
        /\ IF pipe.made
           THEN tool' = IF tool[t].at = "waiting" THEN [Answered(t, "ok", <<>>) EXCEPT ![t].written = 1] ELSE tool
           ELSE Respond(t, "error", {})
  /\ UNCHANGED <<console, debugger>>

\* ITwibPipeReader::Read: a pipe has one pending reader, or twili aborts.
ReadNamedPipe(t) ==
  /\ Handles(t, {"open-named-pipe"}) /\ tool[t].written = 1
  /\ \/ /\ pipe.data # <<>> /\ Respond(t, "ok", pipe.data) /\ pipe' = [pipe EXCEPT !.data = <<>>] /\ UNCHANGED twili
     \/ /\ pipe.data = <<>> /\ pipe.reader = None
        /\ pipe' = [pipe EXCEPT !.reader = t] /\ UNCHANGED <<tool, twili>>
     \/ pipe.data = <<>> /\ pipe.reader # None /\ Abort /\ UNCHANGED pipe
  /\ UNCHANGED <<procs, mon, monitored, wait, debugger>>

Request(t) == Terminate(t) \/ CoreDump(t) \/ OpenActiveDebugger(t) \/ ListProcesses(t) \/ Identify(t)
              \/ GetMemoryInfo(t) \/ PrintDebugInfo(t) \/ Reboot(t) \/ RebootUnsafe(t)
              \/ LaunchUnmonitoredProcess(t) \/ WaitToDebugTitle(t) \/ NamedPipes(t) \/ ReadNamedPipe(t)

-----------------------------------------------------------------------------
(***************************************************************************)
(* The console's programs, through ITwiliService.                          *)
(***************************************************************************)
Outside == UNCHANGED <<core, consoles, changes, inbox, debugger>>

\* CreateNamedOutputPipe; what is written goes to the reader or is kept.
CreateNamedOutputPipe ==
  /\ twili = "up" /\ ~pipe.made /\ pipe' = [pipe EXCEPT !.made = TRUE]
  /\ UNCHANGED <<tool, twili, procs, mon, monitored, wait>> /\ Outside
WriteNamedPipe ==
  /\ twili = "up" /\ pipe.made /\ pipe.sent < Units
  /\ LET u == pipe.sent + 1
     IN IF pipe.reader = None
        THEN pipe' = [pipe EXCEPT !.sent = u, !.data = Append(@, u)] /\ UNCHANGED tool
        ELSE pipe' = [pipe EXCEPT !.sent = u, !.reader = None] /\ Respond(pipe.reader, "ok", <<u>>)
  /\ UNCHANGED <<twili, procs, mon, monitored, wait>> /\ Outside

\* The monitored process is launched, attaches, and its end is noticed; the
\* main loop then drops it from its list.
LaunchMonitored ==
  /\ twili = "up" /\ mon.state = "Created" /\ mon' = [mon EXCEPT !.state = "Started"]
  /\ UNCHANGED <<tool, twili, procs, monitored, pipe, wait>> /\ Outside
AttachMonitored ==
  /\ twili = "up" /\ mon.state = "Started"
  /\ \E p \in Pids : Starts("shell", p) /\ mon' = [state |-> "Running", pid |-> p]
  /\ UNCHANGED <<tool, twili, monitored, pipe>> /\ Outside
MonitoredExited ==
  /\ twili = "up" /\ mon.state = "Running" /\ ~Alive(mon.pid)
  /\ mon' = [mon EXCEPT !.state = "Exited"] /\ monitored' = <<>>
  /\ UNCHANGED <<tool, twili, procs, pipe, wait>> /\ Outside

ProcessStarts ==
  /\ \E title \in Titles, p \in Pids : Starts(title, p)
  /\ UNCHANGED <<tool, twili, mon, monitored, pipe>> /\ Outside
ProcessExits ==
  /\ \E p \in Pids \ {0} : Alive(p) /\ procs' = [procs EXCEPT ![p].is = "exited"]
  /\ UNCHANGED <<tool, twili, mon, monitored, pipe, wait>> /\ Outside

\* Destroy ends the main loop, and every monitored process.
Destroy ==
  /\ twili = "up"
  /\ \/ monitored = <<>> /\ twili' = "destroyed" /\ UNCHANGED <<procs, mon, monitored>>
     \/ /\ monitored # <<>> /\ mon.state = "Created" /\ twili' = "destroyed"
        /\ mon' = [mon EXCEPT !.state = "Exited"] /\ UNCHANGED <<procs, monitored>>
     \/ /\ monitored # <<>> /\ mon.state # "Created" /\ UNCHANGED <<mon, monitored>>
        /\ \/ mon.pid = 0 /\ twili' = "destroyed" /\ UNCHANGED procs
           \/ mon.pid # 0 /\ Alive(mon.pid) /\ twili' = "destroyed" /\ Kills(mon.pid)
           \/ mon.pid # 0 /\ ~Alive(mon.pid) /\ twili' \in {"destroyed", "aborted"} /\ UNCHANGED procs
  /\ UNCHANGED <<tool, pipe, wait>> /\ Outside

\* External: twibd finds a console gone and answers what was asked of it, or
\* finds one attached.  Requests and answers on their way may be lost.
Detach(d) ==
  /\ d \in consoles /\ consoles' = consoles \ {d}
  /\ changes < MaxChanges \/ (d = Home /\ twili # "up")
  /\ changes' = IF d = Home /\ twili # "up" THEN changes ELSE changes + 1
  /\ \E lost \in SUBSET {t \in Tools : tool[t].at = "waiting" /\ tool[t].dev = d} :
       /\ \A t \in Tools : tool[t].at = "waiting" /\ tool[t].dev = d /\ tool[t].reply = None => t \in lost
       /\ tool' = [t \in Tools |-> IF t \in lost THEN [tool[t] EXCEPT !.reply = "error"] ELSE tool[t]]
       /\ inbox' \in SUBSET inbox /\ (d # Home => inbox' = inbox)
  /\ UNCHANGED <<core, console, debugger>>
Attach(d) ==
  /\ d \in Consoles \ consoles /\ (d = Home => twili = "up") /\ changes < MaxChanges
  /\ consoles' = consoles \cup {d} /\ changes' = changes + 1
  /\ UNCHANGED <<tool, core, inbox, console, debugger>>

World == CreateNamedOutputPipe \/ WriteNamedPipe \/ LaunchMonitored \/ AttachMonitored \/ MonitoredExited
         \/ ProcessStarts \/ ProcessExits \/ Destroy

Next ==
  \/ \E t \in Tools : Tool(t) \/ Request(t) \/ Elsewhere(t) \/ Interrupt(t)
  \/ TitleStarted \/ World
  \/ \E d \in Consoles : Detach(d) \/ Attach(d)

FoundGone == twili # "up" /\ Detach(Home)

\* The tools, twili and twibd run; a console whose twili ended is found gone.
Fairness ==
  /\ \A t \in Tools : WF_vars(Tool(t)) /\ WF_vars(Request(t)) /\ WF_vars(Elsewhere(t))
  /\ WF_vars(TitleStarted)
  /\ WF_vars(FoundGone)
Spec == Init /\ [][Next]_vars /\ Fairness

-----------------------------------------------------------------------------
\* A command reaches the console it was given, or the only one there was; a
\* terminated process is not alive any more; a core file is whole, unless it could
\* not be closed, which nothing notices; a title that was waited for is answered
\* by a process of it (Twib.cpp, ITwibDeviceInterface.cpp).
CommandsDone ==
  \A t \in Tools :
    /\ tool[t].hit # None => tool[t].hit = tool[t].cmd.dev \/ tool[t].listed = {tool[t].hit}
    /\ tool[t].exit = 0 /\ tool[t].hit = Home /\ Op(t) = "terminate" /\ Arg(t) # 0 => ~Alive(Arg(t))
    /\ tool[t].exit = 0 /\ Op(t) = "coredump" => core[t] = CoreSize \/ tool[t].ferror
    /\ tool[t].exit = 0 /\ tool[t].hit = Home /\ Op(t) = "wait" =>
         \E p \in Pids : tool[t].value = {p} /\ procs[p].title = Arg(t)

\* Nobody else read from the pipe, and the console stayed: then what the tool has
\* printed, and what is on its way, is what was written.
PipePrinted ==
  \A t \in Tools : Op(t) = "open-named-pipe" /\ tool[t].at # "end" /\ tool[t].written = 1
                   /\ (\A u \in Tools \ {t} : Op(u) # "open-named-pipe") /\ changes = 0 /\ twili = "up"
                   => tool[t].printed \o (IF tool[t].reply = "ok" THEN tool[t].value ELSE <<>>) \o pipe.data
                      = [k \in 1..pipe.sent |-> k]

\* Only what a command names is killed, and what twili launched when it ends;
\* twili goes down only by a terminate of what is gone or debugged, a second
\* read of a pipe, a reboot that is refused, a dead process as it ends, or a call
\* to the console that fails under identify, ps, coredump, get-module-info or a
\* reboot: never by another command, nor by these when the console serves them.
KillsNamed ==
  /\ \A p \in Pids : procs'[p].is = "killed" /\ procs[p].is # "killed" =>
       \/ \E t \in inbox \ inbox' : Op(t) = "terminate" /\ Arg(t) = p
       \/ twili' = "destroyed" /\ mon.pid = p
  /\ mon'.state = "Exited" /\ mon.state = "Created" =>
       (\E t \in inbox \ inbox' : Op(t) = "terminate" /\ Arg(t) = 0) \/ twili' = "destroyed"
  /\ twili' = "destroyed" /\ twili = "up" => mon.pid = 0 \/ procs'[mon.pid].is # "alive"
  /\ twili' = "aborted" /\ twili # "aborted" =>
       \/ \E t \in inbox \ inbox' : /\ Op(t) = "terminate" => ~Alive(Arg(t)) \/ Debugged(Arg(t))
                                    /\ Op(t) \in {"terminate", "reboot", "reboot -u", "open-named-pipe"}
       \/ mon.state = "Running" /\ ~Alive(mon.pid)
  /\ twili' = "failed" /\ twili # "failed" =>
       /\ twili = "up"
       /\ \E t \in inbox \ inbox' :
            Op(t) \in {"identify", "ps", "coredump", "get-module-info", "reboot", "reboot -u"}

\* A command ends, but for a core that cannot be written, a pipe that is read
\* for ever and a title that never starts.
Settled ==
  \A t \in Tools : \/ tool[t].at = "end" \/ tool[t].ferror
                   \/ tool[t].at = "waiting" /\ twili = "up" /\ pipe.reader = t
                   \/ tool[t].at = "waiting" /\ twili = "up" /\ wait.tool = t /\ ~wait.signalled
=============================================================================
