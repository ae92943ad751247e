------------------------------- MODULE MCTwib -------------------------------
(***************************************************************************)
(* Commands of twib for TLC: `run` (TwibRun), with its threads, the file   *)
(* commands (FileCommands), and two at a time of the commands to a console *)
(* (DeviceCommands).                                                       *)
(***************************************************************************)
EXTENDS TwibRun, TLC

VARIABLES subcommand,                              \* "run", "files" or "device"
          cmd, dev, host, t, wr, touched, long,    \* FileCommands
          tools, core, consoles, changes, twili, inbox, procs, mon, monitored, pipe, wait, debugger   \* DeviceCommands

\* One unit on standard output, none on the other stream.
MCOutput == [p \in {"out", "err"} |-> IF p = "out" THEN 1 ELSE 0]

\* A directory and a file on either side, files of up to three bytes, chunks,
\* read buffers and batches of two.
Stdout == <<"-">>
Absent == [kind |-> "none", data |-> <<>>]
Dir == [kind |-> "dir", data |-> <<>>]
File(d) == [kind |-> "file", data |-> d]
MCPaths == {<<>>, <<"a">>, <<"b">>, <<"d">>, <<"d", "a">>, <<"d", "b">>, <<"b", "a">>, Stdout}
Tree(a, b, d, da) ==
  [p \in MCPaths |-> CASE p = <<>> -> Dir [] p = <<"a">> -> a [] p = <<"b">> -> b
                       [] p = <<"d">> -> d [] p = <<"d", "a">> -> da
                       [] p = Stdout -> File(<<>>) [] OTHER -> Absent]
MCDevices ==
  {Tree(File(<<1, 2, 1>>), File(<<2>>), Dir, e) : e \in {Absent, File(<<2, 2, 2, 2>>)}}
  \cup {Tree(File(<<1, 2>>), Dir, Absent, Absent)}
MCHosts == {Tree(File(<<2, 1, 2>>), File(<<>>), Dir, File(<<1, 1, 1, 1>>))}
MCCommands ==
  [op : {"pull", "push"}, from : {<<<<"a">>>>, <<<<"a">>, <<"b">>>>}, to : {<<"d">>, <<"d", "a">>, <<"b">>}]
  \cup [op : {"pull"}, from : {<<<<"a">>, <<"b">>>>}, to : {Stdout}]
  \cup [op : {"ls"}, to : {<<>>, <<"d">>, <<"a">>}]
  \cup [op : {"rm"}, to : {<<"a">>, <<"d">>, <<"d", "b">>}, recursive : BOOLEAN]
  \cup [op : {"mkdir"}, to : {<<"d">>, <<"d", "b">>, <<"a", "b">>}]
  \cup [op : {"mv"}, src : {<<"a">>, <<"d">>, <<"d", "b">>}, to : {<<"b">>, <<"d">>, <<"d", "b">>}]
F == INSTANCE FileCommands WITH Bytes <- {0, 1, 2}, Paths <- MCPaths, Commands <- MCCommands, Devices <- MCDevices,
       Hosts <- MCHosts, ChunkSize <- 2, ReadLimit <- 2, BatchSize <- 2, MaxChanges <- 2

\* Two tools, and a second console that may be attached.  The two ask about the
\* same process, pipe or title; the monitored process is new or was before, and
\* so is the pipe, from which nothing more comes after two units.
Line(op, arg) == [op |-> op, arg |-> arg, dev |-> "none"]
On(d, line) == [line EXCEPT !.dev = d]
Pair(x, y) == [a |-> x, b |-> y]
Proc(is, title) == [is |-> is, title |-> title]
MCProcs(one) == 0 :> Proc("alive", "none") @@ 1 :> one
New == [state |-> "Created", pid |-> 0]
Gone == [state |-> "Exited", pid |-> 0]
Scene(lines, one, m, sent) == [lines |-> lines, procs |-> MCProcs(one), mon |-> m, sent |-> sent]
MCScenes ==
  {Scene(Pair(Line("terminate", 1), Line(op, 1)), Proc("none", "none"), New, 2)
     : op \in {"terminate", "get-module-info"}}
  \cup {Scene(Pair(Line("terminate", 1), Line(op, 1)), Proc("alive", "x"), Gone, 2) : op \in {"coredump", "ps"}}
  \cup {Scene(Pair(Line("terminate", 0), Line(op, "none")), Proc("exited", "x"), New, 2)
          : op \in {"list-devices", "reboot", "list-named-pipes", "err"}}
  \cup {Scene(Pair(Line("open-named-pipe", "none"), Line(op, "none")), Proc("exited", "x"), Gone, 0)
          : op \in {"open-named-pipe", "identify"}}
  \cup {Scene(Pair(Line("get-memory-info", "none"), Line(op, "none")), Proc("exited", "x"), Gone, 2)
          : op \in {"debug", "reboot -u"}}
  \cup {Scene(Pair(On("home", Line("wait", "x")), Line(op, "x")), Proc("none", "none"), Gone, 2) : op \in {"wait", "launch"}}
  \cup {Scene(Pair(On("other", Line("coredump", 1)), Line("get-module-info", 1)), Proc("alive", "x"), Gone, 2)}
D == INSTANCE DeviceCommands WITH Tools <- {"a", "b"}, Scenes <- MCScenes, Consoles <- {"home", "other"}, Home <- "home",
       Pids <- {0, 1}, Titles <- {"x"}, Units <- 2, CoreSize <- 2, MaxChanges <- 1, tool <- tools

-----------------------------------------------------------------------------
fileVars == <<cmd, dev, host, t, wr, touched, long>>
FilesIdle == cmd = <<>> /\ dev = <<>> /\ host = <<>> /\ t = <<>> /\ wr = <<>> /\ touched = {} /\ long = {}

deviceVars == <<tools, core, consoles, changes, twili, inbox, procs, mon, monitored, pipe, wait, debugger>>
DeviceIdle == /\ tools = <<>> /\ core = <<>> /\ consoles = {} /\ changes = 0 /\ twili = "" /\ inbox = {} /\ procs = <<>>
              /\ mon = <<>> /\ monitored = <<>> /\ pipe = <<>> /\ wait = <<>> /\ debugger = <<>>

Run(A) == subcommand = "run" /\ A
Files(A) == subcommand = "files" /\ A
Device(A) == subcommand = "device" /\ A

TwibInit == \/ subcommand = "run" /\ Init /\ FilesIdle /\ DeviceIdle
            \/ subcommand = "files" /\ Init /\ F!Init /\ DeviceIdle
            \/ subcommand = "device" /\ Init /\ FilesIdle /\ D!Init
RunStep == Run(Next) /\ UNCHANGED <<subcommand, fileVars, deviceVars>>
FilesStep == Files(F!Next) /\ UNCHANGED <<subcommand, vars, deviceVars>>
DeviceStep == Device(D!Next) /\ UNCHANGED <<subcommand, vars, fileVars>>
TwibNext == RunStep \/ FilesStep \/ DeviceStep

\* The fairness of the command that is executed.
TwibFairness ==
  /\ WF_vars(Run(MainThread)) /\ WF_vars(Run(InputThread)) /\ WF_vars(Run(EventThread)) /\ WF_vars(Run(Serve))
  /\ \A p \in Pumps : WF_vars(Run(PumpThread(p)))
  /\ WF_fileVars(Files(F!Tool))
  /\ \A u \in {"a", "b"} : /\ WF_deviceVars(Device(D!Tool(u))) /\ WF_deviceVars(Device(D!Request(u)))
                          /\ WF_deviceVars(Device(D!Elsewhere(u)))
  /\ WF_deviceVars(Device(D!TitleStarted)) /\ WF_deviceVars(Device(D!FoundGone))
TwibSpec == TwibInit /\ [][TwibNext]_<<subcommand, vars, fileVars, deviceVars>> /\ TwibFairness

-----------------------------------------------------------------------------
\* What `run` and open-named-pipe print is what was written (Twib.cpp main,
\* ITwibPipeReader.cpp).
AllPrinted == OutputComplete /\ (subcommand = "device" => D!PipePrinted)

\* A command that succeeds has done what it says: a file command has copied or
\* listed faithfully, another has reached the console and the process it names
\* (Twib.cpp, ITwibDeviceInterface.cpp).
CommandsDone == /\ subcommand = "files" => F!Copied
                /\ subcommand = "device" => D!CommandsDone


\* Every command ends: `run` when the process has exited or the connection is
\* lost, unless a thread missed the notification of its response, a file
\* command if the entries of a listed directory stay, and the others unless they
\* wait for the console or cannot write (Twib.cpp, RemoteObject.cpp).
CommandsEnd ==
  (subcommand = "run" => MustEnd) ~> (CASE subcommand = "run" -> HasEnded
                                        [] subcommand = "files" -> F!HasEnded
                                        [] subcommand = "device" -> D!Settled)
=============================================================================
