------------------------------ MODULE MCLinks ------------------------------
(***************************************************************************)
(* The connections for TLC: twili's bridge at the end of a USB connection  *)
(* (UsbBridge), twibd and a console over TCP (TcpLink), and the tool and   *)
(* twibd over a Windows named pipe (NamedPipeLink).  A behaviour is about  *)
(* one of them.                                                            *)
(***************************************************************************)
EXTENDS UsbBridge

VARIABLES link,                     \* "usb", "tcp" or "pipe"
          twibd, wire, con, brg,    \* TcpLink
          end, snd, pipe, book      \* NamedPipeLink

\* USB: requests that open an object, wait on it, stream to it, close it, name an
\* unknown command or a closed object, and carry too much or too many ids.
Plain(o, c, n) == [obj |-> o, cmd |-> c, par |-> n, stream |-> FALSE, exp |-> 0, size |-> n, objs |-> 0]
Stream(o, p, n) == [obj |-> o, cmd |-> "call", par |-> p, stream |-> TRUE, exp |-> n, size |-> p + n, objs |-> 0]
MCReq == << Plain(0, "open", 0), [Plain(0, "wait", 1) EXCEPT !.objs = 1], Stream(1, 1, 2),
            [Plain(0, "call", 2) EXCEPT !.size = 1], [Plain(1, "call", 1) EXCEPT !.size = 2],
            Plain(1, "close", 0), Plain(1, "call", 1), [Plain(0, "unknown", 0) EXCEPT !.objs = 3] >>

\* TCP: one request with a payload whose response carries an object, one
\* without whose response has a payload.
T == INSTANCE TcpLink WITH ReqSize <- <<1, 0>>, RspSize <- <<0, 1>>, RspObjs <- <<1, 0>>,
       Garbage <- {0, 9}, MaxFlaps <- 1, MayBreak <- TRUE, host <- twibd
ASSUME TcpAssumption == T!ConstantsOK

\* The pipe: two requests of the tool's own threads, and one that the callback
\* of the first sends; a response that the pipe cannot hold, and reads that
\* end inside a message.
P == INSTANCE NamedPipeLink WITH MainReqs <- <<1, 2>>, Follow <- <<3, 0, 0>>, ReqSize <- <<1, 2, 1>>,
       RspSize <- <<1, 3, 1>>, Cap <- 2, Chunk <- 2, Tools <- {"a"}

tcpVars == <<twibd, wire, con, brg>>
pipeVars == <<end, snd, pipe, book>>
TcpIdle == T!Init /\ con.size = 0
PipeIdle == end = <<>> /\ snd = <<>> /\ pipe = <<>> /\ book = <<>>
Usb(A) == link = "usb" /\ A
Tcp(A) == link = "tcp" /\ A
NamedPipe(A) == link = "pipe" /\ A

LinksInit == /\ Init
             /\ \/ link = "usb" /\ TcpIdle /\ PipeIdle
                \/ link = "tcp" /\ T!Init /\ PipeIdle
                \/ link = "pipe" /\ TcpIdle /\ P!Init
UsbStep == Usb(Next) /\ UNCHANGED <<link, tcpVars, pipeVars>>
TcpStep == Tcp(T!Next) /\ UNCHANGED <<link, vars, pipeVars>>
PipeStep == NamedPipe(P!Next) /\ UNCHANGED <<link, vars, tcpVars>>
LinksNext == UsbStep \/ TcpStep \/ PipeStep

\* The fairness of the link the behaviour is about.
LinksFairness ==
  /\ WF_vars(Usb(HostSends)) /\ WF_vars(Usb(MainThread)) /\ SF_vars(Usb(RespondLater))
  /\ WF_tcpVars(Tcp(T!RequestOutput)) /\ WF_tcpVars(Tcp(T!HostLoop)) /\ WF_tcpVars(Tcp(T!MainThread))
  /\ WF_tcpVars(Tcp(T!RespondLater)) /\ WF_tcpVars(Tcp(T!SocketThread))
  /\ WF_pipeVars(NamedPipe(P!ToolLoop)) /\ WF_pipeVars(NamedPipe(P!DaemonLoop))
  /\ WF_pipeVars(NamedPipe(P!Dispatch))
  /\ \A s \in P!Senders : WF_pipeVars(NamedPipe(P!Sender(s)))
  /\ \A x \in P!Ends : WF_pipeVars(NamedPipe(P!Kernel(x)))
LinksSpec == LinksInit /\ [][LinksNext]_<<link, vars, tcpVars, pipeVars>> /\ LinksFairness

-----------------------------------------------------------------------------
\* Messages are put together again whole and in order at the other end, over
\* TCP whatever the cuts, over the pipe although reads and writes overlap
\* (MessageConnection.cpp, bridge/tcp/Connection.cpp,
\* NamedPipeMessageConnection.cpp).
LinksIntact == T!MessagesIntact /\ [](link = "pipe" => P!Intact)

\* What is sent is answered, and who sends returns, unless the connection is
\* lost, a header is cut on its way to twili over TCP, the reader on USB is
\* disturbed, or, on a pipe, a write is outstanding that no event loop waits for
\* (RequestReader.cpp, ResponseState.cpp, TCPBridge.cpp, Connection.cpp,
\* NamedPipeMessageConnection.cpp, Client.cpp).
Open == CASE link = "usb" -> Waiting
          [] link = "tcp" -> T!Waiting
          [] link = "pipe" -> P!Busy
Hopeless == (link = "tcp" /\ T!Excused) \/ (link = "pipe" /\ P!Excused)
LinksAnswer == Open ~> ~Open \/ Hopeless
=============================================================================
