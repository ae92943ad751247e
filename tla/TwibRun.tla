------------------------------ MODULE TwibRun ------------------------------
(***************************************************************************)
(* `twib run`: the tool's main thread, two output pumps and the input pump *)
(* make synchronous requests through one Client (twib/tool: Twib.cpp,      *)
(* RemoteObject, Client, SocketClient; platform/unix InputPump), whose     *)
(* event thread hands out the responses; on the console they are served by *)
(* ITwibProcessMonitor.  The process and its pipes are seen from outside:  *)
(* output is a number of units, read in any portions, then end of file.    *)
(***************************************************************************)
EXTENDS Integers, Sequences

CONSTANTS MaxOutput,  \* bound: units the process writes to each stream
          MaxInput,   \* bound: chunks the user types
          MayBreak    \* whether the connection to twibd may break

ASSUME RunAssumption == MaxOutput \in [{"out", "err"} -> Nat] /\ MaxInput \in Nat /\ MayBreak \in BOOLEAN

Pumps == {"out", "err"}
Threads == Pumps \cup {"main", "in"}

\* MonitoredProcess::State, as far as the tool tells them apart.
Created == 1
Started == 2
Attached == 3
Running == 4
Exited == 5

VARIABLES call,   \* the synchronous call of every thread
          cl,     \* Client: failed, response_map, what the event thread is at
          link,   \* requests and responses under way, whether it is broken
          tool,   \* how far `twib run` is, what it printed
          con     \* the monitor and the process on the console
vars == <<call, cl, link, tool, con>>

\* A response: a result code and a value.
Ok(v) == <<"ok", v>>
Fails(code) == <<code, 0>>
NoResponse == <<"none", 0>>
NoCall == [at |-> "none", cmd |-> "none", rs |-> NoResponse, missed |-> FALSE]

Init ==
  /\ call = [t \in Threads |-> NoCall]
  /\ cl = [failed |-> FALSE, map |-> {}, for |-> "none", notified |-> FALSE]
  /\ link = [up |-> <<>>, down |-> <<>>, broken |-> FALSE]
  /\ tool = [main |-> "create", pump |-> [p \in Pumps |-> "none"], in |-> "none", typed |-> 0,
             printed |-> [p \in Pumps |-> 0], end |-> "no"]
  /\ con = [state |-> 0, changes |-> <<>>, observer |-> FALSE, opener |-> FALSE,
            wrote |-> [p \in Pumps |-> 0], read |-> [p \in Pumps |-> 0], waiting |-> {},
            stdin |-> "open"]

Alive == tool.end = "no"

-----------------------------------------------------------------------------
\* SendSyncRequestWithoutAssert.  Client::SendRequest looks at failed outside
\* the lock,
Calls(t, cmd) ==
  call' = [call EXCEPT ![t] = IF cl.failed
                              THEN [NoCall EXCEPT !.at = "test", !.cmd = cmd, !.rs = Fails("io")]
                              ELSE [NoCall EXCEPT !.at = "send", !.cmd = cmd]]

\* Mutant of Notify: the event loop is not told.
Unnotified(n) == n

\* The event loop is told of output.
Notify(n) == TRUE

\* then registers the callback and sends the message, which notifies the
\* event loop.
SendRequest(t) ==
  /\ Alive /\ call[t].at = "send"
  /\ call' = [call EXCEPT ![t].at = "test"]
  /\ cl' = [cl EXCEPT !.map = @ \cup {t}, !.notified = Notify(@)]
  /\ link' = IF link.broken THEN link ELSE [link EXCEPT !.up = Append(@, <<t, call[t].cmd>>)]
  /\ UNCHANGED <<tool, con>>

\* The caller tests for the response and sleeps; the callback takes no lock,
\* so that it may come between.
Test(t) ==
  /\ Alive /\ call[t].at = "test"
  /\ call' = [call EXCEPT ![t].at = IF call[t].rs = NoResponse THEN "tested" ELSE "done"]
  /\ UNCHANGED <<cl, link, tool, con>>

Sleep(t) ==
  /\ Alive /\ call[t].at = "tested"
  /\ call' = [call EXCEPT ![t].at = "asleep"]
  /\ UNCHANGED <<cl, link, tool, con>>

\* PostResponse: the callback is taken out of the map and called; it sets
\* the response ...
Callback(t, rs) ==
  /\ call' = [call EXCEPT ![t].rs = rs]
  /\ cl' = [cl EXCEPT !.map = @ \ {t}, !.for = t, !.failed = link.broken]

PostResponse ==
  /\ Alive /\ cl.for = "none" /\ link.down # <<>> /\ ~link.broken
  /\ Callback(Head(link.down)[1], Head(link.down)[2])
  /\ link' = [link EXCEPT !.down = Tail(@)]
  /\ UNCHANGED <<tool, con>>

\* FailAllRequests, in every Prepare that finds the connection broken.
FailAllRequests ==
  /\ Alive /\ cl.for = "none" /\ link.broken /\ cl.notified
  /\ IF cl.map = {}
     THEN cl' = [cl EXCEPT !.failed = TRUE, !.notified = FALSE] /\ UNCHANGED call
     ELSE \E t \in cl.map : Callback(t, Fails("io"))
  /\ UNCHANGED <<link, tool, con>>

\* ... and then notifies; a caller that has seen the response is gone, and
\* its condition variable with it.
NotifyAll ==
  /\ Alive /\ cl.for # "none"
  /\ call' = IF call[cl.for].rs = NoResponse THEN call
             ELSE [call EXCEPT ![cl.for].at = IF @ = "asleep" THEN "test" ELSE @,
                               ![cl.for].missed = call[cl.for].at = "tested"]
  /\ cl' = [cl EXCEPT !.for = "none"]
  /\ UNCHANGED <<link, tool, con>>

Break ==
  /\ MayBreak /\ Alive /\ ~link.broken
  /\ link' = [up |-> <<>>, down |-> <<>>, broken |-> TRUE]
  /\ cl' = [cl EXCEPT !.notified = TRUE]
  /\ UNCHANGED <<call, tool, con>>

-----------------------------------------------------------------------------
\* The main thread.
Script == <<"create", "append", "launch", "open out", "open err", "open in", "join", "wait", "destroy", "close">>
After(step) == Script[(CHOOSE k \in 1..Len(Script) : Script[k] = step) + 1]

MainCalls ==
  /\ Alive /\ call["main"].at = "none" /\ tool.main \notin {"join", "destroy"}
  /\ Calls("main", tool.main)
  /\ UNCHANGED <<cl, link, tool, con>>

\* The pumps are threads of their own: unwinding past one that was not joined
\* ends the program, as any other error does.
PumpsStarted == \E p \in Pumps : tool.pump[p] # "none"

MainFails ==
  /\ Alive /\ call["main"].at = "done" /\ call["main"].rs[1] # "ok" /\ tool.main # "close"
  /\ tool' = [tool EXCEPT !.end = IF PumpsStarted /\ tool.main # "wait" THEN "terminate" ELSE "die"]
  /\ call' = [call EXCEPT !["main"] = NoCall]
  /\ UNCHANGED <<cl, link, con>>

MainReturns ==
  /\ Alive /\ call["main"].at = "done" /\ (call["main"].rs[1] = "ok" \/ tool.main = "close")
  /\ call' = [call EXCEPT !["main"] = NoCall]
  /\ tool' = CASE tool.main = "open out" -> [tool EXCEPT !.main = After(@), !.pump["out"] = "run"]
               [] tool.main = "open err" -> [tool EXCEPT !.main = After(@), !.pump["err"] = "run"]
               [] tool.main = "open in" -> [tool EXCEPT !.main = After(@), !.in = "run"]
               [] tool.main = "wait" -> IF call["main"].rs[2] = Exited
                                        THEN [tool EXCEPT !.main = After(@)] ELSE tool
               [] tool.main = "close" -> [tool EXCEPT !.end = "ok"]
               [] OTHER -> [tool EXCEPT !.main = After(@)]
  /\ UNCHANGED <<cl, link, con>>

\* Mutant of PumpsJoined: one output pump is enough.
AnyJoined == \E p \in Pumps : tool.pump[p] = "ended"

\* Both output pumps have ended.
PumpsJoined == \A p \in Pumps : tool.pump[p] = "ended"

Join ==
  /\ Alive /\ tool.main = "join" /\ PumpsJoined
  /\ tool' = [tool EXCEPT !.main = After(@)]
  /\ UNCHANGED <<call, cl, link, con>>

\* stdin_loop.Destroy waits for a callback that is under way.
Destroy ==
  /\ Alive /\ tool.main = "destroy" /\ call["in"].at = "none"
  /\ tool' = [tool EXCEPT !.main = After(@), !.in = "ended"]
  /\ UNCHANGED <<call, cl, link, con>>

-----------------------------------------------------------------------------
\* pump_output: read and print until end of file; any other error ends the
\* program.
PumpCalls(p) ==
  /\ Alive /\ tool.pump[p] = "run" /\ call[p].at = "none"
  /\ Calls(p, "read")
  /\ UNCHANGED <<cl, link, tool, con>>

PumpReturns(p) ==
  /\ Alive /\ call[p].at = "done"
  /\ call' = [call EXCEPT ![p] = NoCall]
  /\ tool' = CASE call[p].rs[1] = "ok" -> [tool EXCEPT !.printed[p] = @ + call[p].rs[2]]
               [] call[p].rs[1] = "eof" -> [tool EXCEPT !.pump[p] = "ended"]
               [] OTHER -> [tool EXCEPT !.end = "die"]
  /\ UNCHANGED <<cl, link, con>>

\* What was read cannot be printed: the system_error is caught by nobody.
PrintFails(p) ==
  /\ Alive /\ call[p].at = "done" /\ call[p].rs[1] = "ok" /\ call[p].rs[2] > 0
  /\ call' = [call EXCEPT ![p] = NoCall]
  /\ tool' = [tool EXCEPT !.end = "terminate"]
  /\ UNCHANGED <<cl, link, con>>

\* InputPump::SignalRead on the thread of stdin_loop: a chunk is written; at
\* end of file, which stays readable, the writer is closed.
InputRead ==
  /\ Alive /\ tool.in = "run" /\ tool.main # "destroy" /\ call["in"].at = "none"
  /\ \/ /\ tool.typed < MaxInput
        /\ tool' = [tool EXCEPT !.typed = @ + 1] /\ Calls("in", "write")
     \/ /\ tool' = [tool EXCEPT !.typed = MaxInput] /\ Calls("in", "close in")
  /\ UNCHANGED <<cl, link, con>>

\* An error is not caught on that thread.
InputReturns ==
  /\ Alive /\ call["in"].at = "done"
  /\ call' = [call EXCEPT !["in"] = NoCall]
  /\ tool' = IF call["in"].rs[1] = "ok" THEN tool ELSE [tool EXCEPT !.end = "terminate"]
  /\ UNCHANGED <<cl, link, con>>

-----------------------------------------------------------------------------
\* The console.
Rest == [link EXCEPT !.up = Tail(@)]
Replies(l, rs) == [l EXCEPT !.down = IF l.broken THEN @ ELSE @ \o rs]
Avail(p) == con.wrote[p] - con.read[p]

\* WaitStateChange: the oldest change that was not reported, or the request
\* is kept.
WaitStateChange ==
  IF con.changes # <<>>
  THEN /\ con' = [con EXCEPT !.changes = Tail(@)]
       /\ link' = Replies(Rest, <<<<"main", Ok(Head(con.changes))>>>>)
  ELSE con' = [con EXCEPT !.observer = TRUE] /\ link' = Rest

\* StateChanged, for the changed process c: the kept request is answered, or
\* the change is remembered.  LAUNCH is answered when the process is attached
\* or gone.
Reported(c, s) == IF c.observer THEN [c EXCEPT !.state = s, !.observer = FALSE]
                  ELSE [c EXCEPT !.state = s, !.changes = Append(@, s)]
ReportsOf(s) ==
  (IF con.opener /\ s \in {Attached, Exited}
   THEN <<<<"main", IF s = Attached THEN Ok(0) ELSE Fails("err")>>>> ELSE <<>>)
  \o (IF con.observer THEN <<<<"main", Ok(s)>>>> ELSE <<>>)

\* Launch: QueueLaunch follows, the request stays open.
Launch ==
  IF con.state = Created
  THEN /\ con' = [Reported(con, Started) EXCEPT !.opener = TRUE]
       /\ link' = Replies(Rest, ReportsOf(Started))
  ELSE link' = Replies(Rest, <<<<"main", Fails("err")>>>>) /\ UNCHANGED con

\* A pipe reader's READ: what is there, end of file, or wait.
Read(p) ==
  \/ \E k \in 1..Avail(p) : /\ con' = [con EXCEPT !.read[p] = @ + k]
                            /\ link' = Replies(Rest, <<<<p, Ok(k)>>>>)
  \/ /\ Avail(p) = 0 /\ con.state = Exited
     /\ link' = Replies(Rest, <<<<p, Fails("eof")>>>>) /\ UNCHANGED con
  \/ /\ Avail(p) = 0 /\ con.state # Exited
     /\ con' = [con EXCEPT !.waiting = @ \cup {p}] /\ link' = Rest

Write ==
  IF con.state = Exited \/ con.stdin = "closed"
  THEN link' = Replies(Rest, <<<<"in", Fails("eof")>>>>) /\ UNCHANGED con
  ELSE con' = [con EXCEPT !.waiting = @ \cup {"in"}] /\ link' = Rest

Serve ==
  /\ link.up # <<>> /\ ~link.broken
  /\ LET t == Head(link.up)[1]
         cmd == Head(link.up)[2]
     IN \/ /\ cmd = "create"
           /\ con' = [con EXCEPT !.state = Created] /\ link' = Replies(Rest, <<<<t, Ok(0)>>>>)
        \/ /\ cmd = "append" /\ UNCHANGED con
           /\ \E rs \in {Ok(0), Fails("err")} : link' = Replies(Rest, <<<<t, rs>>>>)
        \/ /\ cmd \in {"open out", "open err", "open in", "close"}
           /\ link' = Replies(Rest, <<<<t, Ok(0)>>>>) /\ UNCHANGED con
        \/ /\ cmd = "close in"
           /\ con' = [con EXCEPT !.stdin = "closed"] /\ link' = Replies(Rest, <<<<t, Ok(0)>>>>)
        \/ cmd = "launch" /\ Launch
        \/ cmd = "wait" /\ WaitStateChange
        \/ cmd = "read" /\ Read(t)
        \/ cmd = "write" /\ Write
  /\ UNCHANGED <<call, cl, tool>>

-----------------------------------------------------------------------------
\* The process (external): it comes up, writes, reads, exits.
ProcessStarts ==
  /\ con.state \in {Started, Attached}
  /\ con' = [Reported(con, con.state + 1) EXCEPT !.opener = FALSE]
  /\ link' = Replies(link, ReportsOf(con.state + 1))
  /\ UNCHANGED <<call, cl, tool>>

ProcessWrites(p) ==
  /\ con.state = Running /\ con.wrote[p] < MaxOutput[p]
  /\ LET now == p \in con.waiting
     IN /\ con' = [con EXCEPT !.wrote[p] = @ + 1, !.waiting = @ \ {p},
                              !.read[p] = IF now THEN @ + 1 ELSE @]
        /\ link' = IF now THEN Replies(link, <<<<p, Ok(1)>>>>) ELSE link
  /\ UNCHANGED <<call, cl, tool>>

ProcessReads ==
  /\ con.state = Running /\ "in" \in con.waiting
  /\ con' = [con EXCEPT !.waiting = @ \ {"in"}]
  /\ link' = Replies(link, <<<<"in", Ok(0)>>>>)
  /\ UNCHANGED <<call, cl, tool>>

\* Exited: the pipes are closed, whoever waits on one sees the end of file.
EofFor(t) == IF t \in con.waiting THEN <<<<t, Fails("eof")>>>> ELSE <<>>
ProcessExits ==
  /\ con.state \in {Started, Attached, Running}
  /\ con' = [Reported(con, Exited) EXCEPT !.opener = FALSE, !.waiting = {}]
  /\ link' = Replies(link, EofFor("out") \o EofFor("err") \o EofFor("in") \o ReportsOf(Exited))
  /\ UNCHANGED <<call, cl, tool>>

-----------------------------------------------------------------------------
Caller(t) == SendRequest(t) \/ Test(t) \/ Sleep(t)
MainThread == MainCalls \/ MainFails \/ MainReturns \/ Join \/ Destroy \/ Caller("main")
PumpThread(p) == PumpCalls(p) \/ PumpReturns(p) \/ Caller(p)
InputThread == InputReturns \/ Caller("in")
EventThread == PostResponse \/ FailAllRequests \/ NotifyAll
Next == \/ MainThread \/ (\E p \in Pumps : PumpThread(p) \/ PrintFails(p)) \/ InputThread \/ InputRead
        \/ EventThread \/ Break \/ Serve
        \/ ProcessStarts \/ (\E p \in Pumps : ProcessWrites(p)) \/ ProcessReads \/ ProcessExits

\* Every thread of the tool and the console's main thread keep running; the
\* user and the process need not do anything.
Fairness == /\ WF_vars(MainThread) /\ WF_vars(InputThread) /\ WF_vars(EventThread) /\ WF_vars(Serve)
            /\ \A p \in Pumps : WF_vars(PumpThread(p))
Spec == Init /\ [][Next]_vars /\ Fairness

-----------------------------------------------------------------------------
\* `twib run` succeeds only when the process has exited and all it wrote to
\* either stream has been printed.
OutputComplete ==
  tool.end = "ok" => con.state = Exited /\ \A p \in Pumps : tool.printed[p] = con.wrote[p]

\* `twib run` is to end: the process has exited, or the connection is lost.
MustEnd == con.state = Exited \/ link.broken

\* It has - unless a thread missed the notification of its response.
HasEnded == tool.end # "no" \/ \E t \in Threads : call[t].missed
=============================================================================
