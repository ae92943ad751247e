-------------------------- MODULE MonitoredProcess --------------------------
(***************************************************************************)
(* twili/process/MonitoredProcess.cpp, TrackedProcess.cpp, ECSProcess.cpp  *)
(* and AppletProcess.cpp: the object twili keeps for a process it launches.*)
(* A method is an operator from the object to the changed object; what it  *)
(* does to the tracker, the loader or the console is left to the module    *)
(* that uses it.                                                           *)
(*                                                                         *)
(*   slcb     suspended_launch_cb, the unanswered WaitToStart of the shim  *)
(*   reply    what the shim was answered and has not seen yet              *)
(*   answer   the responses to the LAUNCH request so far                   *)
(*   command  REQUEST_EXIT on its way to the control applet                *)
(*   pipes    the process's end of its standard streams                    *)
(***************************************************************************)

States == {"Created", "Started", "Attached", "ShimSuspended", "Running",
           "Exited"}

Process ==
  [state : States, proc : {"none", "attached"}, suspend : {"no", "yes"},
   slcb : {"none", "stored"}, reply : {"none", "ok", "no_longer"},
   exit_pending : {"no", "yes"}, ecs_pending : {"no", "yes"},
   run_opener : {"none", "held"}, answer : {"none", "pid", "error", "twice"},
   command : {"none", "queued", "taken"}, kill_timeout : {"none", "armed"},
   next_load : {"no", "yes"}, pipes : {"open", "closed"}]

NewProcess ==
  [state |-> "Created", proc |-> "none", suspend |-> "no", slcb |-> "none",
   reply |-> "none", exit_pending |-> "no", ecs_pending |-> "no",
   run_opener |-> "none", answer |-> "none", command |-> "none",
   kill_timeout |-> "none", next_load |-> "no", pipes |-> "open"]

-----------------------------------------------------------------------------
\* Answer the LAUNCH request, if it is still unanswered, and forget it.
Respond(p, kind) ==
  IF p.run_opener = "none" THEN p
  ELSE [p EXCEPT !.run_opener = "none",
                 !.answer = IF @ = "none" THEN kind ELSE "twice"]

\* Answer the shim that waits in WaitToStart.
AnswerShim(p, r) == [p EXCEPT !.slcb = "none", !.reply = r]

\* ChangeState(Exited): close the pipes, release a suspended shim, answer a
\* LAUNCH that is still open, disarm the kill timeout.
Exited(p) ==
  LET q == IF p.slcb = "stored" THEN AnswerShim(p, "no_longer") ELSE p
  IN  Respond([q EXCEPT !.state = "Exited", !.pipes = "closed",
                        !.kill_timeout = "none"], "error")

\* Attach and ChangeState(Attached): the LAUNCH request gets the pid.
Attached(p) ==
  Respond([p EXCEPT !.proc = "attached", !.state = "Attached",
                    !.ecs_pending = "no"], "pid")

\* Launch and LaunchSuspended, up to the call of QueueLaunch.
Launched(p, suspend) ==
  [p EXCEPT !.suspend = suspend, !.run_opener = "held", !.state = "Started"]

\* The shim asks for leave to jump to the application.
WaitToStart(p) ==
  IF p.suspend = "yes"
    THEN [p EXCEPT !.state = "ShimSuspended", !.slcb = "stored"]
    ELSE [p EXCEPT !.state = "Running", !.reply = "ok"]

-----------------------------------------------------------------------------
\* Terminate, Kill and Continue of a suspended process call slcb without
\* looking whether it is there.
CallsNothing(p) == p.state = "ShimSuspended" /\ p.slcb = "none"

\* Continue: resume a suspended shim, or make sure it will not be suspended.
Continued(p) ==
  IF p.state = "ShimSuspended"
    THEN AnswerShim([p EXCEPT !.state = "Running"], "ok")
    ELSE [p EXCEPT !.suspend = "no"]

\* Terminate.  Whether the console's process dies is TerminateReaches.
Terminated(p) ==
  CASE p.state = "Created" -> Exited(p)
    [] p.state = "ShimSuspended" -> AnswerShim(p, "no_longer")
    [] OTHER -> p

\* Terminate gets as far as svc::TerminateProcess.
TerminateReaches(p) == p.state \notin {"Created", "Exited"} /\ p.proc = "attached"

\* KillImpl of an applet: ask for a clean exit, terminate after ten seconds.
AppletKillImpl(p) == [p EXCEPT !.kill_timeout = "armed", !.command = "queued"]

\* TrackedProcessBase::Kill, up to KillImpl.
Killed(p) ==
  CASE p.state = "Created" -> Exited(p)
    [] p.state = "Started" -> [p EXCEPT !.exit_pending = "yes"]
    [] p.state = "ShimSuspended" -> AnswerShim(p, "no_longer")
    [] OTHER -> p

\* Kill gets as far as KillImpl.
KillReaches(p) == p.state \in {"Attached", "Running"}
=============================================================================
