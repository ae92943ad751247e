------------------------------- MODULE Applets -------------------------------
(***************************************************************************)
(* Applet launching: twili/process/AppletTracker.cpp, the service objects  *)
(* it is driven through (twili/service/IAppletShim*, IAppletController,    *)
(* IHBABIShim, ITwiliService), the client's ITwibProcessMonitor, and the   *)
(* two builds of the applet shim (twili_applet_shim/).                     *)
(*                                                                         *)
(* The control applet waits for process_queued_event, asks whether twili   *)
(* is ready, pops a process and has the applet manager start the library   *)
(* applet that will host it.  The host comes up with the code the loader   *)
(* finds in the external content source, connects to twili, which attaches *)
(* it to the process created first, and asks for leave to start.           *)
(*                                                                         *)
(* twili handles all of this on its main thread, so a request is one       *)
(* action; the applets and the clients run concurrently between them.      *)
(*                                                                         *)
(* AppletTracker::hbmenu is not a variable: PopQueuedProcess moves it to   *)
(* its caller (line 102), so it is null whenever another function looks at *)
(* it and the branches of QueueLaunch, ReleaseControlProcess and           *)
(* Monitor::StateChanged on it are never taken.                            *)
(*                                                                         *)
(* Outside src/: the applet manager ends the hosts with the control applet *)
(* that started them, twili sees the sessions of a dead control applet     *)
(* close before a new one connects, and the loader takes the content       *)
(* source away when it has loaded a host from it.                          *)
(***************************************************************************)
EXTENDS MonitoredProcess, Naturals, Sequences

CONSTANTS
  Clients,  \* processes created by clients, each with its ITwibProcessMonitor
  Bad,      \* those among them whose PrepareForLaunch fails
  Loads,    \* processes for next_load_path, used again after they exited
  Menu,     \* hbmenu, created anew for every launch
  None

ASSUME AppletsAssumption ==
  /\ Bad \subseteq Clients
  /\ Clients \cap Loads = {}
  /\ Menu \notin Clients \cup Loads
  /\ None \notin Clients \cup Loads \cup {Menu}

Procs == Clients \cup Loads \cup {Menu}

VARIABLES
  procs,        \* the process objects
  monitors,     \* the clients' ITwibProcessMonitors
  queued,       \* AppletTracker::queued
  created,      \* AppletTracker::created: prepared, not attached yet
  monitor,      \* the process AppletTracker::monitor watches
  has_control,  \* AppletTracker::has_control_process
  event,        \* process_queued_event
  controllers,  \* the processes whose IAppletController exists
  ecs,          \* whose code the loader will put into the next host
  ctl,          \* what the control applet is doing
  applet,       \* the process it has popped and not started yet
  host,         \* the host applets, by the process they were started for
  code,         \* the process whose code a host was loaded with
  owner,        \* the process object a host was attached to
  dropped,      \* processes PopQueuedProcess gave up on
  aborted       \* twili is gone

twili == <<procs, queued, created, monitor, has_control, event, controllers>>
console == <<ecs, ctl, applet, host, code, owner>>
vars == <<twili, console, monitors, dropped, aborted>>

Live == {"starting", "started", "attached", "waiting", "running", "returned"}

Elements(s) == {s[i] : i \in 1..Len(s)}

Init ==
  /\ procs = [p \in Procs |-> NewProcess]
  /\ monitors = [c \in Clients |-> "alive"]
  /\ queued = <<>> /\ created = <<>>
  /\ monitor = None
  /\ has_control = "no"
  /\ event = "clear"
  /\ controllers = {}
  /\ ecs = None
  /\ ctl = "off" /\ applet = None
  /\ host = [p \in Procs |-> "none"]
  /\ code = [p \in Procs |-> None]
  /\ owner = [p \in Procs |-> None]
  /\ dropped = {}
  /\ aborted = "no"

-----------------------------------------------------------------------------
(***************************************************************************)
(* AppletTracker.                                                          *)
(***************************************************************************)

\* Mutant of ReadyToLaunch: processes created but not attached do not count.
ReadyWhileCreating(cr, mon, ps) ==
  mon = None \/ ps[mon].state = "Exited"

\* Nothing is being created, and no applet is running.
ReadyToLaunch(cr, mon, ps) ==
  cr = <<>> /\ (mon = None \/ ps[mon].state = "Exited")

\* process_queued_wevent.Signal() if ready.
SignalIf(ready) == IF ready THEN "set" ELSE event

Unused(l) ==
  /\ l \notin Elements(queued) \cup Elements(created) \cup controllers
  /\ l # monitor

\* Mutant of MonitorExited: the tracker is not woken.
MonitorExitedSilently(p, ps) ==
  /\ monitor' = None
  /\ procs' = ps
  /\ UNCHANGED <<event, queued>>

\* Monitor::StateChanged(Exited): wake the control applet, queue what the
\* applet wants loaded next if the file opens, stop watching.
MonitorExited(p, ps) ==
  /\ monitor' = None
  /\ event' = SignalIf(ReadyToLaunch(created, monitor, ps))
  /\ \/ procs' = ps /\ UNCHANGED queued
     \/ /\ ps[p].next_load = "yes"
        /\ \E l \in Loads :
             /\ Unused(l)
             /\ procs' = [ps EXCEPT ![l] = NewProcess]
             /\ queued' = Append(queued, l)

\* ChangeState(Exited) of a process with everything it calls.
ChangeStateExited(p) ==
  LET ps == [procs EXCEPT ![p] = Exited(@)]
  IN  /\ ecs' = IF procs[p].ecs_pending = "yes" THEN None ELSE ecs
      /\ IF monitor = p THEN MonitorExited(p, ps)
         ELSE procs' = ps /\ UNCHANGED <<monitor, event, queued>>

-----------------------------------------------------------------------------
(***************************************************************************)
(* The client: ITwibProcessMonitor, and a debugger that attaches.          *)
(***************************************************************************)

\* LAUNCH and LAUNCH_SUSPENDED, with QueueLaunch.
Launch(c, suspend) ==
  /\ monitors[c] = "alive" /\ procs[c].state = "Created"
  /\ procs' = [procs EXCEPT ![c] = Launched(@, suspend)]
  /\ queued' = Append(queued, c)
  /\ event' = SignalIf(ReadyToLaunch(created, monitor, procs))
  /\ UNCHANGED <<created, monitor, has_control, controllers, console,
                 monitors, dropped, aborted>>

\* The console's processes behind object p are gone.
EndHostsOf(p) ==
  host' = [h \in Procs |-> IF owner[h] = p /\ host[h] \in Live THEN "ended"
                           ELSE host[h]]

\* A std::function without a target is called: twili dies.
Abort == aborted' = "yes" /\ UNCHANGED <<twili, console, monitors, dropped>>

\* TERMINATE.
Terminate(c) ==
  /\ monitors[c] = "alive"
  /\ IF CallsNothing(procs[c]) THEN Abort
     ELSE /\ procs' = [procs EXCEPT ![c] = Terminated(@)]
          /\ IF TerminateReaches(procs[c]) THEN EndHostsOf(c)
             ELSE UNCHANGED host
          /\ UNCHANGED <<queued, created, monitor, has_control, event,
                         controllers, ecs, ctl, applet, code, owner,
                         monitors, dropped, aborted>>

\* Mutant of Close: the kill timeout is not armed.
CloseWithoutTimeout(c) ==
  /\ monitors[c] = "alive"
  /\ IF CallsNothing(procs[c]) THEN Abort
     ELSE /\ monitors' = [monitors EXCEPT ![c] = "gone"]
          /\ procs' = [procs EXCEPT ![c] =
               IF KillReaches(@) THEN [@ EXCEPT !.command = "queued"]
               ELSE Killed(@)]
          /\ UNCHANGED <<queued, created, monitor, has_control, event,
                         controllers, console, dropped, aborted>>

\* The client closes the monitor or goes away: ~ITwibProcessMonitor kills.
Close(c) ==
  /\ monitors[c] = "alive"
  /\ IF CallsNothing(procs[c]) THEN Abort
     ELSE /\ monitors' = [monitors EXCEPT ![c] = "gone"]
          /\ procs' = [procs EXCEPT ![c] =
               IF KillReaches(@) THEN AppletKillImpl(@) ELSE Killed(@)]
          /\ UNCHANGED <<queued, created, monitor, has_control, event,
                         controllers, console, dropped, aborted>>

\* A debugger is attached to the pid of a monitored process.
Continue(c) ==
  /\ procs[c].proc = "attached" /\ procs[c].state # "Exited"
  /\ \E h \in Procs : owner[h] = c /\ host[h] \in Live
  /\ IF CallsNothing(procs[c]) THEN Abort
     ELSE /\ procs' = [procs EXCEPT ![c] = Continued(@)]
          /\ UNCHANGED <<queued, created, monitor, has_control, event,
                         controllers, console, monitors, dropped, aborted>>

\* Ten seconds after Kill.
KillTimeout(p) ==
  /\ procs[p].kill_timeout = "armed"
  /\ IF CallsNothing(procs[p]) THEN Abort
     ELSE /\ procs' = [procs EXCEPT ![p] =
                         [Terminated(@) EXCEPT !.kill_timeout = "none"]]
          /\ IF TerminateReaches(procs[p]) THEN EndHostsOf(p)
             ELSE UNCHANGED host
          /\ UNCHANGED <<queued, created, monitor, has_control, event,
                         controllers, ecs, ctl, applet, code, owner,
                         monitors, dropped, aborted>>

-----------------------------------------------------------------------------
(***************************************************************************)
(* The control applet.                                                     *)
(***************************************************************************)

\* The album is opened: OpenAppletShim without a control process.
ControlConnects ==
  /\ ctl = "off" /\ has_control = "no" /\ controllers = {}
  /\ ctl' = "wait"
  /\ has_control' = "yes"
  /\ event' = "set"
  /\ UNCHANGED <<procs, queued, created, monitor, controllers, ecs, applet,
                 host, code, owner, monitors, dropped, aborted>>

\* The waiter sees the event; the callback resets it first.
ControlWakes ==
  /\ ctl = "wait" /\ event = "set"
  /\ event' = "clear"
  /\ ctl' = "ask"
  /\ UNCHANGED <<procs, queued, created, monitor, has_control, controllers,
                 ecs, applet, host, code, owner, monitors, dropped, aborted>>

\* GetCommand, until it says that no commands are left.
GetCommand ==
  /\ ctl = "ask"
  /\ ctl' = IF ReadyToLaunch(created, monitor, procs) THEN "got" ELSE "wait"
  /\ UNCHANGED <<twili, ecs, applet, host, code, owner, monitors, dropped,
                 aborted>>

\* The processes at the head of the queue that were killed meanwhile.
SkippedAre(k) ==
  /\ \A i \in 1..k : procs[queued[i]].exit_pending = "yes"
  /\ k < Len(queued) => procs[queued[k + 1]].exit_pending = "no"

\* PopApplet and PopQueuedProcess: pass over killed processes; install the
\* code of the next one, or of hbmenu if there is none; if that fails the
\* process is gone from the queue and the control applet gives up.
PopApplet ==
  /\ ctl = "got"
  /\ \E k \in 0..Len(queued) :
       /\ SkippedAre(k)
       /\ LET gone == {queued[i] : i \in 1..k}
              p == IF k < Len(queued) THEN queued[k + 1] ELSE Menu
              ps == [q \in Procs |-> IF q \in gone THEN Exited(procs[q])
                                     ELSE procs[q]]
              np == IF p = Menu THEN NewProcess ELSE procs[p]
          IN  /\ queued' = SubSeq(queued, k + 2, Len(queued))
              /\ IF p \in Bad
                   THEN /\ procs' = ps
                        /\ dropped' = dropped \cup {p}
                        /\ ctl' = "wait"
                        /\ UNCHANGED <<created, controllers, ecs, applet>>
                   ELSE /\ procs' = [ps EXCEPT ![p] =
                                       [np EXCEPT !.ecs_pending = "yes"]]
                        /\ created' = Append(created, p)
                        /\ controllers' = controllers \cup {p}
                        /\ ecs' = p
                        /\ ctl' = "create" /\ applet' = p
                        /\ UNCHANGED dropped
  /\ UNCHANGED <<monitor, has_control, event, host, code, owner, monitors,
                 aborted>>

\* CreateLibraryApplet and Start; then ask again.
CreateApplet ==
  /\ ctl = "create"
  /\ host' = [host EXCEPT ![applet] = "starting"]
  /\ ctl' = "ask" /\ applet' = None
  /\ UNCHANGED <<twili, ecs, code, owner, monitors, dropped, aborted>>

\* The applet manager refuses: the exception drops the controller.  (An applet
\* that is created and cannot start is HostFails.)
CreateFails ==
  /\ ctl = "create"
  /\ ctl' = "wait" /\ applet' = None
  /\ controllers' = controllers \ {applet}
  /\ ChangeStateExited(applet)
  /\ UNCHANGED <<created, has_control, host, code, owner, monitors, dropped,
                 aborted>>

\* The controller event: GetCommand, and RequestExit of the applet, which
\* may ignore it.
TakeCommand(p) ==
  /\ ctl = "wait" /\ p \in controllers /\ procs[p].command = "queued"
  /\ procs' = [procs EXCEPT ![p].command = "taken"]
  /\ UNCHANGED <<queued, created, monitor, has_control, event, controllers,
                 console, monitors, dropped, aborted>>

\* The applet manager's and the kernel's objects for a host are released.
ForgetHost(p) ==
  /\ host' = [host EXCEPT ![p] = IF @ = "ended" THEN "none" ELSE @]
  /\ code' = [code EXCEPT ![p] = IF host[p] = "ended" THEN None ELSE @]
  /\ owner' = [owner EXCEPT ![p] = IF host[p] = "ended" THEN None ELSE @]

\* Mutant of CloseController: the control applet does not wait for the end.
CloseControllerEarly(p) ==
  /\ p \in controllers
  /\ ctl = "off" \/ (ctl = "wait" /\ host[p] \in {"attached", "ended"})
  /\ controllers' = controllers \ {p}
  /\ ChangeStateExited(p)
  /\ ForgetHost(p)
  /\ UNCHANGED <<created, has_control, ctl, applet, monitors, dropped, aborted>>

\* ~IAppletController: the control applet saw that the applet is completed,
\* or is gone itself.
CloseController(p) ==
  /\ p \in controllers
  /\ ctl = "off" \/ (ctl = "wait" /\ host[p] = "ended")
  /\ controllers' = controllers \ {p}
  /\ ChangeStateExited(p)
  /\ ForgetHost(p)
  /\ UNCHANGED <<created, has_control, ctl, applet, monitors, dropped, aborted>>

\* The album is closed or crashes.
ControlDies ==
  /\ ctl # "off"
  /\ ctl' = "off" /\ applet' = None
  /\ host' = [p \in Procs |-> IF host[p] \in Live THEN "ended" ELSE host[p]]
  /\ UNCHANGED <<twili, ecs, code, owner, monitors, dropped, aborted>>

\* ~ControlImpl and ReleaseControlProcess: what was created will never be
\* attached.
ReleaseControl ==
  /\ ctl = "off" /\ has_control = "yes"
  /\ has_control' = "no"
  /\ procs' = [p \in Procs |-> IF p \in Elements(created)
                               THEN Exited(procs[p]) ELSE procs[p]]
  /\ ecs' = IF \E p \in Elements(created) : procs[p].ecs_pending = "yes"
            THEN None ELSE ecs
  /\ created' = <<>>
  /\ UNCHANGED <<queued, monitor, event, controllers, ctl, applet, host,
                 code, owner, monitors, dropped, aborted>>

-----------------------------------------------------------------------------
(***************************************************************************)
(* A host applet.                                                          *)
(***************************************************************************)

\* The loader creates the process with the code it finds.
HostStarts(h) ==
  /\ host[h] = "starting"
  /\ host' = [host EXCEPT ![h] = "started"]
  /\ code' = [code EXCEPT ![h] = ecs]
  /\ ecs' = None
  /\ UNCHANGED <<twili, ctl, applet, owner, monitors, dropped, aborted>>

\* OpenAppletShim with a control process: AttachHostProcess takes the first
\* created process, which nothing may be attached to yet.
HostAttaches(h) ==
  /\ host[h] = "started" /\ has_control = "yes"
  /\ IF created = <<>> \/ procs[Head(created)].proc = "attached" THEN Abort
     ELSE LET p == Head(created)
              ps == [procs EXCEPT ![p] = Attached(@)]
          IN  /\ procs' = ps
              /\ created' = Tail(created)
              /\ monitor' = p
              /\ event' = SignalIf(ReadyToLaunch(Tail(created), p, ps))
              /\ host' = [host EXCEPT ![h] = "attached"]
              /\ owner' = [owner EXCEPT ![h] = p]
              /\ UNCHANGED <<queued, has_control, controllers, ecs, ctl,
                             applet, code, monitors, dropped, aborted>>

\* The shim has set up the environment and calls WaitToStart.
HostWaits(h) ==
  /\ host[h] = "attached"
  /\ procs' = [procs EXCEPT ![owner[h]] = WaitToStart(@)]
  /\ host' = [host EXCEPT ![h] = "waiting"]
  /\ UNCHANGED <<queued, created, monitor, has_control, event, controllers,
                 ecs, ctl, applet, code, owner, monitors, dropped, aborted>>

\* WaitToStart returns: jump to the application, or exit cleanly.
HostResumes(h) ==
  /\ host[h] = "waiting" /\ procs[owner[h]].reply # "none"
  /\ host' = [host EXCEPT ![h] =
                IF procs[owner[h]].reply = "ok" THEN "running" ELSE "ended"]
  /\ procs' = [procs EXCEPT ![owner[h]].reply = "none"]
  /\ UNCHANGED <<queued, created, monitor, has_control, event, controllers,
                 ecs, ctl, applet, code, owner, monitors, dropped, aborted>>

\* The application returns: SetNextLoadPath and SetExitCode.
AppReturns(h, next) ==
  /\ host[h] = "running"
  /\ host' = [host EXCEPT ![h] = "returned"]
  /\ procs' = [procs EXCEPT ![owner[h]].next_load = next]
  /\ UNCHANGED <<queued, created, monitor, has_control, event, controllers,
                 ecs, ctl, applet, code, owner, monitors, dropped, aborted>>

HostExits(h) ==
  /\ host[h] = "returned"
  /\ host' = [host EXCEPT ![h] = "ended"]
  /\ UNCHANGED <<twili, ecs, ctl, applet, code, owner, monitors, dropped,
                 aborted>>

\* A host cannot be loaded, crashes, or is closed by the user.
HostFails(h) ==
  /\ host[h] \in Live
  /\ host' = [host EXCEPT ![h] = "ended"]
  /\ UNCHANGED <<twili, ecs, ctl, applet, code, owner, monitors, dropped,
                 aborted>>

-----------------------------------------------------------------------------
ClientNext ==
  \E c \in Clients :
    \/ \E s \in {"no", "yes"} : Launch(c, s)
    \/ Terminate(c)
    \/ Close(c)
    \/ Continue(c)

ControlNext ==
  \/ ControlConnects \/ ControlWakes \/ GetCommand \/ PopApplet
  \/ CreateApplet \/ CreateFails \/ ControlDies \/ ReleaseControl
  \/ \E p \in Procs : TakeCommand(p) \/ CloseController(p) \/ KillTimeout(p)

HostNext ==
  \E h \in Procs :
    \/ HostStarts(h) \/ HostAttaches(h) \/ HostWaits(h) \/ HostResumes(h)
    \/ \E n \in {"no", "yes"} : AppReturns(h, n)
    \/ HostExits(h) \/ HostFails(h)

Next == aborted = "no" /\ (ClientNext \/ ControlNext \/ HostNext)

\* The control applet's timer and its applets' ends; a host until it runs the
\* application, and again when that has returned.
Polls == \E p \in Procs : TakeCommand(p) \/ CloseController(p)
HostGoesOn == \E h \in Procs : HostStarts(h) \/ HostAttaches(h) \/ HostWaits(h) \/ HostResumes(h) \/ HostExits(h)

Going(A) == aborted = "no" /\ A

\* twili's main loop, the control applet's wait loop (which polls its applets
\* every three seconds) and the shim go on; clients, users and applications
\* need not.
Fairness ==
  /\ WF_vars(Going(ControlWakes)) /\ WF_vars(Going(GetCommand))
  /\ WF_vars(Going(PopApplet))
  /\ WF_vars(Going(CreateApplet \/ CreateFails))
  /\ WF_vars(Going(ReleaseControl))
  /\ WF_vars(Going(Polls))
  /\ WF_vars(Going(\E p \in Procs : KillTimeout(p)))
  /\ WF_vars(Going(HostGoesOn))

Spec == Init /\ [][Next]_vars
FairSpec == Spec /\ Fairness

-----------------------------------------------------------------------------
(***************************************************************************)
(* Properties.                                                             *)
(***************************************************************************)

TypeOK ==
  /\ procs \in [Procs -> Process]
  /\ monitors \in [Clients -> {"alive", "gone"}]
  /\ queued \in Seq(Procs)
  /\ created \in Seq(Procs)
  /\ monitor \in Procs \cup {None}
  /\ has_control \in {"no", "yes"}
  /\ event \in {"clear", "set"}
  /\ controllers \subseteq Procs
  /\ ecs \in Procs \cup {None}
  /\ ctl \in {"off", "wait", "ask", "got", "create"}
  /\ applet \in Procs \cup {None}
  /\ host \in [Procs -> Live \cup {"none", "ended"}]
  /\ code \in [Procs -> Procs \cup {None}]
  /\ owner \in [Procs -> Procs \cup {None}]
  /\ dropped \subseteq Clients
  /\ aborted \in {"no", "yes"}

\* Only one process is being created and only one applet is up at a time,
\* whatever is queued, killed or crashing and however often the control applet
\* is replaced.  A host runs the code of the process it was started for and is
\* attached to that process: the content source is never cleared or replaced
\* under an applet that is starting, and no other process is created before it.
HostMatchesProcess ==
  /\ Len(created) <= 1
  /\ \A g, h \in Procs : host[g] \in Live /\ host[h] \in Live => g = h
  /\ \A h \in Procs : host[h] \in Live =>
       /\ host[h] # "starting" => code[h] = h
       /\ host[h] \notin {"starting", "started"} => owner[h] = h

\* No launch is forgotten: the control applet never sleeps while twili is ready
\* to launch, unless a process was dropped; an unanswered LAUNCH belongs to a
\* process that is queued or created, or was dropped; none is answered twice.
LaunchNotForgotten ==
  /\ ctl = "wait" /\ ReadyToLaunch(created, monitor, procs) =>
       event = "set" \/ dropped # {}
  /\ \A c \in Clients :
       /\ procs[c].run_opener = "held" =>
            c \in Elements(queued) \cup Elements(created) \cup dropped
       /\ procs[c].answer # "twice"

\* twili serves an applet until it has ended, although its process is marked
\* as exited from elsewhere: its standard streams stay open, and a suspended
\* shim can still be resumed or has been answered.
HostServed ==
  \A h \in Procs :
    /\ host[h] \in {"attached", "waiting", "running", "returned"} =>
         procs[owner[h]].pipes = "open"
    /\ host[h] = "waiting" =>
         procs[owner[h]].slcb = "stored" \/ procs[owner[h]].reply # "none"

\* An attached applet whose client went away exits, even if it ignores the
\* request: the timeout or the release of the shim ends it.  A process that
\* was killed before it was attached is marked instead.
KillReachesApplet ==
  \A c \in Clients :
    monitors[c] = "gone" /\ procs[c].exit_pending = "no"
      ~> procs[c].state = "Exited" \/ aborted = "yes"
=============================================================================
