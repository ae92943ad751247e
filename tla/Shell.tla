-------------------------------- MODULE Shell --------------------------------
(***************************************************************************)
(* Shell process launching: twili/process/ShellTracker.cpp with the        *)
(* client's ITwibProcessMonitor, ITwiliService::OpenShellShim, IHBABIShim, *)
(* the shim itself (shell_shim/) and the watchdog (twili/Watchdog.cpp).    *)
(*                                                                         *)
(* Two threads of twili share the tracker under queue_mutex.  The main     *)
(* thread handles clients, shims, exit notifications and the loader's      *)
(* reads of the code it installed; the event thread pops a process and     *)
(* asks for its launch, holding the mutex until the launch returns.  Every *)
(* other critical section is short, so the mutex is free exactly when the  *)
(* event thread is idle, and a main thread that is not idle waits for it.  *)
(*                                                                         *)
(* Outside src/: ns and the loader, which reads the code through twili     *)
(* before LaunchProgram returns, and the notification that a program       *)
(* exited.                                                                 *)
(***************************************************************************)
EXTENDS MonitoredProcess, Naturals, Sequences

CONSTANTS
  Clients,  \* processes created by clients, each with its ITwibProcessMonitor
  Bad,      \* those among them whose PrepareForLaunch fails
  None

ASSUME ShellAssumption == Bad \subseteq Clients /\ None \notin Clients

VARIABLES
  procs,     \* the process objects
  monitors,  \* the clients' ITwibProcessMonitors
  queued,    \* ShellTracker::queued
  created,   \* ShellTracker::created: prepared, not attached yet
  tracking,  \* ShellTracker::tracking: launched, exit not seen yet
  signal,    \* tracker_signal
  main,      \* what the main thread wants the mutex for
  arg,       \* the process that is about
  ev,        \* how far the event thread's launch is
  launchee,  \* the process it launches
  ecs,       \* whose code the loader will find
  prog,      \* the programs, by the process they were launched for
  code,      \* the process whose code a program was loaded with
  owner,     \* the process object a program was attached to
  exits,     \* exit notifications twili has not fetched
  dropped,   \* processes whose preparation or launch failed
  aborted    \* twili is gone

objects == <<procs, monitors>>
tracker == <<queued, created, tracking, signal>>
threads == <<main, arg, ev, launchee>>
programs == <<ecs, prog, code, owner, exits>>
vars == <<objects, tracker, threads, programs, dropped, aborted>>

Live == {"started", "attached", "waiting", "running"}

Elements(s) == {s[i] : i \in 1..Len(s)}

Init ==
  /\ procs = [c \in Clients |-> NewProcess]
  /\ monitors = [c \in Clients |-> "alive"]
  /\ queued = <<>> /\ created = <<>> /\ tracking = {}
  /\ signal = "clear"
  /\ main = "idle" /\ arg = None
  /\ ev = "idle" /\ launchee = None
  /\ ecs = None
  /\ prog = [c \in Clients |-> "none"]
  /\ code = [c \in Clients |-> None]
  /\ owner = [c \in Clients |-> None]
  /\ exits = {}
  /\ dropped = {}
  /\ aborted = "no"

MutexFree == ev = "idle"

Abort ==
  /\ aborted' = "yes"
  /\ UNCHANGED <<objects, tracker, threads, programs, dropped>>

\* The programs behind the processes in P die, and ns notes it.
EndPrograms(P) ==
  LET dying == {h \in Clients : owner[h] \in P /\ prog[h] \in Live}
  IN  /\ prog' = [h \in Clients |-> IF h \in dying THEN "ended" ELSE prog[h]]
      /\ exits' = exits \cup dying

-----------------------------------------------------------------------------
(***************************************************************************)
(* The main thread: clients.                                               *)
(***************************************************************************)

\* LAUNCH and LAUNCH_SUSPENDED, up to the lock in QueueLaunch.
Launch(c, suspend) ==
  /\ main = "idle" /\ monitors[c] = "alive" /\ procs[c].state = "Created"
  /\ procs' = [procs EXCEPT ![c] = Launched(@, suspend)]
  /\ main' = "queue" /\ arg' = c
  /\ UNCHANGED <<monitors, tracker, ev, launchee, programs, dropped, aborted>>

\* QueueLaunch.
QueueLaunch ==
  /\ main = "queue" /\ MutexFree
  /\ queued' = Append(queued, arg)
  /\ signal' = "set"
  /\ main' = "idle" /\ arg' = None
  /\ UNCHANGED <<objects, created, tracking, ev, launchee, programs, dropped,
                 aborted>>

\* TERMINATE.
Terminate(c) ==
  /\ main = "idle" /\ monitors[c] = "alive"
  /\ IF CallsNothing(procs[c]) THEN Abort
     ELSE /\ procs' = [procs EXCEPT ![c] = Terminated(@)]
          /\ EndPrograms(IF TerminateReaches(procs[c]) THEN {c} ELSE {})
          /\ UNCHANGED <<monitors, tracker, threads, ecs, code, owner,
                         dropped, aborted>>

\* Mutant of Close: KillImpl of the base class, which does nothing.
CloseWithoutKill(c) ==
  /\ main = "idle" /\ monitors[c] = "alive"
  /\ IF CallsNothing(procs[c]) THEN Abort
     ELSE /\ monitors' = [monitors EXCEPT ![c] = "gone"]
          /\ procs' = [procs EXCEPT ![c] = Killed(@)]
          /\ UNCHANGED <<tracker, threads, programs, dropped, aborted>>

\* ~ITwibProcessMonitor: Kill, and TerminateProgram for an attached program.
Close(c) ==
  /\ main = "idle" /\ monitors[c] = "alive"
  /\ IF CallsNothing(procs[c]) THEN Abort
     ELSE /\ monitors' = [monitors EXCEPT ![c] = "gone"]
          /\ procs' = [procs EXCEPT ![c] = Killed(@)]
          /\ EndPrograms(IF KillReaches(procs[c]) THEN {c} ELSE {})
          /\ UNCHANGED <<tracker, threads, ecs, code, owner, dropped, aborted>>

\* A debugger is attached to the pid of a monitored process.
Continue(c) ==
  /\ main = "idle" /\ procs[c].proc = "attached" /\ procs[c].state # "Exited"
  /\ \E h \in Clients : owner[h] = c /\ prog[h] \in Live
  /\ IF CallsNothing(procs[c]) THEN Abort
     ELSE /\ procs' = [procs EXCEPT ![c] = Continued(@)]
          /\ UNCHANGED <<monitors, tracker, threads, programs, dropped, aborted>>

-----------------------------------------------------------------------------
(***************************************************************************)
(* The main thread: programs and their shims.                              *)
(***************************************************************************)

\* The shim calls OpenShellShim.
OpenShellShim(h) ==
  /\ main = "idle" /\ prog[h] = "started"
  /\ main' = "attach" /\ arg' = h
  /\ UNCHANGED <<objects, tracker, ev, launchee, programs, dropped, aborted>>

\* Mutant of AttachHostProcess: the event thread is not signalled.
AttachHostSilently ==
  /\ main = "attach" /\ MutexFree
  /\ IF created = <<>> \/ procs[Head(created)].proc = "attached" THEN Abort
     ELSE /\ procs' = [procs EXCEPT ![Head(created)] = Attached(@)]
          /\ created' = Tail(created)
          /\ prog' = [prog EXCEPT ![arg] = IF @ = "started" THEN "attached"
                                           ELSE @]
          /\ owner' = [owner EXCEPT ![arg] = Head(created)]
          /\ main' = "idle" /\ arg' = None
          /\ UNCHANGED <<monitors, queued, signal, tracking, ev, launchee, ecs,
                         code, exits, dropped, aborted>>

\* AttachHostProcess, whatever has become of the program meanwhile.
AttachHostProcess ==
  /\ main = "attach" /\ MutexFree
  /\ IF created = <<>> \/ procs[Head(created)].proc = "attached" THEN Abort
     ELSE /\ procs' = [procs EXCEPT ![Head(created)] = Attached(@)]
          /\ created' = Tail(created)
          /\ signal' = "set"
          /\ prog' = [prog EXCEPT ![arg] = IF @ = "started" THEN "attached"
                                           ELSE @]
          /\ owner' = [owner EXCEPT ![arg] = Head(created)]
          /\ main' = "idle" /\ arg' = None
          /\ UNCHANGED <<monitors, queued, tracking, ev, launchee, ecs, code,
                         exits, dropped, aborted>>

\* WaitToStart.
ShimWaits(h) ==
  /\ main = "idle" /\ prog[h] = "attached"
  /\ procs' = [procs EXCEPT ![owner[h]] = WaitToStart(@)]
  /\ prog' = [prog EXCEPT ![h] = "waiting"]
  /\ UNCHANGED <<monitors, tracker, threads, ecs, code, owner, exits, dropped,
                 aborted>>

\* WaitToStart returns: jump to the application, or exit cleanly.
ShimResumes(h) ==
  /\ prog[h] = "waiting" /\ procs[owner[h]].reply # "none"
  /\ procs' = [procs EXCEPT ![owner[h]].reply = "none"]
  /\ IF procs[owner[h]].reply = "ok"
       THEN prog' = [prog EXCEPT ![h] = "running"] /\ UNCHANGED exits
       ELSE prog' = [prog EXCEPT ![h] = "ended"] /\ exits' = exits \cup {h}
  /\ UNCHANGED <<monitors, tracker, threads, ecs, code, owner, dropped,
                 aborted>>

\* The application returns, crashes or is closed; so may the shim.
ProgramEnds(h) ==
  /\ prog[h] \in Live
  /\ prog' = [prog EXCEPT ![h] = "ended"]
  /\ exits' = exits \cup {h}
  /\ UNCHANGED <<objects, tracker, threads, ecs, code, owner, dropped, aborted>>

\* The shell event wakes the main thread.
ShellEvent ==
  /\ main = "idle" /\ exits # {}
  /\ main' = "events"
  /\ UNCHANGED <<objects, tracker, arg, ev, launchee, programs, dropped, aborted>>

\* Mutant of ShellEvents: the callback does not take the mutex.
ShellEventsUnlocked ==
  /\ main = "events"
  /\ procs' = [c \in Clients |-> IF c \in exits \cap tracking
                                 THEN Exited(procs[c]) ELSE procs[c]]
  /\ tracking' = tracking \ exits
  /\ exits' = {}
  /\ main' = "idle"
  /\ UNCHANGED <<monitors, queued, created, signal, arg, ev, launchee, ecs,
                 prog, code, owner, dropped, aborted>>

\* The shell event's callback: fetch every notification; mark the tracked
\* ones as exited.
ShellEvents ==
  /\ main = "events" /\ MutexFree
  /\ procs' = [c \in Clients |-> IF c \in exits \cap tracking
                                 THEN Exited(procs[c]) ELSE procs[c]]
  /\ ecs' = IF \E c \in exits \cap tracking : procs[c].ecs_pending = "yes"
            THEN None ELSE ecs
  /\ tracking' = tracking \ exits
  /\ exits' = {}
  /\ main' = "idle"
  /\ UNCHANGED <<monitors, queued, created, signal, arg, ev, launchee, prog,
                 code, owner, dropped, aborted>>

-----------------------------------------------------------------------------
(***************************************************************************)
(* The event thread.                                                       *)
(***************************************************************************)

\* The processes at the head of the queue that were killed meanwhile.
SkippedAre(k) ==
  /\ \A i \in 1..k : procs[queued[i]].exit_pending = "yes"
  /\ k < Len(queued) => procs[queued[k + 1]].exit_pending = "no"

ReadyToLaunch == created = <<>>

\* The signal's callback, TryToLaunch and PopQueuedProcess, up to the request
\* to launch; a process that cannot be prepared is forgotten.
TryToLaunch ==
  /\ ev = "idle" /\ signal = "set"
  /\ signal' = "clear"
  /\ IF ~ReadyToLaunch
       THEN UNCHANGED <<procs, queued, created, ev, launchee, ecs, dropped>>
       ELSE \E k \in 0..Len(queued) :
              /\ SkippedAre(k)
              /\ LET gone == {queued[i] : i \in 1..k}
                     ps == [c \in Clients |-> IF c \in gone
                              THEN Exited(procs[c]) ELSE procs[c]]
                 IN  /\ queued' = SubSeq(queued, k + 2, Len(queued))
                     /\ \/ /\ k = Len(queued)
                           /\ procs' = ps
                           /\ UNCHANGED <<created, ev, launchee, ecs, dropped>>
                        \/ /\ k < Len(queued) /\ queued[k + 1] \in Bad
                           /\ procs' = ps
                           /\ dropped' = dropped \cup {queued[k + 1]}
                           /\ UNCHANGED <<created, ev, launchee, ecs>>
                        \/ /\ k < Len(queued) /\ queued[k + 1] \notin Bad
                           /\ procs' = [ps EXCEPT
                                ![queued[k + 1]].ecs_pending = "yes"]
                           /\ created' = Append(created, queued[k + 1])
                           /\ ecs' = queued[k + 1]
                           /\ ev' = "launching" /\ launchee' = queued[k + 1]
                           /\ UNCHANGED dropped
  /\ UNCHANGED <<monitors, tracking, main, arg, prog, code, owner, exits,
                 aborted>>

\* The loader asks twili's file system for the code.
LoaderAsks ==
  /\ ev = "launching"
  /\ ev' = "reading"
  /\ UNCHANGED <<objects, tracker, main, arg, launchee, programs, dropped,
                 aborted>>

\* The main thread serves the file; the loader starts the program.
LoaderLoads ==
  /\ ev = "reading" /\ main = "idle"
  /\ ev' = "returning"
  /\ prog' = [prog EXCEPT ![launchee] = "started"]
  /\ code' = [code EXCEPT ![launchee] = ecs]
  /\ ecs' = None
  /\ UNCHANGED <<objects, tracker, main, arg, launchee, owner, exits, dropped,
                 aborted>>

\* The loader rejects what it read, or ns rejects the request at once.
LoaderRejects ==
  /\ ev = "launching" \/ (ev = "reading" /\ main = "idle")
  /\ ev' = "returning"
  /\ UNCHANGED <<objects, tracker, main, arg, launchee, programs, dropped,
                 aborted>>

\* LaunchProgram returns: track the pid, or give the process up.
LaunchReturns ==
  /\ ev = "returning"
  /\ ev' = "idle" /\ launchee' = None
  /\ IF prog[launchee] # "none"
       THEN /\ tracking' = tracking \cup {launchee}
            /\ UNCHANGED <<procs, created, ecs, dropped>>
       ELSE /\ procs' = [procs EXCEPT ![launchee] = Exited(@)]
            /\ created' = <<>>
            /\ ecs' = IF procs[launchee].ecs_pending = "yes" THEN None ELSE ecs
            /\ dropped' = dropped \cup {launchee}
            /\ UNCHANGED tracking
  /\ UNCHANGED <<monitors, queued, signal, main, arg, prog, code, owner, exits,
                 aborted>>

\* The main thread has not refreshed the watchdog for five seconds.
WatchdogExpires ==
  /\ main # "idle" /\ ev = "reading"
  /\ Abort

-----------------------------------------------------------------------------
MainNext ==
  \/ \E c \in Clients :
       \/ \E s \in {"no", "yes"} : Launch(c, s)
       \/ Terminate(c) \/ Close(c) \/ Continue(c)
       \/ OpenShellShim(c) \/ ShimWaits(c)
  \/ QueueLaunch \/ AttachHostProcess \/ ShellEvent \/ ShellEvents

EventThreadNext == TryToLaunch \/ LaunchReturns

ConsoleNext ==
  \/ LoaderAsks \/ LoaderLoads \/ LoaderRejects
  \/ \E h \in Clients : ShimResumes(h) \/ ProgramEnds(h)

Next ==
  /\ aborted = "no"
  /\ MainNext \/ EventThreadNext \/ ConsoleNext \/ WatchdogExpires

\* A shim until it runs the application.
ShimGoesOn == \E h \in Clients : OpenShellShim(h) \/ ShimWaits(h) \/ ShimResumes(h)

Going(A) == aborted = "no" /\ A

\* Both threads, the loader, the watchdog and the shims go on; clients and
\* applications need not.
Fairness ==
  /\ WF_vars(Going(QueueLaunch)) /\ WF_vars(Going(AttachHostProcess))
  /\ WF_vars(Going(ShellEvent)) /\ WF_vars(Going(ShellEvents))
  /\ WF_vars(Going(TryToLaunch)) /\ WF_vars(Going(LaunchReturns))
  /\ WF_vars(Going(LoaderAsks))
  /\ WF_vars(Going(LoaderLoads \/ LoaderRejects))
  /\ WF_vars(Going(WatchdogExpires))
  /\ WF_vars(Going(ShimGoesOn))

Spec == Init /\ [][Next]_vars
FairSpec == Spec /\ Fairness

-----------------------------------------------------------------------------
(***************************************************************************)
(* Properties.                                                             *)
(***************************************************************************)

TypeOK ==
  /\ procs \in [Clients -> Process]
  /\ monitors \in [Clients -> {"alive", "gone"}]
  /\ queued \in Seq(Clients)
  /\ created \in Seq(Clients) /\ Len(created) <= 1
  /\ tracking \subseteq Clients
  /\ signal \in {"clear", "set"}
  /\ main \in {"idle", "queue", "attach", "events"}
  /\ arg \in Clients \cup {None}
  /\ ev \in {"idle", "launching", "reading", "returning"}
  /\ launchee \in Clients \cup {None}
  /\ ecs \in Clients \cup {None}
  /\ prog \in [Clients -> Live \cup {"none", "ended"}]
  /\ code \in [Clients -> Clients \cup {None}]
  /\ owner \in [Clients -> Clients \cup {None}]
  /\ exits \subseteq Clients
  /\ dropped \subseteq Clients
  /\ aborted \in {"no", "yes"}

\* A program runs the code of the process it was launched for and is attached
\* to that process, although AttachHostProcess takes whichever process was
\* created first.  Its exit is not missed, however early it comes: once the
\* notification was fetched the process is marked as exited.
ProgramMatchesProcess ==
  \A h \in Clients :
    /\ prog[h] # "none" => code[h] = h
    /\ owner[h] \in {h, None}
    /\ prog[h] = "ended" /\ h \notin exits => procs[h].state = "Exited"

\* No launch is forgotten: while a process can be launched the event thread is
\* signalled, unless a launch failed; an unanswered LAUNCH belongs to a process
\* that the main thread is about to queue, that is queued or created, or that
\* was dropped; none is answered twice.
LaunchNotForgotten ==
  /\ queued # <<>> /\ created = <<>> /\ ev = "idle" =>
       signal = "set" \/ dropped # {}
  /\ \A c \in Clients :
       /\ procs[c].run_opener = "held" =>
            \/ c \in Elements(queued) \cup Elements(created) \cup dropped
            \/ main = "queue" /\ arg = c
       /\ procs[c].answer # "twice"

\* A program whose client went away after it was attached exits.
KillReachesProgram ==
  \A c \in Clients :
    monitors[c] = "gone" /\ procs[c].exit_pending = "no"
      ~> procs[c].state = "Exited" \/ aborted = "yes"

\* What ShellTracker.cpp moves launches to another thread for: the main thread
\* is never blocked while the loader needs it.
IpcServerNotBlocked == ev = "reading" => main = "idle"
=============================================================================
