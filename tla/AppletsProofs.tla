---------------------------- MODULE AppletsProofs ----------------------------
(***************************************************************************)
(* Proofs about Applets, for any number of clients and of files the        *)
(* applets load next, whichever processes cannot be prepared.              *)
(***************************************************************************)
EXTENDS Applets, ProcessProofs

-----------------------------------------------------------------------------
(***************************************************************************)
(* The inductive invariant.                                                *)
(***************************************************************************)

\* The states of a process object that has its host and has not exited.
UpStates == {"Attached", "ShimSuspended", "Running"}

\* A process that is to be launched: a client's is Started, the others have
\* just been created.
Fit(p) ==
  /\ procs[p].state \in {"Created", "Started"}
  /\ p \in Clients => procs[p].state = "Started"

\* How far the control applet is: before it pops a process nothing is created
\* and nothing is watched, and until it has started the host of the process it
\* popped that process is created and its code is installed.
ControlInv ==
  /\ ctl # "off" => has_control = "yes"
  /\ has_control = "no" => created = <<>>
  /\ ctl = "got" => created = <<>> /\ monitor = None
  /\ ctl = "create" =>
       /\ applet \in Procs /\ created = <<applet>> /\ ecs = applet
       /\ host[applet] = "none" /\ applet \in controllers /\ Fit(applet)

\* One process at most is created or watched; the watched one is up, and every
\* controller of a living control applet is that process's.
MonitorInv ==
  /\ created = <<>> \/ \E p \in Procs : created = <<p>>
  /\ monitor # None => /\ created = <<>> /\ monitor \in controllers
                       /\ procs[monitor].state \in UpStates
  /\ ctl # "off" => \A p \in controllers : created = <<p>> \/ monitor = p

\* A host belongs to a controller.  Until it is attached its process is the
\* created one, and its code is installed until it is loaded; after that its
\* process is the watched one.
HostInv ==
  \A h \in Procs :
    /\ host[h] # "none" => h \in controllers
    /\ host[h] \in Live => ctl # "off"
    /\ host[h] \in {"starting", "started"} => created = <<h>> /\ Fit(h)
    /\ host[h] = "starting" => ecs = h
    /\ host[h] \in Live \ {"starting"} => code[h] = h
    /\ host[h] \in Live \ {"starting", "started"} => monitor = h /\ owner[h] = h
    /\ host[h] = "waiting" => ShimServed(procs[h])

\* A queued process is in the queue once and nowhere else.
Queued(p) ==
  p # Menu /\ Fit(p) /\ created # <<p>> /\ p \notin controllers /\ monitor # p

QueueInv ==
  /\ \A i, j \in 1..Len(queued) : queued[i] = queued[j] => i = j
  /\ \A i \in 1..Len(queued) : Queued(queued[i])

\* The process objects: the streams are open until the process has exited, the
\* kill timeout is armed only while it is up, and a client's process that was
\* not launched is known to nobody else.
ProcessInv ==
  \A p \in Procs :
    /\ AnswerOnce(procs[p])
    /\ procs[p].state # "Exited" => procs[p].pipes = "open"
    /\ procs[p].kill_timeout = "armed" => procs[p].state \in UpStates
    /\ p \in Clients /\ procs[p].state = "Created" =>
         created # <<p>> /\ p \notin controllers

IInv ==
  /\ TypeOK /\ ControlInv /\ MonitorInv /\ HostInv /\ QueueInv /\ ProcessInv
  /\ LaunchNotForgotten

-----------------------------------------------------------------------------
(***************************************************************************)
(* Steps that change process objects and hosts only: Terminate, Close,     *)
(* Continue, the kill timeout, and what shims and applications do.         *)
(***************************************************************************)

ProcessKept(p) ==
  /\ AnswerOnce(procs'[p])
  /\ procs[p].state = "Started" => procs'[p].state = "Started"
  /\ p \notin Clients /\ procs[p].state = "Created" => procs'[p].state = "Created"
  /\ procs[p].state \in UpStates => procs'[p].state \in UpStates
  /\ procs'[p].state = "Created" => procs[p].state = "Created"
  /\ procs'[p].state # "Exited" => procs'[p].pipes = "open"
  /\ procs'[p].kill_timeout = "armed" => procs'[p].state \in UpStates
  /\ procs'[p].run_opener = "held" => procs[p].run_opener = "held"
  /\ host'[p] = "waiting" => ShimServed(procs'[p])

\* A host stays as it is, ends, or goes on.
HostKept(h) ==
  \/ host'[h] = host[h]
  \/ host[h] \in Live /\ host'[h] = "ended"
  \/ /\ host[h] \in {"attached", "waiting", "running"}
     /\ host'[h] \in {"waiting", "running", "returned"}

\* Such steps keep the invariant.
LEMMA RunStep ==
  ASSUME IInv,
         UNCHANGED <<queued, created, monitor, has_control, event, controllers, ecs, ctl,
                     applet, code, owner, dropped, aborted>>,
         monitors' \in [Clients -> {"alive", "gone"}],
         procs' \in [Procs -> Process],
         host' \in [Procs -> Live \cup {"none", "ended"}],
         \A p \in Procs : ProcessKept(p) /\ HostKept(p)
  PROVE  IInv'
<1>1. TypeOK'
  BY DEF IInv, TypeOK
<1>2. \A p \in Procs : Fit(p) => Fit(p)'
  BY DEF Fit, ProcessKept
<1>3. monitor \in Procs \cup {None}
  BY DEF IInv, TypeOK
<1>4. ControlInv'
  BY <1>2 DEF IInv, ControlInv, HostKept, Live
<1>5. MonitorInv'
  <2>1. monitor # None => procs'[monitor].state \in UpStates
    BY <1>3 DEF IInv, MonitorInv, ProcessKept
  <2> QED
    BY <2>1 DEF IInv, MonitorInv
<1>6. HostInv'
  <2> SUFFICES ASSUME NEW h \in Procs
               PROVE  /\ host'[h] # "none" => h \in controllers
                      /\ host'[h] \in Live => ctl # "off"
                      /\ host'[h] \in {"starting", "started"} =>
                           created = <<h>> /\ Fit(h)'
                      /\ host'[h] = "starting" => ecs = h
                      /\ host'[h] \in Live \ {"starting"} => code[h] = h
                      /\ host'[h] \in Live \ {"starting", "started"} =>
                           monitor = h /\ owner[h] = h
                      /\ host'[h] = "waiting" => ShimServed(procs'[h])
    BY DEF HostInv, ShimServed
  <2> QED
    BY <1>2 DEF IInv, HostInv, HostKept, ProcessKept, Live
<1>7. QueueInv'
  <2>1. \A i \in 1..Len(queued) : queued[i] \in Procs
    BY DEF IInv, TypeOK
  <2>2. \A p \in Procs : Queued(p) => Queued(p)'
    BY <1>2 DEF Queued
  <2> QED
    BY <2>1, <2>2 DEF IInv, QueueInv
<1>8. ProcessInv'
  BY DEF IInv, ProcessInv, ProcessKept
<1>9. LaunchNotForgotten'
  <2>1. ReadyToLaunch(created, monitor, procs)' => ReadyToLaunch(created, monitor, procs)
    BY <1>3 DEF IInv, MonitorInv, ReadyToLaunch, ProcessKept, UpStates
  <2>2. \A c \in Clients : c \in Procs
    BY DEF Procs
  <2>3. \A c \in Clients :
          /\ procs'[c].run_opener = "held" => procs[c].run_opener = "held"
          /\ procs'[c].answer # "twice"
    BY <2>2 DEF ProcessKept, AnswerOnce
  <2> QED
    BY <2>1, <2>3 DEF IInv, LaunchNotForgotten, Elements
<1> QED
  BY <1>1, <1>4, <1>5, <1>6, <1>7, <1>8, <1>9 DEF IInv

\* Abort stops twili where it is.
LEMMA AbortStep == ASSUME IInv, Abort PROVE IInv'
<1> USE DEF Abort, twili, console
<1>1. TypeOK'
  BY DEF IInv, TypeOK
<1>2. ControlInv' /\ MonitorInv' /\ HostInv' /\ ProcessInv'
  BY DEF IInv, ControlInv, MonitorInv, HostInv, ProcessInv, Fit
<1>3. QueueInv' /\ LaunchNotForgotten'
  BY DEF IInv, QueueInv, Queued, Fit, LaunchNotForgotten, Elements, ReadyToLaunch
<1> QED
  BY <1>1, <1>2, <1>3 DEF IInv

\* Nothing happens to the process objects.
LEMMA ProcessesAlone ==
  ASSUME IInv, UNCHANGED procs,
         \A d \in Procs : host'[d] = "waiting" => host[d] = "waiting"
  PROVE  procs' \in [Procs -> Process] /\ \A d \in Procs : ProcessKept(d)
BY DEF IInv, TypeOK, ProcessInv, HostInv, ProcessKept

\* One process object is replaced.
LEMMA ReplaceOne ==
  ASSUME IInv, NEW c \in Procs, NEW q \in Process,
         procs' = [procs EXCEPT ![c] = q],
         \A d \in Procs : d # c /\ host'[d] = "waiting" => host[d] = "waiting",
         AnswerOnce(q),
         procs[c].state = "Started" => q.state = "Started",
         c \notin Clients /\ procs[c].state = "Created" => q.state = "Created",
         procs[c].state \in UpStates => q.state \in UpStates,
         q.state = "Created" => procs[c].state = "Created",
         q.state # "Exited" => q.pipes = "open",
         q.kill_timeout = "armed" => q.state \in UpStates,
         q.run_opener = "held" => procs[c].run_opener = "held",
         host'[c] = "waiting" => ShimServed(q)
  PROVE  procs' \in [Procs -> Process] /\ \A d \in Procs : ProcessKept(d)
<1>1. procs \in [Procs -> Process]
  BY DEF IInv, TypeOK
<1>2. procs' \in [Procs -> Process]
  BY <1>1
<1>3. ASSUME NEW d \in Procs PROVE ProcessKept(d)
  <2>1. CASE d = c
    <3>1. procs'[d] = q
      BY <1>1, <2>1
    <3> QED
      BY <2>1, <3>1 DEF ProcessKept
  <2>2. CASE d # c
    <3>1. procs'[d] = procs[d]
      BY <1>1, <2>2
    <3> QED
      BY <2>2, <3>1 DEF IInv, ProcessInv, HostInv, ProcessKept
  <2> QED
    BY <2>1, <2>2
<1> QED
  BY <1>2, <1>3

\* The hosts are left alone, or those of one process end.
LEMMA HostsOf ==
  ASSUME IInv, NEW p, UNCHANGED host \/ EndHostsOf(p)
  PROVE  /\ host' \in [Procs -> Live \cup {"none", "ended"}]
         /\ \A h \in Procs : HostKept(h)
         /\ \A h \in Procs : host'[h] = "waiting" => host[h] = "waiting"
BY DEF IInv, TypeOK, EndHostsOf, HostKept

\* What a client's process may become when the client terminates or kills it.
ClientStep(p, q, waits) ==
  /\ q \in Process /\ AnswerOnce(q)
  /\ q.state = IF p.state = "Created" THEN "Exited" ELSE p.state
  /\ p.state # "Created" => q.pipes = p.pipes /\ q.run_opener = p.run_opener
  /\ q.run_opener = "held" => p.run_opener = "held"
  /\ q.kill_timeout = "armed" => q.state \in UpStates
  /\ waits => ShimServed(q)

\* Such a step is one that RunStep is about.
LEMMA ClientStepKept ==
  ASSUME IInv, NEW c \in Procs, NEW q, NEW p,
         c \in Clients \/ procs[c].state # "Created",
         procs' = [procs EXCEPT ![c] = q],
         ClientStep(procs[c], q, host[c] = "waiting"),
         UNCHANGED host \/ EndHostsOf(p),
         UNCHANGED <<queued, created, monitor, has_control, event, controllers, ecs, ctl,
                     applet, code, owner, dropped, aborted>>,
         monitors' \in [Clients -> {"alive", "gone"}]
  PROVE  IInv'
<1>1. /\ host' \in [Procs -> Live \cup {"none", "ended"}]
      /\ \A h \in Procs : HostKept(h)
      /\ \A h \in Procs : host'[h] = "waiting" => host[h] = "waiting"
  BY HostsOf
<1>2. /\ q \in Process /\ AnswerOnce(q)
      /\ procs[c].state = "Started" => q.state = "Started"
      /\ c \notin Clients /\ procs[c].state = "Created" => q.state = "Created"
      /\ procs[c].state \in UpStates => q.state \in UpStates
      /\ q.state = "Created" => procs[c].state = "Created"
      /\ q.state # "Exited" => q.pipes = "open"
      /\ q.kill_timeout = "armed" => q.state \in UpStates
      /\ q.run_opener = "held" => procs[c].run_opener = "held"
      /\ host[c] = "waiting" => ShimServed(q)
  BY DEF IInv, ProcessInv, ClientStep, UpStates
<1>3. procs' \in [Procs -> Process] /\ \A d \in Procs : ProcessKept(d)
  BY <1>1, <1>2, ReplaceOne
<1> QED
  BY <1>1, <1>3, RunStep

\* TERMINATE.
LEMMA TerminateStep == ASSUME IInv, NEW c \in Clients, Terminate(c) PROVE IInv'
<1>1. CASE CallsNothing(procs[c])
  BY <1>1, AbortStep DEF Terminate
<1>2. CASE ~CallsNothing(procs[c])
  <2>1. /\ c \in Procs /\ procs[c] \in Process /\ AnswerOnce(procs[c])
        /\ procs[c].kill_timeout = "armed" => procs[c].state \in UpStates
        /\ host[c] = "waiting" => ShimServed(procs[c])
    BY DEF IInv, TypeOK, ProcessInv, HostInv, Procs
  <2>2. ClientStep(procs[c], Terminated(procs[c]), host[c] = "waiting")
    BY <2>1, TerminatedFacts DEF ClientStep, UpStates
  <2>3. /\ procs' = [procs EXCEPT ![c] = Terminated(procs[c])]
        /\ UNCHANGED host \/ EndHostsOf(c)
        /\ UNCHANGED <<queued, created, monitor, has_control, event, controllers, ecs,
                        ctl, applet, code, owner, monitors, dropped, aborted>>
    BY <1>2 DEF Terminate
  <2>4. monitors' \in [Clients -> {"alive", "gone"}]
    BY <2>3 DEF IInv, TypeOK
  <2> QED
    BY <2>1, <2>2, <2>3, <2>4, ClientStepKept
<1> QED
  BY <1>1, <1>2

\* The client goes away.
LEMMA CloseStep == ASSUME IInv, NEW c \in Clients, Close(c) PROVE IInv'
<1>1. CASE CallsNothing(procs[c])
  BY <1>1, AbortStep DEF Close
<1>2. CASE ~CallsNothing(procs[c])
  <2> DEFINE q == IF KillReaches(procs[c]) THEN AppletKillImpl(procs[c])
                  ELSE Killed(procs[c])
  <2>1. /\ c \in Procs /\ procs[c] \in Process /\ AnswerOnce(procs[c])
        /\ procs[c].kill_timeout = "armed" => procs[c].state \in UpStates
        /\ host[c] = "waiting" => ShimServed(procs[c])
    BY DEF IInv, TypeOK, ProcessInv, HostInv, Procs
  <2>2. ClientStep(procs[c], q, host[c] = "waiting")
    <3>1. CASE KillReaches(procs[c])
      BY <2>1, <3>1, AppletKillFacts DEF KillReaches, ClientStep, UpStates
    <3>2. CASE ~KillReaches(procs[c])
      BY <2>1, <3>2, KilledFacts DEF ClientStep, UpStates
    <3> QED
      BY <3>1, <3>2
  <2>3. /\ procs' = [procs EXCEPT ![c] = q]
        /\ monitors' = [monitors EXCEPT ![c] = "gone"]
        /\ UNCHANGED <<queued, created, monitor, has_control, event, controllers,
                        console, dropped, aborted>>
    BY <1>2 DEF Close
  <2>4. monitors' \in [Clients -> {"alive", "gone"}]
    BY <2>3 DEF IInv, TypeOK
  <2>5. UNCHANGED <<ecs, ctl, applet, host, code, owner>>
    BY <2>3 DEF console
  <2> HIDE DEF q
  <2> QED
    BY <2>1, <2>2, <2>3, <2>4, <2>5, ClientStepKept
<1> QED
  BY <1>1, <1>2

\* Ten seconds after Kill.
LEMMA KillTimeoutStep == ASSUME IInv, NEW p \in Procs, KillTimeout(p) PROVE IInv'
<1>1. CASE CallsNothing(procs[p])
  BY <1>1, AbortStep DEF KillTimeout
<1>2. CASE ~CallsNothing(procs[p])
  <2> DEFINE t == Terminated(procs[p])
             q == [t EXCEPT !.kill_timeout = "none"]
  <2>1. /\ procs[p] \in Process /\ AnswerOnce(procs[p])
        /\ procs[p].state \in UpStates
        /\ host[p] = "waiting" => ShimServed(procs[p])
    BY DEF IInv, TypeOK, ProcessInv, HostInv, KillTimeout
  <2>2. /\ t \in Process /\ AnswerOnce(t)
        /\ t.state = procs[p].state
        /\ t.pipes = procs[p].pipes /\ t.run_opener = procs[p].run_opener
        /\ host[p] = "waiting" => ShimServed(t)
    BY <2>1, TerminatedFacts DEF UpStates
  <2> HIDE DEF t
  <2>3. /\ q.state = t.state /\ q.pipes = t.pipes /\ q.run_opener = t.run_opener
        /\ q.answer = t.answer /\ q.slcb = t.slcb /\ q.reply = t.reply
        /\ q.kill_timeout = "none"
    BY <2>2 DEF Process
  <2>4. q \in Process
    BY <2>2, FieldUpdate
  <2> HIDE DEF q
  <2>5. AnswerOnce(q) /\ (host[p] = "waiting" => ShimServed(q))
    BY <2>2, <2>3 DEF AnswerOnce, ShimServed
  <2>6. ClientStep(procs[p], q, host[p] = "waiting")
    BY <2>1, <2>2, <2>3, <2>4, <2>5 DEF ClientStep, UpStates
  <2>7. /\ procs' = [procs EXCEPT ![p] = q]
        /\ UNCHANGED host \/ EndHostsOf(p)
        /\ UNCHANGED <<queued, created, monitor, has_control, event, controllers, ecs,
                        ctl, applet, code, owner, monitors, dropped, aborted>>
    BY <1>2 DEF KillTimeout, q, t
  <2>8. monitors' \in [Clients -> {"alive", "gone"}]
    BY <2>7 DEF IInv, TypeOK
  <2>9. procs[p].state # "Created"
    BY <2>1 DEF UpStates
  <2> QED
    BY <2>6, <2>7, <2>8, <2>9, ClientStepKept
<1> QED
  BY <1>1, <1>2

\* A debugger attaches.
LEMMA ContinueStep == ASSUME IInv, NEW c \in Clients, Continue(c) PROVE IInv'
<1>1. CASE CallsNothing(procs[c])
  BY <1>1, AbortStep DEF Continue
<1>2. CASE ~CallsNothing(procs[c])
  <2> DEFINE q == Continued(procs[c])
  <2>1. /\ c \in Procs /\ procs[c] \in Process /\ AnswerOnce(procs[c])
        /\ procs[c].state # "Exited" => procs[c].pipes = "open"
        /\ procs[c].kill_timeout = "armed" => procs[c].state \in UpStates
        /\ host[c] = "waiting" => ShimServed(procs[c])
    BY DEF IInv, TypeOK, ProcessInv, HostInv, Procs
  <2>2. /\ q \in Process /\ AnswerOnce(q)
        /\ q.state = IF procs[c].state = "ShimSuspended" THEN "Running" ELSE procs[c].state
        /\ q.pipes = procs[c].pipes /\ q.run_opener = procs[c].run_opener
        /\ q.kill_timeout = procs[c].kill_timeout
    BY <2>1, ContinuedFacts
  <2>3. host[c] = "waiting" => ShimServed(q)
    <3>1. /\ procs[c].state = "ShimSuspended" => q.slcb = "none" /\ q.reply = "ok"
          /\ procs[c].state # "ShimSuspended" =>
               q.slcb = procs[c].slcb /\ q.reply = procs[c].reply
      BY <2>1, ContinuedFacts
    <3> HIDE DEF q
    <3> QED
      BY <2>1, <2>2, <3>1 DEF ShimServed
  <2>4. /\ procs' = [procs EXCEPT ![c] = q]
        /\ UNCHANGED <<queued, created, monitor, has_control, event, controllers, ecs,
                        ctl, applet, host, code, owner, monitors, dropped, aborted>>
    BY <1>2 DEF Continue, console
  <2>5. \A d \in Procs : host'[d] = host[d]
    BY <2>4
  <2> HIDE DEF q
  <2>6. procs' \in [Procs -> Process] /\ \A d \in Procs : ProcessKept(d)
    BY <2>1, <2>2, <2>3, <2>4, <2>5, ReplaceOne DEF UpStates
  <2>7. /\ monitors' \in [Clients -> {"alive", "gone"}]
        /\ host' \in [Procs -> Live \cup {"none", "ended"}]
        /\ \A d \in Procs : HostKept(d)
    BY <2>4 DEF IInv, TypeOK, HostKept
  <2> QED
    BY <2>4, <2>6, <2>7, RunStep
<1> QED
  BY <1>1, <1>2

\* One field of a process object is assigned, one that the invariant is not
\* about, while its host is not about to wait.
QuietUpdate(p, q) ==
  /\ q \in Process
  /\ q.state = p.state /\ q.pipes = p.pipes /\ q.kill_timeout = p.kill_timeout
  /\ q.run_opener = p.run_opener /\ q.answer = p.answer

\* Such an assignment is one that RunStep is about.
LEMMA QuietStep ==
  ASSUME IInv, NEW c \in Procs, NEW q, QuietUpdate(procs[c], q),
         procs' = [procs EXCEPT ![c] = q],
         host'[c] = "waiting" => host[c] = "waiting" /\ q.slcb = procs[c].slcb
                                 /\ q.reply = procs[c].reply,
         \A d \in Procs : HostKept(d),
         \A d \in Procs : host'[d] = "waiting" => host[d] = "waiting",
         host' \in [Procs -> Live \cup {"none", "ended"}],
         UNCHANGED <<queued, created, monitor, has_control, event, controllers, ecs, ctl,
                     applet, code, owner, monitors, dropped, aborted>>
  PROVE  IInv'
<1>1. /\ AnswerOnce(procs[c])
      /\ procs[c].state # "Exited" => procs[c].pipes = "open"
      /\ procs[c].kill_timeout = "armed" => procs[c].state \in UpStates
      /\ host[c] = "waiting" => ShimServed(procs[c])
  BY DEF IInv, ProcessInv, HostInv
<1>2. AnswerOnce(q)
  BY <1>1 DEF AnswerOnce, QuietUpdate
<1>3. host'[c] = "waiting" => ShimServed(q)
  BY <1>1 DEF ShimServed, QuietUpdate
<1>4. procs' \in [Procs -> Process] /\ \A d \in Procs : ProcessKept(d)
  BY <1>1, <1>2, <1>3, ReplaceOne DEF QuietUpdate
<1>5. monitors' \in [Clients -> {"alive", "gone"}]
  BY DEF IInv, TypeOK
<1> QED
  BY <1>4, <1>5, RunStep

\* The control applet takes a REQUEST_EXIT.
LEMMA TakeCommandStep == ASSUME IInv, NEW p \in Procs, TakeCommand(p) PROVE IInv'
<1> DEFINE q == [procs[p] EXCEPT !.command = "taken"]
<1>1. procs \in [Procs -> Process]
  BY DEF IInv, TypeOK
<1>2. q \in Process
  BY <1>1, FieldUpdate
<1>3. /\ q.state = procs[p].state /\ q.pipes = procs[p].pipes
      /\ q.kill_timeout = procs[p].kill_timeout /\ q.run_opener = procs[p].run_opener
      /\ q.answer = procs[p].answer /\ q.slcb = procs[p].slcb
      /\ q.reply = procs[p].reply
  BY <1>1 DEF Process
<1>4. /\ procs' = [procs EXCEPT ![p] = q]
      /\ UNCHANGED <<queued, created, monitor, has_control, event, controllers, ecs, ctl,
                      applet, host, code, owner, monitors, dropped, aborted>>
  BY <1>1 DEF TakeCommand, console
<1> HIDE DEF q
<1>5. QuietUpdate(procs[p], q)
  BY <1>2, <1>3 DEF QuietUpdate
<1>6. /\ host' \in [Procs -> Live \cup {"none", "ended"}]
      /\ \A d \in Procs : HostKept(d)
      /\ \A d \in Procs : host'[d] = host[d]
  BY <1>4 DEF IInv, TypeOK, HostKept
<1> QED
  BY <1>3, <1>4, <1>5, <1>6, QuietStep

\* WaitToStart returns.
LEMMA HostResumesStep == ASSUME IInv, NEW h \in Procs, HostResumes(h) PROVE IInv'
<1> DEFINE q == [procs[h] EXCEPT !.reply = "none"]
<1>1. procs \in [Procs -> Process] /\ owner[h] = h /\ host[h] = "waiting"
  BY DEF IInv, TypeOK, HostInv, HostResumes, Live
<1>2. q \in Process
  BY <1>1, FieldUpdate
<1>3. /\ q.state = procs[h].state /\ q.pipes = procs[h].pipes
      /\ q.kill_timeout = procs[h].kill_timeout /\ q.run_opener = procs[h].run_opener
      /\ q.answer = procs[h].answer
  BY <1>1 DEF Process
<1>4. /\ procs' = [procs EXCEPT ![h] = q]
      /\ \E v \in {"running", "ended"} : host' = [host EXCEPT ![h] = v]
      /\ UNCHANGED <<queued, created, monitor, has_control, event, controllers, ecs, ctl,
                      applet, code, owner, monitors, dropped, aborted>>
  BY <1>1 DEF HostResumes
<1> HIDE DEF q
<1>5. QuietUpdate(procs[h], q)
  BY <1>2, <1>3 DEF QuietUpdate
<1>6. /\ host' \in [Procs -> Live \cup {"none", "ended"}]
      /\ \A d \in Procs : HostKept(d)
      /\ \A d \in Procs : host'[d] = "waiting" => host[d] = "waiting"
      /\ host'[h] # "waiting"
  BY <1>1, <1>4 DEF IInv, TypeOK, HostKept, Live
<1> QED
  BY <1>4, <1>5, <1>6, QuietStep

\* The application returns.
LEMMA AppReturnsStep ==
  ASSUME IInv, NEW h \in Procs, NEW n \in {"no", "yes"}, AppReturns(h, n)
  PROVE  IInv'
<1> DEFINE q == [procs[h] EXCEPT !.next_load = n]
<1>1. procs \in [Procs -> Process] /\ owner[h] = h /\ host[h] = "running"
  BY DEF IInv, TypeOK, HostInv, AppReturns, Live
<1>2. q \in Process
  BY <1>1, FieldUpdate
<1>3. /\ q.state = procs[h].state /\ q.pipes = procs[h].pipes
      /\ q.kill_timeout = procs[h].kill_timeout /\ q.run_opener = procs[h].run_opener
      /\ q.answer = procs[h].answer
  BY <1>1 DEF Process
<1>4. /\ procs' = [procs EXCEPT ![h] = q]
      /\ host' = [host EXCEPT ![h] = "returned"]
      /\ UNCHANGED <<queued, created, monitor, has_control, event, controllers, ecs, ctl,
                      applet, code, owner, monitors, dropped, aborted>>
  BY <1>1 DEF AppReturns
<1> HIDE DEF q
<1>5. QuietUpdate(procs[h], q)
  BY <1>2, <1>3 DEF QuietUpdate
<1>6. /\ host' \in [Procs -> Live \cup {"none", "ended"}]
      /\ \A d \in Procs : HostKept(d)
      /\ \A d \in Procs : host'[d] = "waiting" => host[d] = "waiting"
      /\ host'[h] # "waiting"
  BY <1>1, <1>4 DEF IInv, TypeOK, HostKept, Live
<1> QED
  BY <1>4, <1>5, <1>6, QuietStep

\* A host exits, fails or is closed.
LEMMA HostEndsStep ==
  ASSUME IInv, NEW h \in Procs, HostExits(h) \/ HostFails(h)
  PROVE  IInv'
<1>1. /\ host[h] \in Live /\ host' = [host EXCEPT ![h] = "ended"]
      /\ UNCHANGED <<procs, queued, created, monitor, has_control, event, controllers,
                      ecs, ctl, applet, code, owner, monitors, dropped, aborted>>
  BY DEF HostExits, HostFails, twili, Live
<1>2. /\ host' \in [Procs -> Live \cup {"none", "ended"}]
      /\ \A d \in Procs : HostKept(d)
      /\ \A d \in Procs : host'[d] = "waiting" => host[d] = "waiting"
      /\ monitors' \in [Clients -> {"alive", "gone"}]
  BY <1>1 DEF IInv, TypeOK, HostKept
<1> QED
  BY <1>1, <1>2, ProcessesAlone, RunStep

\* The shim calls WaitToStart.
LEMMA HostWaitsStep == ASSUME IInv, NEW h \in Procs, HostWaits(h) PROVE IInv'
<1> DEFINE q == WaitToStart(procs[h])
<1>1. /\ procs \in [Procs -> Process] /\ owner[h] = h /\ host[h] = "attached"
      /\ monitor = h
  BY DEF IInv, TypeOK, HostInv, HostWaits, Live
<1>2. /\ procs[h] \in Process /\ AnswerOnce(procs[h])
      /\ procs[h].state # "Exited" => procs[h].pipes = "open"
      /\ procs[h].kill_timeout = "armed" => procs[h].state \in UpStates
  BY <1>1 DEF IInv, ProcessInv
<1>3. procs[h].state \in UpStates
  BY <1>1, AppletsAssumption DEF IInv, MonitorInv, Procs
<1>4. /\ q \in Process /\ AnswerOnce(q)
      /\ q.state \in {"ShimSuspended", "Running"}
      /\ q.slcb = "stored" \/ q.reply # "none"
      /\ q.pipes = procs[h].pipes /\ q.run_opener = procs[h].run_opener
  BY <1>2, WaitToStartFacts
<1>5. /\ procs' = [procs EXCEPT ![h] = q]
      /\ host' = [host EXCEPT ![h] = "waiting"]
      /\ UNCHANGED <<queued, created, monitor, has_control, event, controllers, ecs, ctl,
                      applet, code, owner, monitors, dropped, aborted>>
  BY <1>1 DEF HostWaits
<1> HIDE DEF q
<1>6. /\ host' \in [Procs -> Live \cup {"none", "ended"}]
      /\ \A d \in Procs : HostKept(d)
      /\ \A d \in Procs : d # h /\ host'[d] = "waiting" => host[d] = "waiting"
      /\ monitors' \in [Clients -> {"alive", "gone"}]
  BY <1>1, <1>5 DEF IInv, TypeOK, HostKept, Live
<1>7. procs' \in [Procs -> Process] /\ \A d \in Procs : ProcessKept(d)
  BY <1>2, <1>3, <1>4, <1>5, <1>6, ReplaceOne DEF UpStates, ShimServed
<1> QED
  BY <1>5, <1>6, <1>7, RunStep

-----------------------------------------------------------------------------
(***************************************************************************)
(* The queue, and the control applet's waiting.                            *)
(***************************************************************************)

\* Sequences of at most one process.
LEMMA Singleton ==
  /\ \A a, b : <<a>> = <<b>> <=> a = b
  /\ \A a : <<a>> # <<>> /\ Elements(<<a>>) = {a}
  /\ \A a : Append(<<>>, a) = <<a>>
  /\ Elements(<<>>) = {}
BY DEF Elements

\* LAUNCH: a client's process that has just been created is known nowhere.
LEMMA LaunchStep ==
  ASSUME IInv, NEW c \in Clients, NEW s \in {"no", "yes"}, Launch(c, s)
  PROVE  IInv'
<1> DEFINE q == Launched(procs[c], s)
<1>1. /\ procs[c].state = "Created"
      /\ procs' = [procs EXCEPT ![c] = q]
      /\ queued' = Append(queued, c)
      /\ event' = SignalIf(ReadyToLaunch(created, monitor, procs))
      /\ UNCHANGED <<created, monitor, has_control, controllers, ecs, ctl, applet, host,
                      code, owner, monitors, dropped, aborted>>
  BY DEF Launch, console
<1>2. /\ procs \in [Procs -> Process] /\ AnswerOnce(procs[c]) /\ c \in Procs
      /\ procs[c].pipes = "open" /\ procs[c].kill_timeout # "armed"
  BY <1>1 DEF IInv, TypeOK, ProcessInv, Procs, UpStates
<1>3. /\ q \in Process /\ q.state = "Started" /\ q.pipes = procs[c].pipes
      /\ q.kill_timeout = procs[c].kill_timeout
      /\ q.run_opener = "held" /\ AnswerOnce(q)
  BY <1>1, <1>2, LaunchedFacts
<1> HIDE DEF q
<1>4. /\ created # <<c>> /\ c \notin controllers /\ monitor # c /\ host[c] = "none"
      /\ c # Menu /\ c # None
      /\ \A i \in 1..Len(queued) : queued[i] # c
  <2>1. created # <<c>> /\ c \notin controllers
    BY <1>1, <1>2 DEF IInv, ProcessInv
  <2>2. monitor # c /\ host[c] = "none" /\ c # Menu /\ c # None
    BY <1>2, <2>1, AppletsAssumption DEF IInv, MonitorInv, HostInv, Procs
  <2>3. \A i \in 1..Len(queued) : queued[i] # c
    BY <1>1 DEF IInv, QueueInv, Queued, Fit
  <2> QED
    BY <2>1, <2>2, <2>3
<1>5. \A d \in Procs : procs'[d] = IF d = c THEN q ELSE procs[d]
  BY <1>1, <1>2
<1>6. /\ queued \in Seq(Procs) /\ queued' \in Seq(Procs)
      /\ Len(queued') = Len(queued) + 1
      /\ \A i \in 1..Len(queued) : queued'[i] = queued[i] /\ queued[i] \in Procs
      /\ queued'[Len(queued) + 1] = c
      /\ \A i \in 1..Len(queued') :
           i \in 1..Len(queued) \/ (i = Len(queued) + 1 /\ queued'[i] = c)
  BY <1>1, <1>2 DEF IInv, TypeOK
<1>7. \A p \in Procs : Fit(p) => Fit(p)'
  BY <1>3, <1>5 DEF Fit
<1>8. monitor \in Procs \cup {None}
  BY DEF IInv, TypeOK
<1>9. TypeOK'
  <2>1. event' \in {"clear", "set"}
    BY <1>1 DEF IInv, TypeOK, SignalIf
  <2>2. procs' \in [Procs -> Process]
    BY <1>1, <1>2, <1>3
  <2> QED
    BY <1>1, <1>6, <2>1, <2>2 DEF IInv, TypeOK
<1>10. ControlInv'
  BY <1>1, <1>7 DEF IInv, ControlInv
<1>11. MonitorInv'
  BY <1>1, <1>4, <1>5, <1>8 DEF IInv, MonitorInv
<1>12. HostInv'
  BY <1>1, <1>4, <1>5, <1>7 DEF IInv, HostInv
<1>13. QueueInv'
  <2>1. \A p \in Procs : Queued(p) => Queued(p)'
    BY <1>1, <1>7 DEF Queued
  <2>2. Queued(c)'
    BY <1>1, <1>2, <1>3, <1>4, <1>5 DEF Queued, Fit
  <2>3. \A i \in 1..Len(queued') : Queued(queued[i])'
    <3> TAKE i \in 1..Len(queued')
    <3>1. CASE i \in 1..Len(queued)
      <4>1. Queued(queued[i]) /\ queued[i] \in Procs /\ queued'[i] = queued[i]
        BY <1>6, <3>1 DEF IInv, QueueInv
      <4> QED
        BY <2>1, <4>1 DEF Queued, Fit
    <3>2. CASE queued'[i] = c
      BY <2>2, <3>2 DEF Queued, Fit
    <3> QED
      BY <1>6, <3>1, <3>2
  <2>4. \A i, j \in 1..Len(queued') : queued'[i] = queued'[j] => i = j
    BY <1>4, <1>6 DEF IInv, QueueInv
  <2> QED
    BY <2>3, <2>4 DEF QueueInv
<1>14. ProcessInv'
  BY <1>1, <1>2, <1>3, <1>5 DEF IInv, ProcessInv
<1>15. LaunchNotForgotten'
  <2>1. ReadyToLaunch(created, monitor, procs)' => event' = "set"
    <3>1. ReadyToLaunch(created, monitor, procs)' => ReadyToLaunch(created, monitor, procs)
      BY <1>1, <1>4, <1>5, <1>8 DEF ReadyToLaunch
    <3> QED
      BY <1>1, <3>1 DEF SignalIf
  <2>2. /\ Elements(queued') = Elements(queued) \cup {c}
        /\ Elements(created') = Elements(created)
    BY <1>1, <1>6 DEF Elements
  <2>3. \A d \in Clients : d \in Procs
    BY DEF Procs
  <2>4. \A d \in Clients :
          /\ procs'[d].run_opener = "held" =>
               d \in Elements(queued') \cup Elements(created') \cup dropped'
          /\ procs'[d].answer # "twice"
    BY <1>1, <1>3, <1>5, <2>2, <2>3 DEF IInv, LaunchNotForgotten, AnswerOnce
  <2> QED
    BY <2>1, <2>4 DEF LaunchNotForgotten, Elements
<1> QED
  BY <1>9, <1>10, <1>11, <1>12, <1>13, <1>14, <1>15 DEF IInv

\* The queue and the process objects do not notice what the control applet and
\* the hosts do.
LEMMA QueueAlone ==
  ASSUME IInv, UNCHANGED <<procs, queued, created, monitor, controllers>>
  PROVE  /\ QueueInv' /\ ProcessInv'
         /\ \A p \in Procs : Fit(p)' <=> Fit(p)
<1>1. QueueInv'
  BY DEF IInv, QueueInv, Queued, Fit
<1>2. ProcessInv'
  BY DEF IInv, ProcessInv
<1>3. \A p \in Procs : Fit(p)' <=> Fit(p)
  BY DEF Fit
<1> QED
  BY <1>1, <1>2, <1>3

\* The control applet connects: nothing is left of the previous one.
LEMMA ControlConnectsStep == ASSUME IInv, ControlConnects PROVE IInv'
<1>1. /\ ctl = "off" /\ has_control = "no" /\ controllers = {}
      /\ ctl' = "wait" /\ has_control' = "yes" /\ event' = "set"
      /\ UNCHANGED <<procs, queued, created, monitor, controllers, ecs, applet, host,
                      code, owner, monitors, dropped, aborted>>
  BY DEF ControlConnects
<1>2. created = <<>> /\ monitor = None
  BY <1>1 DEF IInv, ControlInv, MonitorInv
<1>3. QueueInv' /\ ProcessInv' /\ \A p \in Procs : Fit(p)' <=> Fit(p)
  BY <1>1, QueueAlone
<1>4. TypeOK'
  BY <1>1 DEF IInv, TypeOK
<1>5. ControlInv' /\ MonitorInv'
  BY <1>1, <1>2 DEF ControlInv, MonitorInv
<1>6. HostInv'
  BY <1>1, <1>3 DEF IInv, HostInv
<1>7. LaunchNotForgotten'
  BY <1>1 DEF IInv, LaunchNotForgotten, Elements
<1> QED
  BY <1>3, <1>4, <1>5, <1>6, <1>7 DEF IInv

\* The control applet wakes up.
LEMMA ControlWakesStep == ASSUME IInv, ControlWakes PROVE IInv'
<1>1. /\ ctl = "wait" /\ ctl' = "ask" /\ event' = "clear"
      /\ UNCHANGED <<procs, queued, created, monitor, has_control, controllers, ecs,
                      applet, host, code, owner, monitors, dropped, aborted>>
  BY DEF ControlWakes
<1>2. QueueInv' /\ ProcessInv' /\ \A p \in Procs : Fit(p)' <=> Fit(p)
  BY <1>1, QueueAlone
<1>3. TypeOK'
  BY <1>1 DEF IInv, TypeOK
<1>4. ControlInv' /\ MonitorInv'
  BY <1>1 DEF IInv, ControlInv, MonitorInv
<1>5. HostInv'
  BY <1>1, <1>2 DEF IInv, HostInv
<1>6. LaunchNotForgotten'
  BY <1>1 DEF IInv, LaunchNotForgotten, Elements
<1> QED
  BY <1>2, <1>3, <1>4, <1>5, <1>6 DEF IInv

\* GetCommand: what is watched is up, so that ready means nothing is watched.
LEMMA GetCommandStep == ASSUME IInv, GetCommand PROVE IInv'
<1>1. /\ ctl = "ask"
      /\ ctl' = IF ReadyToLaunch(created, monitor, procs) THEN "got" ELSE "wait"
      /\ UNCHANGED <<procs, queued, created, monitor, has_control, event, controllers,
                      ecs, applet, host, code, owner, monitors, dropped, aborted>>
  BY DEF GetCommand, twili
<1>2. QueueInv' /\ ProcessInv' /\ \A p \in Procs : Fit(p)' <=> Fit(p)
  BY <1>1, QueueAlone
<1>3. TypeOK'
  BY <1>1 DEF IInv, TypeOK
<1>4. ReadyToLaunch(created, monitor, procs) => created = <<>> /\ monitor = None
  BY DEF IInv, MonitorInv, ReadyToLaunch, UpStates
<1>5. ControlInv' /\ MonitorInv'
  BY <1>1, <1>4 DEF IInv, ControlInv, MonitorInv
<1>6. HostInv'
  BY <1>1, <1>2 DEF IInv, HostInv
<1>7. LaunchNotForgotten'
  <2>1. ctl' = "wait" => ~ReadyToLaunch(created', monitor', procs')
    BY <1>1
  <2> QED
    BY <1>1, <2>1 DEF IInv, LaunchNotForgotten, Elements
<1> QED
  BY <1>2, <1>3, <1>5, <1>6, <1>7 DEF IInv

\* The library applet of the popped process is started.
LEMMA CreateAppletStep == ASSUME IInv, CreateApplet PROVE IInv'
<1>1. /\ ctl = "create" /\ ctl' = "ask" /\ applet' = None
      /\ host' = [host EXCEPT ![applet] = "starting"]
      /\ UNCHANGED <<procs, queued, created, monitor, has_control, event, controllers,
                      ecs, code, owner, monitors, dropped, aborted>>
  BY DEF CreateApplet, twili
<1>2. QueueInv' /\ ProcessInv' /\ \A p \in Procs : Fit(p)' <=> Fit(p)
  BY <1>1, QueueAlone
<1>3. /\ applet \in Procs /\ created = <<applet>> /\ ecs = applet
      /\ applet \in controllers /\ Fit(applet)
  BY <1>1 DEF IInv, ControlInv
<1>4. /\ host' \in [Procs -> Live \cup {"none", "ended"}]
      /\ \A h \in Procs : host'[h] = IF h = applet THEN "starting" ELSE host[h]
  BY <1>1 DEF IInv, TypeOK, Live
<1>5. TypeOK'
  BY <1>1, <1>4 DEF IInv, TypeOK
<1>6. ControlInv' /\ MonitorInv'
  BY <1>1 DEF IInv, ControlInv, MonitorInv
<1>7. HostInv'
  BY <1>1, <1>2, <1>3, <1>4 DEF IInv, HostInv, Live
<1>8. LaunchNotForgotten'
  BY <1>1 DEF IInv, LaunchNotForgotten, Elements
<1> QED
  BY <1>2, <1>5, <1>6, <1>7, <1>8 DEF IInv

\* The control applet is gone, and the hosts it started with it.
LEMMA ControlDiesStep == ASSUME IInv, ControlDies PROVE IInv'
<1>1. /\ ctl' = "off" /\ applet' = None
      /\ host' = [p \in Procs |-> IF host[p] \in Live THEN "ended" ELSE host[p]]
      /\ UNCHANGED <<procs, queued, created, monitor, has_control, event, controllers,
                      ecs, code, owner, monitors, dropped, aborted>>
  BY DEF ControlDies, twili
<1>2. QueueInv' /\ ProcessInv'
  BY <1>1, QueueAlone
<1>3. /\ host' \in [Procs -> Live \cup {"none", "ended"}]
      /\ \A h \in Procs : /\ host'[h] \notin Live
                          /\ host'[h] # "none" => host[h] # "none"
  BY <1>1 DEF IInv, TypeOK, Live
<1>4. TypeOK'
  BY <1>1, <1>3 DEF IInv, TypeOK
<1>5. ControlInv' /\ MonitorInv'
  BY <1>1 DEF IInv, ControlInv, MonitorInv
<1>6. HostInv'
  BY <1>1, <1>3 DEF IInv, HostInv, Live
<1>7. LaunchNotForgotten'
  BY <1>1 DEF IInv, LaunchNotForgotten, Elements
<1> QED
  BY <1>2, <1>4, <1>5, <1>6, <1>7 DEF IInv

\* The loader puts the code it finds into a host.
LEMMA HostStartsStep == ASSUME IInv, NEW h \in Procs, HostStarts(h) PROVE IInv'
<1>1. /\ host[h] = "starting" /\ host' = [host EXCEPT ![h] = "started"]
      /\ code' = [code EXCEPT ![h] = ecs] /\ ecs' = None
      /\ UNCHANGED <<procs, queued, created, monitor, has_control, event, controllers,
                      ctl, applet, owner, monitors, dropped, aborted>>
  BY DEF HostStarts, twili
<1>2. QueueInv' /\ ProcessInv' /\ \A p \in Procs : Fit(p)' <=> Fit(p)
  BY <1>1, QueueAlone
<1>3. created = <<h>> /\ ecs = h /\ Fit(h) /\ h \in controllers /\ ctl # "off"
  BY <1>1 DEF IInv, HostInv, Live
<1>4. \A g \in Procs : /\ host'[g] = IF g = h THEN "started" ELSE host[g]
                       /\ code'[g] = IF g = h THEN h ELSE code[g]
                       /\ g # h => created # <<g>>
  BY <1>1, <1>3, Singleton DEF IInv, TypeOK
<1>5. TypeOK'
  BY <1>1, <1>3 DEF IInv, TypeOK, Live
<1>6. ctl # "create"
  BY <1>1, <1>3, Singleton DEF IInv, ControlInv
<1>7. ControlInv' /\ MonitorInv'
  BY <1>1, <1>6 DEF IInv, ControlInv, MonitorInv
<1>8. HostInv'
  BY <1>1, <1>2, <1>3, <1>4 DEF IInv, HostInv, Live
<1>9. LaunchNotForgotten'
  BY <1>1 DEF IInv, LaunchNotForgotten, Elements
<1> QED
  BY <1>2, <1>5, <1>7, <1>8, <1>9 DEF IInv

\* The control applet's sessions are closed: what was created has exited.
LEMMA ReleaseControlStep == ASSUME IInv, ReleaseControl PROVE IInv'
<1>1. /\ ctl = "off" /\ has_control' = "no" /\ created' = <<>>
      /\ procs' = [p \in Procs |-> IF p \in Elements(created) THEN Exited(procs[p])
                                   ELSE procs[p]]
      /\ ecs' \in {None, ecs}
      /\ UNCHANGED <<queued, monitor, event, controllers, ctl, applet, host, code, owner,
                      monitors, dropped, aborted>>
  BY DEF ReleaseControl
<1>2. \A p \in Procs : procs[p] \in Process /\ AnswerOnce(procs[p])
  BY DEF IInv, TypeOK, ProcessInv
<1>3. /\ procs' \in [Procs -> Process]
      /\ \A p \in Procs : p \notin Elements(created) => procs'[p] = procs[p]
      /\ \A p \in Elements(created) : p \in Procs =>
           /\ procs'[p].state = "Exited" /\ procs'[p].run_opener = "none"
           /\ procs'[p].kill_timeout = "none" /\ AnswerOnce(procs'[p])
  <2>1. \A p \in Procs :
          /\ Exited(procs[p]) \in Process /\ Exited(procs[p]).state = "Exited"
          /\ Exited(procs[p]).run_opener = "none"
          /\ Exited(procs[p]).kill_timeout = "none" /\ AnswerOnce(Exited(procs[p]))
    BY <1>2, ExitedFacts
  <2> QED
    BY <1>1, <1>2, <2>1
<1>4. \A p \in Procs : p \in Elements(created) <=> created = <<p>>
  BY Singleton DEF IInv, MonitorInv
<1>5. TypeOK'
  <2>1. <<>> \in Seq(Procs)
    OBVIOUS
  <2> QED
    BY <1>1, <1>3, <2>1 DEF IInv, TypeOK
<1>6. ControlInv'
  BY <1>1 DEF ControlInv
<1>7. MonitorInv'
  <2>1. monitor # None => created = <<>> /\ procs'[monitor] = procs[monitor]
    <3>1. monitor # None => monitor \in Procs /\ created = <<>>
      BY DEF IInv, TypeOK, MonitorInv
    <3> QED
      BY <1>3, <3>1, Singleton
  <2> QED
    BY <1>1, <2>1 DEF IInv, MonitorInv
<1>8. HostInv'
  BY <1>1 DEF IInv, HostInv, Live
<1>9. QueueInv'
  <2>1. ASSUME NEW p \in Procs, Queued(p) PROVE Queued(p)'
    BY <1>1, <1>3, <1>4, <2>1, Singleton DEF Queued, Fit
  <2>2. \A i \in 1..Len(queued) : queued[i] \in Procs
    BY DEF IInv, TypeOK
  <2> QED
    BY <1>1, <2>1, <2>2 DEF IInv, QueueInv
<1>10. ProcessInv'
  BY <1>1, <1>3, Singleton DEF IInv, ProcessInv
<1>11. LaunchNotForgotten'
  <2>1. \A c \in Clients : c \in Procs
    BY DEF Procs
  <2>2. Elements(queued') = Elements(queued)
    BY <1>1
  <2>3. \A c \in Clients :
          /\ procs'[c].run_opener = "held" =>
               c \in Elements(queued') \cup Elements(created') \cup dropped'
          /\ procs'[c].answer # "twice"
    BY <1>1, <1>2, <1>3, <2>1, <2>2 DEF IInv, LaunchNotForgotten, AnswerOnce
  <2> QED
    BY <1>1, <2>3 DEF LaunchNotForgotten, Elements
<1> QED
  BY <1>5, <1>6, <1>7, <1>8, <1>9, <1>10, <1>11 DEF IInv

\* The host connects: the created process is its own.
LEMMA HostAttachesStep == ASSUME IInv, NEW h \in Procs, HostAttaches(h) PROVE IInv'
<1>1. CASE created = <<>> \/ procs[Head(created)].proc = "attached"
  BY <1>1, AbortStep DEF HostAttaches
<1>2. CASE ~(created = <<>> \/ procs[Head(created)].proc = "attached")
  <2> DEFINE q == Attached(procs[h])
  <2>1. /\ host[h] = "started" /\ created = <<h>> /\ Fit(h) /\ h \in controllers
        /\ ctl # "off" /\ code[h] = h
    BY DEF IInv, HostInv, HostAttaches, Live
  <2>2. Head(created) = h /\ Tail(created) = <<>>
    BY <2>1
  <2>3. /\ procs' = [procs EXCEPT ![h] = q]
        /\ created' = <<>> /\ monitor' = h
        /\ event' = SignalIf(ReadyToLaunch(<<>>, h, procs'))
        /\ host' = [host EXCEPT ![h] = "attached"]
        /\ owner' = [owner EXCEPT ![h] = h]
        /\ UNCHANGED <<queued, has_control, controllers, ecs, ctl, applet, code, monitors,
                        dropped, aborted>>
    BY <1>2, <2>2 DEF HostAttaches
  <2>4. /\ procs[h] \in Process /\ AnswerOnce(procs[h])
        /\ procs[h].pipes = "open"
    BY <2>1 DEF IInv, TypeOK, ProcessInv, Fit
  <2>5. /\ q \in Process /\ q.state = "Attached" /\ q.pipes = "open"
        /\ q.run_opener = "none" /\ AnswerOnce(q)
    BY <2>4, AttachedFacts
  <2> HIDE DEF q
  <2>6. \A d \in Procs : /\ procs'[d] = IF d = h THEN q ELSE procs[d]
                         /\ host'[d] = IF d = h THEN "attached" ELSE host[d]
                         /\ owner'[d] = IF d = h THEN h ELSE owner[d]
    BY <2>3 DEF IInv, TypeOK
  <2>7. /\ monitor = None /\ h # None /\ ctl # "create" /\ ctl # "got"
        /\ \A p \in controllers : p = h
        /\ \A g \in Procs : g # h => host[g] \notin Live
    <3>1. h # None /\ <<h>> # <<>>
      BY AppletsAssumption DEF Procs
    <3>2. monitor = None
      BY <2>1, <3>1 DEF IInv, MonitorInv
    <3>3. ctl # "got" /\ ctl # "create"
      BY <2>1, <3>1, Singleton DEF IInv, ControlInv
    <3>4. \A p \in controllers : p = h
      BY <2>1, <3>2, Singleton, AppletsAssumption DEF IInv, MonitorInv, TypeOK, Procs
    <3>5. \A g \in Procs : g # h => host[g] \notin Live
      <4> SUFFICES ASSUME NEW g \in Procs, g # h, host[g] \in Live PROVE FALSE
        OBVIOUS
      <4>1. g \in controllers
        BY DEF IInv, HostInv, Live
      <4> QED
        BY <3>4, <4>1
    <3> QED
      BY <3>1, <3>2, <3>3, <3>4, <3>5
  <2>8. event' = event
    BY <2>3, <2>5, <2>6, <2>7 DEF SignalIf, ReadyToLaunch
  <2>9. TypeOK'
    <3>1. /\ procs' \in [Procs -> Process] /\ created' \in Seq(Procs)
          /\ owner' \in [Procs -> Procs \cup {None}]
          /\ host' \in [Procs -> Live \cup {"none", "ended"}]
      BY <2>3, <2>5 DEF IInv, TypeOK, Live
    <3> QED
      BY <2>3, <2>8, <3>1 DEF IInv, TypeOK
  <2>10. ControlInv'
    BY <2>3, <2>7 DEF IInv, ControlInv
  <2>11. MonitorInv'
    BY <2>1, <2>3, <2>5, <2>6, <2>7 DEF MonitorInv, UpStates
  <2>12. HostInv'
    <3> SUFFICES ASSUME NEW g \in Procs
                 PROVE  /\ host'[g] # "none" => g \in controllers
                        /\ host'[g] \in Live =>
                             g = h /\ host'[g] = "attached"
      BY <2>1, <2>3, <2>6, <2>7 DEF HostInv
    <3> QED
      BY <2>1, <2>6, <2>7 DEF IInv, HostInv, Live
  <2>13. QueueInv'
    <3>1. ASSUME NEW p \in Procs, Queued(p) PROVE Queued(p)'
      BY <2>1, <2>3, <2>6, <3>1, Singleton DEF Queued, Fit
    <3>2. \A i \in 1..Len(queued) : queued[i] \in Procs
      BY DEF IInv, TypeOK
    <3> QED
      BY <2>3, <3>1, <3>2 DEF IInv, QueueInv
  <2>14. ProcessInv'
    BY <2>1, <2>3, <2>5, <2>6, Singleton DEF IInv, ProcessInv, UpStates
  <2>15. LaunchNotForgotten'
    <3>1. ~ReadyToLaunch(created', monitor', procs')
      BY <2>3, <2>5, <2>6, <2>7 DEF ReadyToLaunch
    <3>2. \A c \in Clients : c \in Procs
      BY DEF Procs
    <3>3. Elements(queued') = Elements(queued) /\ Elements(created) = {h}
      BY <2>1, <2>3, Singleton
    <3>4. \A c \in Clients :
            /\ procs'[c].run_opener = "held" =>
                 c \in Elements(queued') \cup Elements(created') \cup dropped'
            /\ procs'[c].answer # "twice"
      BY <2>3, <2>5, <2>6, <3>2, <3>3 DEF IInv, LaunchNotForgotten, AnswerOnce
    <3> QED
      BY <3>1, <3>4 DEF LaunchNotForgotten, Elements
  <2> QED
    BY <2>9, <2>10, <2>11, <2>12, <2>13, <2>14, <2>15 DEF IInv
<1> QED
  BY <1>1, <1>2

-----------------------------------------------------------------------------
(***************************************************************************)
(* A process exits because its controller is dropped.                      *)
(***************************************************************************)

\* What ChangeState(Exited) does to the process objects, the tracker and its
\* monitor: the process has exited, and the file an applet named may be queued
\* as a new process.
LEMMA ExitFacts ==
  ASSUME IInv, NEW p \in Procs, ChangeStateExited(p)
  PROVE  /\ ecs' \in {None, ecs}
         /\ procs' \in [Procs -> Process]
         /\ procs'[p].state = "Exited" /\ procs'[p].run_opener = "none"
         /\ procs'[p].kill_timeout = "none" /\ AnswerOnce(procs'[p])
         /\ monitor' = IF monitor = p THEN None ELSE monitor
         /\ event' \in {"clear", "set"}
         /\ monitor = p => event' = "set"
         /\ \/ /\ queued' = queued
               /\ \A d \in Procs : d # p => procs'[d] = procs[d]
            \/ \E l \in Loads :
                 /\ monitor = p /\ Unused(l) /\ queued' = Append(queued, l)
                 /\ procs'[l] = NewProcess
                 /\ \A d \in Procs : d # p /\ d # l => procs'[d] = procs[d]
<1> DEFINE q == Exited(procs[p])
           ps == [procs EXCEPT ![p] = q]
<1>1. procs \in [Procs -> Process] /\ AnswerOnce(procs[p]) /\ event \in {"clear", "set"}
  BY DEF IInv, TypeOK, ProcessInv
<1>2. /\ q \in Process /\ q.state = "Exited" /\ q.run_opener = "none"
      /\ q.kill_timeout = "none" /\ AnswerOnce(q)
  BY <1>1, ExitedFacts
<1>3. /\ ecs' \in {None, ecs}
      /\ \/ monitor = p /\ MonitorExited(p, ps)
         \/ monitor # p /\ procs' = ps /\ UNCHANGED <<monitor, event, queued>>
  BY DEF ChangeStateExited
<1> HIDE DEF q
<1>4. /\ ps \in [Procs -> Process] /\ ps[p] = q
      /\ \A d \in Procs : d # p => ps[d] = procs[d]
  BY <1>1, <1>2
<1> HIDE DEF ps
<1>5. CASE monitor # p
  BY <1>1, <1>2, <1>3, <1>4, <1>5
<1>6. CASE monitor = p
  <2>1. /\ monitor' = None
        /\ event' = SignalIf(ReadyToLaunch(created, monitor, ps))
        /\ \/ procs' = ps /\ UNCHANGED queued
           \/ \E l \in Loads : /\ Unused(l)
                               /\ procs' = [ps EXCEPT ![l] = NewProcess]
                               /\ queued' = Append(queued, l)
    BY <1>3, <1>6 DEF MonitorExited
  <2>2. created = <<>>
    BY <1>6, AppletsAssumption DEF IInv, MonitorInv, Procs
  <2>3. event' = "set"
    BY <1>2, <1>4, <1>6, <2>1, <2>2 DEF SignalIf, ReadyToLaunch
  <2>4. CASE procs' = ps /\ UNCHANGED queued
    BY <1>2, <1>3, <1>4, <1>6, <2>1, <2>3, <2>4
  <2>5. CASE \E l \in Loads : /\ Unused(l)
                              /\ procs' = [ps EXCEPT ![l] = NewProcess]
                              /\ queued' = Append(queued, l)
    <3>1. PICK l \in Loads : /\ Unused(l)
                             /\ procs' = [ps EXCEPT ![l] = NewProcess]
                             /\ queued' = Append(queued, l)
      BY <2>5
    <3>2. l \in Procs /\ l # p
      BY <1>6, <3>1 DEF Unused, Procs
    <3>3. /\ procs' \in [Procs -> Process] /\ procs'[l] = NewProcess /\ procs'[p] = q
          /\ \A d \in Procs : d # p /\ d # l => procs'[d] = procs[d]
      BY <1>4, <3>1, <3>2, NewProcessFacts
    <3> QED
      BY <1>2, <1>3, <1>6, <2>1, <2>3, <3>1, <3>3
  <2> QED
    BY <2>1, <2>4, <2>5
<1> QED
  BY <1>5, <1>6

\* A controller is dropped while no host lives.
LEMMA DropController ==
  ASSUME IInv, NEW p \in Procs, p \in controllers, ChangeStateExited(p),
         controllers' = controllers \ {p},
         \A h \in Procs : host[h] \notin Live,
         \A h \in Procs : /\ host'[h] \in {"none", "ended"}
                          /\ host'[h] # "none" => h # p /\ host[h] # "none",
         host' \in [Procs -> {"none", "ended"}],
         code' \in [Procs -> Procs \cup {None}],
         owner' \in [Procs -> Procs \cup {None}],
         ctl' \in {"off", "wait"}, ctl' = "wait" => ctl # "off",
         applet' \in Procs \cup {None},
         UNCHANGED <<created, has_control, monitors, dropped, aborted>>
  PROVE  IInv'
<1>1. /\ ecs' \in {None, ecs}
      /\ procs' \in [Procs -> Process]
      /\ procs'[p].state = "Exited" /\ procs'[p].run_opener = "none"
      /\ procs'[p].kill_timeout = "none" /\ AnswerOnce(procs'[p])
      /\ monitor' = IF monitor = p THEN None ELSE monitor
      /\ event' \in {"clear", "set"}
      /\ monitor = p => event' = "set"
      /\ \/ /\ queued' = queued
            /\ \A d \in Procs : d # p => procs'[d] = procs[d]
         \/ \E l \in Loads :
              /\ monitor = p /\ Unused(l) /\ queued' = Append(queued, l)
              /\ procs'[l] = NewProcess
              /\ \A d \in Procs : d # p /\ d # l => procs'[d] = procs[d]
  BY ExitFacts
<1>2. queued \in Seq(Procs) /\ monitor \in Procs \cup {None} /\ p # None
  BY AppletsAssumption DEF IInv, TypeOK, Procs
<1>3. PICK L \in SUBSET (Loads \ {p}) :
        /\ \A l \in L : /\ procs'[l] = NewProcess /\ Unused(l) /\ monitor = p
                        /\ queued' = Append(queued, l)
        /\ \A d \in Procs : d # p /\ d \notin L => procs'[d] = procs[d]
        /\ L = {} => queued' = queued
  <2>1. CASE /\ queued' = queued
             /\ \A d \in Procs : d # p => procs'[d] = procs[d]
    <3> WITNESS {} \in SUBSET (Loads \ {p})
    <3> QED
      BY <2>1
  <2>2. CASE \E l \in Loads :
              /\ monitor = p /\ Unused(l) /\ queued' = Append(queued, l)
              /\ procs'[l] = NewProcess
              /\ \A d \in Procs : d # p /\ d # l => procs'[d] = procs[d]
    <3>1. PICK l \in Loads :
              /\ monitor = p /\ Unused(l) /\ queued' = Append(queued, l)
              /\ procs'[l] = NewProcess
              /\ \A d \in Procs : d # p /\ d # l => procs'[d] = procs[d]
      BY <2>2
    <3>2. l # p
      BY <3>1 DEF Unused
    <3>3. {l} \in SUBSET (Loads \ {p})
      BY <3>2
    <3> WITNESS {l} \in SUBSET (Loads \ {p})
    <3> QED
      BY <3>1, <3>2
  <2> QED
    BY <1>1, <2>1, <2>2
<1>4. \A l \in L : /\ l \in Procs /\ l \notin Clients /\ l # Menu /\ l # p
                   /\ created # <<l>> /\ l \notin controllers /\ l # monitor
                   /\ \A i \in 1..Len(queued) : queued[i] # l
  <2> TAKE l \in L
  <2>1. l \in Loads /\ Unused(l) /\ l # p
    BY <1>3
  <2>2. l \in Procs /\ l \notin Clients /\ l # Menu
    BY <2>1, AppletsAssumption DEF Procs
  <2>3. created # <<l>> /\ l \notin controllers /\ l # monitor
    BY <2>1, Singleton DEF Unused
  <2>4. \A i \in 1..Len(queued) : queued[i] # l
    BY <2>1 DEF Unused, Elements
  <2> QED
    BY <2>1, <2>2, <2>3, <2>4
<1>5. /\ NewProcess.state = "Created" /\ NewProcess.pipes = "open"
      /\ NewProcess.kill_timeout = "none" /\ NewProcess.run_opener = "none"
      /\ AnswerOnce(NewProcess)
  BY NewProcessFacts DEF NewProcess
<1>6. TypeOK'
  <2>1. queued' \in Seq(Procs)
    BY <1>2, <1>3, <1>4
  <2>2. host' \in [Procs -> Live \cup {"none", "ended"}]
    OBVIOUS
  <2> QED
    BY <1>1, <1>2, <2>1, <2>2 DEF IInv, TypeOK
<1>7. ControlInv'
  BY DEF IInv, ControlInv
<1>8. MonitorInv'
  <2>1. monitor' # None => monitor' = monitor /\ monitor # p /\ L = {}
    BY <1>1, <1>3
  <2>2. monitor' # None => procs'[monitor] = procs[monitor]
    BY <1>2, <1>3, <2>1
  <2> QED
    BY <1>1, <2>1, <2>2 DEF IInv, MonitorInv
<1>9. HostInv'
  BY DEF IInv, HostInv, Live
<1>10. QueueInv'
  <2>1. ASSUME NEW r \in Procs, Queued(r), r \notin L PROVE Queued(r)'
    <3>1. r # p /\ procs'[r] = procs[r]
      BY <1>3, <2>1 DEF Queued
    <3>2. Fit(r)' /\ monitor' # r
      BY <1>1, <1>2, <2>1, <3>1, AppletsAssumption DEF Queued, Fit, Procs
    <3> QED
      BY <2>1, <3>2 DEF Queued
  <2>2. \A i \in 1..Len(queued) :
          /\ queued[i] \in Procs /\ Queued(queued[i]) /\ queued[i] \notin L
    BY <1>2, <1>4 DEF IInv, QueueInv
  <2>3. CASE L = {}
    BY <1>3, <2>1, <2>2, <2>3 DEF IInv, QueueInv
  <2>4. CASE L # {}
    <3>1. PICK l \in L : queued' = Append(queued, l) /\ monitor = p
      BY <1>3, <2>4
    <3>2. Queued(l)'
      <4>1. monitor' # l
        BY <1>1, <1>4, <3>1, AppletsAssumption DEF Procs
      <4>2. Fit(l)'
        BY <1>3, <1>4, <1>5 DEF Fit
      <4> QED
        BY <1>4, <4>1, <4>2 DEF Queued
    <3>3. /\ Len(queued') = Len(queued) + 1
          /\ \A i \in 1..Len(queued) : queued'[i] = queued[i]
          /\ queued'[Len(queued) + 1] = l
          /\ \A i \in 1..Len(queued') : i \in 1..Len(queued) \/ i = Len(queued) + 1
      BY <1>2, <1>4, <3>1
    <3>4. \A i \in 1..Len(queued') : Queued(queued[i])'
      <4> TAKE i \in 1..Len(queued')
      <4>1. CASE i \in 1..Len(queued)
        <5>1. queued'[i] = queued[i] /\ Queued(queued[i]) /\ queued[i] \in Procs
              /\ queued[i] \notin L
          BY <2>2, <3>3, <4>1
        <5> QED
          BY <2>1, <5>1 DEF Queued, Fit
      <4>2. CASE i = Len(queued) + 1
        BY <3>2, <3>3, <4>2 DEF Queued, Fit
      <4> QED
        BY <3>3, <4>1, <4>2
    <3>5. \A i, j \in 1..Len(queued') : queued'[i] = queued'[j] => i = j
      BY <1>4, <3>3 DEF IInv, QueueInv
    <3> QED
      BY <3>4, <3>5 DEF QueueInv
  <2> QED
    BY <2>3, <2>4
<1>11. ProcessInv'
  <2> SUFFICES ASSUME NEW d \in Procs
               PROVE  /\ AnswerOnce(procs'[d])
                      /\ procs'[d].state # "Exited" => procs'[d].pipes = "open"
                      /\ procs'[d].kill_timeout = "armed" => procs'[d].state \in UpStates
                      /\ d \in Clients /\ procs'[d].state = "Created" =>
                           created # <<d>> /\ d \notin controllers'
    BY DEF ProcessInv, AnswerOnce
  <2>1. CASE d = p
    BY <1>1, <2>1
  <2>2. CASE d \in L
    BY <1>3, <1>4, <1>5, <2>2
  <2>3. CASE d # p /\ d \notin L
    <3>1. procs'[d] = procs[d]
      BY <1>3, <2>3
    <3> QED
      BY <3>1 DEF IInv, ProcessInv
  <2> QED
    BY <2>1, <2>2, <2>3
<1>12. LaunchNotForgotten'
  <2>1. ctl' = "wait" /\ ReadyToLaunch(created', monitor', procs') => event' = "set"
    <3>1. ctl' = "wait" => created = <<p>> \/ monitor = p
      BY DEF IInv, MonitorInv
    <3> QED
      BY <1>1, <3>1, Singleton DEF ReadyToLaunch
  <2>2. Elements(queued) \subseteq Elements(queued')
    <3>1. CASE L = {}
      BY <1>3, <3>1
    <3>2. CASE L # {}
      <4>1. PICK l \in L : queued' = Append(queued, l)
        BY <1>3, <3>2
      <4>2. /\ Len(queued') = Len(queued) + 1 /\ Len(queued) \in Nat
            /\ \A i \in 1..Len(queued) : queued'[i] = queued[i]
        BY <1>2, <1>4, <4>1
      <4> QED
        BY <4>2 DEF Elements
    <3> QED
      BY <3>1, <3>2
  <2>3. \A c \in Clients : c \in Procs /\ (c = p \/ procs'[c] = procs[c])
    BY <1>3, <1>4 DEF Procs
  <2>4. \A c \in Clients :
          /\ procs'[c].run_opener = "held" =>
               c \in Elements(queued') \cup Elements(created') \cup dropped'
          /\ procs'[c].answer # "twice"
    BY <1>1, <2>2, <2>3 DEF IInv, LaunchNotForgotten, AnswerOnce
  <2> QED
    BY <2>1, <2>4 DEF LaunchNotForgotten, Elements
<1> QED
  BY <1>6, <1>7, <1>8, <1>9, <1>10, <1>11, <1>12 DEF IInv

\* The applet manager refuses to create the library applet.
LEMMA CreateFailsStep == ASSUME IInv, CreateFails PROVE IInv'
<1>1. /\ ctl = "create" /\ ctl' = "wait" /\ applet' = None
      /\ controllers' = controllers \ {applet} /\ ChangeStateExited(applet)
      /\ UNCHANGED <<created, has_control, host, code, owner, monitors, dropped, aborted>>
  BY DEF CreateFails
<1>2. /\ applet \in Procs /\ created = <<applet>> /\ host[applet] = "none"
      /\ applet \in controllers
  BY <1>1 DEF IInv, ControlInv
<1>3. monitor = None
  BY <1>2, Singleton DEF IInv, MonitorInv
<1>4. \A h \in Procs : host[h] \notin Live
  <2> SUFFICES ASSUME NEW h \in Procs, host[h] \in Live PROVE FALSE
    OBVIOUS
  <2>1. created = <<h>> \/ monitor = h
    BY DEF IInv, HostInv, Live
  <2> QED
    BY <1>2, <1>3, <2>1, Singleton, AppletsAssumption DEF Live, Procs
<1>5. host \in [Procs -> {"none", "ended"}]
  BY <1>4 DEF IInv, TypeOK
<1>6. code' \in [Procs -> Procs \cup {None}] /\ owner' \in [Procs -> Procs \cup {None}]
  BY <1>1 DEF IInv, TypeOK
<1>7. \A h \in Procs : /\ host'[h] \in {"none", "ended"}
                       /\ host'[h] # "none" => h # applet /\ host[h] # "none"
  BY <1>1, <1>2, <1>5
<1> QED
  BY <1>1, <1>2, <1>4, <1>5, <1>6, <1>7, DropController

\* The control applet drops a controller whose host has ended, or is gone.
LEMMA CloseControllerStep ==
  ASSUME IInv, NEW p \in Procs, CloseController(p)
  PROVE  IInv'
<1>1. /\ p \in controllers
      /\ ctl = "off" \/ (ctl = "wait" /\ host[p] = "ended")
      /\ controllers' = controllers \ {p} /\ ChangeStateExited(p) /\ ForgetHost(p)
      /\ UNCHANGED <<created, has_control, ctl, applet, monitors, dropped, aborted>>
  BY DEF CloseController
<1>2. \A h \in Procs : host[h] \notin Live
  <2> SUFFICES ASSUME NEW h \in Procs, host[h] \in Live PROVE FALSE
    OBVIOUS
  <2>1. ctl # "off" /\ (created = <<h>> \/ monitor = h)
    BY DEF IInv, HostInv, Live
  <2>2. h # p
    BY <1>1, <2>1 DEF Live
  <2>3. created = <<p>> \/ monitor = p
    BY <1>1, <2>1 DEF IInv, MonitorInv, CloseController
  <2>4. monitor # None => created = <<>>
    BY DEF IInv, MonitorInv
  <2> QED
    BY <2>1, <2>2, <2>3, <2>4, Singleton, AppletsAssumption DEF Procs
<1>3. host \in [Procs -> {"none", "ended"}] /\ applet \in Procs \cup {None}
  BY <1>2 DEF IInv, TypeOK
<1>4. /\ host' \in [Procs -> {"none", "ended"}]
      /\ code' \in [Procs -> Procs \cup {None}]
      /\ owner' \in [Procs -> Procs \cup {None}]
      /\ \A h \in Procs : /\ host'[h] \in {"none", "ended"}
                          /\ host'[h] # "none" => h # p /\ host[h] # "none"
  BY <1>1, <1>3 DEF IInv, TypeOK, ForgetHost
<1>5. p \in controllers /\ ctl' \in {"off", "wait"}
  BY DEF CloseController
<1> QED
  BY <1>1, <1>2, <1>3, <1>4, <1>5, DropController

-----------------------------------------------------------------------------
(***************************************************************************)
(* PopQueuedProcess.                                                       *)
(***************************************************************************)

\* What is left of the queue when its first k processes are passed over and
\* the next one is popped.
LEMMA PoppedQueue ==
  ASSUME NEW q \in Seq(Procs), NEW k \in 0..Len(q)
  PROVE  LET r == SubSeq(q, k + 2, Len(q))
         IN  /\ r \in Seq(Procs)
             /\ k = Len(q) => r = <<>>
             /\ k < Len(q) => Len(r) = Len(q) - (k + 1)
             /\ \A i \in 1..Len(r) : i + k + 1 \in 1..Len(q) /\ r[i] = q[i + k + 1]
             /\ \A i \in 1..Len(q) : \/ i \in 1..k \/ i = k + 1
                                      \/ i - (k + 1) \in 1..Len(r)
<1> DEFINE r == SubSeq(q, k + 2, Len(q))
<1>1. k \in Nat /\ Len(q) \in Nat /\ k <= Len(q)
  OBVIOUS
<1>2. CASE k = Len(q)
  <2>1. r = <<>>
    BY <1>1, <1>2
  <2> QED
    BY <1>1, <1>2, <2>1
<1>3. CASE k < Len(q)
  <2>1. r \in Seq(Procs) /\ Len(r) = Len(q) - (k + 1)
    BY <1>1, <1>3
  <2>2. \A i \in 1..Len(r) : r[i] = q[i + k + 1]
    BY <1>1, <1>3, <2>1
  <2> HIDE DEF r
  <2> QED
    BY <1>1, <1>3, <2>1, <2>2
<1> QED
  BY <1>1, <1>2, <1>3

\* The processes passed over, and what is left after the next one is popped.
Passed(k) == {queued[i] : i \in 1..k}
Rest(k) == SubSeq(queued, k + 2, Len(queued))

\* Where the processes of the queue go: those passed over, the one popped, and
\* the rest are different processes.
LEMMA PopFacts ==
  ASSUME IInv, NEW k \in 0..Len(queued)
  PROVE  LET r == Rest(k)
             gone == Passed(k)
         IN  /\ r \in Seq(Procs)
             /\ k = Len(queued) => r = <<>>
             /\ \A i, j \in 1..Len(r) : r[i] = r[j] => i = j
             /\ \A i \in 1..Len(r) :
                  /\ r[i] \in Procs /\ Queued(r[i]) /\ r[i] \notin gone
                  /\ k < Len(queued) => r[i] # queued[k + 1]
             /\ \A c \in gone : c \in Procs /\ Queued(c)
             /\ k < Len(queued) => /\ queued[k + 1] \in Procs /\ Queued(queued[k + 1])
                                   /\ queued[k + 1] \notin gone
             /\ \A c \in Elements(queued) :
                  \/ c \in gone \/ c \in Elements(r)
                  \/ k < Len(queued) /\ c = queued[k + 1]
<1> DEFINE r == Rest(k)
           gone == Passed(k)
<1>1. queued \in Seq(Procs) /\ Len(queued) \in Nat /\ k \in Nat /\ k <= Len(queued)
  BY DEF IInv, TypeOK
<1>2. /\ r \in Seq(Procs)
      /\ k = Len(queued) => r = <<>>
      /\ k < Len(queued) => Len(r) = Len(queued) - (k + 1)
      /\ \A i \in 1..Len(r) : i + k + 1 \in 1..Len(queued) /\ r[i] = queued[i + k + 1]
      /\ \A i \in 1..Len(queued) : \/ i \in 1..k \/ i = k + 1
                                   \/ i - (k + 1) \in 1..Len(r)
  BY <1>1, PoppedQueue DEF Rest
<1> HIDE DEF r, gone
<1>3. /\ \A i, j \in 1..Len(queued) : queued[i] = queued[j] => i = j
      /\ \A i \in 1..Len(queued) : queued[i] \in Procs /\ Queued(queued[i])
  BY <1>1 DEF IInv, QueueInv
<1>4. Len(r) \in Nat
  BY <1>2
<1>5. \A i, j \in 1..Len(r) : r[i] = r[j] => i = j
  BY <1>1, <1>2, <1>3, <1>4
<1>6. \A i \in 1..Len(r) :
        /\ r[i] \in Procs /\ Queued(r[i]) /\ r[i] \notin gone
        /\ k < Len(queued) => r[i] # queued[k + 1]
  <2> TAKE i \in 1..Len(r)
  <2>1. i + k + 1 \in 1..Len(queued) /\ r[i] = queued[i + k + 1] /\ i \in Nat /\ i >= 1
    BY <1>2, <1>4
  <2>2. \A m \in 1..(k + 1) : m <= Len(queued) => queued[m] # r[i]
    BY <1>1, <1>3, <2>1
  <2>3. r[i] \notin gone
    BY <1>1, <2>2 DEF gone, Passed
  <2>4. k < Len(queued) => r[i] # queued[k + 1]
    BY <1>1, <2>2
  <2> QED
    BY <1>3, <2>1, <2>3, <2>4
<1>7. \A c \in gone : c \in Procs /\ Queued(c)
  BY <1>1, <1>3 DEF gone, Passed
<1>8. k < Len(queued) => /\ queued[k + 1] \in Procs /\ Queued(queued[k + 1])
                         /\ queued[k + 1] \notin gone
  <2>1. k < Len(queued) => \A i \in 1..k : queued[i] # queued[k + 1]
    BY <1>1, <1>3
  <2> QED
    BY <1>1, <1>3, <2>1 DEF gone, Passed
<1>9. ASSUME NEW c \in Elements(queued)
      PROVE  \/ c \in gone \/ c \in Elements(r)
             \/ k < Len(queued) /\ c = queued[k + 1]
  <2>1. PICK i \in 1..Len(queued) : c = queued[i]
    BY <1>9 DEF Elements
  <2>2. CASE i \in 1..k
    BY <2>1, <2>2 DEF gone, Passed
  <2>3. CASE i = k + 1
    BY <1>1, <2>1, <2>3
  <2>4. CASE i - (k + 1) \in 1..Len(r)
    <3> DEFINE m == i - (k + 1)
    <3>1. r[m] = queued[m + k + 1] /\ m + k + 1 = i
      BY <1>1, <1>2, <2>1, <2>4
    <3> QED
      BY <2>1, <2>4, <3>1 DEF Elements
  <2> QED
    BY <1>2, <2>1, <2>2, <2>3, <2>4
<1> QED
  BY <1>2, <1>5, <1>6, <1>7, <1>8, <1>9 DEF r, gone

\* PopApplet: nothing is created or watched and no controller is left, so that
\* what is popped is launched alone.
LEMMA PopAppletStep == ASSUME IInv, PopApplet PROVE IInv'
<1>1. /\ ctl = "got" /\ created = <<>> /\ monitor = None
      /\ UNCHANGED <<monitor, has_control, event, host, code, owner, monitors, aborted>>
  BY DEF PopApplet, IInv, ControlInv
<1>2. controllers = {} /\ \A h \in Procs : host[h] = "none"
  <2>1. \A p \in controllers : FALSE
    BY <1>1, Singleton, AppletsAssumption DEF IInv, MonitorInv, TypeOK, Procs
  <2> QED
    BY <2>1 DEF IInv, HostInv
<1>3. PICK k \in 0..Len(queued) :
        LET gone == {queued[i] : i \in 1..k}
            p == IF k < Len(queued) THEN queued[k + 1] ELSE Menu
            ps == [q \in Procs |-> IF q \in gone THEN Exited(procs[q]) ELSE procs[q]]
            np == IF p = Menu THEN NewProcess ELSE procs[p]
        IN  /\ queued' = SubSeq(queued, k + 2, Len(queued))
            /\ IF p \in Bad
                 THEN /\ procs' = ps
                      /\ dropped' = dropped \cup {p}
                      /\ ctl' = "wait"
                      /\ UNCHANGED <<created, controllers, ecs, applet>>
                 ELSE /\ procs' = [ps EXCEPT ![p] = [np EXCEPT !.ecs_pending = "yes"]]
                      /\ created' = Append(created, p)
                      /\ controllers' = controllers \cup {p}
                      /\ ecs' = p
                      /\ ctl' = "create" /\ applet' = p
                      /\ UNCHANGED dropped
  BY DEF PopApplet
<1> DEFINE gone == Passed(k)
           p == IF k < Len(queued) THEN queued[k + 1] ELSE Menu
           ps == [d \in Procs |-> IF d \in gone THEN Exited(procs[d]) ELSE procs[d]]
           np == IF p = Menu THEN NewProcess ELSE procs[p]
           q == [np EXCEPT !.ecs_pending = "yes"]
<1>4. /\ queued' = Rest(k)
      /\ \/ /\ p \in Bad /\ procs' = ps /\ dropped' = dropped \cup {p} /\ ctl' = "wait"
            /\ UNCHANGED <<created, controllers, ecs, applet>>
         \/ /\ p \notin Bad /\ procs' = [ps EXCEPT ![p] = q]
            /\ created' = Append(created, p) /\ controllers' = controllers \cup {p}
            /\ ecs' = p /\ ctl' = "create" /\ applet' = p /\ UNCHANGED dropped
  BY <1>3, Zenon DEF Passed, Rest
<1>5. /\ queued' \in Seq(Procs)
      /\ \A i, j \in 1..Len(queued') : queued'[i] = queued'[j] => i = j
      /\ \A i \in 1..Len(queued') :
           /\ queued'[i] \in Procs /\ Queued(queued'[i]) /\ queued'[i] \notin gone
           /\ k < Len(queued) => queued'[i] # queued[k + 1]
      /\ \A c \in gone : c \in Procs /\ Queued(c)
      /\ k < Len(queued) => /\ queued[k + 1] \in Procs /\ Queued(queued[k + 1])
                            /\ queued[k + 1] \notin gone
      /\ \A c \in Elements(queued) :
           \/ c \in gone \/ c \in Elements(queued')
           \/ k < Len(queued) /\ c = queued[k + 1]
  BY <1>4, PopFacts
<1> HIDE DEF gone
<1>6. /\ p \in Procs /\ p \notin gone /\ p # None
      /\ p = Menu \/ Queued(p)
      /\ \A i \in 1..Len(queued') : queued'[i] # p
      /\ \A c \in Elements(queued) : c \in gone \/ c \in Elements(queued') \/ c = p
  BY <1>5, AppletsAssumption DEF Queued, Procs
<1>7. \A d \in Procs : procs[d] \in Process /\ AnswerOnce(procs[d])
  BY DEF IInv, TypeOK, ProcessInv
<1>8. /\ q \in Process /\ AnswerOnce(q)
      /\ p = Menu => /\ q.state = "Created" /\ q.pipes = "open"
                     /\ q.kill_timeout = "none" /\ q.run_opener = "none"
      /\ p # Menu => /\ q.state = procs[p].state /\ q.pipes = procs[p].pipes
                     /\ q.kill_timeout = procs[p].kill_timeout
                     /\ q.run_opener = procs[p].run_opener
  <2>1. np \in Process /\ AnswerOnce(np)
    BY <1>6, <1>7, NewProcessFacts
  <2>2. p = Menu => /\ np.state = "Created" /\ np.pipes = "open"
                    /\ np.kill_timeout = "none" /\ np.run_opener = "none"
    BY DEF NewProcess
  <2>3. p # Menu => np = procs[p]
    OBVIOUS
  <2> HIDE DEF np
  <2>4. q \in Process
    BY <2>1, FieldUpdate
  <2>5. /\ q.state = np.state /\ q.pipes = np.pipes /\ q.answer = np.answer
        /\ q.kill_timeout = np.kill_timeout /\ q.run_opener = np.run_opener
    BY <2>1 DEF Process
  <2> HIDE DEF q
  <2>6. AnswerOnce(q)
    BY <2>1, <2>5 DEF AnswerOnce
  <2> QED
    BY <2>2, <2>3, <2>4, <2>5, <2>6
<1> HIDE DEF p, q
<1>9. /\ ps \in [Procs -> Process]
      /\ \A d \in Procs :
           /\ d \in gone => /\ ps[d].state = "Exited" /\ ps[d].run_opener = "none"
                            /\ ps[d].kill_timeout = "none" /\ AnswerOnce(ps[d])
           /\ d \notin gone => ps[d] = procs[d]
  BY <1>7, ExitedFacts
<1> HIDE DEF ps
<1>10. CASE /\ p \in Bad /\ procs' = ps /\ dropped' = dropped \cup {p} /\ ctl' = "wait"
            /\ UNCHANGED <<created, controllers, ecs, applet>>
  <2>1. p \in Clients
    BY <1>10, AppletsAssumption
  <2>2. TypeOK'
    BY <1>1, <1>5, <1>9, <1>10, <2>1 DEF IInv, TypeOK
  <2>3. ControlInv' /\ MonitorInv'
    BY <1>1, <1>2, <1>10 DEF IInv, ControlInv, MonitorInv
  <2>4. HostInv'
    BY <1>1, <1>2 DEF HostInv, Live
  <2>5. QueueInv'
    <3>1. \A i \in 1..Len(queued') : Queued(queued[i])'
      <4> TAKE i \in 1..Len(queued')
      <4> DEFINE c == queued'[i]
      <4>1. c \in Procs /\ Queued(c) /\ c \notin gone /\ procs'[c] = procs[c]
        BY <1>5, <1>9, <1>10
      <4> QED
        BY <1>1, <1>10, <4>1 DEF Queued, Fit
    <3> QED
      BY <1>5, <3>1 DEF QueueInv
  <2>6. ProcessInv'
    BY <1>1, <1>2, <1>9, <1>10, Singleton DEF IInv, ProcessInv
  <2>7. LaunchNotForgotten'
    <3>1. \A c \in Clients : c \in Procs
      BY DEF Procs
    <3>2. \A c \in Clients :
            /\ procs'[c].run_opener = "held" =>
                 c \in Elements(queued') \cup Elements(created') \cup dropped'
            /\ procs'[c].answer # "twice"
      BY <1>1, <1>6, <1>7, <1>9, <1>10, <3>1, Singleton
      DEF IInv, LaunchNotForgotten, AnswerOnce
    <3> QED
      BY <1>10, <3>2 DEF LaunchNotForgotten, Elements
  <2> QED
    BY <2>2, <2>3, <2>4, <2>5, <2>6, <2>7 DEF IInv
<1>11. CASE /\ p \notin Bad /\ procs' = [ps EXCEPT ![p] = q]
            /\ created' = Append(created, p) /\ controllers' = controllers \cup {p}
            /\ ecs' = p /\ ctl' = "create" /\ applet' = p /\ UNCHANGED dropped
  <2>1. /\ created' = <<p>> /\ controllers' = {p} /\ created' # <<>>
        /\ procs' \in [Procs -> Process]
        /\ \A d \in Procs : procs'[d] = IF d = p THEN q ELSE ps[d]
    BY <1>1, <1>2, <1>6, <1>8, <1>9, <1>11, Singleton
  <2>2. /\ procs'[p].state \in {"Created", "Started"}
        /\ p \in Clients => procs'[p].state = "Started"
    BY <1>6, <1>8, <2>1, AppletsAssumption DEF Queued, Fit
  <2>3. TypeOK'
    <3>1. created' \in Seq(Procs)
      BY <1>6, <2>1
    <3> QED
      BY <1>1, <1>5, <1>6, <1>11, <2>1, <3>1 DEF IInv, TypeOK
  <2>4. ControlInv'
    <3>1. Fit(applet)'
      BY <1>11, <2>2 DEF Fit
    <3> QED
      BY <1>1, <1>2, <1>6, <1>11, <2>1, <2>2, <3>1 DEF IInv, ControlInv
  <2>5. MonitorInv'
    BY <1>1, <1>6, <2>1 DEF MonitorInv
  <2>6. HostInv'
    BY <1>1, <1>2 DEF HostInv, Live
  <2>7. QueueInv'
    <3>1. \A i \in 1..Len(queued') : Queued(queued[i])'
      <4> TAKE i \in 1..Len(queued')
      <4> DEFINE c == queued'[i]
      <4>1. /\ c \in Procs /\ Queued(c) /\ c \notin gone /\ c # p
            /\ procs'[c] = procs[c]
        BY <1>5, <1>6, <1>9, <2>1
      <4>2. created' # <<c>> /\ c \notin controllers'
        BY <2>1, <4>1, Singleton
      <4> QED
        BY <1>1, <4>1, <4>2 DEF Queued, Fit
    <3> QED
      BY <1>5, <3>1 DEF QueueInv
  <2>8. ProcessInv'
    <3> SUFFICES ASSUME NEW d \in Procs
                 PROVE  /\ AnswerOnce(procs'[d])
                        /\ procs'[d].state # "Exited" => procs'[d].pipes = "open"
                        /\ procs'[d].kill_timeout = "armed" =>
                             procs'[d].state \in UpStates
                        /\ d \in Clients /\ procs'[d].state = "Created" =>
                             created' # <<d>> /\ d \notin controllers'
      BY DEF ProcessInv, AnswerOnce
    <3>1. CASE d = p
      <4>1. procs'[d] = q
        BY <2>1, <3>1
      <4>2. p \in Clients => q.state = "Started"
        BY <2>1, <2>2, <1>6
      <4> QED
        BY <1>6, <1>8, <3>1, <4>1, <4>2 DEF IInv, ProcessInv
    <3>2. CASE d # p
      <4>1. procs'[d] = ps[d] /\ created' # <<d>> /\ d \notin controllers'
        BY <2>1, <3>2, Singleton
      <4> QED
        BY <1>9, <4>1 DEF IInv, ProcessInv
    <3> QED
      BY <3>1, <3>2
  <2>9. LaunchNotForgotten'
    <3>1. \A c \in Clients : c \in Procs
      BY DEF Procs
    <3>2. Elements(created') = {p} /\ Elements(created) = {}
      BY <1>1, <2>1, Singleton
    <3>3. \A c \in Clients :
            /\ procs'[c].run_opener = "held" =>
                 c \in Elements(queued') \cup Elements(created') \cup dropped'
            /\ procs'[c].answer # "twice"
      BY <1>6, <1>7, <1>8, <1>9, <1>11, <2>1, <3>1, <3>2
      DEF IInv, LaunchNotForgotten, AnswerOnce
    <3> QED
      BY <1>11, <3>3 DEF LaunchNotForgotten, Elements
  <2> QED
    BY <2>3, <2>4, <2>5, <2>6, <2>7, <2>8, <2>9 DEF IInv
<1> QED
  BY <1>4, <1>10, <1>11

-----------------------------------------------------------------------------
(***************************************************************************)
(* The theorems.                                                           *)
(***************************************************************************)

\* Nothing has been launched at first.
LEMMA InitIInv == Init => IInv
<1> SUFFICES ASSUME Init PROVE IInv
  OBVIOUS
<1>1. \A p \in Procs : procs[p] = NewProcess
  BY DEF Init
<1>2. \A p \in Procs :
        /\ procs[p] \in Process /\ AnswerOnce(procs[p])
        /\ procs[p].run_opener = "none" /\ procs[p].pipes = "open"
        /\ procs[p].kill_timeout = "none"
  BY <1>1, NewProcessFacts DEF NewProcess
<1>3. TypeOK
  <2>1. procs \in [Procs -> Process]
    BY NewProcessFacts DEF Init
  <2> QED
    BY <2>1 DEF Init, TypeOK
<1>4. ControlInv /\ MonitorInv /\ QueueInv
  BY DEF Init, ControlInv, MonitorInv, QueueInv
<1>5. HostInv
  BY DEF Init, HostInv, Live
<1>6. ProcessInv
  BY <1>2, Singleton DEF Init, ProcessInv
<1>7. LaunchNotForgotten
  BY <1>2 DEF Init, LaunchNotForgotten, AnswerOnce, Procs
<1> QED
  BY <1>3, <1>4, <1>5, <1>6, <1>7 DEF IInv

\* Steps that leave everything as it is.
LEMMA StutterStep == ASSUME IInv, UNCHANGED vars PROVE IInv'
<1> USE DEF vars, twili, console
<1>1. TypeOK'
  BY DEF IInv, TypeOK
<1>2. ControlInv' /\ MonitorInv' /\ HostInv' /\ ProcessInv'
  BY DEF IInv, ControlInv, MonitorInv, HostInv, ProcessInv, Fit
<1>3. QueueInv' /\ LaunchNotForgotten'
  BY DEF IInv, QueueInv, Queued, Fit, LaunchNotForgotten, Elements, ReadyToLaunch
<1> QED
  BY <1>1, <1>2, <1>3 DEF IInv

\* Every step of the clients, of the control applet and of the hosts.
LEMMA NextIInv == IInv /\ [Next]_vars => IInv'
<1> SUFFICES ASSUME IInv, [Next]_vars PROVE IInv'
  OBVIOUS
<1>1. ASSUME ClientNext PROVE IInv'
  BY <1>1, LaunchStep, TerminateStep, CloseStep, ContinueStep DEF ClientNext
<1>2. ASSUME ControlNext PROVE IInv'
  BY <1>2, ControlConnectsStep, ControlWakesStep, GetCommandStep, PopAppletStep,
     CreateAppletStep, CreateFailsStep, ControlDiesStep, ReleaseControlStep,
     TakeCommandStep, CloseControllerStep, KillTimeoutStep DEF ControlNext
<1>3. ASSUME HostNext PROVE IInv'
  BY <1>3, HostStartsStep, HostAttachesStep, HostWaitsStep, HostResumesStep,
     AppReturnsStep, HostEndsStep DEF HostNext
<1> QED
  BY <1>1, <1>2, <1>3, StutterStep DEF Next

\* The inductive invariant holds throughout.
LEMMA Invariant == Spec => []IInv
<1> QED
  BY InitIInv, NextIInv, PTL DEF Spec

\* The tracker's lists, the control applet and the hosts keep their types, for
\* any clients and any files to load next.
THEOREM TypeCorrect == Spec => []TypeOK
<1>1. IInv => TypeOK
  BY DEF IInv
<1> QED
  BY <1>1, Invariant, PTL

\* However many processes are queued, killed or fail, and however often the
\* control applet is replaced: one process at most is being created, one host at
\* most is up, and it runs the code of the process it was started for and is
\* attached to that process (AppletTracker.cpp).
THEOREM HostOfItsProcess == Spec => []HostMatchesProcess
<1>1. ASSUME IInv PROVE HostMatchesProcess
  <2>1. Len(created) <= 1
    <3>1. CASE created = <<>>
      BY <3>1
    <3>2. ASSUME NEW p \in Procs, created = <<p>> PROVE Len(created) <= 1
      BY <3>2
    <3> QED
      BY <1>1, <3>1, <3>2 DEF IInv, MonitorInv
  <2>2. ASSUME NEW g \in Procs, NEW h \in Procs, host[g] \in Live, host[h] \in Live
        PROVE  g = h
    <3>1. /\ created = <<g>> \/ monitor = g
          /\ created = <<h>> \/ monitor = h
      BY <1>1, <2>2 DEF IInv, HostInv, Live
    <3>2. monitor # None => created = <<>>
      BY <1>1 DEF IInv, MonitorInv
    <3> QED
      BY <3>1, <3>2, Singleton, AppletsAssumption DEF Procs
  <2>3. ASSUME NEW h \in Procs, host[h] \in Live
        PROVE  /\ host[h] # "starting" => code[h] = h
               /\ host[h] \notin {"starting", "started"} => owner[h] = h
    BY <1>1, <2>3 DEF IInv, HostInv
  <2> QED
    BY <2>1, <2>2, <2>3 DEF HostMatchesProcess
<1> QED
  BY <1>1, Invariant, PTL

\* Unless a process was dropped, the control applet is woken while a process can
\* be launched, and an unanswered LAUNCH request belongs to a process the tracker
\* still knows; none is answered twice.
THEOREM LaunchesRemembered == Spec => []LaunchNotForgotten
<1>1. IInv => LaunchNotForgotten
  BY DEF IInv
<1> QED
  BY <1>1, Invariant, PTL

\* Whoever kills a process meanwhile, its applet keeps its standard streams until
\* it has ended, and a shim that waits can be resumed or has been answered.
THEOREM HostsServed == Spec => []HostServed
<1>1. ASSUME IInv PROVE HostServed
  <2> SUFFICES ASSUME NEW h \in Procs
               PROVE  /\ host[h] \in {"attached", "waiting", "running", "returned"} =>
                           procs[owner[h]].pipes = "open"
                      /\ host[h] = "waiting" =>
                           \/ procs[owner[h]].slcb = "stored"
                           \/ procs[owner[h]].reply # "none"
    BY DEF HostServed
  <2>1. host[h] \in {"attached", "waiting", "running", "returned"} =>
          owner[h] = h /\ monitor = h
    BY <1>1 DEF IInv, HostInv, Live
  <2>2. monitor = h => procs[h].pipes = "open"
    BY <1>1, AppletsAssumption DEF IInv, MonitorInv, ProcessInv, UpStates, Procs
  <2>3. host[h] = "waiting" => ShimServed(procs[h])
    BY <1>1 DEF IInv, HostInv
  <2> QED
    BY <2>1, <2>2, <2>3 DEF ShimServed
<1> QED
  BY <1>1, Invariant, PTL
=============================================================================
