---------------------------- MODULE ProcessProofs ----------------------------
(***************************************************************************)
(* Lemmas about the methods of MonitoredProcess: what each does to every   *)
(* field of a process object, and that none of them loses or repeats the   *)
(* answer to a LAUNCH request.                                             *)
(***************************************************************************)
EXTENDS MonitoredProcess, TLAPS

\* The LAUNCH request of a process has been answered at most once, and not at
\* all while its ResponseOpener is held or the process has just been created.
AnswerOnce(p) ==
  /\ p.answer # "twice"
  /\ p.run_opener = "held" => p.answer = "none"
  /\ p.state = "Created" => p.answer = "none" /\ p.run_opener = "none"

\* A process object as its constructor leaves it.
LEMMA NewProcessFacts ==
  NewProcess \in Process /\ AnswerOnce(NewProcess)
BY DEF NewProcess, Process, States, AnswerOnce

\* Assigning a field keeps a process object a process object.
LEMMA FieldUpdate ==
  ASSUME NEW p \in Process
  PROVE  /\ \A v \in States : [p EXCEPT !.state = v] \in Process
         /\ \A v \in {"none", "attached"} : [p EXCEPT !.proc = v] \in Process
         /\ \A v \in {"no", "yes"} : [p EXCEPT !.suspend = v] \in Process
         /\ \A v \in {"none", "stored"} : [p EXCEPT !.slcb = v] \in Process
         /\ \A v \in {"none", "ok", "no_longer"} : [p EXCEPT !.reply = v] \in Process
         /\ \A v \in {"no", "yes"} : [p EXCEPT !.exit_pending = v] \in Process
         /\ \A v \in {"no", "yes"} : [p EXCEPT !.ecs_pending = v] \in Process
         /\ \A v \in {"none", "held"} : [p EXCEPT !.run_opener = v] \in Process
         /\ \A v \in {"none", "pid", "error", "twice"} :
              [p EXCEPT !.answer = v] \in Process
         /\ \A v \in {"none", "queued", "taken"} : [p EXCEPT !.command = v] \in Process
         /\ \A v \in {"none", "armed"} : [p EXCEPT !.kill_timeout = v] \in Process
         /\ \A v \in {"no", "yes"} : [p EXCEPT !.next_load = v] \in Process
         /\ \A v \in {"open", "closed"} : [p EXCEPT !.pipes = v] \in Process
BY DEF Process

\* Respond only changes run_opener and answer.
LEMMA RespondFacts ==
  ASSUME NEW p \in Process, NEW k \in {"pid", "error"}
  PROVE  LET q == Respond(p, k)
         IN  /\ q \in Process
             /\ q.state = p.state /\ q.proc = p.proc /\ q.suspend = p.suspend
             /\ q.slcb = p.slcb /\ q.reply = p.reply
             /\ q.exit_pending = p.exit_pending /\ q.ecs_pending = p.ecs_pending
             /\ q.command = p.command /\ q.kill_timeout = p.kill_timeout
             /\ q.next_load = p.next_load /\ q.pipes = p.pipes
             /\ q.run_opener = "none"
             /\ p.run_opener = "none" => q.answer = p.answer
             /\ p.run_opener = "held" /\ p.answer = "none" => q.answer = k
<1> DEFINE q == Respond(p, k)
<1>1. CASE p.run_opener = "none"
  BY <1>1 DEF Respond
<1>2. CASE p.run_opener # "none"
  <2>1. q = [p EXCEPT !.run_opener = "none",
                      !.answer = IF @ = "none" THEN k ELSE "twice"]
    BY <1>2 DEF Respond
  <2>2. q \in Process
    <3> DEFINE r == [p EXCEPT !.run_opener = "none"]
               v == IF p.answer = "none" THEN k ELSE "twice"
    <3>1. r \in Process
      BY FieldUpdate
    <3>2. v \in {"none", "pid", "error", "twice"}
      OBVIOUS
    <3>3. q = [r EXCEPT !.answer = v]
      BY <2>1, Zenon
    <3> HIDE DEF q, r, v
    <3> QED
      BY <3>1, <3>2, <3>3, FieldUpdate
  <2>3. /\ q.state = p.state /\ q.proc = p.proc /\ q.suspend = p.suspend
        /\ q.slcb = p.slcb /\ q.reply = p.reply
        /\ q.exit_pending = p.exit_pending /\ q.ecs_pending = p.ecs_pending
        /\ q.command = p.command /\ q.kill_timeout = p.kill_timeout
        /\ q.next_load = p.next_load /\ q.pipes = p.pipes
    BY <2>1 DEF Process
  <2>4. /\ q.run_opener = "none"
        /\ p.run_opener = "held" /\ p.answer = "none" => q.answer = k
    BY <2>1 DEF Process
  <2> QED
    BY <1>2, <2>2, <2>3, <2>4, Zenon
<1> QED
  BY <1>1, <1>2

\* AnswerShim.
LEMMA AnswerShimFacts ==
  ASSUME NEW p \in Process, NEW r \in {"ok", "no_longer"}
  PROVE  LET q == AnswerShim(p, r)
         IN  /\ q \in Process
             /\ q.state = p.state /\ q.proc = p.proc
             /\ q.slcb = "none" /\ q.reply = r
             /\ q.exit_pending = p.exit_pending /\ q.ecs_pending = p.ecs_pending
             /\ q.next_load = p.next_load /\ q.pipes = p.pipes
             /\ q.kill_timeout = p.kill_timeout /\ q.command = p.command
             /\ q.run_opener = p.run_opener /\ q.answer = p.answer
             /\ AnswerOnce(p) => AnswerOnce(q)
<1> DEFINE c == [p EXCEPT !.slcb = "none"]
<1>1. AnswerShim(p, r) \in Process
  <2>1. c \in Process
    BY FieldUpdate
  <2>2. AnswerShim(p, r) = [c EXCEPT !.reply = r]
    BY DEF AnswerShim
  <2>3. r \in {"none", "ok", "no_longer"}
    OBVIOUS
  <2> HIDE DEF c
  <2>4. \A v \in {"none", "ok", "no_longer"} : [c EXCEPT !.reply = v] \in Process
    BY <2>1, FieldUpdate
  <2> QED
    BY <2>2, <2>3, <2>4, Zenon
<1> QED
  BY <1>1 DEF AnswerShim, Process, AnswerOnce

\* ChangeState(Exited): the pipes are closed, nothing waits and the LAUNCH
\* request has been answered.
LEMMA ExitedFacts ==
  ASSUME NEW p \in Process
  PROVE  LET q == Exited(p)
         IN  /\ q \in Process
             /\ q.state = "Exited" /\ q.proc = p.proc
             /\ q.slcb = "none"
             /\ q.reply = IF p.slcb = "stored" THEN "no_longer" ELSE p.reply
             /\ q.exit_pending = p.exit_pending /\ q.ecs_pending = p.ecs_pending
             /\ q.next_load = p.next_load /\ q.pipes = "closed"
             /\ q.kill_timeout = "none" /\ q.command = p.command
             /\ q.run_opener = "none"
             /\ AnswerOnce(p) => AnswerOnce(q)
<1> DEFINE a == IF p.slcb = "stored" THEN AnswerShim(p, "no_longer") ELSE p
           b == [a EXCEPT !.state = "Exited", !.pipes = "closed",
                          !.kill_timeout = "none"]
<1>1. /\ a \in Process
      /\ a.slcb = "none"
      /\ a.reply = IF p.slcb = "stored" THEN "no_longer" ELSE p.reply
      /\ a.state = p.state /\ a.proc = p.proc
      /\ a.exit_pending = p.exit_pending /\ a.ecs_pending = p.ecs_pending
      /\ a.next_load = p.next_load /\ a.command = p.command
      /\ a.run_opener = p.run_opener /\ a.answer = p.answer
  <2>1. CASE p.slcb = "stored"
    BY <2>1, AnswerShimFacts
  <2>2. CASE p.slcb # "stored"
    BY <2>2 DEF Process
  <2> QED
    BY <2>1, <2>2
<1>2. b \in Process
  <2> DEFINE c == [a EXCEPT !.state = "Exited"]
             d == [c EXCEPT !.pipes = "closed"]
             e == [d EXCEPT !.kill_timeout = "none"]
  <2> HIDE DEF a
  <2>1. c \in Process
    BY <1>1, FieldUpdate DEF States
  <2> HIDE DEF c
  <2>2. d \in Process
    BY <2>1, FieldUpdate
  <2> HIDE DEF d
  <2>3. e \in Process
    BY <2>2, FieldUpdate
  <2> QED
    BY <2>3, Zenon DEF c, d
<1>3. /\ b.state = "Exited" /\ b.pipes = "closed" /\ b.kill_timeout = "none"
      /\ b.slcb = a.slcb /\ b.reply = a.reply /\ b.proc = a.proc
      /\ b.exit_pending = a.exit_pending /\ b.ecs_pending = a.ecs_pending
      /\ b.next_load = a.next_load /\ b.command = a.command
      /\ b.run_opener = a.run_opener /\ b.answer = a.answer
  <2> HIDE DEF a
  <2> QED
    BY <1>1 DEF Process
<1>4. Exited(p) = Respond(b, "error")
  BY DEF Exited
<1> HIDE DEF a, b
<1>5. b.run_opener \in {"none", "held"}
  BY <1>2 DEF Process
<1>6. /\ Exited(p) \in Process
      /\ Exited(p).state = "Exited" /\ Exited(p).proc = p.proc
      /\ Exited(p).slcb = "none"
      /\ Exited(p).reply = IF p.slcb = "stored" THEN "no_longer" ELSE p.reply
      /\ Exited(p).exit_pending = p.exit_pending
      /\ Exited(p).ecs_pending = p.ecs_pending
      /\ Exited(p).next_load = p.next_load /\ Exited(p).pipes = "closed"
      /\ Exited(p).kill_timeout = "none" /\ Exited(p).command = p.command
      /\ Exited(p).run_opener = "none"
  BY <1>1, <1>2, <1>3, <1>4, RespondFacts
<1>7. ASSUME AnswerOnce(p) PROVE AnswerOnce(Exited(p))
  <2>1. Exited(p).answer # "twice"
    BY <1>1, <1>2, <1>3, <1>4, <1>5, <1>7, RespondFacts DEF AnswerOnce
  <2> QED
    BY <2>1, <1>6 DEF AnswerOnce
<1> QED
  BY <1>6, <1>7

\* Attach: the process has its host, and the LAUNCH request its answer.
LEMMA AttachedFacts ==
  ASSUME NEW p \in Process
  PROVE  LET q == Attached(p)
         IN  /\ q \in Process
             /\ q.state = "Attached" /\ q.proc = "attached"
             /\ q.slcb = p.slcb /\ q.reply = p.reply
             /\ q.exit_pending = p.exit_pending /\ q.ecs_pending = "no"
             /\ q.next_load = p.next_load /\ q.pipes = p.pipes
             /\ q.kill_timeout = p.kill_timeout /\ q.command = p.command
             /\ q.run_opener = "none"
             /\ AnswerOnce(p) => AnswerOnce(q)
<1> DEFINE b == [p EXCEPT !.proc = "attached", !.state = "Attached",
                          !.ecs_pending = "no"]
<1>0. b \in Process
  <2> DEFINE c == [p EXCEPT !.proc = "attached"]
             d == [c EXCEPT !.state = "Attached"]
             e == [d EXCEPT !.ecs_pending = "no"]
  <2>1. c \in Process
    BY FieldUpdate
  <2> HIDE DEF c
  <2>2. d \in Process
    BY <2>1, FieldUpdate DEF States
  <2> HIDE DEF d
  <2>3. e \in Process
    BY <2>2, FieldUpdate
  <2> QED
    BY <2>3, Zenon DEF c, d
<1>1. /\ b.state = "Attached" /\ b.proc = "attached" /\ b.ecs_pending = "no"
      /\ b.slcb = p.slcb /\ b.reply = p.reply
      /\ b.exit_pending = p.exit_pending
      /\ b.next_load = p.next_load /\ b.pipes = p.pipes
      /\ b.kill_timeout = p.kill_timeout /\ b.command = p.command
      /\ b.run_opener = p.run_opener /\ b.answer = p.answer
  BY DEF Process
<1>2. Attached(p) = Respond(b, "pid")
  BY DEF Attached
<1> HIDE DEF b
<1>3. b.run_opener \in {"none", "held"}
  BY <1>0 DEF Process
<1>4. /\ Attached(p) \in Process
      /\ Attached(p).state = "Attached" /\ Attached(p).proc = "attached"
      /\ Attached(p).slcb = p.slcb /\ Attached(p).reply = p.reply
      /\ Attached(p).exit_pending = p.exit_pending
      /\ Attached(p).ecs_pending = "no"
      /\ Attached(p).next_load = p.next_load /\ Attached(p).pipes = p.pipes
      /\ Attached(p).kill_timeout = p.kill_timeout
      /\ Attached(p).command = p.command /\ Attached(p).run_opener = "none"
  BY <1>0, <1>1, <1>2, RespondFacts
<1>5. ASSUME AnswerOnce(p) PROVE AnswerOnce(Attached(p))
  <2>1. Attached(p).answer # "twice"
    BY <1>0, <1>1, <1>2, <1>3, <1>5, RespondFacts DEF AnswerOnce
  <2> QED
    BY <2>1, <1>4 DEF AnswerOnce
<1> QED
  BY <1>4, <1>5

\* Launch: the ResponseOpener is kept for the answer.
LEMMA LaunchedFacts ==
  ASSUME NEW p \in Process, NEW s \in {"no", "yes"}
  PROVE  LET q == Launched(p, s)
         IN  /\ q \in Process
             /\ q.state = "Started" /\ q.proc = p.proc
             /\ q.slcb = p.slcb /\ q.reply = p.reply
             /\ q.exit_pending = p.exit_pending /\ q.ecs_pending = p.ecs_pending
             /\ q.next_load = p.next_load /\ q.pipes = p.pipes
             /\ q.kill_timeout = p.kill_timeout
             /\ q.run_opener = "held"
             /\ AnswerOnce(p) /\ p.state = "Created" => AnswerOnce(q)
<1>1. Launched(p, s) \in Process
  <2> DEFINE c == [p EXCEPT !.suspend = s]
             d == [c EXCEPT !.run_opener = "held"]
             e == [d EXCEPT !.state = "Started"]
  <2>1. c \in Process
    BY FieldUpdate
  <2> HIDE DEF c
  <2>2. d \in Process
    BY <2>1, FieldUpdate
  <2> HIDE DEF d
  <2>3. e \in Process
    BY <2>2, FieldUpdate DEF States
  <2> QED
    BY <2>3, Zenon DEF c, d, Launched
<1> QED
  BY <1>1 DEF Launched, Process, AnswerOnce

\* WaitToStart: the shim is answered at once or kept waiting.
LEMMA WaitToStartFacts ==
  ASSUME NEW p \in Process
  PROVE  LET q == WaitToStart(p)
         IN  /\ q \in Process
             /\ q.state \in {"ShimSuspended", "Running"} /\ q.proc = p.proc
             /\ q.slcb = "stored" \/ q.reply # "none"
             /\ p.slcb = "none" /\ q.slcb = "stored" => q.state = "ShimSuspended"
             /\ q.exit_pending = p.exit_pending /\ q.ecs_pending = p.ecs_pending
             /\ q.next_load = p.next_load /\ q.pipes = p.pipes
             /\ q.kill_timeout = p.kill_timeout
             /\ q.run_opener = p.run_opener
             /\ AnswerOnce(p) => AnswerOnce(q)
<1>1. CASE p.suspend = "yes"
  <2>1. WaitToStart(p) \in Process
    <3> DEFINE c == [p EXCEPT !.state = "ShimSuspended"]
    <3>1. c \in Process
      BY FieldUpdate DEF States
    <3>2. WaitToStart(p) = [c EXCEPT !.slcb = "stored"]
      BY <1>1 DEF WaitToStart
    <3> HIDE DEF c
    <3> QED
      BY <3>1, <3>2, FieldUpdate
  <2> QED
    BY <1>1, <2>1 DEF WaitToStart, Process, AnswerOnce
<1>2. CASE p.suspend # "yes"
  <2>1. WaitToStart(p) \in Process
    <3> DEFINE c == [p EXCEPT !.state = "Running"]
    <3>1. c \in Process
      BY FieldUpdate DEF States
    <3>2. WaitToStart(p) = [c EXCEPT !.reply = "ok"]
      BY <1>2 DEF WaitToStart
    <3> HIDE DEF c
    <3> QED
      BY <3>1, <3>2, FieldUpdate
  <2> QED
    BY <1>2, <2>1 DEF WaitToStart, Process, AnswerOnce
<1> QED
  BY <1>1, <1>2

\* Continue: a suspended shim is answered.
LEMMA ContinuedFacts ==
  ASSUME NEW p \in Process
  PROVE  LET q == Continued(p)
         IN  /\ q \in Process
             /\ q.state = IF p.state = "ShimSuspended" THEN "Running" ELSE p.state
             /\ q.proc = p.proc
             /\ p.state = "ShimSuspended" => q.slcb = "none" /\ q.reply = "ok"
             /\ p.state # "ShimSuspended" => q.slcb = p.slcb /\ q.reply = p.reply
             /\ q.exit_pending = p.exit_pending /\ q.ecs_pending = p.ecs_pending
             /\ q.next_load = p.next_load /\ q.pipes = p.pipes
             /\ q.kill_timeout = p.kill_timeout
             /\ q.run_opener = p.run_opener
             /\ AnswerOnce(p) => AnswerOnce(q)
<1>1. CASE p.state = "ShimSuspended"
  <2> DEFINE c == [p EXCEPT !.state = "Running"]
  <2>1. c \in Process
    BY FieldUpdate DEF States
  <2>2. /\ c.state = "Running" /\ c.proc = p.proc
        /\ c.exit_pending = p.exit_pending /\ c.ecs_pending = p.ecs_pending
        /\ c.next_load = p.next_load /\ c.pipes = p.pipes
        /\ c.kill_timeout = p.kill_timeout
        /\ c.run_opener = p.run_opener /\ c.answer = p.answer
    BY DEF Process
  <2>3. Continued(p) = AnswerShim(c, "ok")
    BY <1>1 DEF Continued
  <2>4. AnswerOnce(p) => AnswerOnce(c)
    BY <2>2 DEF AnswerOnce
  <2> HIDE DEF c
  <2> QED
    BY <1>1, <2>1, <2>2, <2>3, <2>4, AnswerShimFacts
<1>2. CASE p.state # "ShimSuspended"
  <2>1. Continued(p) = [p EXCEPT !.suspend = "no"]
    BY <1>2 DEF Continued
  <2>2. Continued(p) \in Process
    BY <2>1, FieldUpdate
  <2> QED
    BY <1>2, <2>1, <2>2 DEF Process, AnswerOnce
<1> QED
  BY <1>1, <1>2

\* A shim that waits for its answer has got it or can still get it.
ShimServed(p) == p.slcb = "stored" \/ p.reply # "none"

\* Terminate: only a process that was not launched is marked as exited.
LEMMA TerminatedFacts ==
  ASSUME NEW p \in Process
  PROVE  LET q == Terminated(p)
         IN  /\ q \in Process
             /\ q.state = IF p.state = "Created" THEN "Exited" ELSE p.state
             /\ q.proc = p.proc
             /\ ShimServed(p) => ShimServed(q)
             /\ q.exit_pending = p.exit_pending /\ q.ecs_pending = p.ecs_pending
             /\ p.state # "Created" => q.pipes = p.pipes /\ q.run_opener = p.run_opener
             /\ p.state = "Created" => q.run_opener = "none"
             /\ q.kill_timeout = "armed" => p.kill_timeout = "armed"
             /\ AnswerOnce(p) => AnswerOnce(q)
<1>1. CASE p.state = "Created"
  <2>1. Terminated(p) = Exited(p)
    BY <1>1 DEF Terminated
  <2> QED
    BY <1>1, <2>1, ExitedFacts DEF ShimServed
<1>2. CASE p.state = "ShimSuspended"
  <2>1. Terminated(p) = AnswerShim(p, "no_longer")
    BY <1>2 DEF Terminated
  <2> QED
    BY <1>2, <2>1, AnswerShimFacts DEF ShimServed
<1>3. CASE p.state \notin {"Created", "ShimSuspended"}
  <2>1. Terminated(p) = p
    BY <1>3 DEF Terminated
  <2> QED
    BY <1>3, <2>1
<1> QED
  BY <1>1, <1>2, <1>3

\* Kill, up to KillImpl: a launched process that is not attached is only marked.
LEMMA KilledFacts ==
  ASSUME NEW p \in Process
  PROVE  LET q == Killed(p)
         IN  /\ q \in Process
             /\ q.state = IF p.state = "Created" THEN "Exited" ELSE p.state
             /\ q.proc = p.proc
             /\ ShimServed(p) => ShimServed(q)
             /\ q.ecs_pending = p.ecs_pending
             /\ p.state # "Created" => q.pipes = p.pipes /\ q.run_opener = p.run_opener
             /\ p.state = "Created" => q.run_opener = "none"
             /\ q.kill_timeout = "armed" => p.kill_timeout = "armed"
             /\ AnswerOnce(p) => AnswerOnce(q)
<1>1. CASE p.state = "Created"
  <2>1. Killed(p) = Exited(p)
    BY <1>1 DEF Killed
  <2> QED
    BY <1>1, <2>1, ExitedFacts DEF ShimServed
<1>2. CASE p.state = "ShimSuspended"
  <2>1. Killed(p) = AnswerShim(p, "no_longer")
    BY <1>2 DEF Killed
  <2> QED
    BY <1>2, <2>1, AnswerShimFacts DEF ShimServed
<1>3. CASE p.state = "Started"
  <2>1. Killed(p) = [p EXCEPT !.exit_pending = "yes"]
    BY <1>3 DEF Killed
  <2>2. Killed(p) \in Process
    BY <2>1, FieldUpdate
  <2> QED
    BY <1>3, <2>1, <2>2 DEF Process, ShimServed, AnswerOnce
<1>4. CASE p.state \notin {"Created", "ShimSuspended", "Started"}
  <2>1. Killed(p) = p
    BY <1>4 DEF Killed
  <2> QED
    BY <1>4, <2>1
<1> QED
  BY <1>1, <1>2, <1>3, <1>4

\* KillImpl of an applet only arms the timeout and queues the request to exit.
LEMMA AppletKillFacts ==
  ASSUME NEW p \in Process
  PROVE  LET q == AppletKillImpl(p)
         IN  /\ q \in Process
             /\ q.state = p.state /\ q.proc = p.proc
             /\ ShimServed(p) => ShimServed(q)
             /\ q.ecs_pending = p.ecs_pending
             /\ q.pipes = p.pipes /\ q.run_opener = p.run_opener
             /\ AnswerOnce(p) => AnswerOnce(q)
<1> DEFINE c == [p EXCEPT !.kill_timeout = "armed"]
<1>1. AppletKillImpl(p) \in Process
  <2>1. c \in Process
    BY FieldUpdate
  <2>2. AppletKillImpl(p) = [c EXCEPT !.command = "queued"]
    BY DEF AppletKillImpl
  <2> HIDE DEF c
  <2> QED
    BY <2>1, <2>2, FieldUpdate
<1> QED
  BY <1>1 DEF AppletKillImpl, Process, AnswerOnce, ShimServed
=============================================================================
