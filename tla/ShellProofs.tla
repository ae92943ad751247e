----------------------------- MODULE ShellProofs -----------------------------
(***************************************************************************)
(* Proofs about Shell, for any number of clients, whichever of their       *)
(* processes cannot be prepared.                                           *)
(***************************************************************************)
EXTENDS Shell, ProcessProofs

-----------------------------------------------------------------------------
(***************************************************************************)
(* The inductive invariant.                                                *)
(***************************************************************************)

\* While the event thread holds the mutex its process alone is created, and
\* until the loader has read the code the content source is that process's.
EventInv ==
  /\ ev # "idle" => launchee \in Clients /\ created = <<launchee>>
  /\ ev \in {"launching", "reading"} => ecs = launchee /\ prog[launchee] = "none"

\* A process that is queued, or that the main thread is about to queue, was
\* launched and has no program, and is in the queue once.
Waiting(c) ==
  procs[c].state = "Started" /\ prog[c] = "none" /\ created # <<c>>

QueueInv ==
  /\ \A i, j \in 1..Len(queued) : queued[i] = queued[j] => i = j
  /\ \A i \in 1..Len(queued) : Waiting(queued[i])
  /\ main = "queue" =>
       arg \in Clients /\ Waiting(arg) /\ \A i \in 1..Len(queued) : queued[i] # arg

\* The process that is created is not attached to a program; once the mutex is
\* free it has one.
CreatedInv ==
  \A c \in Clients : created = <<c>> =>
    /\ procs[c].state \in {"Started", "Exited"}
    /\ owner[c] = None
    /\ prog[c] \in {"none", "started", "ended"}
    /\ prog[c] = "none" => ev # "idle"

\* A program was loaded with its process's code and is attached to its process
\* or to none; while it has not attached, its process is the created one.  It
\* is tracked, or about to be, until its exit has been seen.
ProgramInv ==
  \A c \in Clients :
    /\ prog[c] # "none" => code[c] = c /\ procs[c].state # "Created"
    /\ owner[c] \in {c, None} /\ (prog[c] = "none" => owner[c] = None)
    /\ prog[c] = "started" => created = <<c>>
    /\ prog[c] \in {"attached", "waiting", "running"} => owner[c] = c
    /\ prog[c] # "none" =>
         \/ c \in tracking
         \/ ev = "returning" /\ launchee = c
         \/ prog[c] = "ended" /\ c \notin exits
    /\ c \in exits => prog[c] = "ended"
    /\ prog[c] = "ended" /\ c \notin exits => procs[c].state = "Exited"

\* The program that is being attached is that of the created process, and if
\* it has ended meanwhile twili has not seen that.
AttachInv ==
  main = "attach" =>
    /\ arg \in Clients /\ created = <<arg>>
    /\ prog[arg] \in {"started", "ended"}
    /\ prog[arg] = "ended" => arg \in exits

AnswerInv == \A c \in Clients : AnswerOnce(procs[c])

IInv ==
  /\ TypeOK /\ EventInv /\ QueueInv /\ CreatedInv /\ ProgramInv /\ AttachInv
  /\ AnswerInv /\ LaunchNotForgotten

-----------------------------------------------------------------------------
(***************************************************************************)
(* Steps that change process objects and programs only: Terminate, Close,  *)
(* Continue, and what shims and applications do.                           *)
(***************************************************************************)

\* A launched or exited process stays so, unless its shim calls WaitToStart.
ProcessKept(c) ==
  /\ procs[c].state \in {"Started", "Exited"} /\ prog[c] # "attached" =>
       procs'[c].state = procs[c].state
  /\ procs'[c].state = "Created" => procs[c].state = "Created"
  /\ procs'[c].run_opener = "held" => procs[c].run_opener = "held"
  /\ AnswerOnce(procs'[c])

\* A program stays as it is, ends and is noted, or its shim goes on.
ProgramKept(c) ==
  \/ prog'[c] = prog[c] /\ (c \in exits' <=> c \in exits)
  \/ prog[c] \in Live /\ prog'[c] = "ended" /\ c \in exits'
  \/ /\ prog[c] \in {"attached", "waiting"} /\ prog'[c] \in {"waiting", "running"}
     /\ (c \in exits' <=> c \in exits)

\* Such steps keep the invariant.
LEMMA RunStep ==
  ASSUME IInv,
         UNCHANGED <<tracker, threads, ecs, code, owner, dropped, aborted>>,
         monitors' \in [Clients -> {"alive", "gone"}],
         procs' \in [Clients -> Process],
         prog' \in [Clients -> Live \cup {"none", "ended"}],
         exits' \subseteq Clients,
         \A c \in Clients : ProcessKept(c) /\ ProgramKept(c)
  PROVE  IInv'
<1> USE ShellAssumption DEF tracker, threads
<1>1. TypeOK'
  BY DEF IInv, TypeOK
<1>2. EventInv'
  BY DEF IInv, EventInv, ProgramKept, Live
<1>3. QueueInv'
  <2>1. ASSUME NEW c \in Clients, Waiting(c) PROVE Waiting(c)'
    BY <2>1 DEF Waiting, ProcessKept, ProgramKept, Live
  <2>2. \A i \in 1..Len(queued) : queued[i] \in Clients
    BY DEF IInv, TypeOK
  <2> QED
    BY <2>1, <2>2 DEF IInv, QueueInv
<1>4. CreatedInv'
  BY DEF IInv, CreatedInv, ProcessKept, ProgramKept, Live
<1>5. ProgramInv'
  <2> SUFFICES ASSUME NEW c \in Clients
               PROVE  /\ prog'[c] # "none" => code[c] = c /\ procs'[c].state # "Created"
                      /\ owner[c] \in {c, None}
                      /\ prog'[c] = "none" => owner[c] = None
                      /\ prog'[c] = "started" => created = <<c>>
                      /\ prog'[c] \in {"attached", "waiting", "running"} => owner[c] = c
                      /\ prog'[c] # "none" =>
                           \/ c \in tracking
                           \/ ev = "returning" /\ launchee = c
                           \/ prog'[c] = "ended" /\ c \notin exits'
                      /\ c \in exits' => prog'[c] = "ended"
                      /\ prog'[c] = "ended" /\ c \notin exits' => procs'[c].state = "Exited"
    BY DEF ProgramInv
  <2> QED
    BY DEF IInv, ProgramInv, ProcessKept, ProgramKept, Live
<1>6. AttachInv'
  BY DEF IInv, AttachInv, ProgramKept, Live
<1>7. AnswerInv'
  BY DEF AnswerInv, ProcessKept
<1>8. LaunchNotForgotten'
  <2>1. \A c \in Clients :
          /\ procs'[c].run_opener = "held" => procs[c].run_opener = "held"
          /\ procs'[c].answer # "twice"
    BY DEF ProcessKept, AnswerOnce
  <2> QED
    BY <2>1 DEF IInv, LaunchNotForgotten, Elements
<1> QED
  BY <1>1, <1>2, <1>3, <1>4, <1>5, <1>6, <1>7, <1>8 DEF IInv

\* Only the programs that EndPrograms kills change, and they are noted.
LEMMA EndProgramsFacts ==
  ASSUME IInv, NEW P, EndPrograms(P)
  PROVE  /\ prog' \in [Clients -> Live \cup {"none", "ended"}]
         /\ exits' \subseteq Clients
         /\ \A c \in Clients : ProgramKept(c)
BY DEF EndPrograms, IInv, TypeOK, ProgramKept

\* One process object is replaced.
LEMMA ReplaceOne ==
  ASSUME IInv, NEW c \in Clients, NEW q \in Process,
         procs' = [procs EXCEPT ![c] = q],
         procs[c].state \in {"Started", "Exited"} /\ prog[c] # "attached" =>
           q.state = procs[c].state,
         q.state = "Created" => procs[c].state = "Created",
         q.run_opener = "held" => procs[c].run_opener = "held",
         AnswerOnce(q)
  PROVE  procs' \in [Clients -> Process] /\ \A d \in Clients : ProcessKept(d)
<1>1. procs \in [Clients -> Process] /\ \A d \in Clients : AnswerOnce(procs[d])
  BY DEF IInv, TypeOK, AnswerInv
<1>2. procs' \in [Clients -> Process]
  BY <1>1
<1>3. ASSUME NEW d \in Clients PROVE ProcessKept(d)
  <2>1. CASE d = c
    BY <1>1, <2>1 DEF ProcessKept
  <2>2. CASE d # c
    BY <1>1, <2>2 DEF ProcessKept
  <2> QED
    BY <2>1, <2>2
<1> QED
  BY <1>2, <1>3

\* Abort stops twili where it is.
LEMMA AbortStep == ASSUME IInv, Abort PROVE IInv'
<1> USE DEF Abort, objects, tracker, threads, programs
<1>1. TypeOK'
  BY DEF IInv, TypeOK
<1>2. EventInv' /\ CreatedInv' /\ ProgramInv' /\ AttachInv' /\ AnswerInv'
  BY DEF IInv, EventInv, CreatedInv, ProgramInv, AttachInv, AnswerInv
<1>3. QueueInv' /\ LaunchNotForgotten'
  BY DEF IInv, QueueInv, Waiting, LaunchNotForgotten, Elements
<1> QED
  BY <1>1, <1>2, <1>3 DEF IInv

\* TERMINATE.
LEMMA TerminateStep == ASSUME IInv, NEW c \in Clients, Terminate(c) PROVE IInv'
<1>1. CASE CallsNothing(procs[c])
  BY <1>1, AbortStep DEF Terminate
<1>2. CASE ~CallsNothing(procs[c])
  <2>1. procs[c] \in Process /\ AnswerOnce(procs[c])
    BY DEF IInv, TypeOK, AnswerInv
  <2>2. procs' \in [Clients -> Process] /\ \A d \in Clients : ProcessKept(d)
    <3>1. procs' = [procs EXCEPT ![c] = Terminated(procs[c])]
      BY <1>2 DEF Terminate
    <3> DEFINE q == Terminated(procs[c])
    <3>2. /\ q \in Process
          /\ procs[c].state \in {"Started", "Exited"} => q.state = procs[c].state
          /\ q.state = "Created" => procs[c].state = "Created"
          /\ q.run_opener = "held" => procs[c].run_opener = "held"
          /\ AnswerOnce(q)
      BY <2>1, TerminatedFacts
    <3> HIDE DEF q
    <3> QED
      BY <3>1, <3>2, ReplaceOne DEF q
  <2>3. /\ prog' \in [Clients -> Live \cup {"none", "ended"}]
        /\ exits' \subseteq Clients
        /\ \A d \in Clients : ProgramKept(d)
    BY <1>2, EndProgramsFacts DEF Terminate
  <2>4. UNCHANGED <<monitors, tracker, threads, ecs, code, owner, dropped, aborted>>
    BY <1>2 DEF Terminate
  <2>5. monitors' \in [Clients -> {"alive", "gone"}]
    BY <2>4 DEF IInv, TypeOK
  <2> QED
    BY <2>2, <2>3, <2>4, <2>5, RunStep
<1> QED
  BY <1>1, <1>2

\* The client goes away.
LEMMA CloseStep == ASSUME IInv, NEW c \in Clients, Close(c) PROVE IInv'
<1>1. CASE CallsNothing(procs[c])
  BY <1>1, AbortStep DEF Close
<1>2. CASE ~CallsNothing(procs[c])
  <2>1. procs[c] \in Process /\ AnswerOnce(procs[c])
    BY DEF IInv, TypeOK, AnswerInv
  <2>2. procs' \in [Clients -> Process] /\ \A d \in Clients : ProcessKept(d)
    <3>1. procs' = [procs EXCEPT ![c] = Killed(procs[c])]
      BY <1>2 DEF Close
    <3> DEFINE q == Killed(procs[c])
    <3>2. /\ q \in Process
          /\ procs[c].state \in {"Started", "Exited"} => q.state = procs[c].state
          /\ q.state = "Created" => procs[c].state = "Created"
          /\ q.run_opener = "held" => procs[c].run_opener = "held"
          /\ AnswerOnce(q)
      BY <2>1, KilledFacts
    <3> HIDE DEF q
    <3> QED
      BY <3>1, <3>2, ReplaceOne DEF q
  <2>3. /\ prog' \in [Clients -> Live \cup {"none", "ended"}]
        /\ exits' \subseteq Clients
        /\ \A d \in Clients : ProgramKept(d)
    BY <1>2, EndProgramsFacts DEF Close
  <2>4. /\ UNCHANGED <<tracker, threads, ecs, code, owner, dropped, aborted>>
        /\ monitors' = [monitors EXCEPT ![c] = "gone"]
    BY <1>2 DEF Close
  <2>5. monitors' \in [Clients -> {"alive", "gone"}]
    BY <2>4 DEF IInv, TypeOK
  <2> QED
    BY <2>2, <2>3, <2>4, <2>5, RunStep
<1> QED
  BY <1>1, <1>2

\* The programs are left alone.
LEMMA ProgramsAlone ==
  ASSUME IInv, UNCHANGED <<prog, exits>>
  PROVE  /\ prog' \in [Clients -> Live \cup {"none", "ended"}]
         /\ exits' \subseteq Clients
         /\ \A c \in Clients : ProgramKept(c)
BY DEF IInv, TypeOK, ProgramKept

\* A debugger attaches.
LEMMA ContinueStep == ASSUME IInv, NEW c \in Clients, Continue(c) PROVE IInv'
<1>1. CASE CallsNothing(procs[c])
  BY <1>1, AbortStep DEF Continue
<1>2. CASE ~CallsNothing(procs[c])
  <2>1. procs[c] \in Process /\ AnswerOnce(procs[c])
    BY DEF IInv, TypeOK, AnswerInv
  <2>2. procs' \in [Clients -> Process] /\ \A d \in Clients : ProcessKept(d)
    <3>1. procs' = [procs EXCEPT ![c] = Continued(procs[c])]
      BY <1>2 DEF Continue
    <3> DEFINE q == Continued(procs[c])
    <3>2. /\ q \in Process
          /\ procs[c].state \in {"Started", "Exited"} => q.state = procs[c].state
          /\ q.state = "Created" => procs[c].state = "Created"
          /\ q.run_opener = "held" => procs[c].run_opener = "held"
          /\ AnswerOnce(q)
      BY <2>1, ContinuedFacts
    <3> HIDE DEF q
    <3> QED
      BY <3>1, <3>2, ReplaceOne DEF q
  <2>3. UNCHANGED <<monitors, tracker, threads, programs, dropped, aborted>>
    BY <1>2 DEF Continue
  <2>4. monitors' \in [Clients -> {"alive", "gone"}]
    BY <2>3 DEF IInv, TypeOK
  <2>5. UNCHANGED <<prog, exits, ecs, code, owner>>
    BY <2>3 DEF programs
  <2> QED
    BY <2>2, <2>3, <2>4, <2>5, RunStep, ProgramsAlone
<1> QED
  BY <1>1, <1>2

\* The shim calls WaitToStart.
LEMMA ShimWaitsStep == ASSUME IInv, NEW h \in Clients, ShimWaits(h) PROVE IInv'
<1>1. owner[h] = h /\ prog[h] = "attached"
  BY DEF ShimWaits, IInv, ProgramInv
<1>2. procs[h] \in Process /\ AnswerOnce(procs[h])
  BY DEF IInv, TypeOK, AnswerInv
<1>3. procs' \in [Clients -> Process] /\ \A d \in Clients : ProcessKept(d)
  <2> DEFINE q == WaitToStart(procs[h])
  <2>1. /\ q \in Process
        /\ q.state # "Created"
        /\ q.run_opener = procs[h].run_opener /\ AnswerOnce(q)
    BY <1>2, WaitToStartFacts
  <2>2. procs' = [procs EXCEPT ![h] = q]
    BY <1>1 DEF ShimWaits
  <2> HIDE DEF q
  <2> QED
    BY <1>1, <2>1, <2>2, ReplaceOne
<1>4. /\ UNCHANGED <<monitors, tracker, threads, ecs, code, owner, exits, dropped,
                      aborted>>
      /\ prog' = [prog EXCEPT ![h] = "waiting"]
  BY DEF ShimWaits
<1>5. /\ prog' \in [Clients -> Live \cup {"none", "ended"}]
      /\ exits' \subseteq Clients /\ monitors' \in [Clients -> {"alive", "gone"}]
      /\ \A c \in Clients : ProgramKept(c)
  BY <1>1, <1>4 DEF IInv, TypeOK, ProgramKept, Live
<1> QED
  BY <1>3, <1>4, <1>5, RunStep

\* The shim goes on, or exits.
LEMMA ShimResumesStep == ASSUME IInv, NEW h \in Clients, ShimResumes(h) PROVE IInv'
<1>1. owner[h] = h /\ prog[h] = "waiting"
  BY DEF ShimResumes, IInv, ProgramInv
<1>2. procs \in [Clients -> Process] /\ AnswerOnce(procs[h])
  BY DEF IInv, TypeOK, AnswerInv
<1>3. procs' \in [Clients -> Process] /\ \A d \in Clients : ProcessKept(d)
  <2> DEFINE q == [procs[h] EXCEPT !.reply = "none"]
  <2>1. q \in Process
    BY <1>2, FieldUpdate
  <2>2. /\ q.state = procs[h].state
        /\ q.run_opener = procs[h].run_opener /\ AnswerOnce(q)
    BY <1>2 DEF Process, AnswerOnce
  <2>3. procs' = [procs EXCEPT ![h] = q]
    BY <1>1, <1>2 DEF ShimResumes
  <2> HIDE DEF q
  <2> QED
    BY <1>1, <2>1, <2>2, <2>3, ReplaceOne
<1>4. /\ UNCHANGED <<monitors, tracker, threads, ecs, code, owner, dropped, aborted>>
      /\ \/ prog' = [prog EXCEPT ![h] = "running"] /\ UNCHANGED exits
         \/ prog' = [prog EXCEPT ![h] = "ended"] /\ exits' = exits \cup {h}
  BY DEF ShimResumes
<1>5. /\ prog' \in [Clients -> Live \cup {"none", "ended"}]
      /\ exits' \subseteq Clients /\ monitors' \in [Clients -> {"alive", "gone"}]
      /\ \A c \in Clients : ProgramKept(c)
  BY <1>1, <1>4 DEF IInv, TypeOK, ProgramKept, Live
<1> QED
  BY <1>3, <1>4, <1>5, RunStep

\* A program ends by itself.
LEMMA ProgramEndsStep == ASSUME IInv, NEW h \in Clients, ProgramEnds(h) PROVE IInv'
<1>1. /\ UNCHANGED <<objects, tracker, threads, ecs, code, owner, dropped, aborted>>
      /\ prog' = [prog EXCEPT ![h] = "ended"] /\ exits' = exits \cup {h}
      /\ prog[h] \in Live
  BY DEF ProgramEnds
<1>2. procs' \in [Clients -> Process] /\ \A d \in Clients : ProcessKept(d)
  BY <1>1 DEF objects, IInv, TypeOK, AnswerInv, ProcessKept
<1>3. /\ prog' \in [Clients -> Live \cup {"none", "ended"}]
      /\ exits' \subseteq Clients /\ monitors' \in [Clients -> {"alive", "gone"}]
      /\ \A c \in Clients : ProgramKept(c)
  BY <1>1 DEF objects, IInv, TypeOK, ProgramKept, Live
<1> QED
  BY <1>1, <1>2, <1>3, RunStep

-----------------------------------------------------------------------------
(***************************************************************************)
(* The main thread's other steps.                                          *)
(***************************************************************************)

\* LAUNCH: a process just created is not known anywhere yet.
LEMMA LaunchStep ==
  ASSUME IInv, NEW c \in Clients, NEW s \in {"no", "yes"}, Launch(c, s)
  PROVE  IInv'
<1> DEFINE q == Launched(procs[c], s)
<1>1. /\ main = "idle" /\ procs[c].state = "Created"
      /\ procs' = [procs EXCEPT ![c] = q]
      /\ main' = "queue" /\ arg' = c
      /\ UNCHANGED <<monitors, queued, created, tracking, signal, ev, launchee, ecs,
                      prog, code, owner, exits, dropped, aborted>>
  BY DEF Launch, tracker, programs
<1>2. procs \in [Clients -> Process] /\ AnswerOnce(procs[c])
  BY DEF IInv, TypeOK, AnswerInv
<1>3. /\ q \in Process /\ q.state = "Started"
      /\ q.run_opener = "held" /\ AnswerOnce(q)
  BY <1>1, <1>2, LaunchedFacts
<1> HIDE DEF q
<1>4. /\ prog[c] = "none" /\ created # <<c>>
      /\ \A i \in 1..Len(queued) : queued[i] # c
  BY <1>1 DEF IInv, ProgramInv, CreatedInv, QueueInv, Waiting
<1>5. \A d \in Clients : procs'[d] = IF d = c THEN q ELSE procs[d]
  BY <1>1, <1>2
<1>6. TypeOK'
  BY <1>1, <1>3 DEF IInv, TypeOK
<1>7. EventInv' /\ AttachInv'
  BY <1>1 DEF IInv, EventInv, AttachInv
<1>8. QueueInv'
  <2>1. \A i \in 1..Len(queued) : queued[i] \in Clients
    BY DEF IInv, TypeOK
  <2> QED
    BY <1>1, <1>3, <1>4, <1>5, <2>1 DEF IInv, QueueInv, Waiting
<1>9. CreatedInv' /\ ProgramInv'
  BY <1>1, <1>3, <1>4, <1>5 DEF IInv, CreatedInv, ProgramInv
<1>10. AnswerInv'
  BY <1>3, <1>5 DEF IInv, AnswerInv
<1>11. LaunchNotForgotten'
  BY <1>1, <1>3, <1>5 DEF IInv, LaunchNotForgotten, Elements, AnswerOnce
<1> QED
  BY <1>6, <1>7, <1>8, <1>9, <1>10, <1>11 DEF IInv

\* QueueLaunch.
LEMMA QueueLaunchStep == ASSUME IInv, QueueLaunch PROVE IInv'
<1>1. /\ main = "queue" /\ ev = "idle"
      /\ queued' = Append(queued, arg) /\ signal' = "set"
      /\ main' = "idle" /\ arg' = None
      /\ UNCHANGED <<procs, monitors, created, tracking, ev, launchee, ecs, prog, code,
                      owner, exits, dropped, aborted>>
  BY DEF QueueLaunch, objects, programs, MutexFree
<1>2. arg \in Clients /\ queued \in Seq(Clients)
  BY <1>1 DEF IInv, TypeOK, QueueInv
<1>3. /\ queued' \in Seq(Clients) /\ Len(queued') = Len(queued) + 1
      /\ \A i \in 1..Len(queued) : queued'[i] = queued[i]
      /\ queued'[Len(queued) + 1] = arg
  BY <1>1, <1>2
<1>4. TypeOK'
  BY <1>1, <1>3 DEF IInv, TypeOK
<1>5. EventInv' /\ AttachInv' /\ CreatedInv' /\ ProgramInv' /\ AnswerInv'
  BY <1>1 DEF IInv, EventInv, AttachInv, CreatedInv, ProgramInv, AnswerInv
<1>6. QueueInv'
  <2>1. \A i \in 1..Len(queued') :
          i \in 1..Len(queued) \/ (i = Len(queued) + 1 /\ queued'[i] = arg)
    BY <1>2, <1>3
  <2> QED
    BY <1>1, <1>2, <1>3, <2>1 DEF IInv, QueueInv, Waiting
<1>7. LaunchNotForgotten'
  <2>1. Elements(queued') = Elements(queued) \cup {arg}
    BY <1>2, <1>3 DEF Elements
  <2>2. Elements(created)' = Elements(created)
    BY <1>1 DEF Elements
  <2> QED
    BY <1>1, <2>1, <2>2 DEF IInv, LaunchNotForgotten
<1> QED
  BY <1>4, <1>5, <1>6, <1>7 DEF IInv

\* The shim connects: its program is the created process's.
LEMMA OpenShellShimStep == ASSUME IInv, NEW h \in Clients, OpenShellShim(h) PROVE IInv'
<1>1. /\ main = "idle" /\ prog[h] = "started" /\ main' = "attach" /\ arg' = h
      /\ UNCHANGED <<procs, monitors, queued, created, tracking, signal, ev, launchee,
                      ecs, prog, code, owner, exits, dropped, aborted>>
  BY DEF OpenShellShim, objects, tracker, programs
<1>2. TypeOK'
  BY <1>1 DEF IInv, TypeOK
<1>3. EventInv' /\ CreatedInv' /\ ProgramInv' /\ AnswerInv'
  BY <1>1 DEF IInv, EventInv, CreatedInv, ProgramInv, AnswerInv
<1>4. AttachInv'
  BY <1>1 DEF IInv, AttachInv, ProgramInv
<1>5. QueueInv' /\ LaunchNotForgotten'
  BY <1>1 DEF IInv, QueueInv, Waiting, LaunchNotForgotten, Elements
<1> QED
  BY <1>2, <1>3, <1>4, <1>5 DEF IInv

\* The main thread turns to the notifications.
LEMMA ShellEventStep == ASSUME IInv, ShellEvent PROVE IInv'
<1>1. /\ main = "idle" /\ main' = "events"
      /\ UNCHANGED <<procs, monitors, queued, created, tracking, signal, arg, ev,
                      launchee, ecs, prog, code, owner, exits, dropped, aborted>>
  BY DEF ShellEvent, objects, tracker, programs
<1>2. TypeOK'
  BY <1>1 DEF IInv, TypeOK
<1>3. EventInv' /\ CreatedInv' /\ ProgramInv' /\ AnswerInv' /\ AttachInv'
  BY <1>1 DEF IInv, EventInv, CreatedInv, ProgramInv, AnswerInv, AttachInv
<1>4. QueueInv' /\ LaunchNotForgotten'
  BY <1>1 DEF IInv, QueueInv, Waiting, LaunchNotForgotten, Elements
<1> QED
  BY <1>2, <1>3, <1>4 DEF IInv

\* A sequence of one process.
LEMMA Singleton ==
  ASSUME NEW c \in Clients
  PROVE  /\ <<c>> \in Seq(Clients) /\ Len(<<c>>) = 1
         /\ Head(<<c>>) = c /\ Tail(<<c>>) = <<>> /\ <<c>> # <<>>
         /\ Append(<<>>, c) = <<c>>
         /\ Elements(<<c>>) = {c} /\ Elements(<<>>) = {}
         /\ \A d \in Clients : <<c>> = <<d>> => c = d
BY DEF Elements

\* AttachHostProcess: the process created first is the program's own.
LEMMA AttachHostProcessStep == ASSUME IInv, AttachHostProcess PROVE IInv'
<1>1. CASE created = <<>> \/ procs[Head(created)].proc = "attached"
  BY <1>1, AbortStep DEF AttachHostProcess
<1>2. CASE ~(created = <<>> \/ procs[Head(created)].proc = "attached")
  <2>1. main = "attach" /\ ev = "idle" /\ arg \in Clients /\ created = <<arg>>
    BY DEF AttachHostProcess, MutexFree, IInv, AttachInv
  <2>2. Head(created) = arg /\ Tail(created) = <<>>
    BY <2>1, Singleton
  <2> DEFINE q == Attached(procs[arg])
  <2>3. /\ procs' = [procs EXCEPT ![arg] = q]
        /\ created' = <<>> /\ signal' = "set"
        /\ prog' = [prog EXCEPT ![arg] = IF prog[arg] = "started" THEN "attached"
                                         ELSE prog[arg]]
        /\ owner' = [owner EXCEPT ![arg] = arg]
        /\ main' = "idle" /\ arg' = None
        /\ UNCHANGED <<monitors, queued, tracking, ev, launchee, ecs, code, exits,
                        dropped, aborted>>
    BY <1>2, <2>2 DEF AttachHostProcess
  <2>4. procs \in [Clients -> Process] /\ AnswerOnce(procs[arg])
    BY <2>1 DEF IInv, TypeOK, AnswerInv
  <2>5. /\ q \in Process /\ q.state = "Attached" /\ q.run_opener = "none"
        /\ AnswerOnce(q)
    BY <2>1, <2>4, AttachedFacts
  <2> HIDE DEF q
  <2>6. \A d \in Clients :
          /\ procs'[d] = IF d = arg THEN q ELSE procs[d]
          /\ owner'[d] = IF d = arg THEN arg ELSE owner[d]
          /\ prog'[d] = IF d = arg /\ prog[d] = "started" THEN "attached" ELSE prog[d]
    BY <2>1, <2>3, <2>4 DEF IInv, TypeOK
  <2>7. TypeOK'
    BY <2>1, <2>3, <2>5 DEF IInv, TypeOK, Live
  <2>8. EventInv' /\ AttachInv' /\ CreatedInv'
    BY <2>1, <2>3 DEF EventInv, AttachInv, CreatedInv
  <2>9. QueueInv'
    <3>1. \A i \in 1..Len(queued) : queued[i] \in Clients /\ queued[i] # arg
      BY <2>1 DEF IInv, TypeOK, QueueInv, Waiting
    <3> QED
      BY <2>1, <2>3, <2>6, <3>1 DEF IInv, QueueInv, Waiting
  <2>10. ProgramInv'
    <3> SUFFICES ASSUME NEW c \in Clients
                 PROVE  /\ prog'[c] # "none" =>
                             code[c] = c /\ procs'[c].state # "Created"
                        /\ owner'[c] \in {c, None}
                        /\ prog'[c] = "none" => owner'[c] = None
                        /\ prog'[c] = "started" => created' = <<c>>
                        /\ prog'[c] \in {"attached", "waiting", "running"} =>
                             owner'[c] = c
                        /\ prog'[c] # "none" =>
                             \/ c \in tracking
                             \/ ev = "returning" /\ launchee = c
                             \/ prog'[c] = "ended" /\ c \notin exits
                        /\ c \in exits => prog'[c] = "ended"
                        /\ prog'[c] = "ended" /\ c \notin exits =>
                             procs'[c].state = "Exited"
      BY <2>3 DEF ProgramInv
    <3>1. CASE c = arg
      BY <3>1, <2>1, <2>3, <2>5, <2>6 DEF IInv, ProgramInv, AttachInv
    <3>2. CASE c # arg
      <4>1. prog[c] # "started"
        BY <3>2, <2>1, Singleton DEF IInv, ProgramInv
      <4> QED
        BY <3>2, <4>1, <2>1, <2>3, <2>6 DEF IInv, ProgramInv
    <3> QED
      BY <3>1, <3>2
  <2>11. AnswerInv'
    BY <2>5, <2>6 DEF IInv, AnswerInv
  <2>12. LaunchNotForgotten'
    <3>1. Elements(created) = {arg} /\ Elements(queued)' = Elements(queued)
      BY <2>1, <2>3, Singleton DEF Elements
    <3> QED
      BY <2>1, <2>3, <2>5, <2>6, <3>1 DEF IInv, LaunchNotForgotten, AnswerOnce
  <2> QED
    BY <2>7, <2>8, <2>9, <2>10, <2>11, <2>12 DEF IInv
<1> QED
  BY <1>1, <1>2

\* The notifications: the mutex is free, so every program that has ended is
\* tracked or was seen before.
LEMMA ShellEventsStep == ASSUME IInv, ShellEvents PROVE IInv'
<1> DEFINE seen == exits \cap tracking
<1>1. /\ main = "events" /\ ev = "idle"
      /\ procs' = [c \in Clients |-> IF c \in seen THEN Exited(procs[c]) ELSE procs[c]]
      /\ ecs' \in {None, ecs}
      /\ tracking' = tracking \ exits /\ exits' = {} /\ main' = "idle"
      /\ UNCHANGED <<monitors, queued, created, signal, arg, ev, launchee, prog, code,
                      owner, dropped, aborted>>
  BY DEF ShellEvents, MutexFree
<1> HIDE DEF seen
<1>2. \A c \in Clients : procs[c] \in Process /\ AnswerOnce(procs[c])
  BY DEF IInv, TypeOK, AnswerInv
<1>3. \A c \in Clients :
        /\ c \in seen =>
             /\ procs'[c] \in Process /\ procs'[c].state = "Exited"
             /\ procs'[c].run_opener = "none" /\ AnswerOnce(procs'[c])
        /\ c \notin seen => procs'[c] = procs[c]
  BY <1>1, <1>2, ExitedFacts
<1>4. \A c \in Clients : c \in seen => prog[c] = "ended"
  BY DEF seen, IInv, ProgramInv
<1>5. TypeOK'
  <2>1. procs' \in [Clients -> Process]
    BY <1>1, <1>2, ExitedFacts
  <2> QED
    BY <1>1, <2>1 DEF IInv, TypeOK
<1>6. EventInv' /\ AttachInv' /\ CreatedInv'
  BY <1>1, <1>3 DEF IInv, EventInv, AttachInv, CreatedInv
<1>7. QueueInv'
  <2>1. \A i \in 1..Len(queued) : queued[i] \in Clients /\ queued[i] \notin seen
    BY <1>4 DEF IInv, TypeOK, QueueInv, Waiting
  <2> QED
    BY <1>1, <1>3, <2>1 DEF IInv, QueueInv, Waiting
<1>8. ProgramInv'
  BY <1>1, <1>3, <1>4 DEF IInv, ProgramInv, seen
<1>9. AnswerInv'
  BY <1>2, <1>3 DEF AnswerInv
<1>10. LaunchNotForgotten'
  BY <1>1, <1>2, <1>3 DEF IInv, LaunchNotForgotten, Elements, AnswerOnce
<1> QED
  BY <1>5, <1>6, <1>7, <1>8, <1>9, <1>10 DEF IInv

-----------------------------------------------------------------------------
(***************************************************************************)
(* The event thread and the loader.                                        *)
(***************************************************************************)

\* The loader asks for the code, or rejects the request: only the event
\* thread's progress changes.
LEMMA LoaderStep == ASSUME IInv, LoaderAsks \/ LoaderRejects PROVE IInv'
<1>1. /\ ev # "idle" /\ ev' \in {"reading", "returning"}
      /\ ev' = "reading" => ev = "launching"
      /\ ev # "returning"
      /\ UNCHANGED <<procs, monitors, queued, created, tracking, signal, main, arg,
                      launchee, ecs, prog, code, owner, exits, dropped, aborted>>
  BY DEF LoaderAsks, LoaderRejects, objects, tracker, programs
<1>2. TypeOK'
  BY <1>1 DEF IInv, TypeOK
<1>3. EventInv' /\ CreatedInv' /\ ProgramInv' /\ AnswerInv' /\ AttachInv'
  BY <1>1 DEF IInv, EventInv, CreatedInv, ProgramInv, AnswerInv, AttachInv
<1>4. QueueInv' /\ LaunchNotForgotten'
  BY <1>1 DEF IInv, QueueInv, Waiting, LaunchNotForgotten, Elements
<1> QED
  BY <1>2, <1>3, <1>4 DEF IInv

\* The loader starts the program with the code it found, the launchee's.
LEMMA LoaderLoadsStep == ASSUME IInv, LoaderLoads PROVE IInv'
<1>1. /\ ev = "reading" /\ main = "idle" /\ ev' = "returning"
      /\ prog' = [prog EXCEPT ![launchee] = "started"]
      /\ code' = [code EXCEPT ![launchee] = ecs]
      /\ ecs' = None
      /\ UNCHANGED <<procs, monitors, queued, created, tracking, signal, main, arg,
                      launchee, owner, exits, dropped, aborted>>
  BY DEF LoaderLoads, objects, tracker
<1>2. /\ launchee \in Clients /\ created = <<launchee>> /\ ecs = launchee
      /\ prog[launchee] = "none"
  BY <1>1 DEF IInv, EventInv
<1>3. \A d \in Clients :
        /\ prog'[d] = IF d = launchee THEN "started" ELSE prog[d]
        /\ code'[d] = IF d = launchee THEN launchee ELSE code[d]
  BY <1>1, <1>2 DEF IInv, TypeOK
<1>4. TypeOK'
  BY <1>1, <1>2 DEF IInv, TypeOK, Live
<1>5. EventInv' /\ AttachInv' /\ AnswerInv'
  BY <1>1 DEF IInv, EventInv, AttachInv, AnswerInv
<1>6. CreatedInv'
  BY <1>1, <1>2, <1>3 DEF IInv, CreatedInv
<1>7. ProgramInv'
  <2>1. procs[launchee].state # "Created" /\ launchee \notin exits
    BY <1>2 DEF IInv, CreatedInv, ProgramInv
  <2> QED
    BY <1>1, <1>2, <1>3, <2>1 DEF IInv, ProgramInv
<1>8. QueueInv'
  <2>1. \A i \in 1..Len(queued) : queued[i] \in Clients /\ queued[i] # launchee
    BY <1>2 DEF IInv, TypeOK, QueueInv, Waiting
  <2> QED
    BY <1>1, <1>3, <2>1 DEF IInv, QueueInv, Waiting
<1>9. LaunchNotForgotten'
  BY <1>1 DEF IInv, LaunchNotForgotten, Elements
<1> QED
  BY <1>4, <1>5, <1>6, <1>7, <1>8, <1>9 DEF IInv

\* LaunchProgram returns.
LEMMA LaunchReturnsStep == ASSUME IInv, LaunchReturns PROVE IInv'
<1>1. ev = "returning" /\ launchee \in Clients /\ created = <<launchee>>
  BY DEF LaunchReturns, IInv, EventInv
<1>2. CASE prog[launchee] # "none"
  <2>1. /\ ev' = "idle" /\ launchee' = None
        /\ tracking' = tracking \cup {launchee}
        /\ UNCHANGED <<procs, monitors, queued, created, signal, main, arg, ecs, prog,
                        code, owner, exits, dropped, aborted>>
    BY <1>2 DEF LaunchReturns
  <2>2. TypeOK'
    BY <1>1, <2>1 DEF IInv, TypeOK
  <2>3. EventInv' /\ AttachInv' /\ AnswerInv'
    BY <2>1 DEF IInv, EventInv, AttachInv, AnswerInv
  <2>4. CreatedInv'
    BY <1>1, <1>2, <2>1, Singleton DEF IInv, CreatedInv
  <2>5. ProgramInv'
    BY <1>1, <1>2, <2>1 DEF IInv, ProgramInv
  <2>6. QueueInv'
    BY <2>1 DEF IInv, QueueInv, Waiting
  <2>7. LaunchNotForgotten'
    BY <1>1, <2>1, Singleton DEF IInv, LaunchNotForgotten, Elements
  <2> QED
    BY <2>2, <2>3, <2>4, <2>5, <2>6, <2>7 DEF IInv
<1>3. CASE prog[launchee] = "none"
  <2> DEFINE q == Exited(procs[launchee])
  <2>1. /\ ev' = "idle" /\ launchee' = None
        /\ procs' = [procs EXCEPT ![launchee] = q]
        /\ created' = <<>> /\ ecs' \in {None, ecs}
        /\ dropped' = dropped \cup {launchee}
        /\ UNCHANGED <<monitors, queued, tracking, signal, main, arg, prog, code, owner,
                        exits, aborted>>
    BY <1>3 DEF LaunchReturns
  <2>2. procs \in [Clients -> Process] /\ AnswerOnce(procs[launchee])
    BY <1>1 DEF IInv, TypeOK, AnswerInv
  <2>3. /\ q \in Process /\ q.state = "Exited" /\ q.run_opener = "none"
        /\ AnswerOnce(q)
    BY <1>1, <2>2, ExitedFacts
  <2> HIDE DEF q
  <2>4. \A d \in Clients : procs'[d] = IF d = launchee THEN q ELSE procs[d]
    BY <1>1, <2>1, <2>2
  <2>5. TypeOK'
    BY <1>1, <2>1, <2>3 DEF IInv, TypeOK
  <2>6. EventInv' /\ CreatedInv'
    BY <2>1 DEF EventInv, CreatedInv
  <2>7. AttachInv'
    BY <1>1, <1>3, <2>1, Singleton DEF IInv, AttachInv
  <2>8. ProgramInv'
    <3>1. \A c \in Clients : prog[c] # "started"
      BY <1>1, <1>3, Singleton DEF IInv, ProgramInv
    <3> QED
      BY <1>1, <1>3, <2>1, <2>3, <2>4, <3>1 DEF IInv, ProgramInv
  <2>9. QueueInv'
    <3>1. \A i \in 1..Len(queued) : queued[i] \in Clients /\ queued[i] # launchee
      BY <1>1 DEF IInv, TypeOK, QueueInv, Waiting
    <3>2. main = "queue" => arg # launchee
      BY <1>1 DEF IInv, QueueInv, Waiting
    <3> QED
      BY <2>1, <2>4, <3>1, <3>2 DEF IInv, QueueInv, Waiting
  <2>10. AnswerInv'
    BY <2>3, <2>4 DEF IInv, AnswerInv
  <2>11. LaunchNotForgotten'
    <3>1. Elements(created) = {launchee} /\ Elements(queued)' = Elements(queued)
      BY <1>1, <2>1, Singleton DEF Elements
    <3> QED
      BY <1>1, <2>1, <2>3, <2>4, <3>1 DEF IInv, LaunchNotForgotten, AnswerOnce
  <2> QED
    BY <2>5, <2>6, <2>7, <2>8, <2>9, <2>10, <2>11 DEF IInv
<1> QED
  BY <1>2, <1>3

\* What is left of the queue when its first k processes are passed over and
\* the next one is popped.
LEMMA PoppedQueue ==
  ASSUME NEW q \in Seq(Clients), NEW k \in 0..Len(q)
  PROVE  LET r == SubSeq(q, k + 2, Len(q))
         IN  /\ r \in Seq(Clients)
             /\ k = Len(q) => r = <<>>
             /\ k < Len(q) => Len(r) = Len(q) - (k + 1)
             /\ \A i \in 1..Len(r) : i + k + 1 \in 1..Len(q) /\ r[i] = q[i + k + 1]
             /\ \A i \in 1..Len(q) : \/ i \in 1..k \/ i = k + 1
                                      \/ i - (k + 1) \in 1..Len(r)
<1> DEFINE r == SubSeq(q, k + 2, Len(q))
<1>1. k \in Nat /\ Len(q) \in Nat /\ k <= Len(q)
  OBVIOUS
<1>2. CASE k = Len(q)
  <2>1. r = <<>>
    BY <1>1, <1>2
  <2> QED
    BY <1>1, <1>2, <2>1
<1>3. CASE k < Len(q)
  <2>1. r \in Seq(Clients) /\ Len(r) = Len(q) - (k + 1)
    BY <1>1, <1>3
  <2>2. \A i \in 1..Len(r) : r[i] = q[i + k + 1]
    BY <1>1, <1>3, <2>1
  <2> HIDE DEF r
  <2> QED
    BY <1>1, <1>3, <2>1, <2>2
<1> QED
  BY <1>1, <1>2, <1>3

\* The processes passed over, and what is left after the next one is popped.
Passed(k) == {queued[i] : i \in 1..k}
Rest(k) == SubSeq(queued, k + 2, Len(queued))

\* Where the processes of the queue go: those passed over, the one popped, and
\* the rest are different processes.
LEMMA PopFacts ==
  ASSUME IInv, NEW k \in 0..Len(queued)
  PROVE  LET r == Rest(k)
             gone == Passed(k)
         IN  /\ r \in Seq(Clients)
             /\ k = Len(queued) => r = <<>>
             /\ \A i, j \in 1..Len(r) : r[i] = r[j] => i = j
             /\ \A i \in 1..Len(r) :
                  /\ r[i] \in Clients /\ Waiting(r[i]) /\ r[i] \notin gone
                  /\ k < Len(queued) => r[i] # queued[k + 1]
             /\ \A c \in gone : c \in Clients /\ Waiting(c)
             /\ k < Len(queued) => /\ queued[k + 1] \in Clients /\ Waiting(queued[k + 1])
                                   /\ queued[k + 1] \notin gone
             /\ \A c \in Elements(queued) :
                  \/ c \in gone \/ c \in Elements(r)
                  \/ k < Len(queued) /\ c = queued[k + 1]
             /\ main = "queue" =>
                  /\ arg \notin gone /\ \A i \in 1..Len(r) : r[i] # arg
                  /\ k < Len(queued) => arg # queued[k + 1]
<1> DEFINE r == Rest(k)
           gone == Passed(k)
<1>1. queued \in Seq(Clients) /\ Len(queued) \in Nat /\ k \in Nat /\ k <= Len(queued)
  BY DEF IInv, TypeOK
<1>2. /\ r \in Seq(Clients)
      /\ k = Len(queued) => r = <<>>
      /\ k < Len(queued) => Len(r) = Len(queued) - (k + 1)
      /\ \A i \in 1..Len(r) : i + k + 1 \in 1..Len(queued) /\ r[i] = queued[i + k + 1]
      /\ \A i \in 1..Len(queued) : \/ i \in 1..k \/ i = k + 1
                                   \/ i - (k + 1) \in 1..Len(r)
  BY <1>1, PoppedQueue DEF Rest
<1> HIDE DEF r, gone
<1>3. /\ \A i, j \in 1..Len(queued) : queued[i] = queued[j] => i = j
      /\ \A i \in 1..Len(queued) : queued[i] \in Clients /\ Waiting(queued[i])
      /\ main = "queue" => \A i \in 1..Len(queued) : queued[i] # arg
  BY <1>1 DEF IInv, QueueInv
<1>4. Len(r) \in Nat
  BY <1>2
<1>5. \A i, j \in 1..Len(r) : r[i] = r[j] => i = j
  BY <1>1, <1>2, <1>3, <1>4
<1>6. \A i \in 1..Len(r) :
        /\ r[i] \in Clients /\ Waiting(r[i]) /\ r[i] \notin gone
        /\ k < Len(queued) => r[i] # queued[k + 1]
  <2> TAKE i \in 1..Len(r)
  <2>1. i + k + 1 \in 1..Len(queued) /\ r[i] = queued[i + k + 1] /\ i \in Nat /\ i >= 1
    BY <1>2, <1>4
  <2>2. \A m \in 1..(k + 1) : m <= Len(queued) => queued[m] # r[i]
    BY <1>1, <1>3, <2>1
  <2>3. r[i] \notin gone
    BY <1>1, <2>2 DEF gone, Passed
  <2>4. k < Len(queued) => r[i] # queued[k + 1]
    BY <1>1, <2>2
  <2> QED
    BY <1>3, <2>1, <2>3, <2>4
<1>7. \A c \in gone : c \in Clients /\ Waiting(c)
  BY <1>1, <1>3 DEF gone, Passed
<1>8. k < Len(queued) => /\ queued[k + 1] \in Clients /\ Waiting(queued[k + 1])
                         /\ queued[k + 1] \notin gone
  <2>1. k < Len(queued) => \A i \in 1..k : queued[i] # queued[k + 1]
    BY <1>1, <1>3
  <2> QED
    BY <1>1, <1>3, <2>1 DEF gone, Passed
<1>9. ASSUME NEW c \in Elements(queued)
      PROVE  \/ c \in gone \/ c \in Elements(r)
             \/ k < Len(queued) /\ c = queued[k + 1]
  <2>1. PICK i \in 1..Len(queued) : c = queued[i]
    BY <1>9 DEF Elements
  <2>2. CASE i \in 1..k
    BY <2>1, <2>2 DEF gone, Passed
  <2>3. CASE i = k + 1
    BY <1>1, <2>1, <2>3
  <2>4. CASE i - (k + 1) \in 1..Len(r)
    <3> DEFINE m == i - (k + 1)
    <3>1. r[m] = queued[m + k + 1] /\ m + k + 1 = i
      BY <1>1, <1>2, <2>1, <2>4
    <3> QED
      BY <2>1, <2>4, <3>1 DEF Elements
  <2> QED
    BY <1>2, <2>1, <2>2, <2>3, <2>4
<1>10. main = "queue" =>
         /\ arg \notin gone /\ \A i \in 1..Len(r) : r[i] # arg
         /\ k < Len(queued) => arg # queued[k + 1]
  <2> SUFFICES ASSUME main = "queue"
               PROVE  /\ arg \notin gone
                      /\ \A i \in 1..Len(r) : r[i] # arg
                      /\ k < Len(queued) => arg # queued[k + 1]
    OBVIOUS
  <2>1. arg \notin gone
    BY <1>1, <1>3 DEF gone, Passed
  <2>2. \A i \in 1..Len(r) : r[i] # arg
    BY <1>2, <1>3
  <2>3. k < Len(queued) => arg # queued[k + 1]
    BY <1>1, <1>3
  <2> QED
    BY <2>1, <2>2, <2>3
<1> QED
  BY <1>2, <1>5, <1>6, <1>7, <1>8, <1>9, <1>10 DEF r, gone

\* TryToLaunch when a process has been created and is not attached yet.
LEMMA NotReadyStep == ASSUME IInv, TryToLaunch, ~ReadyToLaunch PROVE IInv'
<1>1. /\ created # <<>> /\ signal' = "clear"
      /\ UNCHANGED <<procs, monitors, queued, created, tracking, main, arg, ev, launchee,
                      ecs, prog, code, owner, exits, dropped, aborted>>
  BY DEF TryToLaunch, ReadyToLaunch
<1>2. TypeOK'
  BY <1>1 DEF IInv, TypeOK
<1>3. EventInv' /\ CreatedInv' /\ ProgramInv' /\ AnswerInv' /\ AttachInv'
  BY <1>1 DEF IInv, EventInv, CreatedInv, ProgramInv, AnswerInv, AttachInv
<1>4. QueueInv' /\ LaunchNotForgotten'
  BY <1>1 DEF IInv, QueueInv, Waiting, LaunchNotForgotten, Elements
<1> QED
  BY <1>2, <1>3, <1>4 DEF IInv

\* TryToLaunch and PopQueuedProcess when nothing is created.
LEMMA ReadyStep == ASSUME IInv, TryToLaunch, ReadyToLaunch PROVE IInv'
<1>1. /\ ev = "idle" /\ created = <<>>
      /\ UNCHANGED <<monitors, tracking, main, arg, prog, code, owner, exits, aborted>>
      /\ signal' = "clear"
  BY DEF TryToLaunch, ReadyToLaunch
<1>2. PICK k \in 0..Len(queued) :
        LET gone == {queued[i] : i \in 1..k}
            ps == [c \in Clients |-> IF c \in gone THEN Exited(procs[c]) ELSE procs[c]]
        IN  /\ queued' = SubSeq(queued, k + 2, Len(queued))
            /\ \/ /\ k = Len(queued)
                  /\ procs' = ps
                  /\ UNCHANGED <<created, ev, launchee, ecs, dropped>>
               \/ /\ k < Len(queued) /\ queued[k + 1] \in Bad
                  /\ procs' = ps
                  /\ dropped' = dropped \cup {queued[k + 1]}
                  /\ UNCHANGED <<created, ev, launchee, ecs>>
               \/ /\ k < Len(queued) /\ queued[k + 1] \notin Bad
                  /\ procs' = [ps EXCEPT ![queued[k + 1]].ecs_pending = "yes"]
                  /\ created' = Append(created, queued[k + 1])
                  /\ ecs' = queued[k + 1]
                  /\ ev' = "launching" /\ launchee' = queued[k + 1]
                  /\ UNCHANGED dropped
  BY DEF TryToLaunch, ReadyToLaunch
<1> DEFINE gone == Passed(k)
           ps == [c \in Clients |-> IF c \in gone THEN Exited(procs[c]) ELSE procs[c]]
           next == queued[k + 1]
<1>3. /\ queued' \in Seq(Clients)
      /\ k = Len(queued) => queued' = <<>>
      /\ \A i, j \in 1..Len(queued') : queued'[i] = queued'[j] => i = j
      /\ \A i \in 1..Len(queued') :
           /\ queued'[i] \in Clients /\ Waiting(queued'[i]) /\ queued'[i] \notin gone
           /\ k < Len(queued) => queued'[i] # next
      /\ \A c \in gone : c \in Clients /\ Waiting(c)
      /\ k < Len(queued) => next \in Clients /\ Waiting(next) /\ next \notin gone
      /\ \A c \in Elements(queued) :
           c \in gone \/ c \in Elements(queued') \/ (k < Len(queued) /\ c = next)
      /\ main = "queue" =>
           /\ arg \notin gone /\ \A i \in 1..Len(queued') : queued'[i] # arg
           /\ k < Len(queued) => arg # next
  <2>1. queued' = Rest(k)
    BY <1>2 DEF Rest
  <2> QED
    BY <2>1, PopFacts
<1>4. \A c \in Clients : procs[c] \in Process /\ AnswerOnce(procs[c])
  BY DEF IInv, TypeOK, AnswerInv
<1>5. /\ ps \in [Clients -> Process]
      /\ \A c \in Clients :
           /\ c \in gone => /\ ps[c].state = "Exited" /\ ps[c].run_opener = "none"
                            /\ AnswerOnce(ps[c])
           /\ c \notin gone => ps[c] = procs[c]
  <2> HIDE DEF gone
  <2> QED
    BY <1>4, ExitedFacts
<1>6. /\ \/ procs' = ps /\ UNCHANGED <<created, ev, launchee, ecs>>
         \/ /\ k < Len(queued)
            /\ procs' = [ps EXCEPT ![next].ecs_pending = "yes"]
            /\ created' = Append(created, next) /\ ecs' = next
            /\ ev' = "launching" /\ launchee' = next
      /\ \/ k = Len(queued) /\ UNCHANGED dropped
         \/ k < Len(queued) /\ dropped' = dropped \cup {next}
         \/ k < Len(queued) /\ created' = Append(created, next) /\ UNCHANGED dropped
  BY <1>2, Zenon DEF Passed
<1> HIDE DEF gone, ps, next
<1>7. \/ UNCHANGED <<created, ev, launchee, ecs>>
      \/ /\ k < Len(queued) /\ created' = <<next>> /\ ecs' = next
         /\ ev' = "launching" /\ launchee' = next
  BY <1>1, <1>3, <1>6, Singleton
<1>8. /\ procs' \in [Clients -> Process]
      /\ \A c \in Clients :
           /\ procs'[c].state = IF c \in gone THEN "Exited" ELSE procs[c].state
           /\ procs'[c].run_opener = IF c \in gone THEN "none" ELSE procs[c].run_opener
           /\ AnswerOnce(procs'[c])
  <2>1. CASE procs' = ps
    BY <1>4, <1>5, <2>1
  <2>2. CASE k < Len(queued) /\ procs' = [ps EXCEPT ![next].ecs_pending = "yes"]
    <3> DEFINE q == [ps[next] EXCEPT !.ecs_pending = "yes"]
    <3>1. ps[next] \in Process /\ ps[next] = procs[next] /\ AnswerOnce(procs[next])
      BY <1>3, <1>4, <1>5, <2>2
    <3>2. q \in Process
      BY <3>1, FieldUpdate
    <3>3. /\ q.state = procs[next].state /\ q.run_opener = procs[next].run_opener
          /\ AnswerOnce(q)
      BY <3>1 DEF Process, AnswerOnce
    <3>4. procs' = [ps EXCEPT ![next] = q]
      BY <2>2
    <3> HIDE DEF q
    <3> QED
      BY <1>3, <1>4, <1>5, <2>2, <3>2, <3>3, <3>4
  <2> QED
    BY <1>6, <2>1, <2>2
<1>9. \A c \in gone : prog[c] = "none" /\ c \in Clients
  BY <1>3 DEF Waiting
<1>10. TypeOK'
  <2>1. created' \in Seq(Clients) /\ Len(created') <= 1
    <3>1. CASE UNCHANGED created
      BY <3>1 DEF IInv, TypeOK
    <3>2. CASE k < Len(queued) /\ created' = <<next>>
      <4>1. next \in Clients
        BY <1>3, <3>2
      <4> QED
        BY <3>2, <4>1
    <3> QED
      BY <1>7, <3>1, <3>2
  <2>2. dropped' \subseteq Clients
    BY <1>3, <1>6 DEF IInv, TypeOK
  <2>3. launchee' \in Clients \cup {None} /\ ecs' \in Clients \cup {None}
        /\ ev' \in {"idle", "launching", "reading", "returning"}
    BY <1>3, <1>7 DEF IInv, TypeOK
  <2> QED
    BY <1>1, <1>3, <1>8, <2>1, <2>2, <2>3 DEF IInv, TypeOK
<1>11. EventInv'
  BY <1>1, <1>3, <1>7 DEF EventInv, Waiting
<1>12. QueueInv'
  <2>1. ASSUME NEW c \in Clients, Waiting(c), c \notin gone,
               k < Len(queued) => c # next
        PROVE  Waiting(c)'
    <3>1. procs'[c].state = "Started" /\ prog'[c] = "none"
      BY <1>1, <1>8, <2>1 DEF Waiting
    <3>2. created' # <<c>>
      BY <1>1, <1>3, <1>7, <2>1, Singleton
    <3> QED
      BY <3>1, <3>2 DEF Waiting
  <2>2. \A i \in 1..Len(queued') : Waiting(queued[i])'
    <3> SUFFICES ASSUME NEW i \in 1..Len(queued') PROVE Waiting(queued[i])'
      OBVIOUS
    <3> DEFINE c == queued'[i]
    <3>1. c \in Clients /\ Waiting(c) /\ c \notin gone /\ (k < Len(queued) => c # next)
      BY <1>3
    <3> QED
      BY <2>1, <3>1 DEF Waiting
  <2>3. main = "queue" => Waiting(arg)'
    <3>1. main = "queue" => arg \in Clients /\ Waiting(arg)
      BY DEF IInv, QueueInv
    <3> QED
      BY <1>1, <1>3, <2>1, <3>1 DEF Waiting
  <2>4. \A i, j \in 1..Len(queued') : queued'[i] = queued'[j] => i = j
    BY <1>3
  <2>5. main' = "queue" =>
          arg' \in Clients /\ \A i \in 1..Len(queued') : queued'[i] # arg'
    BY <1>1, <1>3 DEF IInv, QueueInv
  <2> QED
    BY <1>1, <2>2, <2>3, <2>4, <2>5 DEF QueueInv
<1>13. CreatedInv'
  <2>1. k < Len(queued) =>
          /\ next \in Clients /\ procs'[next].state = "Started" /\ prog[next] = "none"
    BY <1>3, <1>8 DEF Waiting
  <2>2. k < Len(queued) => owner[next] = None
    BY <2>1 DEF IInv, ProgramInv
  <2> QED
    BY <1>1, <1>7, <2>1, <2>2, Singleton DEF CreatedInv
<1>14. ProgramInv'
  BY <1>1, <1>7, <1>8, <1>9 DEF IInv, ProgramInv
<1>15. AttachInv'
  BY <1>1, Singleton DEF IInv, AttachInv
<1>16. AnswerInv'
  BY <1>8 DEF AnswerInv
<1>17. LaunchNotForgotten'
  <2>1. queued' # <<>> /\ created' = <<>> /\ ev' = "idle" => dropped' # {}
    BY <1>1, <1>3, <1>6
  <2>2. \A c \in Clients : procs'[c].run_opener = "held" =>
          \/ c \in Elements(queued)' \cup Elements(created)' \cup dropped'
          \/ main' = "queue" /\ arg' = c
    <3> SUFFICES ASSUME NEW c \in Clients, procs'[c].run_opener = "held"
                 PROVE  \/ c \in Elements(queued)' \cup Elements(created)' \cup dropped'
                        \/ main' = "queue" /\ arg' = c
      OBVIOUS
    <3>1. c \notin gone /\ procs[c].run_opener = "held"
      BY <1>8
    <3>2. Elements(created) = {}
      BY <1>1 DEF Elements
    <3>3. c \in Elements(queued) \/ c \in dropped \/ (main = "queue" /\ arg = c)
      BY <3>1, <3>2 DEF IInv, LaunchNotForgotten
    <3>4. dropped \subseteq dropped'
      BY <1>6
    <3>5. CASE c \in Elements(queued)
      <4>1. c \in Elements(queued') \/ (k < Len(queued) /\ c = next)
        BY <1>3, <3>1, <3>5
      <4>2. k < Len(queued) => next \in dropped' \/ created' = <<next>>
        BY <1>1, <1>3, <1>6, Singleton
      <4>3. created' = <<next>> /\ c = next => c \in Elements(created')
        BY Singleton
      <4>4. Elements(queued)' = Elements(queued') /\ Elements(created)' = Elements(created')
        BY DEF Elements
      <4> QED
        BY <4>1, <4>2, <4>3, <4>4
    <3> QED
      BY <1>1, <3>3, <3>4, <3>5
  <2>3. \A c \in Clients : procs'[c].answer # "twice"
    BY <1>8 DEF AnswerOnce
  <2> QED
    BY <2>1, <2>2, <2>3 DEF LaunchNotForgotten
<1> QED
  BY <1>10, <1>11, <1>12, <1>13, <1>14, <1>15, <1>16, <1>17 DEF IInv

-----------------------------------------------------------------------------
(***************************************************************************)
(* The theorems.                                                           *)
(***************************************************************************)

\* Nothing has been launched at first.
LEMMA InitIInv == Init => IInv
<1> SUFFICES ASSUME Init PROVE IInv
  OBVIOUS
<1> USE ShellAssumption
<1>1. \A c \in Clients : procs[c] = NewProcess
  BY DEF Init
<1>2. \A c \in Clients : /\ procs[c] \in Process /\ AnswerOnce(procs[c])
                          /\ procs[c].run_opener = "none"
  BY <1>1, NewProcessFacts DEF NewProcess
<1>3. TypeOK
  <2>1. procs \in [Clients -> Process]
    BY NewProcessFacts DEF Init
  <2> QED
    BY <2>1 DEF Init, TypeOK
<1>4. EventInv /\ QueueInv /\ CreatedInv /\ ProgramInv /\ AttachInv
  BY DEF Init, EventInv, QueueInv, CreatedInv, ProgramInv, AttachInv
<1>5. AnswerInv /\ LaunchNotForgotten
  BY <1>2 DEF Init, AnswerInv, LaunchNotForgotten, AnswerOnce
<1> QED
  BY <1>3, <1>4, <1>5 DEF IInv

\* Steps that leave everything as it is.
LEMMA StutterStep == ASSUME IInv, UNCHANGED vars PROVE IInv'
<1> USE DEF vars, objects, tracker, threads, programs
<1>1. TypeOK'
  BY DEF IInv, TypeOK
<1>2. EventInv' /\ CreatedInv' /\ ProgramInv' /\ AttachInv' /\ AnswerInv'
  BY DEF IInv, EventInv, CreatedInv, ProgramInv, AttachInv, AnswerInv
<1>3. QueueInv' /\ LaunchNotForgotten'
  BY DEF IInv, QueueInv, Waiting, LaunchNotForgotten, Elements
<1> QED
  BY <1>1, <1>2, <1>3 DEF IInv

\* Every step of either thread, of the loader and of the programs.
LEMMA NextIInv == IInv /\ [Next]_vars => IInv'
<1> SUFFICES ASSUME IInv, [Next]_vars PROVE IInv'
  OBVIOUS
<1>1. ASSUME MainNext PROVE IInv'
  BY <1>1, LaunchStep, TerminateStep, CloseStep, ContinueStep, OpenShellShimStep,
     ShimWaitsStep, QueueLaunchStep, AttachHostProcessStep, ShellEventStep,
     ShellEventsStep DEF MainNext
<1>2. ASSUME EventThreadNext PROVE IInv'
  BY <1>2, NotReadyStep, ReadyStep, LaunchReturnsStep DEF EventThreadNext
<1>3. ASSUME ConsoleNext PROVE IInv'
  BY <1>3, LoaderStep, LoaderLoadsStep, ShimResumesStep, ProgramEndsStep DEF ConsoleNext
<1>4. ASSUME WatchdogExpires PROVE IInv'
  BY <1>4, AbortStep DEF WatchdogExpires
<1> QED
  BY <1>1, <1>2, <1>3, <1>4, StutterStep DEF Next

\* The inductive invariant holds throughout.
LEMMA Invariant == Spec => []IInv
<1> QED
  BY InitIInv, NextIInv, PTL DEF Spec

\* The tracker's lists, threads and programs keep their types, and no more than
\* one process is created and not attached, for any clients.
THEOREM TypeCorrect == Spec => []TypeOK
<1>1. IInv => TypeOK
  BY DEF IInv
<1> QED
  BY <1>1, Invariant, PTL

\* A program runs the code of the process it was launched for, is attached to no
\* other, and its exit is never missed, whatever clients do, however launches
\* fail and whenever programs end, although the main thread, the event thread
\* and the loader interleave (ShellTracker.cpp).
THEOREM ProgramOfItsProcess == Spec => []ProgramMatchesProcess
<1>1. IInv => ProgramMatchesProcess
  BY DEF IInv, ProgramInv, ProgramMatchesProcess
<1> QED
  BY <1>1, Invariant, PTL

\* Unless a launch failed, the event thread is signalled while a process can be
\* launched, and a LAUNCH request that is unanswered belongs to a process the
\* tracker still knows; none is answered twice.
THEOREM LaunchesRemembered == Spec => []LaunchNotForgotten
<1>1. IInv => LaunchNotForgotten
  BY DEF IInv
<1> QED
  BY <1>1, Invariant, PTL
=============================================================================
