----------------------------- MODULE UsbkDevice -----------------------------
(***************************************************************************)
(* twibd's USB backend on Windows (twib/daemon/USBKBackend): a device with *)
(* one overlapped transfer per endpoint.  Requests are sent by the daemon's*)
(* main thread under state_mutex; completions, the death of the device and *)
(* its removal are served by the event thread.  Neither Kill nor           *)
(* DispatchResponse takes the mutex.  Request 0 identifies the device and  *)
(* is sent when it is found; the others follow once the daemon knows the   *)
(* device.                                                                 *)
(***************************************************************************)
EXTENDS Integers, Sequences

CONSTANTS Size,       \* payload size of the requests 1..N, in units of a transfer's limit
          RspSize,    \* payload size of their responses
          RspObjs,    \* number of object ids of their responses
          MayFail     \* whether a transfer or a submission may fail

N == Len(Size)

VARIABLES dev,      \* flags of the device, isl_lock and the scan's counter, the request
                    \* going out, where the event thread is
          sender,   \* the main thread in SendRequest, and whether pending_requests was
                    \* changed while it adds to it
          act,      \* is_active of the four transfers
          rsp,      \* the response coming in
          pending,  \* pending_requests
          console,  \* requests the console has not answered yet
          seen      \* ghost: what the daemon was given, what went wrong
vars == <<dev, sender, act, rsp, pending, console, seen>>

Silent == [req |-> -1, got |-> 0]
SizeOf(i) == IF i = 0 THEN 0 ELSE Size[i]
RspSizeOf(i) == IF i = 0 THEN 1 ELSE RspSize[i]
RspObjsOf(i) == IF i = 0 THEN 0 ELSE RspObjs[i]

Init ==
  /\ dev = [state |-> "AVAILABLE", deletion |-> FALSE, isl |-> FALSE, scan |-> 0, ready |-> FALSE,
            mapped |-> FALSE, listed |-> FALSE, found |-> FALSE, freed |-> FALSE, out |-> 0, sent |-> 0,
            at |-> "loop"]
  /\ sender = [at |-> "idle", req |-> 0, raced |-> FALSE]
  /\ act = {} /\ rsp = Silent
  /\ pending = {} /\ console = {}
  /\ seen = [given |-> [i \in 1..N |-> 0], dropped |-> {}, lost |-> {}, unheard |-> FALSE,
             refused |-> FALSE, short |-> FALSE, twice |-> FALSE, aborted |-> FALSE]

-----------------------------------------------------------------------------
\* Kill, by the event thread.  It wakes whoever sleeps at that moment.
Unlocked(d) == [d EXCEPT !.isl = FALSE, !.scan = IF d.isl THEN @ - 1 ELSE @]
Kill(d) == [Unlocked(d) EXCEPT !.deletion = TRUE]
Woken(m) == IF m.at = "asleep" THEN [m EXCEPT !.at = "woken"] ELSE m

\* Submit, by the event thread: refused while the transfer is active; the
\* driver may fail it, and then the device is killed.  The four variables a
\* submission may change, from d, m, the active transfers a and s.
Submit(t, d, m, a, s) ==
  \/ /\ dev' = d /\ sender' = m /\ act' = a \cup {t}
     /\ seen' = [s EXCEPT !.refused = @ \/ t \in a]
  \/ /\ t \notin a /\ MayFail
     /\ dev' = Kill(d) /\ sender' = Woken(m) /\ act' = a /\ seen' = s

\* DetectDevice, AddDevice, AddTwiliDevice: the interface is taken when its
\* driver and its endpoints are in order.  Begin awaits a header; if that cannot
\* be submitted the device is killed and SendRequest returns at once.  Else it
\* sends the identification, which holds up the daemon's initial scan.
AddTwiliDevice ==
  /\ ~dev.found
  /\ LET d == [dev EXCEPT !.found = TRUE, !.listed = TRUE, !.isl = TRUE, !.scan = 1] IN
     \/ /\ pending' = {0}
        /\ Submit("meta out", [d EXCEPT !.state = "BUSY"], sender, {"meta in"}, seen)
     \/ /\ MayFail
        /\ dev' = Kill(d) /\ UNCHANGED <<sender, act, pending, seen>>
  /\ UNCHANGED <<rsp, console>>

\* The mutex is held from the test of the state until the thread sleeps or
\* has submitted its request.
MutexFree == sender.at \notin {"tested", "pushing", "unlocking"}

-----------------------------------------------------------------------------
\* SendRequest, called for the next request or woken from its wait.
Calling == sender.at = "woken" \/ (sender.at = "idle" /\ dev.mapped /\ dev.listed /\ sender.req < N)
Current == IF sender.at = "idle" THEN sender.req + 1 ELSE sender.req

\* Mutant of Available: a request is submitted whatever the state.
AlwaysAvailable == TRUE

\* The state in which a request may be submitted.
Available == dev.state = "AVAILABLE"

\* The request is given up silently when the device is being deleted,
SendDropped ==
  /\ Calling
  /\ dev.deletion
  /\ sender' = [sender EXCEPT !.at = "idle", !.req = Current]
  /\ seen' = [seen EXCEPT !.dropped = @ \cup {Current}]
  /\ UNCHANGED <<dev, act, rsp, pending, console>>

\* is taken up when the device is available,
SendStarts ==
  /\ Calling
  /\ Available /\ ~dev.deletion
  /\ dev' = [dev EXCEPT !.state = "BUSY", !.out = Current, !.sent = 0]
  /\ sender' = [at |-> "pushing", req |-> Current, raced |-> FALSE]
  /\ UNCHANGED <<act, rsp, pending, console, seen>>

\* and then is in pending_requests, unless the event thread changed the list at
\* the same time, and submitted.  If that fails Kill, here with the mutex held,
\* tests isl_lock.
SendRequest ==
  /\ sender.at = "pushing"
  /\ \E kept \in (IF sender.raced THEN BOOLEAN ELSE {TRUE}) :
       LET s == IF kept THEN seen ELSE [seen EXCEPT !.lost = @ \cup {sender.req}] IN
       /\ pending' = IF kept THEN pending \cup {sender.req} ELSE pending
       /\ \/ /\ sender' = [sender EXCEPT !.at = "idle"]
             /\ act' = act \cup {"meta out"}
             /\ seen' = [s EXCEPT !.refused = @ \/ "meta out" \in act]
             /\ UNCHANGED dev
          \/ /\ MayFail /\ "meta out" \notin act
             /\ dev' = [dev EXCEPT !.deletion = TRUE]
             /\ sender' = [sender EXCEPT !.at = IF dev.isl THEN "unlocking" ELSE "idle"]
             /\ seen' = s /\ UNCHANGED act
  /\ UNCHANGED <<rsp, console>>

\* unique_lock::unlock of isl_lock, after it was seen to be locked.  If the
\* other thread has unlocked it meanwhile, the counter is decremented again or
\* the second unlock throws.
UnlockScan(d) ==
  \/ dev.isl /\ dev' = Unlocked(d) /\ UNCHANGED seen
  \/ ~dev.isl /\ dev' = [d EXCEPT !.scan = @ - 1] /\ seen' = [seen EXCEPT !.twice = TRUE]
  \/ ~dev.isl /\ dev' = d /\ seen' = [seen EXCEPT !.aborted = TRUE]

KillUnlocks ==
  /\ sender.at = "unlocking"
  /\ UnlockScan(dev)
  /\ sender' = [sender EXCEPT !.at = "idle"]
  /\ UNCHANGED <<act, rsp, pending, console>>

\* or waits: the test and the sleep are two steps for a thread that does not
\* take the mutex.
SendMustWait ==
  /\ Calling
  /\ ~Available /\ ~dev.deletion
  /\ sender' = [sender EXCEPT !.at = "tested", !.req = Current]
  /\ UNCHANGED <<dev, act, rsp, pending, console, seen>>

Sleep ==
  /\ sender.at = "tested"
  /\ sender' = [sender EXCEPT !.at = "asleep"]
  /\ seen' = [seen EXCEPT !.unheard = @ \/ dev.deletion]
  /\ UNCHANGED <<dev, act, rsp, pending, console>>

-----------------------------------------------------------------------------
\* The event thread: a transfer has completed.
SetAvailable(d) == [d EXCEPT !.state = "AVAILABLE"]
NotifyOne(m) == Woken(m)

InLoop == dev.listed /\ dev.at = "loop"
Serving(t) == InLoop /\ t \in act

MetaOutTransferCompleted ==
  /\ Serving("meta out") /\ MutexFree
  /\ IF SizeOf(dev.out) > 0
     THEN /\ Submit("data out", dev, sender, act \ {"meta out"}, seen)
          /\ UNCHANGED console
     ELSE /\ dev' = SetAvailable(dev) /\ sender' = NotifyOne(sender)
          /\ act' = act \ {"meta out"}
          /\ console' = console \cup {dev.out}
          /\ UNCHANGED seen
  /\ UNCHANGED <<rsp, pending>>

DataOutTransferCompleted ==
  /\ Serving("data out")
  /\ LET d == [dev EXCEPT !.sent = @ + 1] IN
     IF d.sent < SizeOf(dev.out)
     THEN /\ Submit("data out", d, sender, act \ {"data out"}, seen)
          /\ UNCHANGED console
     ELSE /\ MutexFree
          /\ dev' = SetAvailable(d) /\ sender' = NotifyOne(sender)
          /\ act' = act \ {"data out"}
          /\ console' = console \cup {dev.out}
          /\ UNCHANGED seen
  /\ UNCHANGED <<rsp, pending>>

\* DispatchResponse: the request is no longer pending, which is seen to without
\* the mutex; the identification is taken or the response handed to the daemon;
\* the next header is awaited, if it can be.  An identification that reports an
\* error kills the device.
NoLongerPending(i) == pending \ {i}
Disturbed(m) == IF m.at = "pushing" THEN [m EXCEPT !.raced = TRUE] ELSE m

DispatchResponse(i, got, a) ==
  /\ pending' = NoLongerPending(i)
  /\ rsp' = Silent
  /\ LET m == Disturbed(sender) IN
     \/ i = 0 /\ Submit("meta in", [dev EXCEPT !.ready = TRUE], m, a, seen)
     \/ i = 0 /\ MayFail /\ Submit("meta in", Kill(dev), Woken(m), a, seen)
     \/ /\ i # 0
        /\ Submit("meta in", dev, m, a,
                  [seen EXCEPT !.given[i] = @ + 1, !.short = @ \/ got < RspSizeOf(i)])

\* A header: the console answers one of the requests it has.
MetaInTransferCompleted ==
  /\ Serving("meta in")
  /\ \E i \in console :
       /\ console' = console \ {i}
       /\ IF RspSizeOf(i) > 0 \/ RspObjsOf(i) > 0
          THEN /\ rsp' = [req |-> i, got |-> 0]
               /\ Submit("data in", dev, sender, act \ {"meta in"}, seen)
               /\ UNCHANGED pending
          ELSE DispatchResponse(i, 0, act \ {"meta in"})

\* More payload, the object ids after the payload, or the end.
MorePayload(got) == got < RspSizeOf(rsp.req)

DataInTransferCompleted ==
  /\ Serving("data in")
  /\ LET inPayload == rsp.got < RspSizeOf(rsp.req)
         got == IF inPayload THEN rsp.got + 1 ELSE rsp.got
     IN IF inPayload /\ (MorePayload(got) \/ RspObjsOf(rsp.req) > 0)
        THEN /\ rsp' = [rsp EXCEPT !.got = got]
             /\ Submit("data in", dev, sender, act \ {"data in"}, seen)
             /\ UNCHANGED pending
        ELSE DispatchResponse(rsp.req, got, act \ {"data in"})
  /\ UNCHANGED console

\* Signal of a transfer that failed; object ids of the wrong size.
TransferFails ==
  /\ MayFail /\ InLoop /\ act # {} /\ ~dev.deletion
  /\ dev' = Kill(dev) /\ sender' = Woken(sender)
  /\ UNCHANGED <<act, rsp, pending, console, seen>>

-----------------------------------------------------------------------------
\* Prepare: a deleted device is taken from the daemon and from the list, an
\* identified one is given to the daemon.
PrepareRemove ==
  /\ InLoop /\ dev.deletion
  /\ dev' = [dev EXCEPT !.listed = FALSE]
  /\ UNCHANGED <<sender, act, rsp, pending, console, seen>>

PrepareAdd ==
  /\ InLoop /\ ~dev.deletion /\ dev.ready /\ ~dev.mapped
  /\ dev' = [dev EXCEPT !.mapped = TRUE, !.at = "mark"]
  /\ UNCHANGED <<sender, act, rsp, pending, console, seen>>

\* MarkAdded tests isl_lock; if it is locked, the next step unlocks it.
MarkAdded ==
  /\ dev.at = "mark"
  /\ dev' = [dev EXCEPT !.at = IF dev.isl THEN "unlock" ELSE "loop"]
  /\ UNCHANGED <<sender, act, rsp, pending, console, seen>>

MarkAddedUnlocks ==
  /\ dev.at = "unlock"
  /\ UnlockScan([dev EXCEPT !.at = "loop"])
  /\ UNCHANGED <<sender, act, rsp, pending, console>>


\* The requests the destructor answers with an error.
PendingErrors == pending \ {0}

\* The destructor, when the last reference is gone.
Destroy ==
  /\ dev.found /\ ~dev.listed /\ ~dev.freed /\ sender.at = "idle"
  /\ dev' = [Unlocked(dev) EXCEPT !.freed = TRUE]
  /\ seen' = [seen EXCEPT !.given = [i \in 1..N |-> IF i \in PendingErrors THEN @[i] + 1 ELSE @[i]]]
  /\ UNCHANGED <<sender, act, rsp, pending, console>>

-----------------------------------------------------------------------------
MainThread == ~seen.aborted /\ (SendDropped \/ SendStarts \/ SendRequest \/ KillUnlocks \/ SendMustWait \/ Sleep)
EventThread == ~seen.aborted /\ \/ MetaOutTransferCompleted \/ DataOutTransferCompleted
                                \/ MetaInTransferCompleted \/ DataInTransferCompleted
                                \/ PrepareRemove \/ PrepareAdd \/ MarkAdded \/ MarkAddedUnlocks \/ Destroy
Next == AddTwiliDevice \/ MainThread \/ EventThread \/ (~seen.aborted /\ TransferFails)

\* Both threads run; a transfer that was submitted completes, and the console
\* answers.
Fairness == WF_vars(MainThread) /\ WF_vars(EventThread)
Spec == Init /\ [][Next]_vars /\ Fairness

-----------------------------------------------------------------------------
\* A transfer is never submitted while it is active: the request or response
\* it stands for would be lost without an error.
NoSubmitRefused == ~seen.refused

\* A response is handed to the daemon with all of its payload, and a request
\* has one: the console's, or the error of a device that went away.
WholeAndOnce == ~seen.short /\ \A i \in 1..N : seen.given[i] <= 1

\* The main thread sleeps only while the request ahead of it is on its way -
\* unless Kill, which does not take the mutex, came between test and sleep.
SleeperHasWaker ==
  sender.at = "asleep" =>
    \/ seen.unheard
    \/ ~dev.deletion /\ dev.listed /\ act \cap {"meta out", "data out"} # {}

\* The scan's counter counts this device's lock, unless MarkAdded and Kill
\* released it at the same time.
ScanCounted == seen.twice \/ dev.scan = IF dev.isl THEN 1 ELSE 0

\* Every request is answered, and the daemon's initial scan does not wait for
\* this device for ever.  Not answered: a request that finds the device
\* deleted, one that pending_requests lost, those of a device whose sender
\* missed the wake-up, and those of a twibd that a second unlock has ended.
Settled(i) == seen.given[i] > 0 \/ i \in seen.dropped \cup seen.lost \/ seen.unheard \/ seen.aborted
Waiting == dev.isl \/ \E i \in 1..N : sender.req >= i /\ ~Settled(i)
Answered == Waiting ~> ~Waiting
=============================================================================
