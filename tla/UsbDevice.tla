----------------------------- MODULE UsbDevice -----------------------------
(***************************************************************************)
(* One device of twibd's USB backend (twib/daemon/USBBackend.cpp): its     *)
(* four libusb transfers, the state_mutex and state_cv by which the        *)
(* dispatcher waits for the outgoing pair of transfers, and the initial    *)
(* scan lock LIST_DEVICES waits for.  Daemon.tla abstracts all of it into  *)
(* SendRequest, Receive, Fail and Destroy.                                 *)
(*                                                                         *)
(* Two threads: the dispatcher (dpc) calls SendRequest, the event thread   *)
(* (epc) runs the transfers' callbacks and the loop of event_thread_func.  *)
(* Kill, called by either, takes no mutex.  A callback is one step, except *)
(* that it waits for state_mutex where the code locks it.                  *)
(*                                                                         *)
(* External: libusb (a transfer completes, times out or fails) and the     *)
(* console (it answers a request that was transferred completely).         *)
(***************************************************************************)
EXTENDS Integers

CONSTANTS
  MaxRequests, \* bound: requests after the identification
  Pieces,      \* payload sizes, in transfers of at most 64 KiB
  MayFail      \* BOOLEAN if transfers and submissions may fail, else {FALSE}

ASSUME RequestsAssumption == MaxRequests \in Nat
ASSUME PiecesAssumption == Pieces \subseteq Nat
ASSUME MayFailAssumption == MayFail \subseteq BOOLEAN

VARIABLES
  life,      \* "off", "listed" in devices, "dropped" from it, or "destroyed"
  mapped,    \* the daemon's map has the device
  ready, added, flagged,  \* ready_flag, added_flag, deletion_flag
  leaked,    \* a SharedPtrForTransfer whose transfer was never submitted
  state,     \* AVAILABLE or BUSY
  tmeta, tdata,  \* transferring_meta, transferring_data
  mutex,     \* who holds state_mutex between steps: "free" or "disp"
  tfers,     \* transfers in flight
  out,       \* request_out: its tag and the transfers its payload still needs
  in,        \* response_in: its tag, the transfers and the objects to come
  pending,   \* tags in pending_requests
  raced,     \* pending_requests changed while the dispatcher adds to it
  wire,      \* tags of the requests the console has and has not answered
  answers,   \* how many responses each request of a client got
  sent,      \* number of requests the dispatcher has taken up
  dpc, epc,  \* where the two threads are
  probing,   \* the backend's own isl_lock
  isl,       \* the device's isl_lock
  counter,   \* InitialScanLock::counter
  twice,     \* both threads released isl_lock
  aborted    \* an exception nobody catches

scanVars == <<probing, isl, counter, twice, aborted>>
vars == <<life, mapped, ready, added, flagged, leaked, state, tmeta, tdata, mutex,
          tfers, out, in, pending, raced, wire, answers, sent, dpc, epc,
          probing, isl, counter, twice, aborted>>

Tags == 1..MaxRequests
Ident == 0   \* the identification request, of client 0xffffffff
Transfers == {"meta_out", "data_out", "meta_in", "data_in"}

Init ==
  /\ life = "off" /\ mapped = FALSE
  /\ ready = FALSE /\ added = FALSE /\ flagged = FALSE /\ leaked = FALSE
  /\ state = "AVAILABLE" /\ tmeta = FALSE /\ tdata = FALSE /\ mutex = "free"
  /\ tfers = {}
  /\ out = [tag |-> Ident, left |-> 0]
  /\ in = [tag |-> Ident, left |-> 0, objects |-> FALSE]
  /\ pending = {} /\ raced = FALSE
  /\ wire = {}
  /\ answers = [t \in Tags |-> 0]
  /\ sent = 0
  /\ dpc = "idle" /\ epc = "loop"
  /\ probing = TRUE /\ isl = FALSE /\ counter = 1 /\ twice = FALSE /\ aborted = FALSE

-----------------------------------------------------------------------------
(***************************************************************************)
(* What the callbacks share.                                               *)
(***************************************************************************)

\* Mutant of Kill: the scan lock is released without looking whether it is held.
KillUnlocksAlways ==
  /\ flagged' = TRUE
  /\ isl' = FALSE
  /\ counter' = counter - 1
  /\ dpc' = IF dpc = "waiting" THEN "woken" ELSE dpc

\* Kill by the event thread.  Nothing keeps the dispatcher from being between
\* its test of deletion_flag and its wait.
Kill ==
  /\ flagged' = TRUE
  /\ isl' = FALSE
  /\ counter' = IF isl THEN counter - 1 ELSE counter
  /\ dpc' = IF dpc = "waiting" THEN "woken" ELSE dpc

\* Inside the callback of transfer `done' transfer t is submitted, or cannot
\* be, which kills the device and leaks the reference made for t.
Submit(done, t) ==
  \/ /\ tfers' = (tfers \ done) \cup {t}
     /\ UNCHANGED <<leaked, flagged, isl, counter, dpc>>
  \/ /\ TRUE \in MayFail
     /\ tfers' = tfers \ done
     /\ leaked' = TRUE
     /\ Kill

\* Mutant of Available: nobody is notified.
AvailableSilently ==
  IF ~tmeta' /\ ~tdata' THEN state' = "AVAILABLE" /\ UNCHANGED dpc
                        ELSE UNCHANGED <<state, dpc>>

\* Both outgoing transfers are done: the dispatcher may send the next request.
Available ==
  IF ~tmeta' /\ ~tdata'
    THEN /\ state' = "AVAILABLE"
         /\ dpc' = IF dpc = "waiting" THEN "woken" ELSE dpc
    ELSE UNCHANGED <<state, dpc>>

\* The event thread is in libusb_handle_events.
InEvents == epc = "loop" /\ ~aborted

-----------------------------------------------------------------------------
(***************************************************************************)
(* Outgoing transfers.                                                     *)
(***************************************************************************)

\* The device object is made, listed and begun: the first meta-in transfer and
\* the identification are submitted.  A submission that fails kills the device;
\* SendRequest then returns at once.
Begin ==
  /\ InEvents
  /\ life = "off"
  /\ life' = "listed"
  /\ \E in_fails, out_fails \in MayFail :
       LET sends == ~in_fails /\ ~out_fails
       IN  /\ tfers' = IF in_fails THEN {}
                       ELSE IF out_fails THEN {"meta_in"} ELSE {"meta_in", "meta_out"}
           /\ leaked' = ~sends
           /\ flagged' = ~sends
           /\ isl' = sends
           /\ counter' = IF sends THEN counter + 1 ELSE counter
           /\ state' = IF in_fails THEN state ELSE "BUSY"
           /\ tmeta' = ~in_fails
           /\ pending' = IF in_fails THEN {} ELSE {Ident}
  /\ UNCHANGED <<mapped, ready, added, tdata, mutex, out, in, raced, wire, answers, sent,
                 dpc, epc, probing, twice, aborted>>

\* Mutant of MetaOutDone: the device is available before the payload is sent.
MetaOutDoneEarly ==
  /\ InEvents /\ mutex = "free"
  /\ "meta_out" \in tfers
  /\ tfers' = (tfers \ {"meta_out"}) \cup (IF out.left > 0 THEN {"data_out"} ELSE {})
  /\ tmeta' = FALSE /\ tdata' = FALSE
  /\ Available
  /\ wire' = IF out.left > 0 THEN wire ELSE wire \cup {out.tag}
  /\ UNCHANGED <<life, mapped, ready, added, leaked, flagged, mutex, out, in, pending,
                 raced, answers, sent, epc, scanVars>>

\* MetaOutTransferCompleted: the payload follows, if there is one.
MetaOutDone ==
  /\ InEvents /\ mutex = "free"
  /\ "meta_out" \in tfers
  /\ \/ /\ out.left > 0
        /\ tdata' = TRUE
        /\ Submit({"meta_out"}, "data_out")
        /\ tmeta' = ("data_out" \notin tfers')
        /\ UNCHANGED <<state, wire>>
     \/ /\ out.left = 0
        /\ tfers' = tfers \ {"meta_out"}
        /\ tmeta' = FALSE
        /\ UNCHANGED tdata
        /\ Available
        /\ wire' = wire \cup {out.tag}
        /\ UNCHANGED <<leaked, flagged, isl, counter>>
  /\ UNCHANGED <<life, mapped, ready, added, mutex, out, in, pending, raced, answers,
                 sent, epc, probing, twice, aborted>>

\* DataOutTransferCompleted: the next piece, or the request is out.
DataOutDone ==
  /\ InEvents
  /\ "data_out" \in tfers
  /\ \/ /\ out.left > 1
        /\ Submit({"data_out"}, "data_out")
        /\ UNCHANGED <<tdata, state, wire>>
     \/ /\ out.left <= 1 /\ mutex = "free"
        /\ tfers' = tfers \ {"data_out"}
        /\ tdata' = FALSE
        /\ UNCHANGED tmeta
        /\ Available
        /\ wire' = wire \cup {out.tag}
        /\ UNCHANGED <<leaked, flagged, isl, counter>>
  /\ out' = [out EXCEPT !.left = @ - 1]
  /\ UNCHANGED <<life, mapped, ready, added, tmeta, mutex, in, pending, raced, answers,
                 sent, epc, probing, twice, aborted>>

\* CheckTransfer: a transfer failed, was cancelled or, other than meta-in,
\* timed out; or the transfer of the object ids was short, to the same effect.
TransferFailed(t) ==
  /\ InEvents /\ TRUE \in MayFail
  /\ t \in tfers
  /\ tfers' = tfers \ {t}
  /\ Kill
  /\ UNCHANGED <<life, mapped, ready, added, leaked, state, tmeta, tdata, mutex, out, in,
                 pending, raced, wire, answers, sent, epc, probing, twice, aborted>>

-----------------------------------------------------------------------------
(***************************************************************************)
(* Incoming transfers.                                                     *)
(***************************************************************************)

\* Mutant of DispatchResponse: the request stays in pending_requests.
DispatchResponseKeeps(done, tag) ==
  /\ IF tag = Ident THEN ready' = TRUE /\ UNCHANGED answers
                    ELSE answers' = [answers EXCEPT ![tag] = @ + 1] /\ UNCHANGED ready
  /\ Submit({done}, "meta_in")
  /\ UNCHANGED <<pending, raced>>

\* DispatchResponse in the callback of transfer `done': the request leaves
\* pending_requests, the response is posted, or identifies the device, and the
\* next meta-in transfer is submitted.  The list is changed without the mutex.
DispatchResponse(done, tag) ==
  /\ pending' = pending \ {tag}
  /\ raced' = (raced \/ dpc = "pushing")
  /\ \/ /\ tag # Ident
        /\ answers' = [answers EXCEPT ![tag] = @ + 1]
        /\ Submit({done}, "meta_in")
        /\ UNCHANGED ready
     \/ /\ tag = Ident
        /\ ready' = TRUE
        /\ Submit({done}, "meta_in")
        /\ UNCHANGED answers
     \/ /\ tag = Ident /\ TRUE \in MayFail
        /\ Kill
        /\ \/ tfers' = (tfers \ {done}) \cup {"meta_in"} /\ UNCHANGED leaked
           \/ tfers' = tfers \ {done} /\ leaked' = TRUE
        /\ UNCHANGED <<ready, answers>>

\* Mutant of MetaInDone: the next header is asked for before the payload is in.
MetaInDoneAtOnce(tag, n, objects) ==
  /\ InEvents
  /\ "meta_in" \in tfers
  /\ tag \in wire
  /\ wire' = wire \ {tag}
  /\ in' = [tag |-> tag, left |-> n, objects |-> objects]
  /\ IF n > 0 \/ objects
       THEN /\ Submit({}, "data_in")
            /\ UNCHANGED <<pending, raced, ready, answers>>
       ELSE DispatchResponse("meta_in", tag)
  /\ UNCHANGED <<life, mapped, added, state, tmeta, tdata, mutex, out, sent, epc, probing,
                 twice, aborted>>

\* MetaInTransferCompleted: the header of the response to request tag, which
\* announces n pieces of payload and possibly objects.
MetaInDone(tag, n, objects) ==
  /\ InEvents
  /\ "meta_in" \in tfers
  /\ tag \in wire
  /\ wire' = wire \ {tag}
  /\ in' = [tag |-> tag, left |-> n, objects |-> objects]
  /\ IF n > 0 \/ objects
       THEN /\ Submit({"meta_in"}, "data_in")
            /\ UNCHANGED <<pending, raced, ready, answers>>
       ELSE DispatchResponse("meta_in", tag)
  /\ UNCHANGED <<life, mapped, added, state, tmeta, tdata, mutex, out, sent, epc, probing,
                 twice, aborted>>

\* MetaInTransferShim: after ten minutes without a response the transfer is
\* submitted again, whether the device was killed or not.
MetaInTimeout ==
  /\ InEvents
  /\ "meta_in" \in tfers
  /\ Submit({"meta_in"}, "meta_in")
  /\ UNCHANGED <<life, mapped, ready, added, state, tmeta, tdata, mutex, out, in, pending,
                 raced, wire, answers, sent, epc, probing, twice, aborted>>

\* DataInTransferCompleted and ObjectInTransferCompleted: the payload's pieces,
\* then the object ids, through the same transfer.
DataInDone ==
  /\ InEvents
  /\ "data_in" \in tfers
  /\ \/ /\ in.left > 1 \/ (in.left = 1 /\ in.objects)
        /\ in' = [in EXCEPT !.left = @ - 1]
        /\ Submit({"data_in"}, "data_in")
        /\ UNCHANGED <<pending, raced, ready, answers>>
     \/ /\ in.left = 0 \/ (in.left = 1 /\ ~in.objects)
        /\ in' = [in EXCEPT !.left = 0, !.objects = FALSE]
        /\ DispatchResponse("data_in", in.tag)
  /\ UNCHANGED <<life, mapped, added, state, tmeta, tdata, mutex, out, wire, sent, epc,
                 probing, twice, aborted>>

-----------------------------------------------------------------------------
(***************************************************************************)
(* The loop of event_thread_func, between calls of libusb_handle_events.   *)
(***************************************************************************)

\* Daemon::AddDevice: from here on the dispatcher can use the device.
AddDevice ==
  /\ InEvents
  /\ life = "listed" /\ ready /\ ~added
  /\ mapped' = TRUE
  /\ epc' = "mark"
  /\ UNCHANGED <<life, ready, added, flagged, leaked, state, tmeta, tdata, mutex, tfers,
                 out, in, pending, raced, wire, answers, sent, dpc, scanVars>>

\* unique_lock::unlock of isl_lock, after it was seen to be locked.  If the
\* other thread has unlocked it meanwhile, the counter is decremented again or
\* the second unlock throws.
UnlockScan ==
  \/ /\ isl
     /\ isl' = FALSE
     /\ counter' = counter - 1
     /\ UNCHANGED <<twice, aborted>>
  \/ /\ ~isl
     /\ counter' = counter - 1
     /\ twice' = TRUE
     /\ UNCHANGED <<isl, aborted>>
  \/ /\ ~isl
     /\ aborted' = TRUE
     /\ UNCHANGED <<isl, counter, twice>>

\* MarkAdded tests isl_lock; if it is locked, the next step unlocks it.
MarkAdded ==
  /\ epc = "mark" /\ ~aborted
  /\ epc' = IF isl THEN "unlock" ELSE "loop"
  /\ added' = ~isl
  /\ UNCHANGED <<life, mapped, ready, flagged, leaked, state, tmeta, tdata, mutex, tfers,
                 out, in, pending, raced, wire, answers, sent, dpc, scanVars>>

MarkAddedUnlocks ==
  /\ epc = "unlock" /\ ~aborted
  /\ UnlockScan
  /\ epc' = "loop"
  /\ added' = TRUE
  /\ UNCHANGED <<life, mapped, ready, flagged, leaked, state, tmeta, tdata, mutex, tfers,
                 out, in, pending, raced, wire, answers, sent, dpc, probing>>

\* A device flagged for deletion leaves the map and the list.
RemoveDevice ==
  /\ InEvents
  /\ life = "listed" /\ flagged
  /\ ready => added
  /\ life' = "dropped"
  /\ mapped' = FALSE
  /\ UNCHANGED <<ready, added, flagged, leaked, state, tmeta, tdata, mutex, tfers, out, in,
                 pending, raced, wire, answers, sent, dpc, epc, scanVars>>

\* The last reference goes: ~Device fails what is pending.  Transfers in flight,
\* a leaked reference and the dispatcher hold references.
Destroy ==
  /\ ~aborted
  /\ life = "dropped"
  /\ tfers = {} /\ ~leaked
  /\ dpc \in {"idle", "listing"}
  /\ life' = "destroyed"
  /\ answers' = [t \in Tags |-> IF t \in pending THEN answers[t] + 1 ELSE answers[t]]
  /\ pending' = {}
  /\ UNCHANGED <<mapped, ready, added, flagged, leaked, state, tmeta, tdata, mutex, tfers,
                 out, in, raced, wire, sent, dpc, epc, scanVars>>

\* USBBackend::Probe is done with the devices that were there at the start.
Probe ==
  /\ ~aborted
  /\ probing
  /\ probing' = FALSE
  /\ counter' = counter - 1
  /\ UNCHANGED <<life, mapped, ready, added, flagged, leaked, state, tmeta, tdata, mutex,
                 tfers, out, in, pending, raced, wire, answers, sent, dpc, epc, isl, twice,
                 aborted>>

-----------------------------------------------------------------------------
(***************************************************************************)
(* The dispatcher.                                                         *)
(***************************************************************************)

DispatcherUnchanged ==
  UNCHANGED <<life, mapped, ready, added, out, in, wire, answers, epc, probing>>

\* Daemon::Process finds the device; SendRequest comes next.
Dispatch ==
  /\ ~aborted /\ dpc = "idle"
  /\ mapped /\ ~flagged
  /\ sent < MaxRequests
  /\ sent' = sent + 1
  /\ dpc' = "locking"
  /\ DispatcherUnchanged
  /\ UNCHANGED <<flagged, leaked, state, tmeta, tdata, mutex, tfers, pending, raced, isl,
                 counter, twice, aborted>>

\* SendRequest takes state_mutex, or takes it again after being woken.
Lock ==
  /\ ~aborted /\ dpc \in {"locking", "woken"}
  /\ mutex = "free"
  /\ mutex' = "disp"
  /\ dpc' = "testing"
  /\ DispatcherUnchanged
  /\ UNCHANGED <<flagged, leaked, state, tmeta, tdata, tfers, pending, raced, sent, isl,
                 counter, twice, aborted>>

\* The loop's condition: sleep, give up because the device is gone, or go on.
Test ==
  /\ ~aborted /\ dpc = "testing"
  /\ \/ /\ state # "AVAILABLE" /\ ~flagged
        /\ dpc' = "sleeping"
        /\ UNCHANGED <<mutex, state, raced>>
     \/ /\ flagged
        /\ dpc' = "idle"
        /\ mutex' = "free"
        /\ UNCHANGED <<state, raced>>
     \/ /\ state = "AVAILABLE" /\ ~flagged
        /\ dpc' = "pushing"
        /\ state' = "BUSY"
        /\ raced' = FALSE
        /\ UNCHANGED mutex
  /\ DispatcherUnchanged
  /\ UNCHANGED <<flagged, leaked, tmeta, tdata, tfers, pending, sent, isl, counter, twice,
                 aborted>>

\* state_cv.wait releases the mutex; only a notification after this wakes it.
Wait ==
  /\ ~aborted /\ dpc = "sleeping"
  /\ dpc' = "waiting"
  /\ mutex' = "free"
  /\ DispatcherUnchanged
  /\ UNCHANGED <<flagged, leaked, state, tmeta, tdata, tfers, pending, raced, sent, isl,
                 counter, twice, aborted>>

\* The request is in pending_requests, unless the event thread changed the list
\* at the same time; then its transfer is submitted.  If that fails Kill sets
\* deletion_flag and tests isl_lock, with the mutex held.
SendRequest ==
  /\ ~aborted /\ dpc = "pushing"
  /\ \E kept \in (IF raced THEN BOOLEAN ELSE {TRUE}) :
       pending' = IF kept THEN pending \cup {sent} ELSE pending
  /\ \E n \in Pieces : out' = [tag |-> sent, left |-> n]
  /\ tmeta' = TRUE
  /\ raced' = FALSE
  /\ \/ /\ tfers' = tfers \cup {"meta_out"}
        /\ dpc' = "idle"
        /\ mutex' = "free"
        /\ UNCHANGED <<leaked, flagged>>
     \/ /\ TRUE \in MayFail
        /\ leaked' = TRUE
        /\ flagged' = TRUE
        /\ dpc' = IF isl THEN "unlocking" ELSE "idle"
        /\ mutex' = IF isl THEN "disp" ELSE "free"
        /\ UNCHANGED tfers
  /\ UNCHANGED <<life, mapped, ready, added, state, tdata, in, wire, answers, sent, epc,
                 scanVars>>

\* Kill by the dispatcher goes on to unlock isl_lock; nobody else waits.
KillUnlocks ==
  /\ ~aborted /\ dpc = "unlocking"
  /\ UnlockScan
  /\ dpc' = "idle"
  /\ mutex' = "free"
  /\ DispatcherUnchanged
  /\ UNCHANGED <<flagged, leaked, state, tmeta, tdata, tfers, pending, raced, sent>>

\* LIST_DEVICES waits for the initial scan, on the dispatcher.
ListDevices ==
  /\ ~aborted
  /\ \/ dpc = "idle" /\ dpc' = "listing"
     \/ dpc = "listing" /\ counter <= 0 /\ dpc' = "idle"
  /\ DispatcherUnchanged
  /\ UNCHANGED <<flagged, leaked, state, tmeta, tdata, mutex, tfers, pending, raced, sent,
                 isl, counter, twice, aborted>>

-----------------------------------------------------------------------------

Dispatcher == Lock \/ Test \/ Wait \/ SendRequest \/ KillUnlocks

Respond == \E tag \in {Ident} \cup Tags, n \in Pieces, objects \in BOOLEAN :
             MetaInDone(tag, n, objects)

Events == AddDevice \/ MarkAdded \/ MarkAddedUnlocks \/ RemoveDevice

Next ==
  \/ Begin \/ MetaOutDone \/ DataOutDone \/ Respond \/ MetaInTimeout \/ DataInDone
  \/ \E t \in Transfers : TransferFailed(t)
  \/ Events \/ Destroy \/ Probe
  \/ Dispatcher \/ Dispatch \/ ListDevices

Spec == Init /\ [][Next]_vars

\* Both threads go on while they can, libusb completes each transfer (all but
\* meta-in have a timeout of seconds), and the console answers what it got.
Fairness ==
  /\ WF_vars(Dispatcher)
  /\ WF_vars(dpc = "listing" /\ ListDevices)
  /\ WF_vars(Events)
  /\ WF_vars(Probe)
  /\ WF_vars(Destroy)
  /\ WF_vars(MetaOutDone) /\ WF_vars(DataOutDone)
  /\ WF_vars(Respond) /\ WF_vars(DataInDone)

FairSpec == Spec /\ Fairness

-----------------------------------------------------------------------------
(***************************************************************************)
(* Properties.                                                             *)
(***************************************************************************)

\* Every variable has its type.
TypeOK ==
  /\ life \in {"off", "listed", "dropped", "destroyed"}
  /\ mapped \in BOOLEAN /\ ready \in BOOLEAN /\ added \in BOOLEAN
  /\ flagged \in BOOLEAN /\ leaked \in BOOLEAN
  /\ tmeta \in BOOLEAN /\ tdata \in BOOLEAN /\ raced \in BOOLEAN
  /\ probing \in BOOLEAN /\ isl \in BOOLEAN /\ twice \in BOOLEAN /\ aborted \in BOOLEAN
  /\ state \in {"AVAILABLE", "BUSY"} /\ mutex \in {"free", "disp"}
  /\ tfers \subseteq Transfers
  /\ out \in [tag : {Ident} \cup Tags, left : Nat]
  /\ in \in [tag : {Ident} \cup Tags, left : Nat, objects : BOOLEAN]
  /\ pending \subseteq {Ident} \cup Tags
  /\ wire \subseteq {Ident} \cup Tags
  /\ answers \in [Tags -> Nat]
  /\ sent \in 0..MaxRequests
  /\ dpc \in {"idle", "locking", "testing", "sleeping", "waiting", "woken", "pushing",
              "unlocking", "listing"}
  /\ epc \in {"loop", "mark", "unlock"}
  /\ counter \in Int

\* While the device is available no outgoing transfer is under way, so a new
\* request never reuses mhdr, request_out or a transfer that libusb still has.
OneRequestOut ==
  /\ state = "AVAILABLE" => tfers \cap {"meta_out", "data_out"} = {} /\ ~tmeta /\ ~tdata
  /\ ~{"meta_out", "data_out"} \subseteq tfers

\* A response is received completely before the next header is: response_in and
\* object_ids_in are not overwritten.
OneResponseIn == ~{"meta_in", "data_in"} \subseteq tfers

\* A dispatcher that sleeps on a live device has an outgoing transfer whose
\* callback will wake it: no wakeup is lost between SendRequest and the
\* callbacks (Kill, which takes no mutex, is the exception).
SleeperHasWaker ==
  dpc \in {"sleeping", "waiting"} /\ ~flagged
    => tfers \cap {"meta_out", "data_out"} # {} /\ state = "BUSY"

\* No request of a client is answered twice, by a response and by ~Device.
AnsweredOnce == \A t \in Tags : answers[t] <= 1

\* The scan counter counts the locks that are held, unless MarkAdded and Kill
\* released the device's lock at the same time.
ScanCounted ==
  twice \/ counter = (IF probing THEN 1 ELSE 0) + (IF isl THEN 1 ELSE 0)

\* LIST_DEVICES, which blocks the dispatcher, ends once the console answers.
ScanEnds == dpc = "listing" ~> (dpc # "listing" \/ aborted)

\* Every request the dispatcher takes up is answered, through the wait for the
\* outgoing transfers and the response's transfers, unless the device is killed.
AnsweredUnlessKilled ==
  \A t \in Tags : sent >= t ~> (answers[t] = 1 \/ flagged \/ aborted)
=============================================================================
