----------------------------- MODULE UsbBackend -----------------------------
(***************************************************************************)
(* twibd's USB backend around its devices (twib/daemon/USBBackend.cpp):    *)
(* finding consoles, the list of devices, the consoles' standard output    *)
(* and the shutdown.  UsbDevice models one device of the list.             *)
(*                                                                         *)
(* Two threads share the list without a mutex: the main thread runs the    *)
(* enumeration of Probe and the destructor, the event thread the           *)
(* callbacks of transfers and of hotplug events and the loop of            *)
(* event_thread_func.  A device is seen as two transfers, one each way;    *)
(* the console answers the identification first.  External: libusb, the    *)
(* bus and the consoles.                                                   *)
(***************************************************************************)
EXTENDS Integers, Sequences, SequencesExt

CONSTANTS Consoles,
          Scenes,   \* the consoles' interfaces and what they print, by transfers
          MayFail   \* whether transfers and submissions may fail

None == "none"
NewLine == 0
Transfers == {"in", "out"}

VARIABLES bus,      \* the consoles: "absent", "present" at the start, "arrived" later, "probed"
          has,      \* their interfaces
          order,    \* devices that were ever appended to the list, in order
          listed,   \* those still in it
          dev,      \* the devices: their flags and transfers
          std,      \* stdout_transfers
          main, ev  \* the threads; k is the position in order of their iterator
vars == <<bus, has, order, listed, dev, std, main, ev>>

NoDevice == [ready |-> FALSE, added |-> FALSE, deletion |-> FALSE, isl |-> FALSE, lost |-> FALSE,
             tfer |-> [x \in Transfers |-> None]]
NoStdout(chunks) == [is |-> None, sent |-> FALSE, deletion |-> FALSE, coming |-> chunks, got |-> <<>>,
                     buf |-> <<>>, lines |-> <<>>]
At(place) == [at |-> place, cur |-> None, k |-> 0]

Init ==
  /\ bus \in [Consoles -> {"absent", "present"}]
  /\ \E s \in Scenes : has = s.has /\ std = [c \in Consoles |-> NoStdout(s.prints[c])]
  /\ order = <<>> /\ listed = {} /\ dev = [c \in Consoles |-> NoDevice]
  /\ main = At("probe") /\ ev = At("events")

Results == IF MayFail THEN BOOLEAN ELSE {TRUE}

-----------------------------------------------------------------------------
(***************************************************************************)
(* Finding consoles.                                                       *)
(***************************************************************************)

\* Device::Kill.
Kill(d) == [d EXCEPT !.deletion = TRUE, !.isl = FALSE]

\* StdoutTransferState::Submit, which kills the state when it fails.
SubmitStdout(s, ok) == [s EXCEPT !.sent = ok, !.deletion = @ \/ ~ok]

\* ProbeStdioInterface: an interface with one bulk endpoint each way is opened,
\* claimed and read.  (The list of these is not modelled: nothing depends on it
\* but when a killed one is freed.)
ProbeStdioInterface(c, opened, ok) ==
  IF opened /\ \E k \in DOMAIN has[c] : has[c][k] = "stdio"
  THEN [std EXCEPT ![c] = SubmitStdout([@ EXCEPT !.is = "open"], ok)] ELSE std

\* The interface AddDevice takes: the last one of twili's class, whose endpoints
\* are then examined.
TwiliInterface(c) ==
  LET ks == {k \in DOMAIN has[c] : has[c][k] \in {"twili", "bad twili"}}
  IN IF ks = {} THEN None ELSE has[c][CHOOSE k \in ks : \A j \in ks : k >= j]

\* AddDevice as far as the device object, whose constructor locks the initial
\* scan; a console without a good interface, or that cannot be opened and claimed,
\* is left alone.
AddDevice(c) ==
  /\ bus' = [bus EXCEPT ![c] = "probed"]
  /\ \E opened, ok \in Results : std' = ProbeStdioInterface(c, opened, ok)
  /\ \E opened \in Results :
       dev' = IF opened /\ TwiliInterface(c) = "twili" THEN [dev EXCEPT ![c].isl = TRUE] ELSE dev
  /\ UNCHANGED <<has, order, listed>>
ThenAppends(c, thread) == IF dev'[c].isl THEN [at |-> "append", cur |-> c, k |-> 0] ELSE thread

\* Probe: the main thread enumerates the consoles that are there.
ProbeConsole ==
  /\ main.at = "probe"
  /\ \E c \in Consoles :
       /\ bus[c] = "present" /\ AddDevice(c)
       /\ main' = ThenAppends(c, main)
  /\ UNCHANGED ev
ProbeEnds == /\ main.at = "probe" /\ \A c \in Consoles : bus[c] # "present"
             /\ main' = At("serve") /\ UNCHANGED <<bus, has, order, listed, dev, std, ev>>

\* hotplug_cb_shim: those that come later are announced to the event thread, until
\* the destructor takes the callback back.
Registered == main.at \notin {"join", "joined", "crashed"}
Plug == /\ \E c \in Consoles : bus[c] = "absent" /\ bus' = [bus EXCEPT ![c] = "arrived"]
        /\ UNCHANGED <<has, order, listed, dev, std, main, ev>>
HotplugArrived ==
  /\ ev.at = "events" /\ Registered
  /\ \E c \in Consoles :
       /\ bus[c] = "arrived" /\ AddDevice(c)
       /\ ev' = ThenAppends(c, ev)
  /\ UNCHANGED main

\* Begin reads from the console and asks it to identify itself.
Begin(d, in, out) ==
  LET begun == [d EXCEPT !.tfer = [in |-> IF in THEN "sent" ELSE None,
                                   out |-> IF in /\ out THEN "sent" ELSE None]]
  IN IF in /\ out THEN begun ELSE Kill(begun)

\* devices.emplace_back, then Begin.  While the other thread is changing the list
\* as well, the new element may be lost.
Appends(thread, other) ==
  LET c == thread.cur IN
  /\ thread.at = "append"
  /\ \E in, out \in Results, lost \in (IF other.at \in {"append", "erase"} THEN BOOLEAN ELSE {FALSE}) :
       /\ order' = IF lost THEN order ELSE Append(order, c)
       /\ listed' = IF lost THEN listed ELSE listed \cup {c}
       /\ dev' = [dev EXCEPT ![c] = Begin([@ EXCEPT !.lost = lost], in, out)]
  /\ UNCHANGED <<bus, has, std>>
MainAppends == Appends(main, ev) /\ main' = At("probe") /\ UNCHANGED ev
EventAppends == Appends(ev, main) /\ ev' = At("events") /\ UNCHANGED main

-----------------------------------------------------------------------------
(***************************************************************************)
(* The event thread: callbacks inside libusb_handle_events, then the lists.*)
(***************************************************************************)
DeviceOnly == UNCHANGED <<bus, has, order, listed, std, main>>

\* CheckTransfer: a transfer that was cancelled or has failed kills the device.
CheckTransfer(status) ==
  /\ ev.at = "events"
  /\ \E c \in Consoles, x \in Transfers :
       /\ dev[c].tfer[x] = status
       /\ dev' = [dev EXCEPT ![c] = Kill([@ EXCEPT !.tfer[x] = None])]
  /\ UNCHANGED ev /\ DeviceOnly
TransferCancelled == CheckTransfer("cancelled")
TransferFails == MayFail /\ CheckTransfer("sent")

\* A request has gone out.
RequestOut ==
  /\ ev.at = "events"
  /\ \E c \in Consoles : /\ dev[c].tfer["out"] = "sent"
                         /\ dev' = [dev EXCEPT ![c].tfer["out"] = None]
  /\ UNCHANGED ev /\ DeviceOnly

\* A response, the first of which identifies the console, or a timeout; the
\* callback then submits the transfer again, which may fail.
ResponseIn ==
  /\ ev.at = "events"
  /\ \E c \in Consoles, ready \in BOOLEAN :
       /\ dev[c].tfer["in"] = "sent" /\ (ready => dev[c].tfer["out"] = None)
       /\ dev' = [dev EXCEPT ![c].tfer["in"] = None, ![c].ready = @ \/ ready]
       /\ ev' = [at |-> "callback", cur |-> c, k |-> 0]
  /\ DeviceOnly
Resubmit ==
  /\ ev.at = "callback"
  /\ \E ok \in Results :
       dev' = [dev EXCEPT ![ev.cur] = IF ok THEN [@ EXCEPT !.tfer["in"] = "sent"] ELSE Kill(@)]
  /\ ev' = At("events") /\ DeviceOnly

\* StdoutTransferState::Callback: one line at most is taken out of the buffer.
FirstLine(b) == {i \in DOMAIN b : b[i] = NewLine /\ \A j \in 1..(i - 1) : b[j] # NewLine}
TakeLine(s) ==
  IF FirstLine(s.buf) = {} THEN s
  ELSE LET i == CHOOSE j \in FirstLine(s.buf) : TRUE
       IN [s EXCEPT !.lines = Append(@, SubSeq(s.buf, 1, i - 1)), !.buf = SubSeq(s.buf, i + 1, Len(s.buf))]
StdoutCallback ==
  /\ ev.at = "events"
  /\ \E c \in Consoles :
       /\ std[c].sent /\ std[c].is = "open"
       /\ \/ /\ std[c].coming # <<>>
             /\ \E ok \in Results :
                  LET chunk == Head(std[c].coming)
                      read == [std[c] EXCEPT !.coming = Tail(@), !.got = Append(@, chunk), !.buf = @ \o chunk]
                  IN std' = [std EXCEPT ![c] = SubmitStdout(TakeLine(read), ok)]
          \/ MayFail /\ std' = [std EXCEPT ![c].sent = FALSE, ![c].deletion = TRUE]
  /\ UNCHANGED <<bus, has, order, listed, dev, main, ev>>

\* The first device in the list after position k, 0 at its end.
NextFrom(k) ==
  LET ks == {j \in DOMAIN order : j > k /\ order[j] \in listed}
  IN IF ks = {} THEN 0 ELSE CHOOSE j \in ks : \A i \in ks : j <= i
Visit(k) == IF NextFrom(k) = 0 THEN At("stdouts") ELSE [at |-> "scan", cur |-> order[NextFrom(k)], k |-> NextFrom(k)]

HandleEventsReturns == ev.at = "events" /\ ev' = Visit(0) /\ UNCHANGED dev /\ DeviceOnly

\* A device that is ready is given to the daemon, one that is flagged taken back
\* and erased.
ScanDevice ==
  LET d == dev[ev.cur] IN
  /\ ev.at = "scan"
  /\ dev' = [dev EXCEPT ![ev.cur] = IF d.ready /\ ~d.added THEN [d EXCEPT !.added = TRUE, !.isl = FALSE] ELSE d]
  /\ ev' = IF d.deletion THEN [ev EXCEPT !.at = "erase"] ELSE Visit(ev.k)
  /\ DeviceOnly
EraseDevice ==
  /\ ev.at = "erase"
  /\ listed' = listed \ {ev.cur} /\ ev' = Visit(ev.k)
  /\ UNCHANGED <<bus, has, order, dev, std, main>>

\* Killed standard outputs are freed; the loop ends when the backend is being
\* destroyed and no device is left.
Destroying == main.at \in {"destroy", "advance", "join", "joined", "crashed"}
ScanStdouts ==
  /\ ev.at = "stdouts"
  /\ std' = [c \in Consoles |-> IF std[c].deletion THEN [std[c] EXCEPT !.is = "freed"] ELSE std[c]]
  /\ ev' = IF Destroying /\ listed = {} THEN At("ended") ELSE At("events")
  /\ UNCHANGED <<bus, has, order, listed, dev, main>>

-----------------------------------------------------------------------------
(***************************************************************************)
(* USBBackend::~USBBackend, on the main thread.                            *)
(***************************************************************************)
Cancel(c) == IF NextFrom(c) = 0 THEN At("join") ELSE [at |-> "destroy", cur |-> order[NextFrom(c)], k |-> NextFrom(c)]
MainOnly == UNCHANGED <<bus, has, order, listed, std, ev>>

BeginDestroy == main.at = "serve" /\ main' = Cancel(0) /\ UNCHANGED dev /\ MainOnly

\* Device::Destroy cancels what has been submitted.  An element that the event
\* thread erased meanwhile is used all the same, if that does not crash.
DestroyDevice ==
  /\ main.at = "destroy"
  /\ \/ /\ dev' = [dev EXCEPT ![main.cur].isl = FALSE,
                              ![main.cur].tfer = [x \in Transfers |-> IF @[x] = "sent" THEN "cancelled" ELSE @[x]]]
        /\ main' = [main EXCEPT !.at = "advance"]
     \/ main.cur \notin listed /\ main' = At("crashed") /\ UNCHANGED dev
  /\ MainOnly
AdvanceDestroy ==
  /\ main.at = "advance" /\ UNCHANGED dev /\ MainOnly
  /\ main' = Cancel(main.k) \/ (main.cur \notin listed /\ main' = At("crashed"))
Join == main.at = "join" /\ ev.at = "ended" /\ main' = At("joined") /\ UNCHANGED dev /\ MainOnly

MainThread == ProbeConsole \/ ProbeEnds \/ MainAppends \/ DestroyDevice \/ AdvanceDestroy \/ Join
EventThread == \/ EventAppends \/ Resubmit \/ HandleEventsReturns \/ ScanDevice \/ EraseDevice \/ ScanStdouts
Callbacks == TransferCancelled \/ TransferFails \/ RequestOut \/ ResponseIn \/ StdoutCallback \/ HotplugArrived
Running == main.at # "crashed"
Next == Running /\ (MainThread \/ EventThread \/ Callbacks \/ Plug \/ BeginDestroy)

\* libusb reports a cancelled transfer, and libusb_handle_events returns.
Fairness == /\ WF_vars(Running /\ MainThread) /\ WF_vars(Running /\ EventThread)
            /\ SF_vars(Running /\ HandleEventsReturns) /\ SF_vars(Running /\ TransferCancelled)
Spec == Init /\ [][Next]_vars /\ Fairness

-----------------------------------------------------------------------------
(***************************************************************************)
(* What the backend promises.                                              *)
(***************************************************************************)

\* What a console printed is logged whole and in order, line by line, and at
\* once as long as no transfer brings two ends of line (StdoutTransferState).
NewLines(chunk) == {i \in DOMAIN chunk : chunk[i] = NewLine}
OutputLogged ==
  \A c \in Consoles :
    /\ FlattenSeq([i \in DOMAIN std[c].lines |-> Append(std[c].lines[i], NewLine)]) \o std[c].buf = FlattenSeq(std[c].got)
    /\ (\A i \in DOMAIN std[c].got : \A j, k \in NewLines(std[c].got[i]) : j = k) => NewLines(std[c].buf) = {}

\* A standard output is freed only when it has no transfer under way
\* (event_thread_func).
FreedQuiet == \A c \in Consoles : std[c].is = "freed" => ~std[c].sent

\* A device that keeps LIST_DEVICES waiting is one that the event thread comes
\* to, unless the list lost it (AddDevice, Kill, event_thread_func).
ScanReaches ==
  \A c \in Consoles : dev[c].isl => c \in listed \/ dev[c].lost \/ \E t \in {main, ev} : t.at = "append" /\ t.cur = c

\* The destructor ends, unless it crashes or a device that had no transfer under
\* way when it was to be cancelled, or was not yet in the list, has been missed
\* (~USBBackend, event_thread_func).
Missed == main.at = "join" /\ \E c \in listed : ~dev[c].deletion /\ \A x \in Transfers : dev[c].tfer[x] # "cancelled"
Waiting == Destroying /\ main.at \notin {"joined", "crashed"} /\ ~Missed
Ends == Waiting ~> ~Waiting
=============================================================================
