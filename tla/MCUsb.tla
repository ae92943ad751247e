------------------------------- MODULE MCUsb -------------------------------
(***************************************************************************)
(* twibd's end of a USB connection for TLC: the backend on libusb          *)
(* (UsbDevice, and UsbBackend around it) and, on Windows, the one on       *)
(* libusbK (UsbkDevice).  A behaviour is about one of them, chosen at the  *)
(* start.                                                                  *)
(***************************************************************************)
EXTENDS UsbDevice, Sequences

VARIABLES end,                                          \* the end the behaviour is about
          dev, sender, act, rsp, console, seen,         \* UsbkDevice; pending is shared
          bus, has, order, listed, devs, std, main, ev  \* UsbBackend

\* No payload, or one that needs two transfers.
PayloadSizes == {0, 2}

\* Three requests: without payload, with one transfer and with two; the
\* responses have payload, object ids, or both.
Usbk == INSTANCE UsbkDevice WITH Size <- <<0, 2, 1>>, RspSize <- <<0, 2, 2>>, RspObjs <- <<0, 1, 0>>, MayFail <- TRUE

\* Two consoles with a twili interface, or one with a bad one as well; one of
\* them prints lines that end in the middle of a transfer, or two in one.
Scene(a, b, p) == [has |-> [a |-> a, b |-> b], prints |-> [a |-> p, b |-> <<>>]]
MCScenes ==
  {Scene(<<"twili">>, <<"bad stdio", "twili">>, <<>>)}
  \cup {Scene(<<"stdio", "twili", "bad twili">>, <<"twili">>, p)
          : p \in {<<<<1>>, <<0, 1>>, <<0>>>>, <<<<1, 0, 0>>, <<1>>>>}}
Backend == INSTANCE UsbBackend WITH Consoles <- {"a", "b"}, Scenes <- MCScenes, MayFail <- TRUE,
             dev <- devs

kVars == <<dev, sender, act, rsp, console, seen>>
usbkVars == <<kVars, pending>>
backendVars == <<bus, has, order, listed, devs, std, main, ev>>
BackendIdle == /\ bus = <<>> /\ has = <<>> /\ order = <<>> /\ listed = {} /\ devs = <<>> /\ std = <<>>
               /\ main = <<>> /\ ev = <<>>
othersVars == <<life, mapped, ready, added, flagged, leaked, state, tmeta, tdata, mutex, tfers, out, in,
                raced, wire, answers, sent, dpc, epc, probing, isl, counter, twice, aborted>>

LibUsb(A) == end = "libusb" /\ A
LibUsbK(A) == end = "libusbk" /\ A
Finding(A) == end = "backend" /\ A

UsbInit == /\ Init /\ Usbk!Init
           /\ \/ end \in {"libusb", "libusbk"} /\ BackendIdle
              \/ end = "backend" /\ Backend!Init
LibUsbStep == LibUsb(Next) /\ UNCHANGED <<end, kVars, backendVars>>
LibUsbKStep == LibUsbK(Usbk!Next) /\ UNCHANGED <<end, othersVars, backendVars>>
BackendStep == Finding(Backend!Next) /\ UNCHANGED <<end, vars, kVars>>
UsbNext == LibUsbStep \/ LibUsbKStep \/ BackendStep

\* The fairness of the end that the behaviour is about.
UsbFairness ==
  /\ WF_vars(LibUsb(Dispatcher)) /\ WF_vars(LibUsb(dpc = "listing" /\ ListDevices))
  /\ WF_vars(LibUsb(Events)) /\ WF_vars(LibUsb(Probe)) /\ WF_vars(LibUsb(Destroy))
  /\ WF_vars(LibUsb(MetaOutDone)) /\ WF_vars(LibUsb(DataOutDone))
  /\ WF_vars(LibUsb(Respond)) /\ WF_vars(LibUsb(DataInDone))
  /\ WF_usbkVars(LibUsbK(Usbk!MainThread)) /\ WF_usbkVars(LibUsbK(Usbk!EventThread))
  /\ WF_backendVars(Finding(Backend!Running /\ Backend!MainThread)) /\ WF_backendVars(Finding(Backend!Running /\ Backend!EventThread))
  /\ SF_backendVars(Finding(Backend!Running /\ Backend!HandleEventsReturns))
  /\ SF_backendVars(Finding(Backend!Running /\ Backend!TransferCancelled))
UsbSpec == UsbInit /\ [][UsbNext]_<<end, vars, kVars, backendVars>> /\ UsbFairness

-----------------------------------------------------------------------------
\* libusb: no request is answered twice, what a console prints is logged whole,
\* and a device that delays the scan is one the event thread comes to
\* (USBBackend.cpp).  libusbK: no transfer is submitted while it is active,
\* responses are handed over whole and once, and the sender sleeps only while a
\* transfer is to wake it (USBKBackend.cpp).
BackendsSound == /\ AnsweredOnce
                 /\ Usbk!NoSubmitRefused /\ Usbk!WholeAndOnce /\ Usbk!SleeperHasWaker /\ Usbk!ScanCounted
                 /\ end = "backend" => Backend!OutputLogged /\ Backend!FreedQuiet /\ Backend!ScanReaches

\* libusb: a request is answered unless its device is killed, and a scan of the
\* devices ends (USBBackend.cpp).
LibUsbAnswers == AnsweredUnlessKilled /\ ScanEnds

\* libusbK: every request is answered or dropped, unless a sender misses Kill's
\* notification, and the scan does not wait for ever.  libusb: the shutdown ends,
\* but for devices it misses (USBKBackend.cpp, USBBackend.cpp).
Waiting == CASE end = "libusbk" -> Usbk!Waiting
             [] end = "backend" -> Backend!Waiting
             [] OTHER -> FALSE
=============================================================================
