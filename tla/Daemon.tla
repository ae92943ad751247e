------------------------------- MODULE Daemon -------------------------------
(***************************************************************************)
(* twibd, the daemon that multiplexes several twib clients onto the        *)
(* consoles that run Twili (twib/daemon).  Four kinds of threads meet in   *)
(* it: the frontend's event loop (clients), the TCP backend's event loop,  *)
(* the USB event thread, and the dispatcher, which takes requests and      *)
(* responses out of one concurrent queue.  That queue is first in, first   *)
(* out per producing thread only (moodycamel::BlockingConcurrentQueue).    *)
(*                                                                         *)
(* A connection is one Device object of a backend.  Its device id is the   *)
(* hash of the console's serial number, so one console reached twice has   *)
(* two connections with one device id.  A BridgeObject stands for a remote *)
(* object a client obtained; when the last reference to it goes, twibd     *)
(* asks the console to close the object.  References are held by clients,  *)
(* by queued responses and by the response_in member of each connection,   *)
(* which is copied, not moved, into the queue.                             *)
(*                                                                         *)
(* The console itself (twili) is external: it opens and closes objects.    *)
(* Waiting for a USB transfer slot and for the initial scan is not part of *)
(* this module.                                                            *)
(***************************************************************************)
EXTENDS Naturals, Sequences, FiniteSets

CONSTANTS
  Conns,       \* connections, TCP or USB
  Usb,         \* those that are USB devices; the others are TCP
  DeviceIds,   \* device ids
  DeviceOf,    \* the device id each connection identifies as
  Clients,     \* twib clients
  Local,       \* the daemon's own LocalClient
  NoConn,      \* no map entry
  MayFail,     \* bound: connections that may fail
  MayReboot,   \* bound: BOOLEAN if a console may restart when USB fails, else {FALSE}
  Commands,    \* bound: what clients ask for, of "list", "open" and "close"
  MaxRequests, \* bound: requests per client
  MaxObjects   \* bound: objects a console opens

ASSUME ConnAssumption ==
  /\ Usb \subseteq Conns /\ MayFail \subseteq Conns
  /\ DeviceOf \in [Conns -> DeviceIds]
  /\ NoConn \notin Conns
ASSUME ClientAssumption == Local \notin Clients
ASSUME PortAssumption == Conns \cap DeviceIds = {}

\* Device id 0 is twibd itself; a TCP BridgeObject carries a client id where a
\* device id belongs (Protocol.hpp: the two share a union), which no device has.
Meta == "meta"
ClientIdAsDevice == "client"

ASSUME IdAssumption == {Meta, ClientIdAsDevice} \cap DeviceIds = {}

VARIABLES
  \* connections, as their backend keeps them
  link,      \* "off", "listed" by the backend, "dropped" from its list, "destroyed"
  ready,     \* ready_flag: identification answered
  added,     \* added_flag: AddDevice was called
  flagged,   \* deletion_flag
  leaked,    \* a transfer that was never submitted keeps the object alive
  pending,   \* pending_requests
  held,      \* objects of response_in
  \* the wire and the console
  wire,      \* requests sent and not yet handled by the console
  back,      \* responses the console has sent and twibd has not received
  opened,    \* [oid, client] of the objects that exist on the console
  nextoid,   \* next object id the console hands out
  \* Daemon
  devices,   \* the device map
  queue,     \* dispatch_queue, per producing thread
  disp,      \* the dispatcher between finding a device and sending to it
  \* clients
  status,    \* "off", "on" or "gone"
  sent,      \* number of requests posted
  known,     \* object handles the client was told of
  owned,     \* owned_objects
  got,       \* <<tag, result>> of the responses received
  invalid    \* BridgeObjects whose valid flag was cleared

connVars == <<link, ready, added, flagged, leaked>>
consoleVars == <<opened, nextoid>>
clientVars == <<status, sent, known, got>>
vars == <<link, ready, added, flagged, leaked, pending, held, wire, back, opened,
          nextoid, devices, queue, disp, status, sent, known, owned, got, invalid>>

-----------------------------------------------------------------------------
(***************************************************************************)
(* Messages and BridgeObjects.                                             *)
(***************************************************************************)

Producers == {"front", "tcp", "usb", "disp"}
Backend(c) == IF c \in Usb THEN "usb" ELSE "tcp"
GetPriority(c) == IF c \in Usb THEN 2 ELSE 1

\* A USB console keeps its objects across connections; the TCP bridge keeps
\* them per connection.
Port(c) == IF c \in Usb THEN DeviceOf[c] ELSE c
Ports == Conns \cup DeviceIds

\* `via' records the connection a client got the object from.
Request(client, device, oid, command, tag, via) ==
  [kind |-> "rq", client |-> client, device |-> device, oid |-> oid,
   command |-> command, tag |-> tag, via |-> via]

Response(rq, result, objects) ==
  [kind |-> "rs", client |-> rq.client, tag |-> rq.tag, result |-> result,
   objects |-> objects]

\* BridgeObject::device_id is where its close request will go.  The TCP
\* backend fills it from the header's client id.
BridgeObject(c, oid) ==
  [conn |-> c, oid |-> oid,
   device |-> IF c \in Usb THEN DeviceOf[c] ELSE ClientIdAsDevice]

\* LocalClient::SendRequest of a close; nobody looks at the response.
LocalClose(device, oid, via) == Request(Local, device, oid, "close", <<Local, 0>>, via)

SeqOf(S) == CHOOSE f \in [1..Cardinality(S) -> S] :
              \A i, j \in 1..Cardinality(S) : f[i] = f[j] => i = j

Messages(q) == UNION {{q[p][i] : i \in 1..Len(q[p])} : p \in Producers}

\* BridgeObjects something still refers to.
Referenced(o, q, h) ==
  (UNION {o[cl] : cl \in Clients})
  \cup (UNION {h[c] : c \in Conns})
  \cup (UNION {m.objects : m \in {x \in Messages(q) : x.kind = "rs"}})

\* Mutant of Destructors: no close is requested.
DestructorsSilent(bs, o, q, h) == <<>>

\* Drop the references in bs, the rest being o, q and h: the destructors of
\* the objects that are valid and now unreferenced request their close.
Destructors(bs, o, q, h) ==
  SeqOf({LocalClose(b.device, b.oid, b.conn) :
           b \in (bs \ invalid) \ Referenced(o, q, h)})

Post(q, p, msgs) == [q EXCEPT ![p] = @ \o msgs]

\* The Client object lives while the frontend lists it or a request holds it.
ClientFreed(cl, st, q, d) ==
  /\ cl \in Clients
  /\ st[cl] = "gone"
  /\ \A m \in Messages(q) : ~(m.kind = "rq" /\ m.client = cl)
  /\ \A rq \in d.rq : rq.client # cl

\* Post whatever the destruction of client cl brings about, by thread p.
FreeClient(cl, st, q, d, p) ==
  IF ClientFreed(cl, st, q, d)
    THEN /\ owned' = [owned EXCEPT ![cl] = {}]
         /\ queue' = Post(q, p, Destructors(owned[cl], [owned EXCEPT ![cl] = {}], q, held))
    ELSE /\ queue' = q
         /\ UNCHANGED owned

Idle == [rq |-> {}, conn |-> NoConn]

-----------------------------------------------------------------------------

Init ==
  /\ link = [c \in Conns |-> "off"]
  /\ ready = [c \in Conns |-> FALSE]
  /\ added = [c \in Conns |-> FALSE]
  /\ flagged = [c \in Conns |-> FALSE]
  /\ leaked = [c \in Conns |-> FALSE]
  /\ pending = [c \in Conns |-> {}]
  /\ held = [c \in Conns |-> {}]
  /\ wire = [c \in Conns |-> <<>>]
  /\ back = [c \in Conns |-> {}]
  /\ opened = [x \in Ports |-> {}]
  /\ nextoid = [x \in Ports |-> 1]
  /\ devices = [id \in DeviceIds |-> NoConn]
  /\ queue = [p \in Producers |-> <<>>]
  /\ disp = Idle
  /\ status = [cl \in Clients |-> "off"]
  /\ sent = [cl \in Clients |-> 0]
  /\ known = [cl \in Clients |-> {}]
  /\ owned = [cl \in Clients |-> {}]
  /\ got = [cl \in Clients |-> <<>>]
  /\ invalid = {}

-----------------------------------------------------------------------------
(***************************************************************************)
(* Backends.                                                               *)
(***************************************************************************)

\* A socket is connected or a USB interface claimed, and IDENTIFY is sent.
Connect(c) ==
  /\ link[c] = "off"
  /\ link' = [link EXCEPT ![c] = "listed"]
  /\ UNCHANGED <<ready, added, flagged, leaked, pending, held, wire, back, opened,
                 nextoid, devices, queue, disp, status, sent, known, owned, got, invalid>>

Identified(c) ==
  /\ link[c] = "listed"
  /\ ~ready[c] /\ ~flagged[c]
  /\ ready' = [ready EXCEPT ![c] = TRUE]
  /\ UNCHANGED <<link, added, flagged, leaked, pending, held, wire, back, opened,
                 nextoid, devices, queue, disp, status, sent, known, owned, got, invalid>>

\* Mutant of TakesEntry: the last device wins.
TakesEntryAlways(c) == TRUE

\* Whether Daemon::AddDevice takes the map entry over.
TakesEntry(c) ==
  LET entry == devices[DeviceOf[c]]
  IN  \/ entry = NoConn
      \/ link[entry] = "destroyed"
      \/ GetPriority(entry) <= GetPriority(c)

\* Daemon::AddDevice from the backend's loop, which then sets added_flag.  The
\* TCP loop looks at deletion_flag first, the USB loop afterwards.
AddDevice(c) ==
  /\ link[c] = "listed"
  /\ ready[c] /\ ~added[c]
  /\ c \in Usb \/ ~flagged[c]
  /\ added' = [added EXCEPT ![c] = TRUE]
  /\ IF TakesEntry(c)
       THEN /\ devices' = [devices EXCEPT ![DeviceOf[c]] = c]
            /\ queue' = Post(queue, Backend(c), <<LocalClose(DeviceOf[c], 0, c)>>)
       ELSE UNCHANGED <<devices, queue>>
  /\ UNCHANGED <<link, ready, flagged, leaked, pending, held, wire, back, opened,
                 nextoid, disp, status, sent, known, owned, got, invalid>>

\* Mutant of Erased: the entry stays.
ErasedNothing(c) == devices

\* Daemon::RemoveDevice, if the connection had been added.
Erased(c) ==
  IF added[c] THEN [devices EXCEPT ![DeviceOf[c]] = NoConn] ELSE devices

\* The backend's loop erases a connection that is flagged for deletion, after
\* Daemon::RemoveDevice if it had been added.
RemoveDevice(c) ==
  /\ link[c] = "listed"
  /\ flagged[c]
  /\ c \in Usb /\ ready[c] => added[c]
  /\ link' = [link EXCEPT ![c] = "dropped"]
  /\ devices' = Erased(c)
  /\ UNCHANGED <<ready, added, flagged, leaked, pending, held, wire, back, opened,
                 nextoid, queue, disp, status, sent, known, owned, got, invalid>>

\* The Device object is destroyed once nothing refers to it, by the backend's
\* thread or by the dispatcher; a USB device then fails what was pending.
Destroy(c) ==
  /\ link[c] = "dropped"
  /\ disp.conn # c
  /\ ~leaked[c]
  /\ link' = [link EXCEPT ![c] = "destroyed"]
  /\ pending' = [pending EXCEPT ![c] = {}]
  /\ held' = [held EXCEPT ![c] = {}]
  /\ back' = [back EXCEPT ![c] = {}]
  /\ LET failures == IF c \in Usb
                       THEN SeqOf({Response(rq, "transfer_error", {}) : rq \in pending[c]})
                       ELSE <<>>
     IN  \E p \in {Backend(c), "disp"} :
           LET q == Post(queue, p, failures)
           IN  queue' = Post(q, p, Destructors(held[c], owned, q, held'))
  /\ UNCHANGED <<ready, added, flagged, leaked, wire, opened, nextoid, devices, disp,
                 status, sent, known, owned, got, invalid>>

\* The socket reports an error or a transfer fails.  If the link is cut, what
\* was under way is lost; a TCP console then frees the connection's objects, a
\* USB console keeps them unless it restarts.
Fail(c, cut, reboot) ==
  /\ c \in MayFail
  /\ link[c] = "listed"
  /\ ~flagged[c]
  /\ c \notin Usb => cut
  /\ reboot => cut /\ c \in Usb
  /\ flagged' = [flagged EXCEPT ![c] = TRUE]
  /\ wire' = IF cut THEN [wire EXCEPT ![c] = <<>>] ELSE wire
  /\ back' = IF cut THEN [back EXCEPT ![c] = {}] ELSE back
  /\ opened' = IF reboot \/ c \notin Usb THEN [opened EXCEPT ![Port(c)] = {}] ELSE opened
  /\ nextoid' = IF reboot THEN [nextoid EXCEPT ![Port(c)] = 1] ELSE nextoid
  /\ UNCHANGED <<link, ready, added, leaked, pending, held, devices, queue, disp,
                 status, sent, known, owned, got, invalid>>

\* Mutant of StillPending: the request stays in pending_requests.
AllPending(c, rs) == pending[c]

\* pending_requests without those that have the response's tag.
StillPending(c, rs) == {rq \in pending[c] : rq.tag # rs.tag}

\* A response arrives: its BridgeObjects are made, the request leaves
\* pending_requests, and a copy of response_in goes to the queue.  What
\* response_in held before is released first.
Receive(c) ==
  /\ link[c] = "listed" \/ (c \in Usb /\ link[c] = "dropped")
  /\ \E rs \in back[c] :
       /\ back' = [back EXCEPT ![c] = @ \ {rs}]
       /\ held' = [held EXCEPT ![c] = rs.objects]
       /\ pending' = [pending EXCEPT ![c] = StillPending(c, rs)]
       /\ LET closes == Destructors(held[c], owned, queue, held')
          IN  queue' = Post(queue, Backend(c), Append(closes, rs))
  /\ UNCHANGED <<link, ready, added, flagged, leaked, wire, opened, nextoid, devices,
                 disp, status, sent, known, owned, got, invalid>>

\* External: the console handles the next request.  Closing object 0 frees
\* every object of a USB console and none of a TCP connection.
Handle(c) ==
  /\ wire[c] # <<>>
  /\ LET rq == Head(wire[c])
         port == Port(c)
         named == {x \in opened[port] : x.oid = rq.oid}
         reply(result, objects) ==
           back' = [back EXCEPT ![c] = @ \cup {Response(rq, result, objects)}]
     IN  \/ /\ rq.command = "open"
            /\ nextoid[port] <= MaxObjects
            /\ nextoid' = [nextoid EXCEPT ![port] = @ + 1]
            /\ opened' = [opened EXCEPT ![port] =
                            @ \cup {[oid |-> nextoid[port], client |-> rq.client]}]
            /\ reply("ok", {BridgeObject(c, nextoid[port])})
         \/ /\ rq.command = "open"
            /\ nextoid[port] > MaxObjects
            /\ reply("error", {})
            /\ UNCHANGED consoleVars
         \/ /\ rq.command = "close" /\ rq.oid = 0
            /\ opened' = IF c \in Usb THEN [opened EXCEPT ![port] = {}] ELSE opened
            /\ reply("ok", {})
            /\ UNCHANGED nextoid
         \/ /\ rq.command = "close" /\ rq.oid # 0
            /\ opened' = [opened EXCEPT ![port] = @ \ named]
            /\ reply(IF named = {} THEN "unrecognized_object" ELSE "ok", {})
            /\ UNCHANGED nextoid
  /\ wire' = [wire EXCEPT ![c] = Tail(@)]
  /\ UNCHANGED <<link, ready, added, flagged, leaked, pending, held, devices, queue,
                 disp, status, sent, known, owned, got, invalid>>

-----------------------------------------------------------------------------
(***************************************************************************)
(* Frontend.                                                               *)
(***************************************************************************)

AddClient(cl) ==
  /\ status[cl] = "off"
  /\ status' = [status EXCEPT ![cl] = "on"]
  /\ UNCHANGED <<link, ready, added, flagged, leaked, pending, held, wire, back, opened,
                 nextoid, devices, queue, disp, sent, known, owned, got, invalid>>

\* A client's request is read from its socket and posted: LIST_DEVICES to
\* twibd, a command that opens an object, or the close of an object it knows.
PostRequest(cl) ==
  /\ status[cl] = "on"
  /\ sent[cl] < MaxRequests
  /\ LET tag == <<cl, sent[cl] + 1>>
         post(rq) == queue' = Post(queue, "front", <<rq>>)
     IN  \/ /\ "list" \in Commands
            /\ post(Request(cl, Meta, 0, "list", tag, NoConn))
            /\ UNCHANGED known
         \/ /\ "open" \in Commands
            /\ \E id \in DeviceIds : post(Request(cl, id, 0, "open", tag, NoConn))
            /\ UNCHANGED known
         \/ "close" \in Commands /\ \E b \in known[cl] :
              /\ post(Request(cl, DeviceOf[b.conn], b.oid, "close", tag, b.conn))
              /\ known' = [known EXCEPT ![cl] = @ \ {b}]
  /\ sent' = [sent EXCEPT ![cl] = @ + 1]
  /\ UNCHANGED <<link, ready, added, flagged, leaked, pending, held, wire, back, opened,
                 nextoid, devices, disp, status, owned, got, invalid>>

\* The client's socket fails: RemoveClient, and the frontend forgets it.
RemoveClient(cl) ==
  /\ status[cl] = "on"
  /\ status' = [status EXCEPT ![cl] = "gone"]
  /\ FreeClient(cl, status', queue, disp, "front")
  /\ UNCHANGED <<link, ready, added, flagged, leaked, pending, held, wire, back, opened,
                 nextoid, devices, disp, sent, known, got, invalid>>

-----------------------------------------------------------------------------
(***************************************************************************)
(* The dispatcher, Daemon::Process.                                        *)
(***************************************************************************)

Found(rq) ==
  /\ rq.device \in DeviceIds
  /\ devices[rq.device] # NoConn
  /\ link[devices[rq.device]] # "destroyed"
  /\ ~flagged[devices[rq.device]]

Answer(rq) ==
  <<Response(rq, IF rq.device = Meta THEN "ok" ELSE "unrecognized_device", {})>>

\* A request twibd answers itself: for its own device id, or an error because
\* no device is found.  An object the request would close stays owned.
AnswerRequest(p) ==
  /\ disp = Idle
  /\ queue[p] # <<>>
  /\ LET rq == Head(queue[p])
         q == [queue EXCEPT ![p] = Tail(@)]
     IN  /\ rq.kind = "rq"
         /\ ~Found(rq)
         /\ FreeClient(rq.client, status, Post(q, "disp", Answer(rq)), Idle, "disp")
  /\ UNCHANGED <<link, ready, added, flagged, leaked, pending, held, wire, back, opened,
                 nextoid, devices, disp, status, sent, known, got, invalid>>

\* The device the request goes to.
Target(rq) == devices[rq.device]

\* What a close request disowns: the objects of that id, whichever device they
\* are on.
Disowned(rq) == {b \in owned[rq.client] : b.oid = rq.oid}

\* A device is found and locked; a close request disowns the object.
LockDevice(p) ==
  /\ disp = Idle
  /\ queue[p] # <<>>
  /\ LET rq == Head(queue[p])
     IN  /\ rq.kind = "rq"
         /\ Found(rq)
         /\ disp' = [rq |-> {rq}, conn |-> Target(rq)]
         /\ IF rq.command = "close" /\ rq.client # Local
              THEN /\ owned' = [owned EXCEPT ![rq.client] = @ \ Disowned(rq)]
                   /\ invalid' = invalid \cup Disowned(rq)
              ELSE UNCHANGED <<owned, invalid>>
  /\ queue' = [queue EXCEPT ![p] = Tail(@)]
  /\ UNCHANGED <<link, ready, added, flagged, leaked, pending, held, wire, back, opened,
                 nextoid, devices, status, sent, known, got>>

\* TCPBackend's Device::SendRequest: what goes into a failed socket is lost.
SendOverTcp(c, rq) ==
  /\ c \notin Usb
  /\ pending' = [pending EXCEPT ![c] = @ \cup {rq}]
  /\ wire' = IF flagged[c] THEN wire ELSE [wire EXCEPT ![c] = Append(@, rq)]
  /\ UNCHANGED <<flagged, leaked>>

\* USBBackend's Device::SendRequest.  A device that was flagged meanwhile drops
\* the request; submitting the transfer may fail, which flags the device and
\* leaks the reference meant for the transfer.
SendOverUsb(c, rq) ==
  /\ c \in Usb
  /\ \/ /\ flagged[c]
        /\ UNCHANGED <<pending, wire, flagged, leaked>>
     \/ /\ ~flagged[c]
        /\ pending' = [pending EXCEPT ![c] = @ \cup {rq}]
        /\ wire' = [wire EXCEPT ![c] = Append(@, rq)]
        /\ UNCHANGED <<flagged, leaked>>
     \/ /\ c \in MayFail /\ ~flagged[c]
        /\ pending' = [pending EXCEPT ![c] = @ \cup {rq}]
        /\ flagged' = [flagged EXCEPT ![c] = TRUE]
        /\ leaked' = [leaked EXCEPT ![c] = TRUE]
        /\ UNCHANGED wire

\* The locked device sends the request, after which nothing holds its client.
SendRequest ==
  /\ \E rq \in disp.rq :
       /\ SendOverTcp(disp.conn, rq) \/ SendOverUsb(disp.conn, rq)
       /\ FreeClient(rq.client, status, queue, Idle, "disp")
  /\ disp' = Idle
  /\ UNCHANGED <<link, ready, added, held, back, opened, nextoid, devices, status, sent,
                 known, got, invalid>>

\* A response goes to its client, which then owns its objects; if the client
\* is gone the response and its objects are dropped.
DispatchResponse(p) ==
  /\ disp = Idle
  /\ queue[p] # <<>>
  /\ LET rs == Head(queue[p])
         q == [queue EXCEPT ![p] = Tail(@)]
         handles == {[conn |-> b.conn, oid |-> b.oid] : b \in rs.objects}
     IN  /\ rs.kind = "rs"
         /\ \/ /\ rs.client \in Clients /\ status[rs.client] = "on"
               /\ owned' = [owned EXCEPT ![rs.client] = @ \cup rs.objects]
               /\ known' = [known EXCEPT ![rs.client] = @ \cup handles]
               /\ got' = [got EXCEPT ![rs.client] = Append(@, <<rs.tag, rs.result>>)]
               /\ queue' = q
            \/ /\ rs.client \in Clients => status[rs.client] # "on"
               /\ queue' = Post(q, "disp", Destructors(rs.objects, owned, q, held))
               /\ UNCHANGED <<owned, known, got>>
  /\ UNCHANGED <<link, ready, added, flagged, leaked, pending, held, wire, back, opened,
                 nextoid, devices, disp, status, sent, invalid>>

-----------------------------------------------------------------------------

Next ==
  \/ \E c \in Conns :
       \/ Connect(c) \/ Identified(c) \/ AddDevice(c) \/ RemoveDevice(c)
       \/ Destroy(c) \/ Receive(c) \/ Handle(c)
       \/ \E cut \in BOOLEAN, reboot \in MayReboot : Fail(c, cut, reboot)
  \/ \E cl \in Clients : AddClient(cl) \/ PostRequest(cl) \/ RemoveClient(cl)
  \/ \E p \in Producers : AnswerRequest(p) \/ LockDevice(p) \/ DispatchResponse(p)
  \/ SendRequest

Spec == Init /\ [][Next]_vars

-----------------------------------------------------------------------------
(***************************************************************************)
(* Properties.                                                             *)
(***************************************************************************)

Objects == [conn : Conns, oid : Nat, device : DeviceIds \cup {ClientIdAsDevice}]

\* Every variable has its type.
TypeOK ==
  /\ link \in [Conns -> {"off", "listed", "dropped", "destroyed"}]
  /\ ready \in [Conns -> BOOLEAN]
  /\ added \in [Conns -> BOOLEAN]
  /\ flagged \in [Conns -> BOOLEAN]
  /\ leaked \in [Conns -> BOOLEAN]
  /\ devices \in [DeviceIds -> Conns \cup {NoConn}]
  /\ disp.conn \in Conns \cup {NoConn}
  /\ status \in [Clients -> {"off", "on", "gone"}]
  /\ \A c \in Conns : held[c] \subseteq Objects
  /\ \A cl \in Clients : owned[cl] \subseteq Objects

\* Every entry of the device map is a connection its backend still lists, under
\* the right id: LIST_DEVICES dereferences each entry's weak pointer unchecked.
EntriesLive ==
  \A id \in DeviceIds :
    LET c == devices[id]
    IN  c # NoConn => link[c] = "listed" /\ added[c] /\ DeviceOf[c] = id

\* While a USB connection is up and added and no connection of its console has
\* failed, its device id leads to a USB connection, whatever the order in which
\* connections came (Daemon::AddDevice compares priorities).
UsbNotClobbered ==
  \A c \in Usb :
    /\ link[c] = "listed" /\ added[c]
    /\ \A d \in Conns : DeviceOf[d] = DeviceOf[c] => ~flagged[d]
    => devices[DeviceOf[c]] \in Usb

\* The same although other connections of the console fail: "don't let tcp
\* devices clobber usb devices".
UsbNeverClobbered ==
  \A c \in Usb : link[c] = "listed" /\ added[c] /\ ~flagged[c]
                  => devices[DeviceOf[c]] \in Usb

\* No request is answered twice, although a dying USB device answers what is
\* pending while responses of it are still queued.
AnsweredOnce ==
  \A cl \in Clients : \A i, j \in 1..Len(got[cl]) : got[cl][i][1] = got[cl][j][1] => i = j

InFlight ==
  {m \in Messages(queue) : m.kind = "rq"} \cup disp.rq
  \cup UNION {{wire[c][i] : i \in 1..Len(wire[c])} : c \in Conns}

\* The daemon never asks a console to close an object that a connected client
\* owns: a BridgeObject is destroyed only when nothing refers to it.  (The close
\* of a TCP object names no console.)
OwnedNotClosed ==
  \A rq \in InFlight : rq.client = Local /\ rq.oid # 0 /\ rq.device # ClientIdAsDevice =>
    \A cl \in Clients : status[cl] = "on" =>
      \A b \in owned[cl] : ~(b.device = rq.device /\ b.oid = rq.oid)

\* An object a connected client owns on a TCP connection exists there as long as
\* the connection has not failed, unless the client is closing it.
OwnedStillOpen ==
  \A cl \in Clients : status[cl] = "on" =>
    \A b \in owned[cl] :
      b.conn \notin Usb /\ ~flagged[b.conn] => \E x \in opened[Port(b.conn)] : x.oid = b.oid

\* A request for an object reaches the console, or the TCP connection, the
\* object came from.
ReachesItsObject ==
  \A c \in Conns : \A i \in 1..Len(wire[c]) :
    LET rq == wire[c][i]
    IN  rq.oid # 0 => Port(rq.via) = Port(c)

\* Nothing is queued, being dispatched or under way to or from a console.
Quiescent ==
  /\ \A p \in Producers : queue[p] = <<>>
  /\ disp = Idle
  /\ \A c \in Conns : wire[c] = <<>> /\ back[c] = {}
  /\ \A c \in Conns : ~(link[c] = "dropped" /\ ~leaked[c])

\* Once everything has settled every request of a connected client has been
\* answered (README.md: "When the operation completes, as either a success or a
\* failure, a response is sent").
AllAnswered ==
  Quiescent => \A cl \in Clients : status[cl] = "on" => Len(got[cl]) = sent[cl]

NoneFailed == \A c \in Conns : ~flagged[c]

\* No request is answered twice, whatever fails, and none is forgotten until a
\* connection fails, whichever client leaves (Daemon.cpp, USBBackend.cpp).
RequestsAnswered == AnsweredOnce /\ (NoneFailed => AllAnswered)

Served(c) == devices[DeviceOf[c]] = c /\ ~flagged[c]

Lost(c) == {x \in opened[Port(c)] : x.client \in Clients /\ status[x.client] = "gone"}

\* Once everything has settled the objects of departed clients are closed on
\* every console that can be reached, but for those the last response of the
\* connection still refers to (BridgeObject::~BridgeObject: "try to close object
\* if valid").
LostObjectsClosed ==
  Quiescent => \A c \in Conns : Served(c) =>
    \A x \in Lost(c) : \E d \in Conns : \E b \in held[d] \ invalid :
      b.oid = x.oid /\ Port(b.conn) = Port(c)

Made == {c \in Conns : link[c] # "off"}

\* So far no console has had a TCP connection next to another connection or after one.
TcpApart == \A c \in Made \ Usb : \A d \in Made : DeviceOf[c] = DeviceOf[d] => c = d

\* So far there is one console, on USB.
OneUsbConsole == \A c, d \in Made : c \in Usb /\ DeviceOf[c] = DeviceOf[d]

\* Objects that nobody owns any more are closed on the console, if it is the only
\* one, and none that is owned is; a request reaches the object table its object
\* is in, and what is there stays (Daemon.cpp, BridgeObject.cpp, TCPBackend.cpp).
ObjectsTracked ==
  /\ OwnedNotClosed
  /\ TcpApart => ReachesItsObject /\ OwnedStillOpen
  /\ OneUsbConsole /\ NoneFailed => LostObjectsClosed
=============================================================================
