---------------------------- MODULE DaemonProofs ----------------------------
(***************************************************************************)
(* Proofs about Daemon, for any number of connections, consoles, clients   *)
(* and requests.                                                           *)
(***************************************************************************)
EXTENDS Daemon, FiniteSetTheorems, SequenceTheorems, TLAPS

\* The part of the type invariant the device map depends on.
MapType ==
  /\ link \in [Conns -> {"off", "listed", "dropped", "destroyed"}]
  /\ added \in [Conns -> BOOLEAN]
  /\ devices \in [DeviceIds -> Conns \cup {NoConn}]

MapInv == MapType /\ EntriesLive

\* The map is empty at first.
LEMMA InitMapInv == Init => MapInv
BY ConnAssumption DEF Init, MapInv, MapType, EntriesLive

\* What the connections do besides changing the map, what clients do and what
\* the dispatcher does leaves the map, the backends' lists and added_flag alone.
LEMMA OtherActions ==
  /\ \A c \in Conns : Identified(c) \/ Receive(c) \/ Handle(c)
       => UNCHANGED <<link, added, devices>>
  /\ \A c \in Conns, cut \in BOOLEAN, reboot \in MayReboot : Fail(c, cut, reboot)
       => UNCHANGED <<link, added, devices>>
  /\ \A cl \in Clients : AddClient(cl) \/ PostRequest(cl) \/ RemoveClient(cl)
       => UNCHANGED <<link, added, devices>>
  /\ \A p \in Producers : AnswerRequest(p) \/ LockDevice(p) \/ DispatchResponse(p)
       => UNCHANGED <<link, added, devices>>
  /\ SendRequest => UNCHANGED <<link, added, devices>>
<1>1. \A c \in Conns : Identified(c) \/ Receive(c) \/ Handle(c)
        => UNCHANGED <<link, added, devices>>
  <2>1. \A c \in Conns : Identified(c) => UNCHANGED <<link, added, devices>>
    BY DEF Identified
  <2>2. \A c \in Conns : Receive(c) => UNCHANGED <<link, added, devices>>
    BY DEF Receive
  <2>3. \A c \in Conns : Handle(c) => UNCHANGED <<link, added, devices>>
    BY DEF Handle
  <2> QED
    BY <2>1, <2>2, <2>3, Zenon
<1>2. \A c \in Conns, cut \in BOOLEAN, reboot \in MayReboot : Fail(c, cut, reboot)
        => UNCHANGED <<link, added, devices>>
  BY DEF Fail
<1>3. \A cl \in Clients : AddClient(cl) \/ PostRequest(cl) \/ RemoveClient(cl)
        => UNCHANGED <<link, added, devices>>
  BY DEF AddClient, PostRequest, RemoveClient
<1>4. \A p \in Producers : AnswerRequest(p) \/ LockDevice(p) \/ DispatchResponse(p)
        => UNCHANGED <<link, added, devices>>
  <2>1. \A p \in Producers : AnswerRequest(p) => UNCHANGED <<link, added, devices>>
    BY DEF AnswerRequest
  <2>2. \A p \in Producers : LockDevice(p) => UNCHANGED <<link, added, devices>>
    BY DEF LockDevice
  <2>3. \A p \in Producers : DispatchResponse(p) => UNCHANGED <<link, added, devices>>
    BY DEF DispatchResponse
  <2> QED
    BY <2>1, <2>2, <2>3, Zenon
<1>5. SendRequest => UNCHANGED <<link, added, devices>>
  BY DEF SendRequest
<1> QED
  BY <1>1, <1>2, <1>3, <1>4, <1>5, Zenon

\* Only four actions touch the map, the backends' lists or added_flag.
LEMMA MapActions ==
  [Next]_vars =>
    \/ UNCHANGED <<link, added, devices>>
    \/ \E c \in Conns : Connect(c) \/ AddDevice(c) \/ RemoveDevice(c) \/ Destroy(c)
<1>1. UNCHANGED vars => UNCHANGED <<link, added, devices>>
  BY DEF vars
<1>2. ASSUME Next
      PROVE  \/ UNCHANGED <<link, added, devices>>
             \/ \E c \in Conns : Connect(c) \/ AddDevice(c) \/ RemoveDevice(c)
                                 \/ Destroy(c)
  BY <1>2, OtherActions, Zenon DEF Next
<1> QED
  BY <1>1, <1>2, Zenon

\* Each of them keeps every entry live.
LEMMA NextMapInv == MapInv /\ [Next]_vars => MapInv'
<1> SUFFICES ASSUME MapInv, [Next]_vars PROVE MapInv'
  OBVIOUS
<1> USE ConnAssumption
<1>1. CASE UNCHANGED <<link, added, devices>>
  BY <1>1 DEF MapInv, MapType, EntriesLive
<1>2. ASSUME NEW c \in Conns, Connect(c) PROVE MapInv'
  BY <1>2 DEF MapInv, MapType, EntriesLive, Connect
<1>3. ASSUME NEW c \in Conns, AddDevice(c) PROVE MapInv'
  BY <1>3 DEF MapInv, MapType, EntriesLive, AddDevice
<1>4. ASSUME NEW c \in Conns, RemoveDevice(c) PROVE MapInv'
  BY <1>4 DEF MapInv, MapType, EntriesLive, RemoveDevice, Erased
<1>5. ASSUME NEW c \in Conns, Destroy(c) PROVE MapInv'
  BY <1>5 DEF MapInv, MapType, EntriesLive, Destroy
<1> QED
  BY <1>1, <1>2, <1>3, <1>4, <1>5, MapActions

-----------------------------------------------------------------------------

\* Every entry of the device map leads to a device its backend still lists,
\* so LIST_DEVICES may lock each entry without looking at the result.
THEOREM EntriesAlwaysLive == Spec => []EntriesLive
<1>1. MapInv => EntriesLive
  BY DEF MapInv
<1> QED
  BY <1>1, InitMapInv, NextMapInv, PTL DEF Spec

-----------------------------------------------------------------------------
(***************************************************************************)
(* Priority of USB over TCP.                                               *)
(***************************************************************************)

\* A connection is added only after it was made.
AddedLater == \A c \in Conns : link[c] = "off" => ~added[c]

PriorityInv ==
  MapInv /\ flagged \in [Conns -> BOOLEAN] /\ AddedLater /\ UsbNotClobbered

\* deletion_flag is never cleared.
LEMMA FlagStays ==
  ASSUME flagged \in [Conns -> BOOLEAN], [Next]_vars
  PROVE  /\ flagged' \in [Conns -> BOOLEAN]
         /\ \A c \in Conns : flagged[c] => flagged'[c]
<1> DEFINE Kept == /\ flagged' \in [Conns -> BOOLEAN]
                   /\ \A c \in Conns : flagged[c] => flagged'[c]
<1>1. ASSUME UNCHANGED flagged PROVE Kept
  BY <1>1
<1>2. ASSUME NEW c \in Conns, flagged' = [flagged EXCEPT ![c] = TRUE] PROVE Kept
  BY <1>2
<1>3. UNCHANGED vars => UNCHANGED flagged
  BY DEF vars
<1>4. ASSUME NEW c \in Conns,
             \/ Connect(c) \/ Identified(c) \/ AddDevice(c) \/ RemoveDevice(c)
             \/ Destroy(c) \/ Receive(c) \/ Handle(c)
      PROVE  UNCHANGED flagged
  <2>1. CASE Connect(c) \/ Identified(c) \/ AddDevice(c) \/ RemoveDevice(c)
    BY <2>1 DEF Connect, Identified, AddDevice, RemoveDevice
  <2>2. CASE Destroy(c) \/ Receive(c)
    BY <2>2 DEF Destroy, Receive
  <2>3. CASE Handle(c)
    BY <2>3 DEF Handle
  <2> QED
    BY <1>4, <2>1, <2>2, <2>3
<1>5. ASSUME NEW c \in Conns, NEW cut \in BOOLEAN, NEW reboot \in MayReboot,
             Fail(c, cut, reboot)
      PROVE  Kept
  BY <1>2, <1>5 DEF Fail
<1>6. ASSUME NEW cl \in Clients, AddClient(cl) \/ PostRequest(cl) \/ RemoveClient(cl)
      PROVE  UNCHANGED flagged
  BY <1>6 DEF AddClient, PostRequest, RemoveClient
<1>7. ASSUME NEW p \in Producers,
             AnswerRequest(p) \/ LockDevice(p) \/ DispatchResponse(p)
      PROVE  UNCHANGED flagged
  <2>1. CASE AnswerRequest(p)
    BY <2>1 DEF AnswerRequest
  <2>2. CASE LockDevice(p)
    BY <2>2 DEF LockDevice
  <2>3. CASE DispatchResponse(p)
    BY <2>3 DEF DispatchResponse
  <2> QED
    BY <1>7, <2>1, <2>2, <2>3
<1>8. ASSUME SendRequest PROVE Kept
  <2>1. UNCHANGED flagged
          \/ \E c \in Conns : flagged' = [flagged EXCEPT ![c] = TRUE]
    BY <1>8, ConnAssumption DEF SendRequest, SendOverTcp, SendOverUsb
  <2> QED
    BY <2>1, <1>1, <1>2, Zenon
<1>9. CASE Next
  BY <1>9, <1>1, <1>4, <1>5, <1>6, <1>7, <1>8, Zenon DEF Next
<1> QED
  BY <1>1, <1>3, <1>9, Zenon

\* A USB device always takes the entry; a TCP device never takes it from one.
LEMMA EntryPriority ==
  ASSUME MapInv, NEW c \in Conns
  PROVE  /\ c \in Usb => TakesEntry(c)
         /\ c \notin Usb /\ devices[DeviceOf[c]] \in Usb => ~TakesEntry(c)
BY ConnAssumption DEF MapInv, MapType, EntriesLive, TakesEntry, GetPriority

\* A USB device keeps its entry until a connection of its console is flagged:
\* AddDevice respects priorities, and RemoveDevice needs a flagged connection.
LEMMA NextPriorityInv == PriorityInv /\ [Next]_vars => PriorityInv'
<1> SUFFICES ASSUME PriorityInv, [Next]_vars PROVE PriorityInv'
  OBVIOUS
<1> USE ConnAssumption
<1>1. MapInv'
  BY NextMapInv DEF PriorityInv
<1>2. /\ flagged' \in [Conns -> BOOLEAN]
      /\ \A c \in Conns : flagged[c] => flagged'[c]
  BY FlagStays DEF PriorityInv
<1>3. UsbNotClobbered'
  <2>1. CASE UNCHANGED <<link, added, devices>>
    BY <2>1, <1>2 DEF PriorityInv, UsbNotClobbered
  <2>2. ASSUME NEW c \in Conns, Connect(c) PROVE UsbNotClobbered'
    BY <2>2 DEF PriorityInv, MapInv, MapType, AddedLater, UsbNotClobbered, Connect
  <2>3. ASSUME NEW c \in Conns, AddDevice(c) PROVE UsbNotClobbered'
    <3>1. CASE c \in Usb
      BY <2>3, <3>1, EntryPriority
      DEF PriorityInv, MapInv, MapType, UsbNotClobbered, AddDevice
    <3>2. CASE c \notin Usb
      BY <2>3, <3>2, EntryPriority
      DEF PriorityInv, MapInv, MapType, UsbNotClobbered, AddDevice
    <3> QED
      BY <3>1, <3>2
  <2>4. ASSUME NEW c \in Conns, RemoveDevice(c) PROVE UsbNotClobbered'
    BY <2>4 DEF PriorityInv, MapInv, MapType, UsbNotClobbered, RemoveDevice, Erased
  <2>5. ASSUME NEW c \in Conns, Destroy(c) PROVE UsbNotClobbered'
    BY <2>5 DEF PriorityInv, MapInv, MapType, UsbNotClobbered, Destroy
  <2> QED
    BY <2>1, <2>2, <2>3, <2>4, <2>5, MapActions
<1>4. AddedLater'
  <2>1. CASE UNCHANGED <<link, added, devices>>
    BY <2>1 DEF PriorityInv, AddedLater
  <2>2. ASSUME NEW c \in Conns, Connect(c) PROVE AddedLater'
    BY <2>2 DEF PriorityInv, MapInv, MapType, AddedLater, Connect
  <2>3. ASSUME NEW c \in Conns, AddDevice(c) PROVE AddedLater'
    BY <2>3 DEF PriorityInv, MapInv, MapType, AddedLater, AddDevice
  <2>4. ASSUME NEW c \in Conns, RemoveDevice(c) PROVE AddedLater'
    BY <2>4 DEF PriorityInv, MapInv, MapType, AddedLater, RemoveDevice
  <2>5. ASSUME NEW c \in Conns, Destroy(c) PROVE AddedLater'
    BY <2>5 DEF PriorityInv, MapInv, MapType, AddedLater, Destroy
  <2> QED
    BY <2>1, <2>2, <2>3, <2>4, <2>5, MapActions
<1> QED
  BY <1>1, <1>2, <1>3, <1>4 DEF PriorityInv

\* As long as no connection of its console fails, a USB device that was added
\* has the device id's entry, in whatever order connections came: AddDevice
\* compares priorities.  A failure can displace it through Daemon::RemoveDevice,
\* which erases whatever entry the device id has.
THEOREM UsbKeepsEntry == Spec => []UsbNotClobbered
<1>1. Init => PriorityInv
  BY InitMapInv, ConnAssumption DEF Init, PriorityInv, AddedLater, UsbNotClobbered
<1>2. PriorityInv => UsbNotClobbered
  BY DEF PriorityInv
<1> QED
  BY <1>1, <1>2, NextPriorityInv, PTL DEF Spec

-----------------------------------------------------------------------------
(***************************************************************************)
(* Messages and where they are.                                            *)
(***************************************************************************)

Callers == Clients \cup {Local}
Tags == Callers \X Nat
Finite(S) == {x \in SUBSET S : IsFiniteSet(x)}
Results == {"ok", "error", "unrecognized_object", "unrecognized_device", "transfer_error"}

CommandNames == {"list", "open", "close"}
\* The close of a BridgeObject goes to the device id it records.
Bridges ==
  {b \in Objects : b.device = IF b.conn \in Usb THEN DeviceOf[b.conn] ELSE ClientIdAsDevice}
Requests ==
  [kind : {"rq"}, client : Callers, device : DeviceIds \cup {Meta, ClientIdAsDevice},
   oid : Nat, command : CommandNames, tag : Tags, via : Conns \cup {NoConn}]
Responses ==
  [kind : {"rs"}, client : Callers, tag : Tags, result : Results,
   objects : Finite(Bridges)]

\* A message carries the tag of its client, and a request for an object the
\* device id of the connection the object came from, if it has one at all.
Tagged(S) == {m \in S : m.tag[1] = m.client}
Aimed(oid, device, via) ==
  oid # 0 /\ device \in DeviceIds => via \in Conns /\ DeviceOf[via] = device
Rq == {m \in Tagged(Requests) : Aimed(m.oid, m.device, m.via)}
Rs == Tagged(Responses)
Closes == {m \in Rq : m.tag = <<Local, 0>>}

MessageType ==
  /\ link \in [Conns -> {"off", "listed", "dropped", "destroyed"}]
  /\ devices \in [DeviceIds -> Conns \cup {NoConn}]
  /\ pending \in [Conns -> Finite(Rq)]
  /\ held \in [Conns -> Finite(Bridges)]
  /\ wire \in [Conns -> Seq(Rq)]
  /\ back \in [Conns -> SUBSET Rs]
  /\ nextoid \in [Ports -> Nat]
  /\ queue \in [Producers -> Seq(Rq \cup Rs)]
  /\ disp.rq \in SUBSET Rq /\ (disp.rq # {} => disp.conn \in Conns)
  /\ sent \in [Clients -> Nat]
  /\ known \in [Clients -> SUBSET [conn : Conns, oid : Nat]]
  /\ owned \in [Clients -> Finite(Bridges)]
  /\ got \in [Clients -> Seq(Tags \X Results)]

\* A finite set as a sequence: every member once.
LEMMA SeqOfFacts ==
  ASSUME NEW S, IsFiniteSet(S)
  PROVE  /\ SeqOf(S) \in Seq(S)
         /\ \A i, j \in 1..Len(SeqOf(S)) : SeqOf(S)[i] = SeqOf(S)[j] => i = j
<1>1. Cardinality(S) \in Nat /\ ExistsBijection(1..Cardinality(S), S)
  BY FS_CardinalityType
<1> DEFINE n == Cardinality(S)
<1> HIDE DEF n
<1>2. PICK f \in Bijection(1..n, S) : TRUE
  BY <1>1 DEF ExistsBijection, n
<1>3. f \in [1..n -> S] /\ \A i, j \in 1..n : f[i] = f[j] => i = j
  BY <1>2 DEF Bijection, Injection, IsInjective
<1>4. /\ SeqOf(S) \in [1..n -> S]
      /\ \A i, j \in 1..n : SeqOf(S)[i] = SeqOf(S)[j] => i = j
  BY <1>3, Zenon DEF SeqOf, n
<1>5. n \in Nat
  BY <1>1 DEF n
<1> HIDE DEF SeqOf
<1>6. SeqOf(S) \in Seq(S) /\ Len(SeqOf(S)) = n
  BY <1>4, <1>5
<1> QED
  BY <1>4, <1>6

\* A close that twibd requests itself.
LEMMA LocalCloseFacts ==
  ASSUME NEW device \in DeviceIds \cup {Meta, ClientIdAsDevice}, NEW oid \in Nat,
         NEW via \in Conns \cup {NoConn}, Aimed(oid, device, via)
  PROVE  LocalClose(device, oid, via) \in Closes
<1> DEFINE m == LocalClose(device, oid, via)
<1>1. <<Local, 0>> \in Tags
  BY DEF Tags, Callers
<1>2. m \in Requests
  BY <1>1 DEF LocalClose, Request, Requests, Callers, CommandNames
<1>3. /\ m.tag = <<Local, 0>> /\ m.client = Local
      /\ m.oid = oid /\ m.device = device /\ m.via = via
  BY DEF LocalClose, Request
<1> HIDE DEF m
<1> QED
  BY <1>2, <1>3 DEF Closes, Rq, Tagged, m

\* Destructors request closes and nothing else.
LEMMA DestructorFacts ==
  ASSUME NEW bs \in Finite(Bridges), NEW o, NEW q, NEW h
  PROVE  Destructors(bs, o, q, h) \in Seq(Closes)
<1> DEFINE X == (bs \ invalid) \ Referenced(o, q, h)
           C == {LocalClose(b.device, b.oid, b.conn) : b \in X}
           f == [b \in X |-> LocalClose(b.device, b.oid, b.conn)]
<1>1. X \in SUBSET bs /\ X \subseteq Bridges /\ IsFiniteSet(bs)
  BY DEF Finite
<1> HIDE DEF X
<1>2. IsFiniteSet(X)
  BY <1>1, FS_Subset
<1>3. C \subseteq Closes
  <2>1. ASSUME NEW b \in X PROVE LocalClose(b.device, b.oid, b.conn) \in Closes
    <3>1. /\ b.device \in DeviceIds \cup {Meta, ClientIdAsDevice}
          /\ b.oid \in Nat /\ b.conn \in Conns
      BY <1>1 DEF Bridges, Objects
    <3>2. Aimed(b.oid, b.device, b.conn)
      BY <1>1, IdAssumption DEF Bridges, Objects, Aimed
    <3> QED
      BY <3>1, <3>2, LocalCloseFacts
  <2> QED
    BY <2>1
<1>4. f \in Surjection(X, C)
  BY DEF Surjection
<1>5. IsFiniteSet(C)
  BY <1>2, <1>4, FS_Surjection
<1> HIDE DEF C
<1>6. SeqOf(C) \in Seq(C)
  BY <1>5, SeqOfFacts
<1>7. SeqOf(C) \in Seq(Closes)
  BY <1>3, <1>6
<1> QED
  BY <1>7 DEF Destructors, C, X

\* Messages are posted at the end of one thread's queue.
LEMMA PostFacts ==
  ASSUME NEW q \in [Producers -> Seq(Rq \cup Rs)], NEW p \in Producers,
         NEW ms \in Seq(Rq \cup Rs)
  PROVE  /\ Post(q, p, ms) \in [Producers -> Seq(Rq \cup Rs)]
         /\ Post(q, p, ms)[p] = q[p] \o ms
         /\ \A r \in Producers : r # p => Post(q, p, ms)[r] = q[r]
         /\ Post(q, p, <<>>) = q
<1>1. q[p] \o ms \in Seq(Rq \cup Rs) /\ q[p] \o <<>> = q[p]
  BY ConcatProperties, ConcatEmptySeq
<1> QED
  BY <1>1 DEF Post

\* Freeing a client posts closes.
LEMMA FreeClientFacts ==
  ASSUME MessageType, NEW cl, NEW st, NEW q \in [Producers -> Seq(Rq \cup Rs)], NEW d,
         NEW p \in Producers, FreeClient(cl, st, q, d, p)
  PROVE  /\ owned' \in [Clients -> Finite(Bridges)]
         /\ \E cs \in Seq(Closes) : queue' = Post(q, p, cs)
<1>1. CASE ClientFreed(cl, st, q, d)
  <2> DEFINE o == [owned EXCEPT ![cl] = {}]
             cs == Destructors(owned[cl], o, q, held)
  <2>1. cl \in Clients /\ owned' = o /\ queue' = Post(q, p, cs)
    BY <1>1 DEF FreeClient, ClientFreed
  <2>2. {} \in Finite(Bridges) /\ owned[cl] \in Finite(Bridges)
    BY <2>1, FS_EmptySet DEF Finite, MessageType
  <2>3. cs \in Seq(Closes)
    BY <2>2, DestructorFacts
  <2>4. o \in [Clients -> Finite(Bridges)]
    BY <2>2 DEF MessageType
  <2> QED
    BY <2>1, <2>3, <2>4
<1>2. CASE ~ClientFreed(cl, st, q, d)
  <2>1. queue' = q /\ owned' = owned
    BY <1>2 DEF FreeClient
  <2>2. <<>> \in Seq(Closes) /\ <<>> \in Seq(Rq \cup Rs)
    OBVIOUS
  <2>3. queue' = Post(q, p, <<>>)
    BY <2>1, <2>2, PostFacts
  <2> QED
    BY <2>1, <2>2, <2>3 DEF MessageType
<1> QED
  BY <1>1, <1>2

\* The request a client posts carries its tag.
LEMMA RequestFacts ==
  ASSUME NEW cl \in Clients, NEW device \in DeviceIds \cup {Meta}, NEW oid \in Nat,
         NEW command \in CommandNames, NEW tag \in Tags, tag[1] = cl,
         NEW via \in Conns \cup {NoConn}, Aimed(oid, device, via)
  PROVE  /\ Request(cl, device, oid, command, tag, via) \in Rq
         /\ Request(cl, device, oid, command, tag, via).tag = tag
<1> DEFINE m == Request(cl, device, oid, command, tag, via)
<1>1. m \in Requests
  BY DEF Request, Requests, Callers
<1>2. /\ m.tag = tag /\ m.client = cl
      /\ m.oid = oid /\ m.device = device /\ m.via = via
  BY DEF Request
<1> HIDE DEF m
<1> QED
  BY <1>1, <1>2 DEF Rq, Tagged, m

\* A response carries the tag and the client of its request.
LEMMA ResponseFacts ==
  ASSUME NEW rq \in Rq, NEW result \in Results, NEW objects \in Finite(Bridges)
  PROVE  /\ Response(rq, result, objects) \in Rs
         /\ Response(rq, result, objects).tag = rq.tag
<1> DEFINE m == Response(rq, result, objects)
<1>1. rq.client \in Callers /\ rq.tag \in Tags /\ rq.tag[1] = rq.client
  BY DEF Rq, Tagged, Requests
<1>2. m \in Responses
  BY <1>1 DEF Response, Responses
<1>3. m.tag = rq.tag /\ m.client = rq.client
  BY DEF Response
<1> HIDE DEF m
<1> QED
  BY <1>1, <1>2, <1>3 DEF Rs, Tagged, m

\* Requests and responses have different kinds, and their fields have types.
LEMMA KindFacts ==
  /\ \A m \in Rq : /\ m.kind = "rq" /\ m.oid \in Nat /\ m.client \in Callers
                   /\ Aimed(m.oid, m.device, m.via)
                   /\ m.tag \in Tags /\ m.tag[1] = m.client
  /\ \A m \in Rs : /\ m.kind = "rs" /\ m.objects \in Finite(Bridges)
                   /\ m.client \in Callers /\ m.result \in Results
                   /\ m.tag \in Tags /\ m.tag[1] = m.client
  /\ Closes \subseteq Rq
  /\ \A m \in Closes : m.tag = <<Local, 0>>
<1>1. \A m \in Rq : /\ m.kind = "rq" /\ m.oid \in Nat /\ m.client \in Callers
                    /\ Aimed(m.oid, m.device, m.via)
                    /\ m.tag \in Tags /\ m.tag[1] = m.client
  BY DEF Rq, Tagged, Requests
<1>2. \A m \in Rs : /\ m.kind = "rs" /\ m.objects \in Finite(Bridges)
                    /\ m.client \in Callers /\ m.result \in Results
                    /\ m.tag \in Tags /\ m.tag[1] = m.client
  BY DEF Rs, Tagged, Responses
<1> QED
  BY <1>1, <1>2 DEF Closes

\* A set with one member more, a set with members taken away and the set of the
\* failures of pending requests are finite.
LEMMA FiniteFacts ==
  ASSUME NEW S
  PROVE  /\ {} \in Finite(S)
         /\ \A x \in Finite(S), m \in S : x \cup {m} \in Finite(S)
         /\ \A x, y \in Finite(S) : x \cup y \in Finite(S)
         /\ \A x \in Finite(S) : SUBSET x \subseteq Finite(S)
<1>1. {} \in Finite(S)
  BY FS_EmptySet DEF Finite
<1>2. ASSUME NEW x \in Finite(S), NEW m \in S PROVE x \cup {m} \in Finite(S)
  BY FS_AddElement DEF Finite
<1>3. ASSUME NEW x \in Finite(S), NEW y \in Finite(S) PROVE x \cup y \in Finite(S)
  BY FS_Union DEF Finite
<1>4. ASSUME NEW x \in Finite(S) PROVE SUBSET x \subseteq Finite(S)
  BY FS_Subset DEF Finite
<1> QED
  BY <1>1, <1>2, <1>3, <1>4

\* What a dying USB device answers: every pending request once.
Failures(c) == {Response(rq, "transfer_error", {}) : rq \in pending[c]}

\* They are finitely many responses.
LEMMA FailureFacts ==
  ASSUME MessageType, NEW c \in Conns
  PROVE  /\ Failures(c) \subseteq Rs
         /\ IsFiniteSet(Failures(c))
         /\ SeqOf(Failures(c)) \in Seq(Rs)
<1> DEFINE f == [rq \in pending[c] |-> Response(rq, "transfer_error", {})]
           S == Failures(c)
<1>1. pending[c] \subseteq Rq /\ IsFiniteSet(pending[c])
  BY DEF MessageType, Finite
<1>2. {} \in Finite(Bridges)
  BY FiniteFacts
<1>3. "transfer_error" \in Results
  BY DEF Results
<1>4. ASSUME NEW rq \in pending[c] PROVE Response(rq, "transfer_error", {}) \in Rs
  BY <1>1, <1>2, <1>3, ResponseFacts
<1>5. S \subseteq Rs
  BY <1>4, Zenon DEF Failures
<1>6. f \in Surjection(pending[c], S)
  BY DEF Surjection, Failures
<1>7. IsFiniteSet(S)
  BY <1>1, <1>6, FS_Surjection
<1> HIDE DEF S
<1>8. SeqOf(S) \in Seq(S)
  BY <1>7, SeqOfFacts
<1>9. SeqOf(S) \in Seq(Rs)
  BY <1>5, <1>8
<1> QED
  BY <1>5, <1>7, <1>9 DEF S

\* The actions that leave queues, messages and clients' objects alone.
LEMMA QuietMessageType ==
  ASSUME MessageType, NEW c \in Conns,
         \/ Connect(c) \/ Identified(c) \/ RemoveDevice(c)
         \/ \E cut \in BOOLEAN, reboot \in MayReboot : Fail(c, cut, reboot)
  PROVE  MessageType'
<1> USE ConnAssumption
<1>1. CASE Connect(c)
  BY <1>1 DEF MessageType, Connect
<1>2. CASE Identified(c)
  BY <1>2 DEF MessageType, Identified
<1>3. CASE RemoveDevice(c)
  <2>1. Erased(c) \in [DeviceIds -> Conns \cup {NoConn}]
    BY DEF MessageType, Erased
  <2>2. [link EXCEPT ![c] = "dropped"]
          \in [Conns -> {"off", "listed", "dropped", "destroyed"}]
    BY DEF MessageType
  <2> QED
    BY <1>3, <2>1, <2>2 DEF MessageType, RemoveDevice
<1>4. ASSUME NEW cut \in BOOLEAN, NEW reboot \in MayReboot, Fail(c, cut, reboot)
      PROVE  MessageType'
  <2>1. wire' \in [Conns -> Seq(Rq)]
    BY <1>4 DEF MessageType, Fail
  <2>2. back' \in [Conns -> SUBSET Rs]
    BY <1>4 DEF MessageType, Fail
  <2>3. nextoid' \in [Ports -> Nat]
    BY <1>4 DEF MessageType, Fail, Port, Ports
  <2>4. UNCHANGED <<link, devices, pending, held, queue, disp, sent, known, owned, got>>
    BY <1>4 DEF Fail
  <2> QED
    BY <2>1, <2>2, <2>3, <2>4 DEF MessageType
<1> QED
  BY <1>1, <1>2, <1>3, <1>4

\* AddDevice may post the close of every object.
LEMMA AddDeviceFacts ==
  ASSUME MessageType, NEW c \in Conns, AddDevice(c)
  PROVE  /\ MessageType'
         /\ \E cs \in Seq(Closes) : queue' = Post(queue, Backend(c), cs)
<1> USE ConnAssumption
<1> DEFINE cs == <<LocalClose(DeviceOf[c], 0, c)>>
<1>1. LocalClose(DeviceOf[c], 0, c) \in Closes
  <2>1. Aimed(0, DeviceOf[c], c)
    BY DEF Aimed
  <2> QED
    BY <2>1, LocalCloseFacts
<1>2. cs \in Seq(Closes) /\ <<>> \in Seq(Closes)
  BY <1>1
<1>3. cs \in Seq(Rq \cup Rs) /\ <<>> \in Seq(Rq \cup Rs)
  BY <1>1, KindFacts
<1>4. Backend(c) \in Producers
  BY DEF Backend, Producers
<1>5. queue \in [Producers -> Seq(Rq \cup Rs)]
  BY DEF MessageType
<1>6. queue' = Post(queue, Backend(c), cs) \/ queue' = queue
  BY DEF AddDevice
<1> HIDE DEF cs
<1>7. queue = Post(queue, Backend(c), <<>>)
  BY <1>3, <1>4, <1>5, PostFacts
<1>8. Post(queue, Backend(c), cs) \in [Producers -> Seq(Rq \cup Rs)]
  BY <1>3, <1>4, <1>5, PostFacts
<1>9. devices' \in [DeviceIds -> Conns \cup {NoConn}]
  BY DEF MessageType, AddDevice
<1>10. UNCHANGED <<link, pending, held, wire, back, nextoid, disp, sent, known, owned, got>>
  BY DEF AddDevice
<1>11. MessageType'
  BY <1>5, <1>6, <1>8, <1>9, <1>10 DEF MessageType
<1> QED
  BY <1>2, <1>6, <1>7, <1>11

\* Destroy posts a failure for every request pending on a USB device, and closes.
LEMMA DestroyFacts ==
  ASSUME MessageType, NEW c \in Conns, Destroy(c)
  PROVE  /\ MessageType'
         /\ \E p \in Producers, fs \in Seq(Rs), cs \in Seq(Closes) :
              /\ fs = (IF c \in Usb THEN SeqOf(Failures(c)) ELSE <<>>)
              /\ queue' = Post(Post(queue, p, fs), p, cs)
<1> DEFINE fs == IF c \in Usb THEN SeqOf(Failures(c)) ELSE <<>>
<1>1. fs \in Seq(Rs)
  BY FailureFacts
<1>2. fs \in Seq(Rq \cup Rs)
  BY <1>1
<1>3. \E p \in {Backend(c), "disp"} :
        queue' = Post(Post(queue, p, fs), p,
                      Destructors(held[c], owned, Post(queue, p, fs), held'))
  BY DEF Destroy, Failures
<1>4. PICK p \in Producers :
        queue' = Post(Post(queue, p, fs), p,
                      Destructors(held[c], owned, Post(queue, p, fs), held'))
  BY <1>3 DEF Backend, Producers
<1> DEFINE cs == Destructors(held[c], owned, Post(queue, p, fs), held')
<1>5. held[c] \in Finite(Bridges)
  BY DEF MessageType
<1>6. cs \in Seq(Closes)
  BY <1>5, DestructorFacts
<1>7. cs \in Seq(Rq \cup Rs)
  BY <1>6, KindFacts
<1>8. queue' = Post(Post(queue, p, fs), p, cs)
  BY <1>4
<1> HIDE DEF fs, cs
<1>9. queue \in [Producers -> Seq(Rq \cup Rs)]
  BY DEF MessageType
<1>10. Post(queue, p, fs) \in [Producers -> Seq(Rq \cup Rs)]
  BY <1>2, <1>9, PostFacts
<1>11. queue' \in [Producers -> Seq(Rq \cup Rs)]
  BY <1>7, <1>8, <1>10, PostFacts
<1>12. {} \in Finite(Rq) /\ {} \in Finite(Bridges)
  BY FiniteFacts
<1>13. pending' \in [Conns -> Finite(Rq)] /\ held' \in [Conns -> Finite(Bridges)]
  BY <1>12 DEF Destroy, MessageType
<1>14. link' \in [Conns -> {"off", "listed", "dropped", "destroyed"}]
       /\ back' \in [Conns -> SUBSET Rs]
  BY DEF Destroy, MessageType
<1>15. UNCHANGED <<wire, nextoid, devices, disp, sent, known, owned, got>>
  BY DEF Destroy
<1>16. MessageType'
  BY <1>11, <1>13, <1>14, <1>15 DEF MessageType
<1> QED
  BY <1>1, <1>6, <1>8, <1>16 DEF fs

\* Receive posts closes and then the response.
LEMMA ReceiveFacts ==
  ASSUME MessageType, NEW c \in Conns, Receive(c)
  PROVE  /\ MessageType'
         /\ \E rs \in back[c] \cap Rs, cs \in Seq(Closes) :
              /\ back' = [back EXCEPT ![c] = @ \ {rs}]
              /\ pending' = [pending EXCEPT ![c] = StillPending(c, rs)]
              /\ queue' = Post(queue, Backend(c), Append(cs, rs))
<1>1. PICK rs \in back[c] :
        /\ back' = [back EXCEPT ![c] = @ \ {rs}]
        /\ held' = [held EXCEPT ![c] = rs.objects]
        /\ pending' = [pending EXCEPT ![c] = StillPending(c, rs)]
        /\ queue' = Post(queue, Backend(c),
                         Append(Destructors(held[c], owned, queue, held'), rs))
  BY DEF Receive
<1> DEFINE cs == Destructors(held[c], owned, queue, held')
<1>2. rs \in Rs
  BY DEF MessageType
<1>3. held[c] \in Finite(Bridges)
  BY DEF MessageType
<1>4. cs \in Seq(Closes)
  BY <1>3, DestructorFacts
<1>5. queue' = Post(queue, Backend(c), Append(cs, rs))
  BY <1>1
<1> HIDE DEF cs
<1>6. Append(cs, rs) \in Seq(Rq \cup Rs)
  BY <1>2, <1>4, KindFacts
<1>7. Backend(c) \in Producers
  BY DEF Backend, Producers
<1>8. queue \in [Producers -> Seq(Rq \cup Rs)]
  BY DEF MessageType
<1>9. queue' \in [Producers -> Seq(Rq \cup Rs)]
  BY <1>5, <1>6, <1>7, <1>8, PostFacts
<1>10. rs.objects \in Finite(Bridges)
  BY <1>2, KindFacts
<1>11. held' \in [Conns -> Finite(Bridges)]
  BY <1>1, <1>10 DEF MessageType
<1>12. StillPending(c, rs) \in SUBSET pending[c] /\ pending[c] \in Finite(Rq)
  BY DEF StillPending, MessageType
<1>13. StillPending(c, rs) \in Finite(Rq)
  BY <1>12, FiniteFacts
<1>14. pending' \in [Conns -> Finite(Rq)]
  BY <1>1, <1>13 DEF MessageType
<1>15. back' \in [Conns -> SUBSET Rs]
  BY <1>1 DEF MessageType
<1>16. UNCHANGED <<link, wire, nextoid, devices, disp, sent, known, owned, got>>
  BY DEF Receive
<1>17. MessageType'
  BY <1>9, <1>11, <1>14, <1>15, <1>16 DEF MessageType
<1> QED
  BY <1>1, <1>2, <1>4, <1>5, <1>17

\* The console answers the request at the head of the wire.
LEMMA HandleFacts ==
  ASSUME MessageType, NEW c \in Conns, Handle(c)
  PROVE  /\ MessageType'
         /\ wire[c] # <<>> /\ wire' = [wire EXCEPT ![c] = Tail(@)]
         /\ \E rs \in Rs : /\ rs.tag = Head(wire[c]).tag
                           /\ back' = [back EXCEPT ![c] = @ \cup {rs}]
<1> DEFINE rq == Head(wire[c])
           port == Port(c)
           new == {BridgeObject(c, nextoid[port])}
<1> USE ConnAssumption
<1>1. wire[c] # <<>> /\ wire' = [wire EXCEPT ![c] = Tail(@)]
  BY DEF Handle
<1>2. wire \in [Conns -> Seq(Rq)]
  BY DEF MessageType
<1>3. rq \in Rq /\ Tail(wire[c]) \in Seq(Rq)
  BY <1>1, <1>2, HeadTailProperties
<1>4. wire' \in [Conns -> Seq(Rq)]
  BY <1>1, <1>2, <1>3
<1>5. port \in Ports /\ nextoid[port] \in Nat
  BY DEF Port, Ports, MessageType
<1>6. BridgeObject(c, nextoid[port]) \in Bridges
  BY <1>5 DEF BridgeObject, Bridges, Objects
<1>7. {} \in Finite(Bridges) /\ {} \cup new \in Finite(Bridges)
  BY <1>6, FiniteFacts
<1>8. {} \in Finite(Bridges) /\ new \in Finite(Bridges)
  BY <1>7
<1>9. \E result \in Results, objects \in Finite(Bridges) :
        back' = [back EXCEPT ![c] = @ \cup {Response(rq, result, objects)}]
  <2>1. \/ back' = [back EXCEPT ![c] = @ \cup {Response(rq, "ok", new)}]
        \/ back' = [back EXCEPT ![c] = @ \cup {Response(rq, "error", {})}]
        \/ back' = [back EXCEPT ![c] = @ \cup {Response(rq, "ok", {})}]
        \/ back' = [back EXCEPT ![c] = @ \cup {Response(rq, "unrecognized_object", {})}]
    BY DEF Handle
  <2>2. {"ok", "error", "unrecognized_object"} \subseteq Results
    BY DEF Results
  <2> QED
    BY <1>8, <2>1, <2>2
<1>10. PICK rs \in Rs : rs.tag = rq.tag /\ back' = [back EXCEPT ![c] = @ \cup {rs}]
  BY <1>3, <1>9, ResponseFacts
<1>11. back' \in [Conns -> SUBSET Rs]
  BY <1>10 DEF MessageType
<1>12. nextoid' = [nextoid EXCEPT ![port] = @ + 1] \/ nextoid' = nextoid
  BY DEF Handle, consoleVars
<1>13. nextoid' \in [Ports -> Nat]
  <2> HIDE DEF port
  <2>1. nextoid \in [Ports -> Nat] /\ nextoid[port] + 1 \in Nat
    BY <1>5 DEF MessageType
  <2> QED
    BY <1>5, <1>12, <2>1
<1>14. UNCHANGED <<link, devices, pending, held, queue, disp, sent, known, owned, got>>
  BY DEF Handle
<1>15. MessageType'
  BY <1>4, <1>11, <1>13, <1>14 DEF MessageType
<1> QED
  BY <1>1, <1>10, <1>15

\* A client posts one request, with a tag of its own.
LEMMA PostRequestFacts ==
  ASSUME MessageType, NEW cl \in Clients, PostRequest(cl)
  PROVE  /\ MessageType'
         /\ sent' = [sent EXCEPT ![cl] = @ + 1]
         /\ \E rq \in Rq : /\ rq.tag = <<cl, sent[cl] + 1>>
                           /\ queue' = Post(queue, "front", <<rq>>)
<1> USE ConnAssumption
<1> DEFINE tag == <<cl, sent[cl] + 1>>
<1>1. sent[cl] \in Nat /\ sent[cl] + 1 \in Nat
  BY DEF MessageType
<1> DEFINE Asks(device, oid, command, via) ==
             /\ queue' = Post(queue, "front", <<Request(cl, device, oid, command, tag, via)>>)
             /\ Aimed(oid, device, via)
           Asked == \E device \in DeviceIds \cup {Meta}, oid \in Nat,
                       command \in CommandNames, via \in Conns \cup {NoConn} :
                      Asks(device, oid, command, via)
           Known == known' \in [Clients -> SUBSET [conn : Conns, oid : Nat]]
<1>2. Asked /\ Known
  <2>1. \/ Asks(Meta, 0, "list", NoConn) /\ UNCHANGED known
        \/ (\E id \in DeviceIds : Asks(id, 0, "open", NoConn)) /\ UNCHANGED known
        \/ \E b \in known[cl] : /\ Asks(DeviceOf[b.conn], b.oid, "close", b.conn)
                                /\ known' = [known EXCEPT ![cl] = @ \ {b}]
    <3>1. \A b \in known[cl] : b.conn \in Conns
      BY DEF MessageType
    <3>2. \A b \in known[cl] : Aimed(b.oid, DeviceOf[b.conn], b.conn)
      BY <3>1 DEF Aimed
    <3>3. \A id : Aimed(0, id, NoConn)
      BY DEF Aimed
    <3> QED
      BY <3>2, <3>3 DEF PostRequest
  <2> HIDE DEF Asks
  <2>2. CASE Asks(Meta, 0, "list", NoConn) /\ UNCHANGED known
    BY <2>2 DEF MessageType, CommandNames
  <2>3. ASSUME NEW id \in DeviceIds, Asks(id, 0, "open", NoConn), UNCHANGED known
        PROVE  Asked /\ Known
    BY <2>3 DEF MessageType, CommandNames
  <2>4. ASSUME NEW b \in known[cl], Asks(DeviceOf[b.conn], b.oid, "close", b.conn),
               known' = [known EXCEPT ![cl] = @ \ {b}]
        PROVE  Asked /\ Known
    <3>1. b.conn \in Conns /\ b.oid \in Nat /\ DeviceOf[b.conn] \in DeviceIds
      BY DEF MessageType
    <3>2. Known
      BY <2>4 DEF MessageType
    <3> QED
      BY <2>4, <3>1, <3>2 DEF CommandNames
  <2> QED
    BY <2>1, <2>2, <2>3, <2>4
<1>3. PICK rq \in Rq : rq.tag = tag /\ queue' = Post(queue, "front", <<rq>>)
  <2>1. PICK device \in DeviceIds \cup {Meta}, oid \in Nat,
             command \in CommandNames, via \in Conns \cup {NoConn} :
               Asks(device, oid, command, via)
    BY <1>2
  <2>2. /\ Request(cl, device, oid, command, tag, via) \in Rq
        /\ Request(cl, device, oid, command, tag, via).tag = tag
    <3>1. tag \in Tags /\ tag[1] = cl
      BY <1>1 DEF Tags, Callers
    <3>2. Aimed(oid, device, via)
      BY <2>1
    <3> HIDE DEF tag
    <3> QED
      BY <3>1, <3>2, RequestFacts
  <2> QED
    BY <2>1, <2>2
<1>4. <<rq>> \in Seq(Rq \cup Rs) /\ "front" \in Producers
  BY DEF Producers
<1>5. queue \in [Producers -> Seq(Rq \cup Rs)]
  BY DEF MessageType
<1>6. queue' \in [Producers -> Seq(Rq \cup Rs)]
  BY <1>3, <1>4, <1>5, PostFacts
<1>7. sent' = [sent EXCEPT ![cl] = @ + 1] /\ sent' \in [Clients -> Nat]
  BY <1>1 DEF MessageType, PostRequest
<1>8. UNCHANGED <<link, devices, pending, held, wire, back, nextoid, disp, owned, got>>
  BY DEF PostRequest
<1>9. MessageType'
  BY <1>2, <1>6, <1>7, <1>8 DEF MessageType
<1> QED
  BY <1>3, <1>7, <1>9

\* A client that goes may leave closes behind.
LEMMA RemoveClientFacts ==
  ASSUME MessageType, NEW cl \in Clients, RemoveClient(cl)
  PROVE  /\ MessageType'
         /\ \E cs \in Seq(Closes) : queue' = Post(queue, "front", cs)
<1>1. queue \in [Producers -> Seq(Rq \cup Rs)] /\ "front" \in Producers
  BY DEF MessageType, Producers
<1>2. FreeClient(cl, status', queue, disp, "front")
  BY DEF RemoveClient
<1>3. owned' \in [Clients -> Finite(Bridges)]
  BY <1>1, <1>2, FreeClientFacts
<1>4. PICK cs \in Seq(Closes) : queue' = Post(queue, "front", cs)
  BY <1>1, <1>2, FreeClientFacts
<1>5. cs \in Seq(Rq \cup Rs)
  BY KindFacts
<1>6. queue' \in [Producers -> Seq(Rq \cup Rs)]
  BY <1>1, <1>4, <1>5, PostFacts
<1>7. UNCHANGED <<link, devices, pending, held, wire, back, nextoid, disp, sent, known, got>>
  BY DEF RemoveClient
<1>8. MessageType'
  BY <1>3, <1>6, <1>7 DEF MessageType
<1> QED
  BY <1>4, <1>8

\* What is left of the queues when the dispatcher takes a message of thread p.
Popped(p) == [queue EXCEPT ![p] = Tail(@)]

\* The rest is queued as before, and what is taken is a message.
LEMMA PoppedType ==
  ASSUME MessageType, NEW p \in Producers, queue[p] # <<>>
  PROVE  /\ Popped(p) \in [Producers -> Seq(Rq \cup Rs)]
         /\ Head(queue[p]) \in Rq \cup Rs
<1>1. queue \in [Producers -> Seq(Rq \cup Rs)]
  BY DEF MessageType
<1>2. Head(queue[p]) \in Rq \cup Rs /\ Tail(queue[p]) \in Seq(Rq \cup Rs)
  BY <1>1, HeadTailProperties
<1> QED
  BY <1>1, <1>2 DEF Popped

\* twibd answers a request itself.
LEMMA AnswerFacts ==
  ASSUME MessageType, NEW p \in Producers, AnswerRequest(p)
  PROVE  /\ MessageType'
         /\ queue[p] # <<>>
         /\ \E rs \in Rs, cs \in Seq(Closes) :
              /\ rs.tag = Head(queue[p]).tag
              /\ queue' = Post(Post(Popped(p), "disp", <<rs>>), "disp", cs)
<1> DEFINE rq == Head(queue[p])
           rs == Response(rq, IF rq.device = Meta THEN "ok" ELSE "unrecognized_device", {})
           q == Post(Popped(p), "disp", <<rs>>)
<1>1. /\ queue[p] # <<>> /\ rq.kind = "rq"
      /\ FreeClient(rq.client, status, q, Idle, "disp")
  BY DEF AnswerRequest, Popped, Answer
<1>2. Popped(p) \in [Producers -> Seq(Rq \cup Rs)] /\ rq \in Rq \cup Rs
  BY <1>1, PoppedType
<1>3. rq \in Rq
  BY <1>1, <1>2, KindFacts
<1>4. {} \in Finite(Bridges) /\ {"ok", "unrecognized_device"} \subseteq Results
  BY FiniteFacts DEF Results
<1>5. rs \in Rs /\ rs.tag = rq.tag
  BY <1>3, <1>4, ResponseFacts
<1> HIDE DEF rs
<1>6. <<rs>> \in Seq(Rq \cup Rs) /\ "disp" \in Producers
  BY <1>5 DEF Producers
<1>7. q \in [Producers -> Seq(Rq \cup Rs)]
  BY <1>2, <1>6, PostFacts
<1> HIDE DEF q
<1>8. owned' \in [Clients -> Finite(Bridges)]
  BY <1>1, <1>6, <1>7, FreeClientFacts
<1>9. PICK cs \in Seq(Closes) : queue' = Post(q, "disp", cs)
  BY <1>1, <1>6, <1>7, FreeClientFacts
<1>10. cs \in Seq(Rq \cup Rs)
  BY KindFacts
<1>11. queue' \in [Producers -> Seq(Rq \cup Rs)]
  BY <1>6, <1>7, <1>9, <1>10, PostFacts
<1>12. UNCHANGED <<link, devices, pending, held, wire, back, nextoid, disp, sent, known, got>>
  BY DEF AnswerRequest
<1>13. MessageType'
  BY <1>8, <1>11, <1>12 DEF MessageType
<1> QED
  BY <1>1, <1>5, <1>9, <1>13 DEF q

\* The dispatcher takes a request for a device it finds.
LEMMA LockFacts ==
  ASSUME MessageType, NEW p \in Producers, LockDevice(p)
  PROVE  /\ MessageType'
         /\ queue[p] # <<>> /\ queue' = Popped(p) /\ Head(queue[p]) \in Rq
         /\ disp.rq = {} /\ disp'.rq = {Head(queue[p])}
<1> DEFINE rq == Head(queue[p])
<1>1. /\ queue[p] # <<>> /\ rq.kind = "rq" /\ Found(rq) /\ queue' = Popped(p)
      /\ disp = Idle /\ disp' = [rq |-> {rq}, conn |-> Target(rq)]
  BY DEF LockDevice, Popped
<1>2. Popped(p) \in [Producers -> Seq(Rq \cup Rs)] /\ rq \in Rq \cup Rs
  BY <1>1, PoppedType
<1>3. rq \in Rq
  BY <1>1, <1>2, KindFacts
<1>4. disp.rq = {} /\ disp'.rq = {rq} /\ disp'.conn = Target(rq)
  BY <1>1 DEF Idle
<1>5. Target(rq) \in Conns
  BY <1>1 DEF Found, Target, MessageType
<1>6. owned' \in [Clients -> Finite(Bridges)]
  <2>1. CASE rq.command = "close" /\ rq.client # Local
    <3>1. rq.client \in Clients
      BY <1>3, <2>1, KindFacts DEF Callers
    <3>2. owned' = [owned EXCEPT ![rq.client] = @ \ Disowned(rq)]
      BY <2>1 DEF LockDevice
    <3>3. owned[rq.client] \in Finite(Bridges)
      BY <3>1 DEF MessageType
    <3>4. owned[rq.client] \ Disowned(rq) \in SUBSET owned[rq.client]
      OBVIOUS
    <3>5. owned[rq.client] \ Disowned(rq) \in Finite(Bridges)
      BY <3>3, <3>4, FiniteFacts
    <3> QED
      BY <3>2, <3>5 DEF MessageType
  <2>2. CASE ~(rq.command = "close" /\ rq.client # Local)
    BY <2>2 DEF LockDevice, MessageType
  <2> QED
    BY <2>1, <2>2
<1>7. UNCHANGED <<link, devices, pending, held, wire, back, nextoid, sent, known, got>>
  BY DEF LockDevice
<1>8. MessageType'
  <2>1. disp'.rq \in SUBSET Rq /\ disp'.conn \in Conns
    BY <1>3, <1>4, <1>5
  <2> QED
    BY <1>1, <1>2, <1>6, <1>7, <2>1 DEF MessageType
<1> QED
  BY <1>1, <1>3, <1>4, <1>8

\* The locked device sends the request, or drops it.
LEMMA SendFacts ==
  ASSUME MessageType, SendRequest
  PROVE  /\ MessageType'
         /\ disp'.rq = {}
         /\ \E rq \in disp.rq, cs \in Seq(Closes) :
              /\ queue' = Post(queue, "disp", cs)
              /\ rq \in Rq /\ disp.conn \in Conns
              /\ \/ UNCHANGED pending
                 \/ pending' = [pending EXCEPT ![disp.conn] = @ \cup {rq}]
              /\ \/ UNCHANGED wire
                 \/ wire' = [wire EXCEPT ![disp.conn] = Append(@, rq)]
<1>1. PICK rq \in disp.rq :
        /\ SendOverTcp(disp.conn, rq) \/ SendOverUsb(disp.conn, rq)
        /\ FreeClient(rq.client, status, queue, Idle, "disp")
  BY DEF SendRequest
<1>2. rq \in Rq /\ disp.conn \in Conns
  BY DEF MessageType
<1>3. queue \in [Producers -> Seq(Rq \cup Rs)] /\ "disp" \in Producers
  BY DEF MessageType, Producers
<1>4. owned' \in [Clients -> Finite(Bridges)]
  BY <1>1, <1>3, FreeClientFacts
<1>5. PICK cs \in Seq(Closes) : queue' = Post(queue, "disp", cs)
  BY <1>1, <1>3, FreeClientFacts
<1>6. cs \in Seq(Rq \cup Rs)
  BY KindFacts
<1>7. queue' \in [Producers -> Seq(Rq \cup Rs)]
  BY <1>3, <1>5, <1>6, PostFacts
<1>8. UNCHANGED pending \/ pending' = [pending EXCEPT ![disp.conn] = @ \cup {rq}]
  BY <1>1 DEF SendOverTcp, SendOverUsb
<1>9. UNCHANGED wire \/ wire' = [wire EXCEPT ![disp.conn] = Append(@, rq)]
  BY <1>1 DEF SendOverTcp, SendOverUsb
<1>10. pending' \in [Conns -> Finite(Rq)]
  <2>1. pending[disp.conn] \cup {rq} \in Finite(Rq)
    BY <1>2, FiniteFacts DEF MessageType
  <2> QED
    BY <1>8, <2>1 DEF MessageType
<1>11. wire' \in [Conns -> Seq(Rq)]
  <2>1. Append(wire[disp.conn], rq) \in Seq(Rq)
    BY <1>2, AppendProperties DEF MessageType
  <2> QED
    BY <1>9, <2>1 DEF MessageType
<1>12. disp'.rq = {} /\ UNCHANGED <<link, devices, held, back, nextoid, sent, known, got>>
  BY DEF SendRequest, Idle
<1>13. MessageType'
  BY <1>4, <1>7, <1>10, <1>11, <1>12 DEF MessageType
<1> QED
  BY <1>1, <1>2, <1>5, <1>8, <1>9, <1>12, <1>13

\* What a client got is answers to its own requests.
OwnGot == \A cl \in Clients : \A i \in 1..Len(got[cl]) : got[cl][i][1][1] = cl

\* The dispatcher gives a response to its client, or drops it.
LEMMA DispatchFacts ==
  ASSUME MessageType, OwnGot, NEW p \in Producers, DispatchResponse(p)
  PROVE  /\ MessageType' /\ OwnGot'
         /\ queue[p] # <<>> /\ Head(queue[p]) \in Rs
         /\ LET rs == Head(queue[p])
            IN  \/ /\ rs.client \in Clients /\ queue' = Popped(p)
                   /\ got' = [got EXCEPT ![rs.client] = Append(@, <<rs.tag, rs.result>>)]
                \/ /\ \E cs \in Seq(Closes) : queue' = Post(Popped(p), "disp", cs)
                   /\ UNCHANGED got
<1> DEFINE rs == Head(queue[p])
           handles == {[conn |-> b.conn, oid |-> b.oid] : b \in rs.objects}
           cs == Destructors(rs.objects, owned, Popped(p), held)
<1>1. queue[p] # <<>> /\ rs.kind = "rs"
  BY DEF DispatchResponse
<1>2. Popped(p) \in [Producers -> Seq(Rq \cup Rs)] /\ rs \in Rq \cup Rs
  BY <1>1, PoppedType
<1>3. rs \in Rs
  BY <1>1, <1>2, KindFacts
<1>4. /\ rs.objects \in Finite(Bridges) /\ rs.tag \in Tags /\ rs.result \in Results
      /\ rs.tag[1] = rs.client
  BY <1>3, KindFacts
<1>5. UNCHANGED <<link, devices, pending, held, wire, back, nextoid, disp, sent>>
  BY DEF DispatchResponse
<1>6. \/ /\ rs.client \in Clients
         /\ owned' = [owned EXCEPT ![rs.client] = @ \cup rs.objects]
         /\ known' = [known EXCEPT ![rs.client] = @ \cup handles]
         /\ got' = [got EXCEPT ![rs.client] = Append(@, <<rs.tag, rs.result>>)]
         /\ queue' = Popped(p)
      \/ /\ queue' = Post(Popped(p), "disp", cs)
         /\ UNCHANGED <<owned, known, got>>
  BY DEF DispatchResponse, Popped
<1>7. CASE /\ rs.client \in Clients
           /\ owned' = [owned EXCEPT ![rs.client] = @ \cup rs.objects]
           /\ known' = [known EXCEPT ![rs.client] = @ \cup handles]
           /\ got' = [got EXCEPT ![rs.client] = Append(@, <<rs.tag, rs.result>>)]
           /\ queue' = Popped(p)
  <2>1. handles \subseteq [conn : Conns, oid : Nat]
    <3>1. rs.objects \subseteq Bridges
      BY <1>4 DEF Finite
    <3>2. \A b \in rs.objects : b.conn \in Conns /\ b.oid \in Nat
      BY <3>1 DEF Bridges, Objects
    <3> QED
      BY <3>2
  <2> HIDE DEF handles
  <2> DEFINE cl == rs.client
             g == <<rs.tag, rs.result>>
  <2>2. cl \in Clients /\ g \in Tags \X Results /\ g[1] = rs.tag /\ rs.tag[1] = cl
    BY <1>4, <1>7
  <2>3. /\ owned' = [owned EXCEPT ![cl] = @ \cup rs.objects]
        /\ known' = [known EXCEPT ![cl] = @ \cup handles]
        /\ got' = [got EXCEPT ![cl] = Append(@, g)]
    BY <1>7
  <2> HIDE DEF cl, g
  <2>4. owned' \in [Clients -> Finite(Bridges)]
    <3>1. owned[cl] \in Finite(Bridges)
      BY <2>2 DEF MessageType
    <3>2. owned[cl] \cup rs.objects \in Finite(Bridges)
      BY <1>4, <3>1, FiniteFacts
    <3> QED
      BY <2>3, <3>2 DEF MessageType
  <2>5. known' \in [Clients -> SUBSET [conn : Conns, oid : Nat]]
    BY <2>1, <2>2, <2>3 DEF MessageType
  <2>6. got \in [Clients -> Seq(Tags \X Results)] /\ got[cl] \in Seq(Tags \X Results)
    BY <2>2 DEF MessageType
  <2>7. /\ Append(got[cl], g) \in Seq(Tags \X Results)
        /\ Len(Append(got[cl], g)) = Len(got[cl]) + 1
        /\ \A i \in 1..Len(got[cl]) : Append(got[cl], g)[i] = got[cl][i]
        /\ Append(got[cl], g)[Len(got[cl]) + 1] = g
    BY <2>2, <2>6, AppendProperties
  <2>8. got' \in [Clients -> Seq(Tags \X Results)]
    BY <2>2, <2>3, <2>6, <2>7
  <2>9. MessageType'
    BY <1>2, <1>5, <1>7, <2>4, <2>5, <2>8 DEF MessageType
  <2>10. OwnGot'
    <3> SUFFICES ASSUME NEW x \in Clients, NEW i \in 1..Len(got'[x])
                 PROVE  got'[x][i][1][1] = x
      BY DEF OwnGot
    <3>1. CASE x # cl
      BY <2>3, <2>6, <3>1 DEF OwnGot
    <3>2. CASE x = cl
      <4>1. got'[x] = Append(got[cl], g)
        BY <2>2, <2>3, <2>6, <3>2
      <4>2. Len(got[cl]) \in Nat
        BY <2>6
      <4>3. i \in 1..Len(got[cl]) \/ i = Len(got[cl]) + 1
        BY <2>7, <4>1, <4>2
      <4>4. CASE i \in 1..Len(got[cl])
        BY <2>2, <2>7, <3>2, <4>1, <4>4 DEF OwnGot
      <4>5. CASE i = Len(got[cl]) + 1
        BY <2>2, <2>7, <3>2, <4>1, <4>5
      <4> QED
        BY <4>3, <4>4, <4>5
    <3> QED
      BY <3>1, <3>2
  <2> QED
    BY <1>1, <1>3, <1>7, <2>9, <2>10
<1>8. CASE queue' = Post(Popped(p), "disp", cs) /\ UNCHANGED <<owned, known, got>>
  <2>1. cs \in Seq(Closes)
    BY <1>4, DestructorFacts
  <2> HIDE DEF cs
  <2>2. cs \in Seq(Rq \cup Rs) /\ "disp" \in Producers
    BY <2>1, KindFacts DEF Producers
  <2>3. queue' \in [Producers -> Seq(Rq \cup Rs)]
    BY <1>2, <1>8, <2>2, PostFacts
  <2>4. MessageType' /\ OwnGot'
    BY <1>5, <1>8, <2>3 DEF MessageType, OwnGot
  <2> QED
    BY <1>1, <1>3, <1>8, <2>1, <2>4
<1> QED
  BY <1>6, <1>7, <1>8

-----------------------------------------------------------------------------
(***************************************************************************)
(* Where the tag of a request is.                                          *)
(***************************************************************************)

\* The tag is in a sequence of messages, and at most once.
Has(s, t) == \E i \in 1..Len(s) : s[i].tag = t
Once(s, t) == \A i, j \in 1..Len(s) : s[i].tag = t /\ s[j].tag = t => i = j

\* A tag of a concatenation is in one of the parts.
LEMMA ConcatTag ==
  ASSUME NEW S, NEW s \in Seq(S), NEW u \in Seq(S), NEW t
  PROVE  /\ Has(s \o u, t) <=> Has(s, t) \/ Has(u, t)
         /\ Once(s, t) /\ ~Has(u, t) => Once(s \o u, t)
         /\ ~Has(s, t) /\ Once(u, t) => Once(s \o u, t)
<1> DEFINE m == Len(s)
           n == Len(u)
           w == s \o u
<1>1. m \in Nat /\ n \in Nat /\ Len(w) = m + n
  BY ConcatProperties
<1>2. \A i \in 1..Len(w) : w[i] = IF i <= m THEN s[i] ELSE u[i - m]
  BY ConcatProperties
<1>3. \A i \in 1..m : i \in 1..Len(w) /\ w[i] = s[i]
  BY <1>1, <1>2
<1>4. \A i \in 1..n : (m + i) \in 1..Len(w) /\ w[m + i] = u[i]
  <2> SUFFICES ASSUME NEW i \in 1..n PROVE (m + i) \in 1..Len(w) /\ w[m + i] = u[i]
    OBVIOUS
  <2>1. (m + i) \in 1..Len(w) /\ ~(m + i <= m) /\ (m + i) - m = i
    BY <1>1
  <2> QED
    BY <1>2, <2>1
<1>5. \A k \in 1..Len(w) : \/ k \in 1..m
                           \/ k > m /\ (k - m) \in 1..n /\ w[k] = u[k - m]
  <2> SUFFICES ASSUME NEW k \in 1..Len(w), k \notin 1..m
               PROVE  k > m /\ (k - m) \in 1..n /\ w[k] = u[k - m]
    OBVIOUS
  <2>1. k > m /\ (k - m) \in 1..n /\ ~(k <= m)
    BY <1>1
  <2> QED
    BY <1>2, <2>1
<1> HIDE DEF m, n, w
<1>6. Has(w, t) <=> Has(s, t) \/ Has(u, t)
  <2>1. ASSUME Has(w, t) PROVE Has(s, t) \/ Has(u, t)
    <3>1. PICK k \in 1..Len(w) : w[k].tag = t
      BY <2>1 DEF Has
    <3> QED
      BY <1>3, <1>5, <3>1 DEF Has, m, n
  <2>2. ASSUME Has(s, t) PROVE Has(w, t)
    BY <1>3, <2>2 DEF Has, m
  <2>3. ASSUME Has(u, t) PROVE Has(w, t)
    BY <1>4, <2>3 DEF Has, n
  <2> QED
    BY <2>1, <2>2, <2>3
<1>7. ASSUME Once(s, t), ~Has(u, t) PROVE Once(w, t)
  <2>1. \A k \in 1..Len(w) : w[k].tag = t => k \in 1..m
    BY <1>5, <1>7 DEF Has, n
  <2> QED
    BY <1>3, <1>7, <2>1 DEF Once, m
<1>8. ASSUME ~Has(s, t), Once(u, t) PROVE Once(w, t)
  <2>1. \A k \in 1..Len(w) : w[k].tag = t => (k - m) \in 1..n /\ u[k - m].tag = t
    BY <1>3, <1>5, <1>8 DEF Has, m
  <2> SUFFICES ASSUME NEW i \in 1..Len(w), NEW j \in 1..Len(w),
                      w[i].tag = t, w[j].tag = t
               PROVE  i = j
    BY DEF Once
  <2>2. i - m = j - m
    BY <1>8, <2>1 DEF Once, n
  <2>3. i \in Int /\ j \in Int
    BY <1>1
  <2> QED
    BY <1>1, <2>2, <2>3
<1> QED
  BY <1>6, <1>7, <1>8 DEF w

\* Taking the first message away.
LEMMA TailTag ==
  ASSUME NEW S, NEW s \in Seq(S), s # <<>>, NEW t
  PROVE  /\ Has(s, t) <=> Head(s).tag = t \/ Has(Tail(s), t)
         /\ Once(s, t) => Once(Tail(s), t)
         /\ Once(s, t) /\ Head(s).tag = t => ~Has(Tail(s), t)
<1> DEFINE u == Tail(s)
<1>1. Len(s) \in Nat \ {0} /\ Len(u) = Len(s) - 1 /\ Head(s) = s[1]
  BY HeadTailProperties
<1>2. \A i \in 1..Len(u) : (i + 1) \in 1..Len(s) /\ u[i] = s[i + 1]
  BY <1>1, HeadTailProperties
<1>3. \A k \in 1..Len(s) : k = 1 \/ ((k - 1) \in 1..Len(u) /\ u[k - 1] = s[k])
  <2> SUFFICES ASSUME NEW k \in 1..Len(s), k # 1
               PROVE  (k - 1) \in 1..Len(u) /\ u[k - 1] = s[k]
    OBVIOUS
  <2>1. (k - 1) \in 1..Len(u) /\ (k - 1) + 1 = k
    BY <1>1
  <2> QED
    BY <1>2, <2>1
<1>4. 1 \in 1..Len(s)
  BY <1>1
<1> HIDE DEF u
<1>5. Has(s, t) <=> Head(s).tag = t \/ Has(u, t)
  BY <1>1, <1>2, <1>3, <1>4 DEF Has
<1>6. ASSUME Once(s, t) PROVE Once(u, t)
  <2> SUFFICES ASSUME NEW i \in 1..Len(u), NEW j \in 1..Len(u),
                      u[i].tag = t, u[j].tag = t
               PROVE  i = j
    BY DEF Once
  <2>1. i + 1 = j + 1
    BY <1>2, <1>6 DEF Once
  <2>2. i \in Int /\ j \in Int
    BY <1>1
  <2> QED
    BY <2>1, <2>2
<1>7. ASSUME Once(s, t), Head(s).tag = t, Has(u, t) PROVE FALSE
  <2>1. PICK i \in 1..Len(u) : u[i].tag = t
    BY <1>7 DEF Has
  <2>2. i + 1 = 1
    BY <1>1, <1>2, <1>4, <1>7, <2>1 DEF Once
  <2>3. i \in Int /\ i >= 1
    BY <1>1
  <2> QED
    BY <2>2, <2>3
<1> QED
  BY <1>5, <1>6, <1>7 DEF u

\* The tag is in some thread's queue, and at most once in all of them.
QHas(q, t) == \E p \in Producers : Has(q[p], t)
QOnce(q, t) == /\ \A p \in Producers : Once(q[p], t)
               /\ \A p, r \in Producers : Has(q[p], t) /\ Has(q[r], t) => p = r

\* Posting messages with other tags changes nothing for this one; a tag that was
\* not queued and is posted once is queued once.
LEMMA PostTag ==
  ASSUME NEW q \in [Producers -> Seq(Rq \cup Rs)], NEW p \in Producers,
         NEW ms \in Seq(Rq \cup Rs), NEW t
  PROVE  /\ QHas(Post(q, p, ms), t) <=> QHas(q, t) \/ Has(ms, t)
         /\ QOnce(q, t) /\ ~Has(ms, t) => QOnce(Post(q, p, ms), t)
         /\ ~QHas(q, t) /\ Once(ms, t) => QOnce(Post(q, p, ms), t)
<1> DEFINE z == Post(q, p, ms)
           M == Rq \cup Rs
<1>1. z[p] = q[p] \o ms /\ \A r \in Producers : r # p => z[r] = q[r]
  BY PostFacts
<1>2. \A r \in Producers : q[r] \in Seq(M)
  OBVIOUS
<1>3. ms \in Seq(M) /\ q[p] \in Seq(M)
  OBVIOUS
<1> HIDE DEF z, M
<1>4. /\ Has(z[p], t) <=> Has(q[p], t) \/ Has(ms, t)
      /\ Once(q[p], t) /\ ~Has(ms, t) => Once(z[p], t)
      /\ ~Has(q[p], t) /\ Once(ms, t) => Once(z[p], t)
  <2> DEFINE s == q[p]
  <2>1. s \in Seq(M)
    BY <1>3
  <2> HIDE DEF s
  <2>2. /\ Has(s \o ms, t) <=> Has(s, t) \/ Has(ms, t)
        /\ Once(s, t) /\ ~Has(ms, t) => Once(s \o ms, t)
        /\ ~Has(s, t) /\ Once(ms, t) => Once(s \o ms, t)
    BY <1>3, <2>1, ConcatTag
  <2>3. z[p] = s \o ms
    BY <1>1 DEF s
  <2> QED
    BY <2>2, <2>3 DEF s
<1>5. QHas(z, t) <=> QHas(q, t) \/ Has(ms, t)
  BY <1>1, <1>4, Zenon DEF QHas
<1>6. ASSUME QOnce(q, t), ~Has(ms, t) PROVE QOnce(z, t)
  <2>1. \A r \in Producers : (Has(z[r], t) <=> Has(q[r], t)) /\ Once(z[r], t)
    BY <1>1, <1>4, <1>6, Zenon DEF QOnce
  <2> QED
    BY <1>6, <2>1, Zenon DEF QOnce
<1>7. ASSUME ~QHas(q, t), Once(ms, t) PROVE QOnce(z, t)
  <2>1. \A r \in Producers : ~Has(q[r], t) /\ Once(q[r], t)
    BY <1>7 DEF QHas, Has, Once
  <2>2. \A r \in Producers : (Has(z[r], t) => r = p) /\ Once(z[r], t)
    BY <1>1, <1>4, <1>7, <2>1, Zenon
  <2> QED
    BY <2>2, Zenon DEF QOnce
<1> QED
  BY <1>5, <1>6, <1>7 DEF z

\* A thread's own closes have another tag than a client's request.
LEMMA ClosesTag ==
  ASSUME NEW cs \in Seq(Closes), NEW t \in Clients \X Nat
  PROVE  ~Has(cs, t) /\ cs \in Seq(Rq \cup Rs)
<1>1. t # <<Local, 0>>
  BY ClientAssumption
<1>2. \A i \in 1..Len(cs) : cs[i] \in Closes
  OBVIOUS
<1> QED
  BY <1>1, <1>2, KindFacts DEF Has

\* The dispatcher takes a message.
LEMMA PoppedTag ==
  ASSUME MessageType, NEW p \in Producers, queue[p] # <<>>, NEW t
  PROVE  /\ QHas(queue, t) <=> Head(queue[p]).tag = t \/ QHas(Popped(p), t)
         /\ QOnce(queue, t) => QOnce(Popped(p), t)
         /\ QOnce(queue, t) /\ Head(queue[p]).tag = t => ~QHas(Popped(p), t)
<1> DEFINE s == queue[p]
           z == Popped(p)
           M == Rq \cup Rs
<1>1. queue \in [Producers -> Seq(Rq \cup Rs)]
  BY DEF MessageType
<1>2. z[p] = Tail(s) /\ \A r \in Producers : r # p => z[r] = queue[r]
  BY <1>1 DEF Popped
<1>3. s \in Seq(M) /\ s # <<>> /\ queue[p] = s
  BY <1>1
<1> HIDE DEF s, z, M
<1>4. /\ Has(s, t) <=> Head(s).tag = t \/ Has(Tail(s), t)
      /\ Once(s, t) => Once(Tail(s), t)
      /\ Once(s, t) /\ Head(s).tag = t => ~Has(Tail(s), t)
  BY <1>3, TailTag
<1>5. QHas(queue, t) <=> Head(s).tag = t \/ QHas(z, t)
  BY <1>2, <1>3, <1>4, Zenon DEF QHas
<1>6. ASSUME QOnce(queue, t) PROVE QOnce(z, t)
  <2>1. \A r \in Producers : (Has(z[r], t) => Has(queue[r], t)) /\ Once(z[r], t)
    BY <1>2, <1>3, <1>4, <1>6, Zenon DEF QOnce
  <2> QED
    BY <1>6, <2>1, Zenon DEF QOnce
<1>7. ASSUME QOnce(queue, t), Head(s).tag = t PROVE ~QHas(z, t)
  <2>1. \A r \in Producers : ~Has(z[r], t)
    BY <1>2, <1>3, <1>4, <1>7, Zenon DEF QOnce
  <2> QED
    BY <2>1, Zenon DEF QHas
<1> QED
  BY <1>3, <1>5, <1>6, <1>7 DEF z

\* The tag is in a set of messages, and in at most one of them.
In(S, t) == \E m \in S : m.tag = t
Single(S, t) == \A m, n \in S : m.tag = t /\ n.tag = t => m = n

\* A request with the tag is on its way to the console of connection c, is
\* awaited there, or its response is on its way back; a destroyed connection
\* will not deliver anything.
Alive(c) == link[c] # "destroyed"
At(c, t) == Alive(c) /\ (Has(wire[c], t) \/ In(back[c], t) \/ In(pending[c], t))
AtOnce(c, t) ==
  Alive(c) => /\ Once(wire[c], t) /\ Single(back[c], t) /\ Single(pending[c], t)
              /\ ~(Has(wire[c], t) /\ In(back[c], t))

\* The four places: a queue, the dispatcher, a connection, and the client.
Queued(t) == QHas(queue, t)
QueuedOnce(t) == QOnce(queue, t)
Sending(t) == In(disp.rq, t)
SendingOnce(t) == Single(disp.rq, t)
Linked(t) == \E c \in Conns : At(c, t)
LinkedOnce(t) ==
  /\ \A c \in Conns : AtOnce(c, t)
  /\ \A c, d \in Conns : At(c, t) /\ At(d, t) => c = d
Got(t) == \E i \in 1..Len(got[t[1]]) : got[t[1]][i][1] = t
GotOnce(t) == \A i, j \in 1..Len(got[t[1]]) :
                got[t[1]][i][1] = t /\ got[t[1]][j][1] = t => i = j

OwnTags == Clients \X Nat

\* A tag is in at most one of the places, once, and it was posted.
OnePlace(t) ==
  /\ QueuedOnce(t) /\ SendingOnce(t) /\ LinkedOnce(t) /\ GotOnce(t)
  /\ Queued(t) => ~Sending(t) /\ ~Linked(t) /\ ~Got(t)
  /\ Sending(t) => ~Linked(t) /\ ~Got(t)
  /\ Linked(t) => ~Got(t)
  /\ Queued(t) \/ Sending(t) \/ Linked(t) \/ Got(t) => t[2] \in 1..sent[t[1]]

\* What a step leaves alone keeps its tags.
LEMMA Unmoved ==
  ASSUME NEW t
  PROVE  /\ UNCHANGED queue => /\ Queued(t)' <=> Queued(t)
                               /\ QueuedOnce(t)' <=> QueuedOnce(t)
         /\ disp'.rq = disp.rq => /\ Sending(t)' <=> Sending(t)
                                  /\ SendingOnce(t)' <=> SendingOnce(t)
         /\ UNCHANGED <<link, wire, back, pending>> =>
              /\ Linked(t)' <=> Linked(t)
              /\ LinkedOnce(t)' <=> LinkedOnce(t)
         /\ UNCHANGED got => /\ Got(t)' <=> Got(t)
                             /\ GotOnce(t)' <=> GotOnce(t)
<1>1. ASSUME UNCHANGED queue
      PROVE  (Queued(t)' <=> Queued(t)) /\ (QueuedOnce(t)' <=> QueuedOnce(t))
  BY <1>1, Zenon DEF Queued, QueuedOnce
<1>2. ASSUME disp'.rq = disp.rq
      PROVE  (Sending(t)' <=> Sending(t)) /\ (SendingOnce(t)' <=> SendingOnce(t))
  BY <1>2, Zenon DEF Sending, SendingOnce
<1>3. ASSUME UNCHANGED <<link, wire, back, pending>>
      PROVE  (Linked(t)' <=> Linked(t)) /\ (LinkedOnce(t)' <=> LinkedOnce(t))
  BY <1>3 DEF Linked, LinkedOnce, At, AtOnce, Alive
<1>4. ASSUME UNCHANGED got
      PROVE  (Got(t)' <=> Got(t)) /\ (GotOnce(t)' <=> GotOnce(t))
  BY <1>4 DEF Got, GotOnce
<1> QED
  BY <1>1, <1>2, <1>3, <1>4

\* A step by which no connection gains the tag.
LEMMA LinkQuiet ==
  ASSUME NEW t, LinkedOnce(t),
         \A c \in Conns : (At(c, t)' => At(c, t)) /\ AtOnce(c, t)'
  PROVE  (Linked(t)' => Linked(t)) /\ LinkedOnce(t)'
<1>1. Linked(t)' => Linked(t)
  BY Zenon DEF Linked
<1>2. LinkedOnce(t)'
  <2>1. \A c \in Conns : AtOnce(c, t)'
    OBVIOUS
  <2>2. ASSUME NEW c \in Conns, NEW d \in Conns, At(c, t)', At(d, t)' PROVE c = d
    BY <2>2, Zenon DEF LinkedOnce
  <2> QED
    BY <2>1, <2>2, Zenon DEF LinkedOnce
<1> QED
  BY <1>1, <1>2

\* Queues of which threads posted closes hold the clients' tags they held.
LEMMA QueueQuiet ==
  ASSUME NEW q \in [Producers -> Seq(Rq \cup Rs)], NEW p \in Producers,
         NEW cs \in Seq(Closes), queue' = Post(q, p, cs), NEW t \in OwnTags
  PROVE  /\ Queued(t)' <=> QHas(q, t)
         /\ QOnce(q, t) => QueuedOnce(t)'
<1>1. ~Has(cs, t) /\ cs \in Seq(Rq \cup Rs)
  BY ClosesTag DEF OwnTags
<1>2. /\ QHas(Post(q, p, cs), t) <=> QHas(q, t)
      /\ QOnce(q, t) => QOnce(Post(q, p, cs), t)
  BY <1>1, PostTag
<1> QED
  BY <1>2, Zenon DEF Queued, QueuedOnce

\* A step in which no place gains the tag.
LEMMA QuietPlace ==
  ASSUME NEW t, OnePlace(t), UNCHANGED sent,
         Queued(t)' => Queued(t), QueuedOnce(t)',
         Sending(t)' => Sending(t), SendingOnce(t)',
         Linked(t)' => Linked(t), LinkedOnce(t)',
         Got(t)' => Got(t), GotOnce(t)'
  PROVE  OnePlace(t)'
BY Zenon DEF OnePlace

\* Connections that come, are identified, added, removed or fail.
LEMMA BackendPlace ==
  ASSUME MessageType, NEW t \in OwnTags, OnePlace(t), NEW c \in Conns,
         \/ Connect(c) \/ Identified(c) \/ AddDevice(c) \/ RemoveDevice(c)
         \/ \E cut \in BOOLEAN, reboot \in MayReboot : Fail(c, cut, reboot)
  PROVE  OnePlace(t)'
<1>1. disp'.rq = disp.rq /\ UNCHANGED <<got, sent, pending>>
  BY DEF Connect, Identified, AddDevice, RemoveDevice, Fail
<1> DEFINE Cut == /\ \A d \in Conns : Alive(d)' <=> Alive(d)
                  /\ \A d \in Conns : wire'[d] = wire[d] \/ wire'[d] = <<>>
                  /\ \A d \in Conns : back'[d] = back[d] \/ back'[d] = {}
<1>2. Cut
  <2>1. /\ link \in [Conns -> {"off", "listed", "dropped", "destroyed"}]
        /\ wire \in [Conns -> Seq(Rq)] /\ back \in [Conns -> SUBSET Rs]
    BY DEF MessageType
  <2>2. CASE Connect(c)
    BY <2>1, <2>2 DEF Connect, Alive
  <2>3. CASE Identified(c) \/ AddDevice(c)
    BY <2>1, <2>3 DEF Identified, AddDevice, Alive
  <2>4. CASE RemoveDevice(c)
    BY <2>1, <2>4 DEF RemoveDevice, Alive
  <2>5. ASSUME NEW cut \in BOOLEAN, NEW reboot \in MayReboot, Fail(c, cut, reboot)
        PROVE  Cut
    BY <2>1, <2>5 DEF Fail, Alive
  <2> QED
    BY <2>2, <2>3, <2>4, <2>5
<1>3. \A d \in Conns : (At(d, t)' => At(d, t)) /\ AtOnce(d, t)'
  <2> SUFFICES ASSUME NEW d \in Conns PROVE (At(d, t)' => At(d, t)) /\ AtOnce(d, t)'
    OBVIOUS
  <2>1. ~Has(<<>>, t) /\ ~In({}, t) /\ Once(<<>>, t) /\ Single({}, t)
    BY DEF Has, In, Once, Single
  <2>2. AtOnce(d, t)
    BY DEF OnePlace, LinkedOnce
  <2>3. pending'[d] = pending[d]
    BY <1>1
  <2> QED
    BY <1>2, <2>1, <2>2, <2>3, Zenon DEF At, AtOnce
<1>4. LinkedOnce(t)
  BY DEF OnePlace
<1>5. (Linked(t)' => Linked(t)) /\ LinkedOnce(t)'
  BY <1>3, <1>4, LinkQuiet
<1>6. (Queued(t)' => Queued(t)) /\ QueuedOnce(t)'
  <2>1. QueuedOnce(t)
    BY DEF OnePlace
  <2>2. CASE UNCHANGED queue
    BY <2>1, <2>2, Unmoved
  <2>3. CASE AddDevice(c)
    <3>1. PICK cs \in Seq(Closes) : queue' = Post(queue, Backend(c), cs)
      BY <2>3, AddDeviceFacts
    <3>2. queue \in [Producers -> Seq(Rq \cup Rs)] /\ Backend(c) \in Producers
      BY DEF MessageType, Backend, Producers
    <3> QED
      BY <2>1, <3>1, <3>2, QueueQuiet DEF Queued, QueuedOnce
  <2> QED
    BY <2>2, <2>3 DEF Connect, Identified, RemoveDevice, Fail
<1>7. SendingOnce(t) /\ GotOnce(t)
  BY DEF OnePlace
<1> QED
  BY <1>1, <1>5, <1>6, <1>7, Unmoved, QuietPlace

\* The failures a dying device posts: each pending tag once.
LEMMA FailureTag ==
  ASSUME MessageType, NEW c \in Conns, NEW t, Single(pending[c], t)
  PROVE  /\ Has(SeqOf(Failures(c)), t) => In(pending[c], t)
         /\ Once(SeqOf(Failures(c)), t)
<1> DEFINE S == Failures(c)
           fs == SeqOf(S)
<1>1. IsFiniteSet(S)
  BY FailureFacts
<1>2. fs \in Seq(S) /\ \A i, j \in 1..Len(fs) : fs[i] = fs[j] => i = j
  BY <1>1, SeqOfFacts
<1>3. \A m \in S : \E rq \in pending[c] :
        m = Response(rq, "transfer_error", {}) /\ m.tag = rq.tag
  BY DEF Failures, Response
<1> HIDE DEF S, fs
<1>4. \A i \in 1..Len(fs) : fs[i] \in S
  BY <1>2
<1>5. Has(fs, t) => In(pending[c], t)
  BY <1>3, <1>4 DEF Has, In
<1>6. Once(fs, t)
  <2> SUFFICES ASSUME NEW i \in 1..Len(fs), NEW j \in 1..Len(fs),
                      fs[i].tag = t, fs[j].tag = t
               PROVE  fs[i] = fs[j]
    BY <1>2 DEF Once
  <2> QED
    BY <1>3, <1>4 DEF Single
<1> QED
  BY <1>5, <1>6 DEF S, fs

\* A connection is destroyed: what was pending there is lost, or queued as
\* failed, and it was nowhere else.
LEMMA DestroyPlace ==
  ASSUME MessageType, NEW t \in OwnTags, OnePlace(t), NEW c \in Conns, Destroy(c)
  PROVE  OnePlace(t)'
<1>1. PICK p \in Producers, fs \in Seq(Rs), cs \in Seq(Closes) :
        /\ fs = (IF c \in Usb THEN SeqOf(Failures(c)) ELSE <<>>)
        /\ queue' = Post(Post(queue, p, fs), p, cs)
  BY DestroyFacts
<1>2. Alive(c) /\ ~Alive(c)'
  BY DEF Destroy, Alive, MessageType
<1>3. \A d \in Conns : d # c => (At(d, t)' <=> At(d, t)) /\ (AtOnce(d, t)' <=> AtOnce(d, t))
  <2> SUFFICES ASSUME NEW d \in Conns, d # c
               PROVE  (At(d, t)' <=> At(d, t)) /\ (AtOnce(d, t)' <=> AtOnce(d, t))
    OBVIOUS
  <2>1. /\ link'[d] = link[d] /\ wire'[d] = wire[d]
        /\ back'[d] = back[d] /\ pending'[d] = pending[d]
    BY DEF Destroy, MessageType
  <2> QED
    BY <2>1, Zenon DEF At, AtOnce, Alive
<1>4. ~At(c, t)' /\ AtOnce(c, t)'
  BY <1>2, Zenon DEF At, AtOnce
<1>5. \A d \in Conns : (At(d, t)' => At(d, t)) /\ AtOnce(d, t)'
  BY <1>3, <1>4, Zenon DEF OnePlace, LinkedOnce
<1>6. (Linked(t)' => Linked(t)) /\ LinkedOnce(t)'
  BY <1>5, LinkQuiet DEF OnePlace
<1>7. (Has(fs, t) => At(c, t)) /\ Once(fs, t)
  <2>1. CASE c \in Usb
    <3>1. Single(pending[c], t)
      BY <1>2, Zenon DEF OnePlace, LinkedOnce, AtOnce
    <3>2. (Has(fs, t) => In(pending[c], t)) /\ Once(fs, t)
      BY <1>1, <2>1, <3>1, FailureTag
    <3> QED
      BY <1>2, <3>2 DEF At
  <2>2. CASE c \notin Usb
    BY <1>1, <2>2 DEF Has, Once
  <2> QED
    BY <2>1, <2>2
<1>8. Has(fs, t) => ~Linked(t)' /\ ~Queued(t) /\ ~Sending(t) /\ ~Got(t) /\ Linked(t)
  <2>1. ASSUME Has(fs, t) PROVE ~Linked(t)'
    <3>1. \A d \in Conns : At(d, t) => d = c
      BY <1>7, <2>1, Zenon DEF OnePlace, LinkedOnce
    <3> QED
      BY <1>3, <1>4, <3>1, Zenon DEF Linked
  <2>2. ASSUME Has(fs, t) PROVE Linked(t)
    BY <1>7, <2>2 DEF Linked
  <2> QED
    BY <2>1, <2>2, Zenon DEF OnePlace
<1>9. queue \in [Producers -> Seq(Rq \cup Rs)] /\ fs \in Seq(Rq \cup Rs)
  BY DEF MessageType
<1> DEFINE q == Post(queue, p, fs)
<1>10. /\ q \in [Producers -> Seq(Rq \cup Rs)]
       /\ QHas(q, t) <=> Queued(t) \/ Has(fs, t)
       /\ QueuedOnce(t) /\ ~Has(fs, t) => QOnce(q, t)
       /\ ~Queued(t) /\ Once(fs, t) => QOnce(q, t)
  BY <1>9, PostFacts, PostTag DEF Queued, QueuedOnce
<1>11. queue' = Post(q, p, cs)
  BY <1>1
<1> HIDE DEF q
<1>12. (Queued(t)' <=> QHas(q, t)) /\ (QOnce(q, t) => QueuedOnce(t)')
  BY <1>10, <1>11, QueueQuiet
<1>13. QueuedOnce(t)' /\ (Queued(t)' <=> Queued(t) \/ Has(fs, t))
  BY <1>7, <1>8, <1>10, <1>12, Zenon DEF OnePlace
<1>14. disp'.rq = disp.rq /\ UNCHANGED <<got, sent>>
  BY DEF Destroy
<1>15. (Sending(t)' <=> Sending(t)) /\ SendingOnce(t)' /\ (Got(t)' <=> Got(t)) /\ GotOnce(t)'
  BY <1>14, Unmoved DEF OnePlace
<1>16. CASE ~Has(fs, t)
  BY <1>6, <1>13, <1>14, <1>15, <1>16, QuietPlace
<1>17. CASE Has(fs, t)
  BY <1>6, <1>8, <1>13, <1>14, <1>15, <1>17, Zenon DEF OnePlace
<1> QED
  BY <1>16, <1>17

\* A response is received: it leaves the connection, where nothing else has its
\* tag any more, and is queued.
LEMMA ReceivePlace ==
  ASSUME MessageType, NEW t \in OwnTags, OnePlace(t), NEW c \in Conns, Receive(c)
  PROVE  OnePlace(t)'
<1>1. PICK rs \in back[c] \cap Rs, cs \in Seq(Closes) :
        /\ back' = [back EXCEPT ![c] = @ \ {rs}]
        /\ pending' = [pending EXCEPT ![c] = StillPending(c, rs)]
        /\ queue' = Post(queue, Backend(c), Append(cs, rs))
  BY ReceiveFacts
<1>2. Alive(c) /\ UNCHANGED <<link, wire, got, sent>> /\ disp'.rq = disp.rq
  BY DEF Receive, Alive
<1>3. /\ back'[c] = back[c] \ {rs}
      /\ pending'[c] = {rq \in pending[c] : rq.tag # rs.tag}
      /\ \A d \in Conns : d # c => back'[d] = back[d] /\ pending'[d] = pending[d]
  BY <1>1 DEF MessageType, StillPending
<1>4. \A d \in Conns : AtOnce(d, t)
  BY DEF OnePlace, LinkedOnce
<1>5. \A d \in Conns : (At(d, t)' => At(d, t)) /\ AtOnce(d, t)'
  <2> SUFFICES ASSUME NEW d \in Conns PROVE (At(d, t)' => At(d, t)) /\ AtOnce(d, t)'
    OBVIOUS
  <2>1. /\ In(back'[d], t) => In(back[d], t)
        /\ In(pending'[d], t) => In(pending[d], t)
        /\ Single(back[d], t) => Single(back'[d], t)
        /\ Single(pending[d], t) => Single(pending'[d], t)
    BY <1>3 DEF In, Single
  <2>2. link'[d] = link[d] /\ wire'[d] = wire[d]
    BY <1>2
  <2> QED
    BY <1>4, <2>1, <2>2, Zenon DEF At, AtOnce, Alive
<1>6. (Linked(t)' => Linked(t)) /\ LinkedOnce(t)'
  BY <1>5, LinkQuiet DEF OnePlace
<1>7. ASSUME rs.tag = t PROVE Linked(t) /\ ~Linked(t)'
  <2>1. In(back[c], t)
    BY <1>7 DEF In
  <2>2. At(c, t)
    BY <1>2, <2>1 DEF At
  <2>3. ~Has(wire[c], t) /\ Single(back[c], t)
    BY <1>2, <1>4, <2>1, Zenon DEF AtOnce
  <2>4. ~In(back'[c], t) /\ ~In(pending'[c], t)
    BY <1>3, <1>7, <2>3 DEF In, Single
  <2>5. ~At(c, t)'
    <3>1. wire'[c] = wire[c]
      BY <1>2
    <3> QED
      BY <2>3, <2>4, <3>1, Zenon DEF At
  <2>6. \A d \in Conns : At(d, t)' => d = c
    BY <1>5, <2>2, Zenon DEF OnePlace, LinkedOnce
  <2> QED
    BY <2>2, <2>5, <2>6, Zenon DEF Linked
<1> DEFINE ms == Append(cs, rs)
<1>8. ms \in Seq(Rq \cup Rs) /\ (Has(ms, t) <=> rs.tag = t) /\ Once(ms, t)
  <2>1. ~Has(cs, t) /\ cs \in Seq(Rq \cup Rs)
    BY ClosesTag DEF OwnTags
  <2>2. /\ ms \in Seq(Rq \cup Rs) /\ Len(ms) = Len(cs) + 1 /\ Len(cs) \in Nat
        /\ ms[Len(cs) + 1] = rs
        /\ \A i \in 1..Len(cs) : ms[i] = cs[i]
    BY <2>1, AppendProperties
  <2>3. \A i \in 1..Len(ms) : i \in 1..Len(cs) \/ i = Len(cs) + 1
    BY <2>2
  <2>4. Len(cs) + 1 \in 1..Len(ms)
    BY <2>2
  <2> HIDE DEF ms
  <2>5. \A i \in 1..Len(ms) : ms[i].tag = t => i = Len(cs) + 1
    BY <2>1, <2>2, <2>3 DEF Has
  <2> QED
    BY <2>2, <2>4, <2>5 DEF Has, Once
<1>9. queue \in [Producers -> Seq(Rq \cup Rs)] /\ Backend(c) \in Producers
  BY DEF MessageType, Backend, Producers
<1>10. queue' = Post(queue, Backend(c), ms)
  BY <1>1
<1> HIDE DEF ms
<1>11. /\ Queued(t)' <=> Queued(t) \/ rs.tag = t
       /\ QueuedOnce(t) /\ rs.tag # t => QueuedOnce(t)'
       /\ ~Queued(t) => QueuedOnce(t)'
  <2>1. /\ QHas(Post(queue, Backend(c), ms), t) <=> QHas(queue, t) \/ Has(ms, t)
        /\ QOnce(queue, t) /\ ~Has(ms, t) => QOnce(Post(queue, Backend(c), ms), t)
        /\ ~QHas(queue, t) /\ Once(ms, t) => QOnce(Post(queue, Backend(c), ms), t)
    BY <1>8, <1>9, PostTag
  <2> QED
    BY <1>8, <1>10, <2>1, Zenon DEF Queued, QueuedOnce
<1>12. (Sending(t)' <=> Sending(t)) /\ SendingOnce(t)' /\ (Got(t)' <=> Got(t)) /\ GotOnce(t)'
  BY <1>2, Unmoved DEF OnePlace
<1>13. CASE rs.tag # t
  <2>1. QueuedOnce(t)
    BY DEF OnePlace
  <2> QED
    BY <1>2, <1>6, <1>11, <1>12, <1>13, <2>1, QuietPlace
<1>14. CASE rs.tag = t
  <2>1. Linked(t) /\ ~Linked(t)'
    BY <1>7, <1>14
  <2> QED
    BY <1>2, <1>6, <1>11, <1>12, <2>1, Zenon DEF OnePlace
<1> QED
  BY <1>13, <1>14

\* The console turns a request on the wire into a response on its way back.
LEMMA HandlePlace ==
  ASSUME MessageType, NEW t \in OwnTags, OnePlace(t), NEW c \in Conns, Handle(c)
  PROVE  OnePlace(t)'
<1>1. wire[c] # <<>> /\ wire' = [wire EXCEPT ![c] = Tail(@)]
  BY HandleFacts
<1>2. PICK rs \in Rs : /\ rs.tag = Head(wire[c]).tag
                       /\ back' = [back EXCEPT ![c] = @ \cup {rs}]
  BY HandleFacts
<1>3. UNCHANGED <<link, pending, got, sent, queue>> /\ disp'.rq = disp.rq
  BY DEF Handle
<1>4. wire[c] \in Seq(Rq)
  BY DEF MessageType
<1>5. /\ wire'[c] = Tail(wire[c]) /\ back'[c] = back[c] \cup {rs}
      /\ \A d \in Conns : d # c => wire'[d] = wire[d] /\ back'[d] = back[d]
  BY <1>1, <1>2 DEF MessageType
<1>6. /\ Has(wire[c], t) <=> rs.tag = t \/ Has(wire'[c], t)
      /\ Once(wire[c], t) => Once(wire'[c], t)
      /\ Once(wire[c], t) /\ rs.tag = t => ~Has(wire'[c], t)
  <2> DEFINE s == wire[c]
  <2>1. s \in Seq(Rq) /\ s # <<>>
    BY <1>1, <1>4
  <2> HIDE DEF s
  <2>2. /\ Has(s, t) <=> Head(s).tag = t \/ Has(Tail(s), t)
        /\ Once(s, t) => Once(Tail(s), t)
        /\ Once(s, t) /\ Head(s).tag = t => ~Has(Tail(s), t)
    BY <2>1, TailTag
  <2> QED
    BY <1>2, <1>5, <2>2 DEF s
<1>7. \A d \in Conns : AtOnce(d, t)
  BY DEF OnePlace, LinkedOnce
<1>8. (At(c, t)' => At(c, t)) /\ AtOnce(c, t)'
  <2>1. link'[c] = link[c] /\ pending'[c] = pending[c]
    BY <1>3
  <2>2. In(back'[c], t) <=> In(back[c], t) \/ rs.tag = t
    BY <1>5 DEF In
  <2>3. Single(back[c], t) /\ rs.tag # t => Single(back'[c], t)
    BY <1>5 DEF Single
  <2>4. ~In(back[c], t) => Single(back'[c], t)
    BY <1>5 DEF Single, In
  <2> QED
    BY <1>6, <1>7, <2>1, <2>2, <2>3, <2>4, Zenon DEF At, AtOnce, Alive
<1>9. \A d \in Conns : (At(d, t)' => At(d, t)) /\ AtOnce(d, t)'
  <2> SUFFICES ASSUME NEW d \in Conns, d # c
               PROVE  (At(d, t)' => At(d, t)) /\ AtOnce(d, t)'
    BY <1>8
  <2>1. /\ link'[d] = link[d] /\ wire'[d] = wire[d]
        /\ back'[d] = back[d] /\ pending'[d] = pending[d]
    BY <1>3, <1>5
  <2> QED
    BY <1>7, <2>1, Zenon DEF At, AtOnce, Alive
<1>10. (Linked(t)' => Linked(t)) /\ LinkedOnce(t)'
  BY <1>9, LinkQuiet DEF OnePlace
<1>11. QueuedOnce(t) /\ SendingOnce(t) /\ GotOnce(t)
  BY DEF OnePlace
<1> QED
  BY <1>3, <1>10, <1>11, Unmoved, QuietPlace

\* A client that comes or goes posts nothing of its own.
LEMMA ClientPlace ==
  ASSUME MessageType, NEW t \in OwnTags, OnePlace(t), NEW cl \in Clients,
         AddClient(cl) \/ RemoveClient(cl)
  PROVE  OnePlace(t)'
<1>1. UNCHANGED <<link, wire, back, pending, got, sent>> /\ disp'.rq = disp.rq
  BY DEF AddClient, RemoveClient
<1>2. QueuedOnce(t) /\ SendingOnce(t) /\ LinkedOnce(t) /\ GotOnce(t)
  BY DEF OnePlace
<1>3. (Queued(t)' => Queued(t)) /\ QueuedOnce(t)'
  <2>1. CASE AddClient(cl)
    BY <1>2, <2>1, Unmoved DEF AddClient
  <2>2. CASE RemoveClient(cl)
    <3>1. PICK cs \in Seq(Closes) : queue' = Post(queue, "front", cs)
      BY <2>2, RemoveClientFacts
    <3>2. queue \in [Producers -> Seq(Rq \cup Rs)] /\ "front" \in Producers
      BY DEF MessageType, Producers
    <3> QED
      BY <1>2, <3>1, <3>2, QueueQuiet DEF Queued, QueuedOnce
  <2> QED
    BY <2>1, <2>2
<1> QED
  BY <1>1, <1>2, <1>3, Unmoved, QuietPlace

\* One message has its own tag.
LEMMA OneMessage ==
  ASSUME NEW m, NEW t
  PROVE  (Has(<<m>>, t) <=> m.tag = t) /\ Once(<<m>>, t)
<1>1. Len(<<m>>) = 1 /\ <<m>>[1] = m /\ 1..1 = {1}
  OBVIOUS
<1> QED
  BY <1>1 DEF Has, Once

\* A client posts a request with a tag that is nowhere yet.
LEMMA PostRequestPlace ==
  ASSUME MessageType, NEW t \in OwnTags, OnePlace(t), NEW cl \in Clients, PostRequest(cl)
  PROVE  OnePlace(t)'
<1>1. PICK rq \in Rq : /\ rq.tag = <<cl, sent[cl] + 1>>
                       /\ queue' = Post(queue, "front", <<rq>>)
  BY PostRequestFacts
<1>2. sent' = [sent EXCEPT ![cl] = @ + 1]
  BY PostRequestFacts
<1>3. UNCHANGED <<link, wire, back, pending, got>> /\ disp'.rq = disp.rq
  BY DEF PostRequest
<1>4. sent \in [Clients -> Nat] /\ t[1] \in Clients /\ t[2] \in Nat /\ t = <<t[1], t[2]>>
  BY DEF MessageType, OwnTags
<1>5. t[2] \in 1..sent[t[1]] => t[2] \in 1..sent'[t[1]]
  BY <1>2, <1>4
<1>6. rq.tag = t => t[2] \in 1..sent'[t[1]] /\ t[2] \notin 1..sent[t[1]]
  <2> SUFFICES ASSUME rq.tag = t
               PROVE  t[2] \in 1..sent'[t[1]] /\ t[2] \notin 1..sent[t[1]]
    OBVIOUS
  <2>1. t[1] = cl /\ t[2] = sent[cl] + 1
    BY <1>1
  <2>2. sent'[cl] = sent[cl] + 1 /\ sent[cl] \in Nat
    BY <1>2, <1>4
  <2> QED
    BY <2>1, <2>2
<1>7. /\ Queued(t)' <=> Queued(t) \/ rq.tag = t
      /\ QueuedOnce(t) /\ rq.tag # t => QueuedOnce(t)'
      /\ ~Queued(t) => QueuedOnce(t)'
  <2>1. queue \in [Producers -> Seq(Rq \cup Rs)] /\ "front" \in Producers
    BY DEF MessageType, Producers
  <2> DEFINE ms == <<rq>>
  <2>2. ms \in Seq(Rq \cup Rs) /\ (Has(ms, t) <=> rq.tag = t) /\ Once(ms, t)
    BY OneMessage
  <2>3. queue' = Post(queue, "front", ms)
    BY <1>1
  <2> HIDE DEF ms
  <2>4. /\ QHas(Post(queue, "front", ms), t) <=> QHas(queue, t) \/ Has(ms, t)
        /\ QOnce(queue, t) /\ ~Has(ms, t) => QOnce(Post(queue, "front", ms), t)
        /\ ~QHas(queue, t) /\ Once(ms, t) => QOnce(Post(queue, "front", ms), t)
    BY <2>1, <2>2, PostTag
  <2> QED
    BY <2>2, <2>3, <2>4, Zenon DEF Queued, QueuedOnce
<1>8. /\ Sending(t)' <=> Sending(t)
      /\ SendingOnce(t)'
      /\ Linked(t)' <=> Linked(t)
      /\ LinkedOnce(t)'
      /\ Got(t)' <=> Got(t)
      /\ GotOnce(t)'
  BY <1>3, Unmoved DEF OnePlace
<1>9. CASE rq.tag # t
  BY <1>5, <1>7, <1>8, <1>9, Zenon DEF OnePlace
<1>10. CASE rq.tag = t
  BY <1>6, <1>7, <1>8, <1>10, Zenon DEF OnePlace
<1> QED
  BY <1>9, <1>10

\* twibd's own answer takes the place of the request.
LEMMA AnswerPlace ==
  ASSUME MessageType, NEW t \in OwnTags, OnePlace(t), NEW p \in Producers, AnswerRequest(p)
  PROVE  OnePlace(t)'
<1>1. queue[p] # <<>>
  BY AnswerFacts
<1>2. PICK rs \in Rs, cs \in Seq(Closes) :
        /\ rs.tag = Head(queue[p]).tag
        /\ queue' = Post(Post(Popped(p), "disp", <<rs>>), "disp", cs)
  BY AnswerFacts
<1>3. UNCHANGED <<link, wire, back, pending, got, sent>> /\ disp'.rq = disp.rq
  BY DEF AnswerRequest
<1>4. QueuedOnce(t) /\ SendingOnce(t) /\ LinkedOnce(t) /\ GotOnce(t)
  BY DEF OnePlace
<1> DEFINE q == Popped(p)
           ms == <<rs>>
           r == Post(q, "disp", ms)
<1>5. /\ q \in [Producers -> Seq(Rq \cup Rs)]
      /\ QHas(queue, t) <=> rs.tag = t \/ QHas(q, t)
      /\ QOnce(queue, t) => QOnce(q, t)
      /\ QOnce(queue, t) /\ rs.tag = t => ~QHas(q, t)
  BY <1>1, <1>2, PoppedType, PoppedTag
<1>6. /\ ms \in Seq(Rq \cup Rs) /\ (Has(ms, t) <=> rs.tag = t) /\ Once(ms, t)
      /\ "disp" \in Producers
  BY OneMessage DEF Producers
<1> HIDE DEF q, ms
<1>7. /\ r \in [Producers -> Seq(Rq \cup Rs)]
      /\ QHas(r, t) <=> QHas(q, t) \/ Has(ms, t)
      /\ QOnce(q, t) /\ ~Has(ms, t) => QOnce(r, t)
      /\ ~QHas(q, t) /\ Once(ms, t) => QOnce(r, t)
  BY <1>5, <1>6, PostFacts, PostTag
<1>8. queue' = Post(r, "disp", cs)
  BY <1>2 DEF q, ms
<1> HIDE DEF r
<1>9. (Queued(t)' <=> QHas(r, t)) /\ (QOnce(r, t) => QueuedOnce(t)')
  BY <1>6, <1>7, <1>8, QueueQuiet
<1>10. (Queued(t)' => Queued(t)) /\ QueuedOnce(t)'
  BY <1>4, <1>5, <1>6, <1>7, <1>9, Zenon DEF Queued, QueuedOnce
<1> QED
  BY <1>3, <1>4, <1>10, Unmoved, QuietPlace

\* The dispatcher takes a request from a queue.
LEMMA LockPlace ==
  ASSUME MessageType, NEW t \in OwnTags, OnePlace(t), NEW p \in Producers, LockDevice(p)
  PROVE  OnePlace(t)'
<1>1. /\ queue[p] # <<>> /\ queue' = Popped(p)
      /\ disp.rq = {} /\ disp'.rq = {Head(queue[p])}
  BY LockFacts
<1>2. UNCHANGED <<link, wire, back, pending, got, sent>>
  BY DEF LockDevice
<1> DEFINE h == Head(queue[p])
<1>3. /\ Queued(t) <=> h.tag = t \/ Queued(t)'
      /\ QueuedOnce(t) => QueuedOnce(t)'
      /\ QueuedOnce(t) /\ h.tag = t => ~Queued(t)'
  BY <1>1, PoppedTag, Zenon DEF Queued, QueuedOnce
<1>4. ~Sending(t) /\ (Sending(t)' <=> h.tag = t) /\ SendingOnce(t)'
  BY <1>1 DEF Sending, SendingOnce, In, Single
<1> HIDE DEF h
<1>5. /\ Linked(t)' <=> Linked(t)
      /\ LinkedOnce(t)'
      /\ Got(t)' <=> Got(t)
      /\ GotOnce(t)'
  BY <1>2, Unmoved DEF OnePlace
<1> QED
  BY <1>2, <1>3, <1>4, <1>5, Zenon DEF OnePlace

\* The locked device has the request, or it is lost.
LEMMA SendPlace ==
  ASSUME MessageType, NEW t \in OwnTags, OnePlace(t), SendRequest
  PROVE  OnePlace(t)'
<1>1. PICK rq \in disp.rq, cs \in Seq(Closes) :
        /\ queue' = Post(queue, "disp", cs)
        /\ rq \in Rq /\ disp.conn \in Conns
        /\ UNCHANGED pending \/ pending' = [pending EXCEPT ![disp.conn] = @ \cup {rq}]
        /\ UNCHANGED wire \/ wire' = [wire EXCEPT ![disp.conn] = Append(@, rq)]
  BY SendFacts
<1>2. disp'.rq = {} /\ UNCHANGED <<link, back, got, sent>>
  BY DEF SendRequest, Idle
<1>3. QueuedOnce(t) /\ SendingOnce(t) /\ LinkedOnce(t) /\ GotOnce(t)
  BY DEF OnePlace
<1>4. ~Sending(t)' /\ SendingOnce(t)'
  BY <1>2 DEF Sending, SendingOnce, In, Single
<1>5. (Queued(t)' <=> Queued(t)) /\ QueuedOnce(t)'
  <2>1. queue \in [Producers -> Seq(Rq \cup Rs)] /\ "disp" \in Producers
    BY DEF MessageType, Producers
  <2> QED
    BY <1>1, <1>3, <2>1, QueueQuiet DEF Queued, QueuedOnce
<1>6. (Got(t)' <=> Got(t)) /\ GotOnce(t)'
  BY <1>2, <1>3, Unmoved
<1>7. PICK c \in Conns : c = disp.conn
  BY <1>1
<1>8. /\ wire'[c] = wire[c] \/ wire'[c] = Append(wire[c], rq)
      /\ pending'[c] = pending[c] \/ pending'[c] = pending[c] \cup {rq}
      /\ \A d \in Conns : d # c => wire'[d] = wire[d] /\ pending'[d] = pending[d]
  BY <1>1, <1>7 DEF MessageType
<1>9. \A d \in Conns : link'[d] = link[d] /\ back'[d] = back[d]
  BY <1>2
<1>10. wire[c] \in Seq(Rq)
  BY DEF MessageType
<1>11. /\ Has(wire'[c], t) => Has(wire[c], t) \/ rq.tag = t
       /\ Once(wire[c], t) /\ rq.tag # t => Once(wire'[c], t)
       /\ ~Has(wire[c], t) => Once(wire'[c], t)
  <2> DEFINE s == wire[c]
             u == <<rq>>
  <2>1. s \in Seq(Rq) /\ u \in Seq(Rq)
    BY <1>1, <1>10
  <2>2. (Has(u, t) <=> rq.tag = t) /\ Once(u, t)
    BY OneMessage
  <2>3. Append(s, rq) = s \o u
    BY <1>1, <2>1, AppendIsConcat
  <2> HIDE DEF s, u
  <2>4. /\ Has(s \o u, t) <=> Has(s, t) \/ Has(u, t)
        /\ Once(s, t) /\ ~Has(u, t) => Once(s \o u, t)
        /\ ~Has(s, t) /\ Once(u, t) => Once(s \o u, t)
    BY <2>1, ConcatTag
  <2>5. wire'[c] = s \/ wire'[c] = s \o u
    BY <1>8, <2>3 DEF s
  <2>6. ~Has(s, t) => Once(s, t)
    BY DEF Has, Once
  <2> QED
    BY <2>2, <2>4, <2>5, <2>6, Zenon DEF s
<1>12. /\ In(pending'[c], t) => In(pending[c], t) \/ rq.tag = t
       /\ Single(pending[c], t) /\ rq.tag # t => Single(pending'[c], t)
       /\ ~In(pending[c], t) => Single(pending'[c], t)
  BY <1>8 DEF In, Single
<1>13. \A d \in Conns : d # c => (At(d, t)' <=> At(d, t)) /\ (AtOnce(d, t)' <=> AtOnce(d, t))
  BY <1>8, <1>9, Zenon DEF At, AtOnce, Alive
<1>14. CASE rq.tag # t
  <2>1. (At(c, t)' => At(c, t)) /\ (AtOnce(c, t) => AtOnce(c, t)')
    BY <1>8, <1>9, <1>11, <1>12, <1>14, Zenon DEF At, AtOnce, Alive
  <2>2. \A d \in Conns : (At(d, t)' => At(d, t)) /\ AtOnce(d, t)'
    BY <1>3, <1>13, <2>1, Zenon DEF LinkedOnce
  <2>3. (Linked(t)' => Linked(t)) /\ LinkedOnce(t)'
    BY <1>3, <2>2, LinkQuiet
  <2> QED
    BY <1>2, <1>4, <1>5, <1>6, <2>3, QuietPlace
<1>15. CASE rq.tag = t
  <2>1. Sending(t)
    BY <1>15 DEF Sending, In
  <2>2. ~Queued(t) /\ ~Linked(t) /\ ~Got(t) /\ t[2] \in 1..sent[t[1]]
    BY <2>1, Zenon DEF OnePlace
  <2>3. \A d \in Conns : ~At(d, t)
    BY <2>2, Zenon DEF Linked
  <2>4. AtOnce(c, t)'
    BY <1>3, <1>8, <1>9, <1>11, <1>12, <2>3, Zenon DEF LinkedOnce, At, AtOnce, Alive
  <2>5. LinkedOnce(t)'
    BY <1>3, <1>13, <2>3, <2>4, Zenon DEF LinkedOnce
  <2> QED
    BY <1>2, <1>4, <1>5, <1>6, <2>2, <2>5, Zenon DEF OnePlace
<1> QED
  BY <1>14, <1>15

\* A response reaches its client, or is dropped.
LEMMA DispatchPlace ==
  ASSUME MessageType, OwnGot, NEW t \in OwnTags, OnePlace(t),
         NEW p \in Producers, DispatchResponse(p)
  PROVE  OnePlace(t)'
<1> DEFINE rs == Head(queue[p])
<1>1. /\ queue[p] # <<>> /\ rs \in Rs
      /\ \/ /\ rs.client \in Clients /\ queue' = Popped(p)
            /\ got' = [got EXCEPT ![rs.client] = Append(@, <<rs.tag, rs.result>>)]
         \/ /\ \E cs \in Seq(Closes) : queue' = Post(Popped(p), "disp", cs)
            /\ UNCHANGED got
  BY DispatchFacts
<1>2. UNCHANGED <<link, wire, back, pending, sent>> /\ disp'.rq = disp.rq
  BY DEF DispatchResponse
<1>3. QueuedOnce(t) /\ SendingOnce(t) /\ LinkedOnce(t) /\ GotOnce(t)
  BY DEF OnePlace
<1>4. /\ Sending(t)' <=> Sending(t)
      /\ SendingOnce(t)'
      /\ Linked(t)' <=> Linked(t)
      /\ LinkedOnce(t)'
  BY <1>2, <1>3, Unmoved
<1>5. /\ Popped(p) \in [Producers -> Seq(Rq \cup Rs)]
      /\ Queued(t) <=> rs.tag = t \/ QHas(Popped(p), t)
      /\ QOnce(Popped(p), t)
      /\ rs.tag = t => ~QHas(Popped(p), t)
  BY <1>1, <1>3, PoppedType, PoppedTag DEF Queued, QueuedOnce
<1>6. rs.tag[1] = rs.client
  BY <1>1, KindFacts
<1> HIDE DEF rs
<1>7. CASE UNCHANGED got /\ \E cs \in Seq(Closes) : queue' = Post(Popped(p), "disp", cs)
  <2>1. PICK cs \in Seq(Closes) : queue' = Post(Popped(p), "disp", cs)
    BY <1>7
  <2>2. "disp" \in Producers
    BY DEF Producers
  <2>3. (Queued(t)' <=> QHas(Popped(p), t)) /\ QueuedOnce(t)'
    BY <1>5, <2>1, <2>2, QueueQuiet
  <2>4. (Got(t)' <=> Got(t)) /\ GotOnce(t)'
    BY <1>3, <1>7, Unmoved
  <2> QED
    BY <1>2, <1>4, <1>5, <2>3, <2>4, QuietPlace
<1>8. CASE /\ rs.client \in Clients /\ queue' = Popped(p)
           /\ got' = [got EXCEPT ![rs.client] = Append(@, <<rs.tag, rs.result>>)]
  <2>1. (Queued(t)' <=> QHas(Popped(p), t)) /\ QueuedOnce(t)'
    BY <1>5, <1>8, Zenon DEF Queued, QueuedOnce
  <2> DEFINE x == t[1]
             s == got[x]
             g == <<rs.tag, rs.result>>
  <2>2. x \in Clients /\ s \in Seq(Tags \X Results)
    BY DEF MessageType, OwnTags
  <2>3. CASE rs.client # x
    <3>1. got'[x] = s
      BY <1>8, <2>2, <2>3 DEF MessageType
    <3>2. (Got(t)' <=> Got(t)) /\ GotOnce(t)'
      BY <1>3, <3>1 DEF Got, GotOnce
    <3> QED
      BY <1>2, <1>4, <1>5, <2>1, <3>2, QuietPlace
  <2>4. CASE rs.client = x
    <3>1. got'[x] = Append(s, g)
      BY <1>8, <2>2, <2>4 DEF MessageType
    <3>2. g \in Tags \X Results /\ g[1] = rs.tag
      BY <1>1, KindFacts DEF rs
    <3>3. /\ Len(s) \in Nat /\ Len(got'[x]) = Len(s) + 1
          /\ \A i \in 1..Len(s) : got'[x][i] = s[i]
          /\ got'[x][Len(s) + 1] = g
      BY <2>2, <3>1, <3>2, AppendProperties
    <3>4. \A i \in 1..Len(got'[x]) : i \in 1..Len(s) \/ i = Len(s) + 1
      BY <3>3
    <3>5. CASE rs.tag # t
      <4>1. \A i \in 1..Len(got'[x]) : got'[x][i][1] = t => i \in 1..Len(s) /\ s[i][1] = t
        BY <3>2, <3>3, <3>4, <3>5
      <4>2. (Got(t)' => Got(t)) /\ GotOnce(t)'
        BY <1>3, <4>1 DEF Got, GotOnce
      <4> QED
        BY <1>2, <1>4, <1>5, <2>1, <4>2, QuietPlace
    <3>6. CASE rs.tag = t
      <4>1. Queued(t) /\ ~Queued(t)'
        BY <1>5, <2>1, <3>6
      <4>2. ~Sending(t) /\ ~Linked(t) /\ ~Got(t) /\ t[2] \in 1..sent[t[1]]
        BY <4>1, Zenon DEF OnePlace
      <4>3. \A i \in 1..Len(got'[x]) : got'[x][i][1] = t => i = Len(s) + 1
        BY <3>3, <3>4, <4>2 DEF Got
      <4>4. GotOnce(t)'
        BY <4>3 DEF GotOnce
      <4> QED
        BY <1>2, <1>4, <2>1, <4>1, <4>2, <4>4, Zenon DEF OnePlace
    <3> QED
      BY <3>5, <3>6
  <2> QED
    BY <2>3, <2>4
<1> QED
  BY <1>1, <1>7, <1>8

PlaceInv == MessageType /\ OwnGot /\ \A t \in OwnTags : OnePlace(t)

\* Nothing was asked and nothing is anywhere at first.
LEMMA InitPlaceInv == Init => PlaceInv
<1> SUFFICES ASSUME Init PROVE PlaceInv
  OBVIOUS
<1> USE ConnAssumption
<1>1. \A S : {} \in Finite(S)
  BY FiniteFacts
<1>2. MessageType
  <2>1. disp.rq = {}
    BY DEF Init, Idle
  <2>2. pending \in [Conns -> Finite(Rq)] /\ held \in [Conns -> Finite(Bridges)]
        /\ owned \in [Clients -> Finite(Bridges)]
    BY <1>1 DEF Init
  <2> QED
    BY <2>1, <2>2 DEF Init, MessageType
<1>3. OwnGot
  BY DEF Init, OwnGot
<1>4. ASSUME NEW t \in OwnTags PROVE OnePlace(t)
  <2>1. t[1] \in Clients
    BY DEF OwnTags
  <2>2. ~Queued(t) /\ QueuedOnce(t)
    BY DEF Init, Queued, QueuedOnce, QHas, QOnce, Has, Once
  <2>3. ~Sending(t) /\ SendingOnce(t)
    BY DEF Init, Idle, Sending, SendingOnce, In, Single
  <2>4. ~Linked(t) /\ LinkedOnce(t)
    BY DEF Init, Linked, LinkedOnce, At, AtOnce, Alive, Has, Once, In, Single
  <2>5. ~Got(t) /\ GotOnce(t)
    BY <2>1 DEF Init, Got, GotOnce
  <2> QED
    BY <2>2, <2>3, <2>4, <2>5, Zenon DEF OnePlace
<1> QED
  BY <1>2, <1>3, <1>4 DEF PlaceInv

\* Every step moves a tag from one place to the next, or loses it.
LEMMA NextPlaceInv == PlaceInv /\ [Next]_vars => PlaceInv'
<1> SUFFICES ASSUME PlaceInv, [Next]_vars PROVE PlaceInv'
  OBVIOUS
<1>1. MessageType /\ OwnGot /\ \A t \in OwnTags : OnePlace(t)
  BY DEF PlaceInv
<1> DEFINE Places == \A t \in OwnTags : OnePlace(t)'
<1>2. UNCHANGED got => OwnGot'
  BY <1>1 DEF OwnGot
<1>3. ASSUME UNCHANGED vars PROVE MessageType' /\ OwnGot' /\ Places
  <2>1. MessageType' /\ OwnGot'
    BY <1>1, <1>2, <1>3 DEF vars, MessageType
  <2>2. UNCHANGED <<link, wire, back, pending, got, sent, queue>> /\ disp'.rq = disp.rq
    BY <1>3 DEF vars
  <2>3. ASSUME NEW t \in OwnTags PROVE OnePlace(t)'
    <3>1. OnePlace(t)
      BY <1>1
    <3>2. QueuedOnce(t) /\ SendingOnce(t) /\ LinkedOnce(t) /\ GotOnce(t)
      BY <3>1 DEF OnePlace
    <3> QED
      BY <2>2, <3>1, <3>2, Unmoved, QuietPlace
  <2> QED
    BY <2>1, <2>3
<1>4. ASSUME NEW c \in Conns,
             \/ Connect(c) \/ Identified(c) \/ AddDevice(c) \/ RemoveDevice(c)
             \/ \E cut \in BOOLEAN, reboot \in MayReboot : Fail(c, cut, reboot)
      PROVE  MessageType' /\ OwnGot' /\ Places
  <2>1. UNCHANGED got
    BY <1>4 DEF Connect, Identified, AddDevice, RemoveDevice, Fail
  <2>2. MessageType'
    BY <1>1, <1>4, QuietMessageType, AddDeviceFacts
  <2>3. Places
    BY <1>1, <1>4, BackendPlace
  <2> QED
    BY <1>2, <2>1, <2>2, <2>3
<1>5. ASSUME NEW c \in Conns, Destroy(c) \/ Receive(c) \/ Handle(c)
      PROVE  MessageType' /\ OwnGot' /\ Places
  <2>1. UNCHANGED got
    BY <1>5 DEF Destroy, Receive, Handle
  <2>2. MessageType'
    BY <1>1, <1>5, DestroyFacts, ReceiveFacts, HandleFacts
  <2>3. Places
    BY <1>1, <1>5, DestroyPlace, ReceivePlace, HandlePlace
  <2> QED
    BY <1>2, <2>1, <2>2, <2>3
<1>6. ASSUME NEW cl \in Clients, AddClient(cl) \/ PostRequest(cl) \/ RemoveClient(cl)
      PROVE  MessageType' /\ OwnGot' /\ Places
  <2>1. UNCHANGED got
    BY <1>6 DEF AddClient, PostRequest, RemoveClient
  <2>2. AddClient(cl) => MessageType'
    BY <1>1 DEF AddClient, MessageType
  <2>3. MessageType'
    BY <1>1, <1>6, <2>2, PostRequestFacts, RemoveClientFacts
  <2>4. Places
    BY <1>1, <1>6, ClientPlace, PostRequestPlace
  <2> QED
    BY <1>2, <2>1, <2>3, <2>4
<1>7. ASSUME NEW p \in Producers, AnswerRequest(p) \/ LockDevice(p)
      PROVE  MessageType' /\ OwnGot' /\ Places
  <2>1. UNCHANGED got
    BY <1>7 DEF AnswerRequest, LockDevice
  <2>2. MessageType'
    BY <1>1, <1>7, AnswerFacts, LockFacts
  <2>3. Places
    BY <1>1, <1>7, AnswerPlace, LockPlace
  <2> QED
    BY <1>2, <2>1, <2>2, <2>3
<1>8. ASSUME NEW p \in Producers, DispatchResponse(p)
      PROVE  MessageType' /\ OwnGot' /\ Places
  BY <1>1, <1>8, DispatchFacts, DispatchPlace
<1>9. ASSUME SendRequest PROVE MessageType' /\ OwnGot' /\ Places
  <2>1. UNCHANGED got
    BY <1>9 DEF SendRequest
  <2>2. MessageType'
    BY <1>1, <1>9, SendFacts
  <2>3. Places
    BY <1>1, <1>9, SendPlace
  <2> QED
    BY <1>2, <2>1, <2>2, <2>3
<1>10. CASE Next
  <2>1. MessageType' /\ OwnGot' /\ Places
    BY <1>4, <1>5, <1>6, <1>7, <1>8, <1>9, <1>10, Zenon DEF Next
  <2> QED
    BY <2>1 DEF PlaceInv
<1>11. CASE UNCHANGED vars
  BY <1>3, <1>11 DEF PlaceInv
<1> QED
  BY <1>10, <1>11

\* No client gets two answers to one request, whatever connections fail and
\* whenever: a request is in one place at a time, and the failures a dying USB
\* device posts are for requests whose responses it will not deliver.
THEOREM AtMostOneAnswer == Spec => []AnsweredOnce
<1>1. PlaceInv => AnsweredOnce
  <2> SUFFICES ASSUME PlaceInv, NEW cl \in Clients,
                      NEW i \in 1..Len(got[cl]), NEW j \in 1..Len(got[cl]),
                      got[cl][i][1] = got[cl][j][1]
               PROVE  i = j
    BY DEF AnsweredOnce
  <2>1. got[cl][i] \in Tags \X Results
    BY DEF PlaceInv, MessageType
  <2>2. PICK t \in Tags : t = got[cl][i][1]
    BY <2>1
  <2>3. t[1] = cl
    BY <2>2 DEF PlaceInv, OwnGot
  <2>4. t \in OwnTags
    BY <2>3 DEF Tags, OwnTags
  <2>5. GotOnce(t)
    BY <2>4 DEF PlaceInv, OnePlace
  <2> QED
    BY <2>2, <2>3, <2>5 DEF GotOnce
<1> QED
  BY <1>1, InitPlaceInv, NextPlaceInv, PTL DEF Spec

-----------------------------------------------------------------------------
(***************************************************************************)
(* Without a failure no request is lost.                                   *)
(***************************************************************************)

\* The tag is on the wire of a connection or on its way back.
Travels(t) == \E c \in Conns : Has(wire[c], t) \/ In(back[c], t)
Placed(t) == Queued(t) \/ Sending(t) \/ Travels(t) \/ Got(t)

Kept ==
  /\ \A c \in Conns : link[c] \in {"off", "listed"}
  /\ \A m, n \in disp.rq : m = n
  /\ \A cl \in Clients : status[cl] = "off" => sent[cl] = 0
  /\ \A t \in OwnTags : status[t[1]] = "on" /\ t[2] \in 1..sent[t[1]] => Placed(t)

\* The backends' own steps: without a failure none of them drops a message.
LEMMA BackendKeeps ==
  ASSUME MessageType, flagged \in [Conns -> BOOLEAN], Kept, NoneFailed, NoneFailed',
         NEW t \in OwnTags, Placed(t),
         NEW c \in Conns,
         \/ Connect(c) \/ Identified(c) \/ AddDevice(c) \/ RemoveDevice(c) \/ Destroy(c)
         \/ \E cut \in BOOLEAN, reboot \in MayReboot : Fail(c, cut, reboot)
  PROVE  Placed(t)'
<1>1. ~RemoveDevice(c)
  BY DEF NoneFailed, RemoveDevice
<1>2. ~Destroy(c)
  BY DEF Kept, Destroy
<1>3. \A cut \in BOOLEAN, reboot \in MayReboot : ~Fail(c, cut, reboot)
  BY DEF NoneFailed, Fail
<1>4. CASE Connect(c) \/ Identified(c)
  <2>1. UNCHANGED <<queue, wire, back, got>> /\ disp'.rq = disp.rq
    BY <1>4 DEF Connect, Identified
  <2> QED
    BY <2>1, Unmoved DEF Placed, Travels
<1>5. CASE AddDevice(c)
  <2>1. UNCHANGED <<wire, back, got>> /\ disp'.rq = disp.rq
    BY <1>5 DEF AddDevice
  <2>2. PICK cs \in Seq(Closes) : queue' = Post(queue, Backend(c), cs)
    BY <1>5, AddDeviceFacts
  <2>3. queue \in [Producers -> Seq(Rq \cup Rs)] /\ Backend(c) \in Producers
    BY DEF MessageType, Backend, Producers
  <2>4. Queued(t)' <=> Queued(t)
    BY <2>2, <2>3, QueueQuiet DEF Queued
  <2> QED
    BY <2>1, <2>4, Unmoved DEF Placed, Travels
<1> QED
  BY <1>1, <1>2, <1>3, <1>4, <1>5

\* A response that is received is queued.
LEMMA ReceiveKeeps ==
  ASSUME MessageType, NEW t \in OwnTags, Placed(t), NEW c \in Conns, Receive(c)
  PROVE  Placed(t)'
<1>1. PICK rs \in back[c] \cap Rs, cs \in Seq(Closes) :
        /\ back' = [back EXCEPT ![c] = @ \ {rs}]
        /\ queue' = Post(queue, Backend(c), Append(cs, rs))
  BY ReceiveFacts
<1>2. UNCHANGED <<wire, got>> /\ disp'.rq = disp.rq
  BY DEF Receive
<1>3. Sending(t)' <=> Sending(t)
  BY <1>2, Unmoved
<1>4. Got(t)' <=> Got(t)
  BY <1>2, Unmoved
<1> DEFINE ms == Append(cs, rs)
<1>5. ms \in Seq(Rq \cup Rs) /\ (rs.tag = t => Has(ms, t))
  <2>1. cs \in Seq(Rq \cup Rs)
    BY ClosesTag DEF OwnTags
  <2>2. /\ ms \in Seq(Rq \cup Rs) /\ Len(ms) = Len(cs) + 1 /\ Len(cs) \in Nat
        /\ ms[Len(cs) + 1] = rs
    BY <2>1, AppendProperties
  <2>3. Len(cs) + 1 \in 1..Len(ms)
    BY <2>2
  <2> HIDE DEF ms
  <2> QED
    BY <2>2, <2>3 DEF Has
<1>6. queue \in [Producers -> Seq(Rq \cup Rs)] /\ Backend(c) \in Producers
  BY DEF MessageType, Backend, Producers
<1>7. queue' = Post(queue, Backend(c), ms)
  BY <1>1
<1> HIDE DEF ms
<1>8. Queued(t) \/ rs.tag = t => Queued(t)'
  <2>1. QHas(Post(queue, Backend(c), ms), t) <=> QHas(queue, t) \/ Has(ms, t)
    BY <1>5, <1>6, PostTag
  <2> QED
    BY <1>5, <1>7, <2>1, Zenon DEF Queued
<1>9. Travels(t) => Travels(t)' \/ rs.tag = t
  <2> SUFFICES ASSUME NEW d \in Conns, Has(wire[d], t) \/ In(back[d], t), rs.tag # t
               PROVE  Has(wire'[d], t) \/ In(back'[d], t)
    BY DEF Travels
  <2>1. wire'[d] = wire[d] /\ (back'[d] = back[d] \/ back'[d] = back[d] \ {rs})
    BY <1>1, <1>2 DEF MessageType
  <2>2. In(back[d], t) => In(back'[d], t)
    BY <2>1 DEF In
  <2> QED
    BY <2>1, <2>2, Zenon
<1> QED
  BY <1>3, <1>4, <1>8, <1>9, Zenon DEF Placed

\* The console answers what it takes from the wire.
LEMMA HandleKeeps ==
  ASSUME MessageType, NEW t \in OwnTags, Placed(t), NEW c \in Conns, Handle(c)
  PROVE  Placed(t)'
<1>1. wire[c] # <<>> /\ wire' = [wire EXCEPT ![c] = Tail(@)]
  BY HandleFacts
<1>2. PICK rs \in Rs : /\ rs.tag = Head(wire[c]).tag
                       /\ back' = [back EXCEPT ![c] = @ \cup {rs}]
  BY HandleFacts
<1>3. UNCHANGED <<queue, got>> /\ disp'.rq = disp.rq
  BY DEF Handle
<1>4. /\ wire'[c] = Tail(wire[c]) /\ back'[c] = back[c] \cup {rs}
      /\ \A d \in Conns : d # c => wire'[d] = wire[d] /\ back'[d] = back[d]
  BY <1>1, <1>2 DEF MessageType
<1>5. Has(wire[c], t) => rs.tag = t \/ Has(wire'[c], t)
  <2> DEFINE s == wire[c]
  <2>1. s \in Seq(Rq) /\ s # <<>>
    BY <1>1 DEF MessageType
  <2> HIDE DEF s
  <2>2. Has(s, t) <=> Head(s).tag = t \/ Has(Tail(s), t)
    BY <2>1, TailTag
  <2> QED
    BY <1>2, <1>4, <2>2 DEF s
<1>6. In(back[c], t) \/ rs.tag = t => In(back'[c], t)
  BY <1>4 DEF In
<1>7. Travels(t) => Travels(t)'
  <2> SUFFICES ASSUME NEW d \in Conns, Has(wire[d], t) \/ In(back[d], t)
               PROVE  Has(wire'[d], t) \/ In(back'[d], t)
    BY DEF Travels
  <2> QED
    BY <1>4, <1>5, <1>6, Zenon
<1>8. (Queued(t)' <=> Queued(t)) /\ (Sending(t)' <=> Sending(t)) /\ (Got(t)' <=> Got(t))
  BY <1>3, Unmoved
<1> QED
  BY <1>7, <1>8, Zenon DEF Placed

\* Clients that come, post or go leave every message where it is.
LEMMA ClientKeeps ==
  ASSUME MessageType, NEW t \in OwnTags, Placed(t), NEW cl \in Clients,
         AddClient(cl) \/ PostRequest(cl) \/ RemoveClient(cl)
  PROVE  Placed(t)'
<1>1. UNCHANGED <<wire, back, got>> /\ disp'.rq = disp.rq
  BY DEF AddClient, PostRequest, RemoveClient
<1>2. Queued(t) => Queued(t)'
  <2>1. queue \in [Producers -> Seq(Rq \cup Rs)] /\ "front" \in Producers
    BY DEF MessageType, Producers
  <2>2. UNCHANGED queue \/ \E ms \in Seq(Rq \cup Rs) : queue' = Post(queue, "front", ms)
    <3>1. CASE AddClient(cl)
      BY <3>1 DEF AddClient
    <3>2. CASE PostRequest(cl)
      <4>1. PICK rq \in Rq : queue' = Post(queue, "front", <<rq>>)
        BY <3>2, PostRequestFacts
      <4>2. <<rq>> \in Seq(Rq \cup Rs)
        OBVIOUS
      <4> QED
        BY <4>1, <4>2
    <3>3. CASE RemoveClient(cl)
      <4>1. PICK cs \in Seq(Closes) : queue' = Post(queue, "front", cs)
        BY <3>3, RemoveClientFacts
      <4>2. cs \in Seq(Rq \cup Rs)
        BY ClosesTag DEF OwnTags
      <4> QED
        BY <4>1, <4>2
    <3> QED
      BY <3>1, <3>2, <3>3
  <2>3. ASSUME NEW ms \in Seq(Rq \cup Rs), queue' = Post(queue, "front", ms), Queued(t)
        PROVE  Queued(t)'
    <3>1. QHas(Post(queue, "front", ms), t) <=> QHas(queue, t) \/ Has(ms, t)
      BY <2>1, PostTag
    <3> QED
      BY <2>3, <3>1, Zenon DEF Queued
  <2> QED
    BY <2>2, <2>3, Unmoved
<1>3. (Sending(t)' <=> Sending(t)) /\ (Got(t)' <=> Got(t)) /\ (Travels(t)' <=> Travels(t))
  BY <1>1, Unmoved DEF Travels
<1> QED
  BY <1>2, <1>3, Zenon DEF Placed

\* The dispatcher answers the request it takes.
LEMMA AnswerKeeps ==
  ASSUME MessageType, NEW t \in OwnTags, Placed(t), NEW p \in Producers, AnswerRequest(p)
  PROVE  Placed(t)'
<1>1. queue[p] # <<>>
  BY AnswerFacts
<1>2. PICK rs \in Rs, cs \in Seq(Closes) :
        /\ rs.tag = Head(queue[p]).tag
        /\ queue' = Post(Post(Popped(p), "disp", <<rs>>), "disp", cs)
  BY AnswerFacts
<1>3. UNCHANGED <<wire, back, got>> /\ disp'.rq = disp.rq
  BY DEF AnswerRequest
<1> DEFINE q == Popped(p)
           ms == <<rs>>
           r == Post(q, "disp", ms)
<1>4. /\ q \in [Producers -> Seq(Rq \cup Rs)]
      /\ QHas(queue, t) <=> rs.tag = t \/ QHas(q, t)
  BY <1>1, <1>2, PoppedType, PoppedTag
<1>5. /\ ms \in Seq(Rq \cup Rs) /\ (Has(ms, t) <=> rs.tag = t)
      /\ "disp" \in Producers
  BY OneMessage DEF Producers
<1> HIDE DEF q, ms
<1>6. /\ r \in [Producers -> Seq(Rq \cup Rs)]
      /\ QHas(r, t) <=> QHas(q, t) \/ Has(ms, t)
  BY <1>4, <1>5, PostFacts, PostTag
<1>7. queue' = Post(r, "disp", cs)
  BY <1>2 DEF q, ms
<1> HIDE DEF r
<1>8. Queued(t)' <=> QHas(r, t)
  BY <1>5, <1>6, <1>7, QueueQuiet
<1>9. Queued(t) => Queued(t)'
  BY <1>4, <1>5, <1>6, <1>8, Zenon DEF Queued
<1>10. (Sending(t)' <=> Sending(t)) /\ (Got(t)' <=> Got(t)) /\ (Travels(t)' <=> Travels(t))
  BY <1>3, Unmoved DEF Travels
<1> QED
  BY <1>9, <1>10, Zenon DEF Placed

\* The dispatcher holds the request it takes.
LEMMA LockKeeps ==
  ASSUME MessageType, NEW t \in OwnTags, Placed(t), NEW p \in Producers, LockDevice(p)
  PROVE  Placed(t)'
<1>1. /\ queue[p] # <<>> /\ queue' = Popped(p)
      /\ disp.rq = {} /\ disp'.rq = {Head(queue[p])}
  BY LockFacts
<1>2. UNCHANGED <<wire, back, got>>
  BY DEF LockDevice
<1> DEFINE h == Head(queue[p])
<1>3. Queued(t) <=> h.tag = t \/ Queued(t)'
  BY <1>1, PoppedTag, Zenon DEF Queued
<1>4. ~Sending(t) /\ (Sending(t)' <=> h.tag = t)
  BY <1>1 DEF Sending, In
<1> HIDE DEF h
<1>5. (Got(t)' <=> Got(t)) /\ (Travels(t)' <=> Travels(t))
  BY <1>2, Unmoved DEF Travels
<1> QED
  BY <1>3, <1>4, <1>5, Zenon DEF Placed

\* A connection that has not failed sends the request.
LEMMA SendKeeps ==
  ASSUME MessageType, flagged \in [Conns -> BOOLEAN], Kept, NoneFailed, NoneFailed',
         NEW t \in OwnTags, Placed(t), SendRequest
  PROVE  Placed(t)'
<1>1. PICK rq \in disp.rq :
        /\ SendOverTcp(disp.conn, rq) \/ SendOverUsb(disp.conn, rq)
        /\ FreeClient(rq.client, status, queue, Idle, "disp")
  BY DEF SendRequest
<1>2. PICK cs \in Seq(Closes) : queue' = Post(queue, "disp", cs)
  BY SendFacts
<1>3. UNCHANGED <<back, got>>
  BY DEF SendRequest
<1>4. PICK c \in Conns : c = disp.conn
  BY <1>1 DEF MessageType
<1>5. ~flagged[c] /\ ~flagged'[c]
  BY DEF NoneFailed
<1>6. wire' = [wire EXCEPT ![c] = Append(@, rq)]
  <2>1. SendOverTcp(c, rq) \/ SendOverUsb(c, rq)
    BY <1>1, <1>4
  <2> QED
    BY <1>5, <2>1 DEF SendOverTcp, SendOverUsb
<1>7. Sending(t) => Travels(t)'
  <2> SUFFICES ASSUME Sending(t) PROVE Has(wire'[c], t)
    BY DEF Travels
  <2>1. rq.tag = t
    BY DEF Sending, In, Kept
  <2>2. wire[c] \in Seq(Rq) /\ wire'[c] = Append(wire[c], rq) /\ rq \in Rq
    BY <1>6 DEF MessageType
  <2>3. /\ Len(wire'[c]) = Len(wire[c]) + 1 /\ Len(wire[c]) \in Nat
        /\ wire'[c][Len(wire[c]) + 1] = rq
    BY <2>2, AppendProperties
  <2>4. Len(wire[c]) + 1 \in 1..Len(wire'[c])
    BY <2>3
  <2> QED
    BY <2>1, <2>3, <2>4 DEF Has
<1>8. Travels(t) => Travels(t)'
  <2> SUFFICES ASSUME NEW d \in Conns, Has(wire[d], t)
               PROVE  Has(wire'[d], t)
    BY <1>3 DEF Travels
  <2>1. CASE d # c
    BY <1>6, <2>1 DEF MessageType
  <2>2. CASE d = c
    <3>1. wire[c] \in Seq(Rq) /\ wire'[c] = Append(wire[c], rq) /\ rq \in Rq
      BY <1>6 DEF MessageType
    <3>2. /\ Len(wire'[c]) = Len(wire[c]) + 1 /\ Len(wire[c]) \in Nat
          /\ \A i \in 1..Len(wire[c]) : wire'[c][i] = wire[c][i]
      BY <3>1, AppendProperties
    <3>3. \A i \in 1..Len(wire[c]) : i \in 1..Len(wire'[c])
      BY <3>2
    <3> QED
      BY <2>2, <3>2, <3>3 DEF Has
  <2> QED
    BY <2>1, <2>2
<1>9. Queued(t)' <=> Queued(t)
  <2>1. queue \in [Producers -> Seq(Rq \cup Rs)] /\ "disp" \in Producers
    BY DEF MessageType, Producers
  <2> QED
    BY <1>2, <2>1, QueueQuiet DEF Queued
<1>10. Got(t)' <=> Got(t)
  BY <1>3, Unmoved
<1> QED
  BY <1>7, <1>8, <1>9, <1>10, Zenon DEF Placed

\* A connected client gets the response.
LEMMA DispatchKeeps ==
  ASSUME MessageType, OwnGot, NEW t \in OwnTags, status[t[1]] = "on", Placed(t),
         NEW p \in Producers, DispatchResponse(p)
  PROVE  Placed(t)'
<1> DEFINE rs == Head(queue[p])
           x == t[1]
           s == got[x]
           g == <<rs.tag, rs.result>>
<1>1. /\ queue[p] # <<>> /\ rs \in Rs
      /\ \/ /\ rs.client \in Clients /\ queue' = Popped(p)
            /\ got' = [got EXCEPT ![rs.client] = Append(@, g)]
         \/ /\ \E cs \in Seq(Closes) : queue' = Post(Popped(p), "disp", cs)
            /\ UNCHANGED got
  BY DispatchFacts
<1>2. UNCHANGED <<wire, back>> /\ disp'.rq = disp.rq
  BY DEF DispatchResponse
<1>3. x \in Clients /\ s \in Seq(Tags \X Results) /\ got \in [Clients -> Seq(Tags \X Results)]
  BY DEF MessageType, OwnTags
<1>4. rs.tag[1] = rs.client /\ g \in Tags \X Results /\ g[1] = rs.tag
  BY <1>1, KindFacts
<1>5. rs.client = x => got' = [got EXCEPT ![rs.client] = Append(@, g)]
  BY <1>3 DEF DispatchResponse
<1>6. Queued(t) => Queued(t)' \/ rs.tag = t
  <2>1. Popped(p) \in [Producers -> Seq(Rq \cup Rs)] /\ "disp" \in Producers
    BY <1>1, PoppedType DEF Producers
  <2>2. Queued(t) <=> rs.tag = t \/ QHas(Popped(p), t)
    BY <1>1, PoppedTag DEF Queued
  <2>3. CASE queue' = Popped(p)
    BY <2>2, <2>3, Zenon DEF Queued
  <2>4. ASSUME NEW cs \in Seq(Closes), queue' = Post(Popped(p), "disp", cs)
        PROVE  Queued(t)' <=> QHas(Popped(p), t)
    BY <2>1, <2>4, QueueQuiet
  <2> QED
    BY <1>1, <2>2, <2>3, <2>4
<1> HIDE DEF rs, g
<1>7. rs.client = x => /\ Got(t) => Got(t)'
                       /\ rs.tag = t => Got(t)'
  <2> SUFFICES ASSUME rs.client = x PROVE (Got(t) => Got(t)') /\ (rs.tag = t => Got(t)')
    OBVIOUS
  <2>1. got'[x] = Append(s, g)
    BY <1>3, <1>5
  <2>2. /\ Len(s) \in Nat /\ Len(got'[x]) = Len(s) + 1
        /\ \A i \in 1..Len(s) : got'[x][i] = s[i]
        /\ got'[x][Len(s) + 1] = g
    BY <1>3, <1>4, <2>1, AppendProperties
  <2>3. Len(s) + 1 \in 1..Len(got'[x]) /\ \A i \in 1..Len(s) : i \in 1..Len(got'[x])
    BY <2>2
  <2> QED
    BY <1>4, <2>2, <2>3 DEF Got
<1>8. rs.client # x => (Got(t) => Got(t)') /\ rs.tag # t
  <2> SUFFICES ASSUME rs.client # x PROVE (Got(t) => Got(t)') /\ rs.tag # t
    OBVIOUS
  <2>1. got'[x] = s
    BY <1>1, <1>3
  <2> QED
    BY <1>4, <2>1 DEF Got
<1>9. (Sending(t)' <=> Sending(t)) /\ (Travels(t)' <=> Travels(t))
  BY <1>2, Unmoved DEF Travels
<1> QED
  BY <1>6, <1>7, <1>8, <1>9, Zenon DEF Placed

KeptInv ==
  /\ PlaceInv
  /\ flagged \in [Conns -> BOOLEAN]
  /\ status \in [Clients -> {"off", "on", "gone"}]
  /\ NoneFailed => Kept

\* Only clients that come, post or go change the clients' status and counts, and
\* only LockDevice and SendRequest what the dispatcher holds.
LEMMA StatusActions ==
  ASSUME MessageType, status \in [Clients -> {"off", "on", "gone"}], Next
  PROVE  \/ UNCHANGED <<status, sent>>
         \/ \E cl \in Clients : \/ AddClient(cl) \/ PostRequest(cl) \/ RemoveClient(cl)
<1>1. ASSUME NEW c \in Conns,
             \/ Connect(c) \/ Identified(c) \/ AddDevice(c) \/ RemoveDevice(c)
             \/ \E cut \in BOOLEAN, reboot \in MayReboot : Fail(c, cut, reboot)
      PROVE  UNCHANGED <<status, sent>>
  BY <1>1 DEF Connect, Identified, AddDevice, RemoveDevice, Fail
<1>2. ASSUME NEW c \in Conns, Destroy(c) \/ Receive(c) \/ Handle(c)
      PROVE  UNCHANGED <<status, sent>>
  BY <1>2 DEF Destroy, Receive, Handle
<1>3. ASSUME NEW p \in Producers, AnswerRequest(p) \/ LockDevice(p) \/ DispatchResponse(p)
      PROVE  UNCHANGED <<status, sent>>
  BY <1>3 DEF AnswerRequest, LockDevice, DispatchResponse
<1>4. ASSUME SendRequest PROVE UNCHANGED <<status, sent>>
  BY <1>4 DEF SendRequest
<1> QED
  BY <1>1, <1>2, <1>3, <1>4, Zenon DEF Next

\* The dispatcher holds one request at a time.
LEMMA OneSending ==
  ASSUME MessageType, \A m, n \in disp.rq : m = n, Next
  PROVE  \A m, n \in disp'.rq : m = n
<1>1. ASSUME NEW c \in Conns,
             \/ Connect(c) \/ Identified(c) \/ AddDevice(c) \/ RemoveDevice(c)
             \/ \E cut \in BOOLEAN, reboot \in MayReboot : Fail(c, cut, reboot)
      PROVE  disp' = disp
  BY <1>1 DEF Connect, Identified, AddDevice, RemoveDevice, Fail
<1>2. ASSUME NEW c \in Conns, Destroy(c) \/ Receive(c) \/ Handle(c)
      PROVE  disp' = disp
  BY <1>2 DEF Destroy, Receive, Handle
<1>3. ASSUME NEW cl \in Clients, AddClient(cl) \/ PostRequest(cl) \/ RemoveClient(cl)
      PROVE  disp' = disp
  BY <1>3 DEF AddClient, PostRequest, RemoveClient
<1>4. ASSUME NEW p \in Producers, AnswerRequest(p) \/ DispatchResponse(p)
      PROVE  disp' = disp
  BY <1>4 DEF AnswerRequest, DispatchResponse
<1>5. ASSUME NEW p \in Producers, LockDevice(p)
      PROVE  \A m, n \in disp'.rq : m = n
  BY <1>5, LockFacts
<1>6. ASSUME SendRequest PROVE \A m, n \in disp'.rq : m = n
  BY <1>6, SendFacts
<1>7. disp' = disp => \A m, n \in disp'.rq : m = n
  OBVIOUS
<1> QED
  BY <1>1, <1>2, <1>3, <1>4, <1>5, <1>6, <1>7, Zenon DEF Next

\* Without a failure what is placed stays placed until its client leaves.
LEMMA NextPlaced ==
  ASSUME MessageType, OwnGot, flagged \in [Conns -> BOOLEAN], Kept, NoneFailed, NoneFailed',
         Next, NEW t \in OwnTags, status[t[1]] = "on", Placed(t)
  PROVE  Placed(t)'
<1>1. ASSUME NEW c \in Conns,
             \/ Connect(c) \/ Identified(c) \/ AddDevice(c) \/ RemoveDevice(c) \/ Destroy(c)
             \/ \E cut \in BOOLEAN, reboot \in MayReboot : Fail(c, cut, reboot)
      PROVE  Placed(t)'
  BY <1>1, BackendKeeps, Zenon
<1>2. ASSUME NEW c \in Conns, Receive(c) \/ Handle(c) PROVE Placed(t)'
  BY <1>2, ReceiveKeeps, HandleKeeps, Zenon
<1>3. ASSUME NEW cl \in Clients, AddClient(cl) \/ PostRequest(cl) \/ RemoveClient(cl)
      PROVE  Placed(t)'
  BY <1>3, ClientKeeps, Zenon
<1>4. ASSUME NEW p \in Producers, AnswerRequest(p) \/ LockDevice(p) \/ DispatchResponse(p)
      PROVE  Placed(t)'
  BY <1>4, AnswerKeeps, LockKeeps, DispatchKeeps, Zenon
<1>5. ASSUME SendRequest PROVE Placed(t)'
  BY <1>5, SendKeeps, Zenon
<1> QED
  BY <1>1, <1>2, <1>3, <1>4, <1>5, Zenon DEF Next

\* Until a connection fails every request of a connected client is queued, in
\* the dispatcher's hands, on its way or answered.
LEMMA NextKeptInv == KeptInv /\ [Next]_vars => KeptInv'
<1> SUFFICES ASSUME KeptInv, [Next]_vars PROVE KeptInv'
  OBVIOUS
<1>1. /\ MessageType /\ OwnGot /\ PlaceInv /\ flagged \in [Conns -> BOOLEAN]
      /\ status \in [Clients -> {"off", "on", "gone"}] /\ sent \in [Clients -> Nat]
  BY DEF KeptInv, PlaceInv, MessageType
<1>2. PlaceInv'
  BY <1>1, NextPlaceInv
<1>3. flagged' \in [Conns -> BOOLEAN] /\ (NoneFailed' => NoneFailed)
  <2>1. /\ flagged' \in [Conns -> BOOLEAN]
        /\ \A c \in Conns : flagged[c] => flagged'[c]
    BY <1>1, FlagStays
  <2> QED
    BY <2>1 DEF NoneFailed
<1>4. CASE UNCHANGED vars
  <2>1. UNCHANGED <<link, status, sent, wire, back, got, queue, disp, flagged>>
    BY <1>4 DEF vars
  <2>2. \A t \in OwnTags : Placed(t)' <=> Placed(t)
    BY <2>1, Unmoved DEF Placed, Travels
  <2>3. Kept => Kept'
    BY <2>1, <2>2 DEF Kept
  <2> QED
    BY <1>1, <1>2, <1>3, <2>1, <2>3 DEF KeptInv
<1>5. CASE Next
  <2>1. /\ \A cl \in Clients : AddClient(cl) =>
              status[cl] = "off" /\ status' = [status EXCEPT ![cl] = "on"] /\ sent' = sent
        /\ \A cl \in Clients : PostRequest(cl) =>
              /\ status[cl] = "on" /\ status' = status /\ sent' = [sent EXCEPT ![cl] = @ + 1]
        /\ \A cl \in Clients : RemoveClient(cl) =>
              status' = [status EXCEPT ![cl] = "gone"] /\ sent' = sent
    BY DEF AddClient, PostRequest, RemoveClient
  <2>2. \/ UNCHANGED <<status, sent>>
        \/ \E cl \in Clients : AddClient(cl) \/ PostRequest(cl) \/ RemoveClient(cl)
    BY <1>1, <1>5, StatusActions
  <2>3. status' \in [Clients -> {"off", "on", "gone"}]
    BY <1>1, <2>1, <2>2
  <2>4. ASSUME NoneFailed' PROVE Kept'
    <3>1. NoneFailed /\ Kept
      BY <1>3, <2>4 DEF KeptInv
    <3>2. \A c \in Conns : link'[c] \in {"off", "listed"}
      <4>1. \/ UNCHANGED <<link, added, devices>>
            \/ \E c \in Conns : Connect(c) \/ AddDevice(c) \/ RemoveDevice(c) \/ Destroy(c)
        BY MapActions
      <4>2. \A c \in Conns : ~RemoveDevice(c) /\ ~Destroy(c)
        BY <3>1 DEF NoneFailed, Kept, RemoveDevice, Destroy
      <4>3. link' = link \/ \E c \in Conns : link' = [link EXCEPT ![c] = "listed"]
        BY <4>1, <4>2 DEF Connect, AddDevice
      <4> QED
        BY <1>1, <3>1, <4>3 DEF Kept, MessageType
    <3>3. \A m, n \in disp'.rq : m = n
      BY <1>1, <1>5, <3>1, OneSending DEF Kept
    <3>4. \A cl \in Clients : status'[cl] = "off" => sent'[cl] = 0
      <4>1. \A cl \in Clients : status[cl] = "off" => sent[cl] = 0
        BY <3>1 DEF Kept
      <4> QED
        BY <1>1, <2>1, <2>2, <4>1
    <3>5. ASSUME NEW t \in OwnTags, status'[t[1]] = "on", t[2] \in 1..sent'[t[1]]
          PROVE  Placed(t)'
      <4>1. t[1] \in Clients /\ t[2] \in Nat /\ t = <<t[1], t[2]>>
        BY DEF OwnTags
      <4>2. CASE t[2] \in 1..sent[t[1]]
        <5>1. status[t[1]] = "on"
          <6>1. status[t[1]] # "off"
            BY <1>1, <3>1, <4>1, <4>2 DEF Kept
          <6>2. status[t[1]] # "gone"
            BY <1>1, <2>1, <2>2, <3>5, <4>1
          <6> QED
            BY <1>1, <4>1, <6>1, <6>2
        <5>2. Placed(t)
          BY <3>1, <4>2, <5>1 DEF Kept
        <5> QED
          BY <1>1, <1>5, <2>4, <3>1, <5>1, <5>2, NextPlaced
      <4>3. CASE t[2] \notin 1..sent[t[1]]
        <5>1. PICK cl \in Clients : PostRequest(cl) /\ sent' = [sent EXCEPT ![cl] = @ + 1]
          BY <2>1, <2>2, <3>5, <4>3
        <5>2. t[1] = cl /\ t[2] = sent[cl] + 1
          BY <1>1, <3>5, <4>1, <4>3, <5>1
        <5>3. PICK rq \in Rq : /\ rq.tag = <<cl, sent[cl] + 1>>
                               /\ queue' = Post(queue, "front", <<rq>>)
          BY <1>1, <5>1, PostRequestFacts
        <5>4. rq.tag = t
          BY <4>1, <5>2, <5>3
        <5> DEFINE ms == <<rq>>
        <5>5. ms \in Seq(Rq \cup Rs) /\ Has(ms, t) /\ queue' = Post(queue, "front", ms)
          BY <5>3, <5>4, OneMessage
        <5>6. queue \in [Producers -> Seq(Rq \cup Rs)] /\ "front" \in Producers
          BY <1>1 DEF MessageType, Producers
        <5> HIDE DEF ms
        <5>7. QHas(Post(queue, "front", ms), t) <=> QHas(queue, t) \/ Has(ms, t)
          BY <5>5, <5>6, PostTag
        <5> QED
          BY <5>5, <5>7, Zenon DEF Placed, Queued
      <4> QED
        BY <4>2, <4>3
    <3> QED
      BY <3>2, <3>3, <3>4, <3>5 DEF Kept
  <2> QED
    BY <1>2, <1>3, <2>3, <2>4 DEF KeptInv
<1> QED
  BY <1>4, <1>5

\* If 1..m maps one to one onto 1..n, m is n.
LEMMA SameLength ==
  ASSUME NEW m \in Nat, NEW n \in Nat, NEW f \in [1..m -> 1..n],
         \A i, j \in 1..m : f[i] = f[j] => i = j,
         \A k \in 1..n : \E i \in 1..m : f[i] = k
  PROVE  m = n
<1> DEFINE S == 1..m
           T == 1..n
<1>1. IsFiniteSet(S) /\ Cardinality(S) = m /\ IsFiniteSet(T) /\ Cardinality(T) = n
  BY FS_Interval
<1>2. f \in Injection(S, T) /\ f \in Surjection(S, T)
  BY DEF Injection, Surjection, IsInjective
<1> HIDE DEF S, T
<1>3. Cardinality(S) <= Cardinality(T)
  BY <1>1, <1>2, FS_Injection
<1>4. Cardinality(T) <= Cardinality(S)
  BY <1>1, <1>2, FS_Surjection
<1> QED
  BY <1>1, <1>3, <1>4

\* Nobody asked anything at first.
LEMMA InitKeptInv == Init => KeptInv
<1> SUFFICES ASSUME Init PROVE KeptInv
  OBVIOUS
<1>1. PlaceInv
  BY InitPlaceInv
<1>2. Kept
  <2>1. \A m, n \in disp.rq : m = n
    BY DEF Init, Idle
  <2>2. \A cl \in Clients : sent[cl] = 0
    BY DEF Init
  <2>3. \A t \in OwnTags : t[2] \notin 1..sent[t[1]]
    BY <2>2 DEF OwnTags
  <2> QED
    BY <2>1, <2>2, <2>3 DEF Init, Kept
<1> QED
  BY <1>1, <1>2 DEF Init, KeptInv

\* As long as no connection has failed, once everything has settled every request
\* of a connected client has been answered, exactly once and in whatever order
\* clients come, ask and leave: no thread drops a message, and what the queues,
\* the dispatcher and the wires do not hold the client has got.
THEOREM NoRequestForgotten == Spec => [](NoneFailed => AllAnswered)
<1>1. Init => KeptInv
  BY InitKeptInv
<1>2. KeptInv => (NoneFailed => AllAnswered)
  <2> SUFFICES ASSUME KeptInv, NoneFailed, Quiescent, NEW cl \in Clients, status[cl] = "on"
               PROVE  Len(got[cl]) = sent[cl]
    BY DEF AllAnswered
  <2> DEFINE s == got[cl]
             n == sent[cl]
             m == Len(s)
  <2>1. s \in Seq(Tags \X Results) /\ n \in Nat
    BY DEF KeptInv, PlaceInv, MessageType
  <2>2. m \in Nat
    BY <2>1
  <2>3. \A t \in OwnTags : ~Queued(t) /\ ~Sending(t) /\ ~Travels(t)
    BY DEF Quiescent, Idle, Queued, QHas, Has, Sending, In, Travels
  <2>4. \A k \in 1..n : \E i \in 1..m : s[i][1] = <<cl, k>>
    <3> SUFFICES ASSUME NEW k \in 1..n PROVE \E i \in 1..m : s[i][1] = <<cl, k>>
      OBVIOUS
    <3> DEFINE t == <<cl, k>>
    <3>1. t \in OwnTags /\ t[1] = cl /\ t[2] = k
      BY <2>1 DEF OwnTags
    <3>2. Placed(t)
      <4> HIDE DEF t
      <4> QED
        BY <3>1 DEF KeptInv, Kept
    <3>3. Got(t)
      <4> HIDE DEF t
      <4> QED
        BY <2>3, <3>1, <3>2, Zenon DEF Placed
    <3> QED
      BY <3>1, <3>3 DEF Got
  <2>5. \A i \in 1..m : s[i][1] \in OwnTags /\ s[i][1][1] = cl
    <3> SUFFICES ASSUME NEW i \in 1..m PROVE s[i][1] \in OwnTags /\ s[i][1][1] = cl
      OBVIOUS
    <3>1. s[i] \in Tags \X Results
      BY <2>1
    <3>2. s[i][1] \in Tags
      BY <3>1
    <3>3. s[i][1][1] = cl
      BY DEF KeptInv, PlaceInv, OwnGot
    <3> QED
      BY <3>2, <3>3 DEF Tags, OwnTags
  <2>6. \A i \in 1..m : s[i][1][2] \in 1..n /\ s[i][1] = <<cl, s[i][1][2]>>
    <3> SUFFICES ASSUME NEW i \in 1..m
                 PROVE  s[i][1][2] \in 1..n /\ s[i][1] = <<cl, s[i][1][2]>>
      OBVIOUS
    <3>1. PICK t \in OwnTags : t = s[i][1] /\ t[1] = cl
      BY <2>5
    <3>2. Got(t)
      BY <3>1 DEF Got
    <3>3. t[2] \in 1..n
      BY <3>1, <3>2 DEF KeptInv, PlaceInv, OnePlace
    <3>4. t = <<cl, t[2]>>
      BY <3>1 DEF OwnTags
    <3> QED
      BY <3>1, <3>3, <3>4
  <2>7. \A i, j \in 1..m : s[i][1] = s[j][1] => i = j
    <3> SUFFICES ASSUME NEW i \in 1..m, NEW j \in 1..m, s[i][1] = s[j][1] PROVE i = j
      OBVIOUS
    <3>1. PICK t \in OwnTags : t = s[i][1] /\ t[1] = cl
      BY <2>5
    <3>2. GotOnce(t)
      BY DEF KeptInv, PlaceInv, OnePlace
    <3> QED
      BY <3>1, <3>2 DEF GotOnce
  <2> HIDE DEF s, n, m
  <2> DEFINE f == [i \in 1..m |-> s[i][1][2]]
  <2>8. f \in [1..m -> 1..n]
    BY <2>6
  <2>9. \A i, j \in 1..m : f[i] = f[j] => i = j
    BY <2>6, <2>7
  <2>10. \A k \in 1..n : \E i \in 1..m : f[i] = k
    BY <2>4
  <2> HIDE DEF f
  <2>11. m = n
    BY <2>1, <2>2, <2>8, <2>9, <2>10, SameLength DEF n
  <2> QED
    BY <2>11 DEF m, n, s
<1> QED
  BY <1>1, <1>2, NextKeptInv, PTL DEF Spec

-----------------------------------------------------------------------------
(***************************************************************************)
(* Where requests for objects go.                                          *)
(***************************************************************************)

\* A locked device and a wire take requests for their own device id only.
Routed ==
  /\ \A rq \in disp.rq : rq.device = DeviceOf[disp.conn]
  /\ \A c \in Conns : \A i \in 1..Len(wire[c]) : wire[c][i].device = DeviceOf[c]

RouteInv == PlaceInv /\ MapInv /\ Routed

\* The device map is looked up once, in LockDevice, and whatever happens to the
\* map afterwards SendRequest sends to the device that was locked.
LEMMA NextRouted ==
  ASSUME MessageType, MapInv, Routed, Next
  PROVE  Routed'
<1> USE ConnAssumption
<1>1. UNCHANGED <<disp, wire>> => Routed'
  BY DEF Routed
<1>2. ASSUME NEW c \in Conns,
             \/ Connect(c) \/ Identified(c) \/ AddDevice(c) \/ RemoveDevice(c)
             \/ Destroy(c) \/ Receive(c)
      PROVE  Routed'
  <2>1. CASE Connect(c) \/ Identified(c) \/ AddDevice(c) \/ RemoveDevice(c)
    BY <1>1, <2>1 DEF Connect, Identified, AddDevice, RemoveDevice
  <2>2. CASE Destroy(c) \/ Receive(c)
    BY <1>1, <2>2 DEF Destroy, Receive
  <2> QED
    BY <1>2, <2>1, <2>2
<1>3. ASSUME NEW c \in Conns, Handle(c) PROVE Routed'
  <2>1. wire[c] # <<>> /\ wire' = [wire EXCEPT ![c] = Tail(@)] /\ disp' = disp
    BY <1>3 DEF Handle
  <2>2. wire \in [Conns -> Seq(Rq)]
    BY DEF MessageType
  <2>3. /\ \A d \in Conns : d # c => wire'[d] = wire[d]
        /\ \A i \in 1..Len(wire'[c]) : \E j \in 1..Len(wire[c]) : wire'[c][i] = wire[c][j]
    <3>1. wire'[c] = Tail(wire[c]) /\ \A d \in Conns : d # c => wire'[d] = wire[d]
      BY <2>1, <2>2
    <3>2. wire[c] \in Seq(Rq)
      BY <2>2
    <3>3. /\ Len(wire[c]) \in Nat /\ Len(wire'[c]) = Len(wire[c]) - 1
          /\ \A i \in 1..Len(wire'[c]) : wire'[c][i] = wire[c][i + 1]
      <4> DEFINE s == wire[c]
                 u == wire'[c]
      <4>1. s \in Seq(Rq) /\ s # <<>> /\ u = Tail(s)
        BY <2>1, <3>1, <3>2
      <4> HIDE DEF s, u
      <4>2. /\ Len(s) \in Nat /\ Len(u) = Len(s) - 1
            /\ \A i \in 1..Len(u) : u[i] = s[i + 1]
        BY <4>1, HeadTailProperties
      <4> QED
        BY <4>2 DEF s, u
    <3>4. \A i \in 1..Len(wire'[c]) : (i + 1) \in 1..Len(wire[c])
      BY <3>3
    <3> QED
      BY <3>1, <3>3, <3>4
  <2> QED
    BY <2>1, <2>3 DEF Routed
<1>4. ASSUME NEW c \in Conns, NEW cut \in BOOLEAN, NEW reboot \in MayReboot,
             Fail(c, cut, reboot)
      PROVE  Routed'
  <2>1. disp' = disp /\ \A d \in Conns : wire'[d] = wire[d] \/ wire'[d] = <<>>
    BY <1>4 DEF Fail, MessageType
  <2> QED
    BY <2>1 DEF Routed
<1>5. ASSUME NEW cl \in Clients, AddClient(cl) \/ PostRequest(cl) \/ RemoveClient(cl)
      PROVE  Routed'
  BY <1>1, <1>5 DEF AddClient, PostRequest, RemoveClient
<1>6. ASSUME NEW p \in Producers, AnswerRequest(p) \/ DispatchResponse(p)
      PROVE  Routed'
  BY <1>1, <1>6 DEF AnswerRequest, DispatchResponse
<1>7. ASSUME NEW p \in Producers, LockDevice(p) PROVE Routed'
  <2> DEFINE rq == Head(queue[p])
  <2>1. /\ Found(rq) /\ disp' = [rq |-> {rq}, conn |-> Target(rq)] /\ wire' = wire
    BY <1>7 DEF LockDevice
  <2>2. DeviceOf[Target(rq)] = rq.device
    BY <2>1 DEF Found, Target, MapInv, EntriesLive
  <2> HIDE DEF rq
  <2>3. disp'.rq = {rq} /\ disp'.conn = Target(rq)
    BY <2>1
  <2> QED
    BY <2>1, <2>2, <2>3 DEF Routed
<1>8. ASSUME SendRequest PROVE Routed'
  <2>1. PICK rq \in disp.rq, cs \in Seq(Closes) :
          /\ rq \in Rq /\ disp.conn \in Conns
          /\ UNCHANGED wire \/ wire' = [wire EXCEPT ![disp.conn] = Append(@, rq)]
    BY <1>8, SendFacts
  <2>2. disp'.rq = {}
    BY <1>8, SendFacts
  <2>3. PICK c \in Conns : c = disp.conn
    BY <2>1
  <2>4. rq.device = DeviceOf[c]
    BY <2>3 DEF Routed
  <2>5. wire \in [Conns -> Seq(Rq)] /\ wire[c] \in Seq(Rq)
    BY DEF MessageType
  <2>6. CASE UNCHANGED wire
    BY <2>2, <2>6 DEF Routed
  <2>7. CASE wire' = [wire EXCEPT ![c] = Append(@, rq)]
    <3>1. wire'[c] = Append(wire[c], rq) /\ \A d \in Conns : d # c => wire'[d] = wire[d]
      BY <2>5, <2>7
    <3> DEFINE s == wire[c]
               u == wire'[c]
    <3>2. s \in Seq(Rq) /\ u = Append(s, rq) /\ rq \in Rq
      BY <2>1, <2>5, <3>1
    <3>3. \A i \in 1..Len(s) : s[i].device = DeviceOf[c]
      BY DEF Routed
    <3> HIDE DEF s, u
    <3>4. \A i \in 1..Len(u) : u[i].device = DeviceOf[c]
      <4>1. /\ Len(s) \in Nat /\ Len(u) = Len(s) + 1
            /\ \A i \in 1..Len(s) : u[i] = s[i]
            /\ u[Len(s) + 1] = rq
        BY <3>2, AppendProperties
      <4>2. \A i \in 1..Len(u) : i \in 1..Len(s) \/ i = Len(s) + 1
        BY <4>1
      <4> QED
        BY <2>4, <3>3, <4>1, <4>2
    <3>5. \A i \in 1..Len(wire'[c]) : wire'[c][i].device = DeviceOf[c]
      BY <3>4 DEF u
    <3>6. ASSUME NEW d \in Conns, d # c, NEW i \in 1..Len(wire'[d])
          PROVE  wire'[d][i].device = DeviceOf[d]
      BY <3>1, <3>6 DEF Routed
    <3> QED
      BY <2>2, <3>5, <3>6 DEF Routed
  <2> QED
    BY <2>1, <2>3, <2>6, <2>7
<1> QED
  BY <1>2, <1>3, <1>4, <1>5, <1>6, <1>7, <1>8, Zenon DEF Next

\* A request for an object is sent to the console the object came from.
ReachesItsConsole ==
  \A c \in Conns : \A i \in 1..Len(wire[c]) :
    LET rq == wire[c][i]
    IN  rq.oid # 0 => rq.via \in Conns /\ DeviceOf[rq.via] = DeviceOf[c]

\* The invariant holds initially, is kept, and a routed request that is aimed at
\* the device id of its object goes to that object's console.
LEMMA RouteInvariant ==
  /\ Init => RouteInv
  /\ RouteInv /\ [Next]_vars => RouteInv'
  /\ RouteInv => ReachesItsConsole
<1> USE ConnAssumption
<1>1. Init => RouteInv
  <2>1. Init => Routed
    BY DEF Init, Idle, Routed
  <2> QED
    BY <2>1, InitPlaceInv, InitMapInv DEF RouteInv
<1>2. RouteInv /\ [Next]_vars => RouteInv'
  <2> SUFFICES ASSUME RouteInv, [Next]_vars PROVE RouteInv'
    OBVIOUS
  <2>1. PlaceInv' /\ MapInv'
    BY NextPlaceInv, NextMapInv DEF RouteInv
  <2>2. CASE Next
    BY <2>1, <2>2, NextRouted DEF RouteInv, PlaceInv
  <2>3. CASE UNCHANGED vars
    <3>1. Routed'
      BY <2>3 DEF RouteInv, Routed, vars
    <3> QED
      BY <2>1, <3>1 DEF RouteInv
  <2> QED
    BY <2>2, <2>3
<1>3. RouteInv => ReachesItsConsole
  <2> SUFFICES ASSUME RouteInv, NEW c \in Conns, NEW i \in 1..Len(wire[c]), wire[c][i].oid # 0
               PROVE  wire[c][i].via \in Conns /\ DeviceOf[wire[c][i].via] = DeviceOf[c]
    BY DEF ReachesItsConsole
  <2>1. wire[c][i] \in Rq
    BY DEF RouteInv, PlaceInv, MessageType
  <2>2. wire[c][i].device = DeviceOf[c]
    BY DEF RouteInv, Routed
  <2>3. Aimed(wire[c][i].oid, wire[c][i].device, wire[c][i].via)
    BY <2>1, KindFacts
  <2> QED
    BY <2>2, <2>3 DEF Aimed
<1> QED
  BY <1>1, <1>2, <1>3

\* A request for an object, a client's or one of a BridgeObject's destructor, is
\* sent to a connection of the console the object came from, however connections
\* of that console come, fail and take each other's map entry over in between.
THEOREM RequestsReachConsole == Spec => []ReachesItsConsole
BY RouteInvariant, PTL DEF Spec

-----------------------------------------------------------------------------
(***************************************************************************)
(* Objects: who refers to them and which closes are under way.             *)
(***************************************************************************)

\* What is in a sequence, and in the queues besides.
Elems(s) == {s[i] : i \in 1..Len(s)}

\* The close a BridgeObject's destructor requests.
CloseOf(b) == LocalClose(b.device, b.oid, b.conn)

\* The members of the queues are those of each.
LEMMA MessagesOf ==
  ASSUME NEW q, NEW m
  PROVE  m \in Messages(q) <=> \E p \in Producers : m \in Elems(q[p])
BY Zenon DEF Messages, Elems

\* What a concatenation holds.
LEMMA ConcatElems ==
  ASSUME NEW S, NEW s \in Seq(S), NEW u \in Seq(S)
  PROVE  Elems(s \o u) = Elems(s) \cup Elems(u)
<1> DEFINE m == Len(s)
           n == Len(u)
           w == s \o u
<1>1. m \in Nat /\ n \in Nat /\ Len(w) = m + n
  BY ConcatProperties
<1>2. \A i \in 1..Len(w) : w[i] = IF i <= m THEN s[i] ELSE u[i - m]
  BY ConcatProperties
<1>3. \A i \in 1..m : i \in 1..Len(w) /\ w[i] = s[i]
  BY <1>1, <1>2
<1>4. \A i \in 1..n : (m + i) \in 1..Len(w) /\ w[m + i] = u[i]
  <2> SUFFICES ASSUME NEW i \in 1..n PROVE (m + i) \in 1..Len(w) /\ w[m + i] = u[i]
    OBVIOUS
  <2>1. (m + i) \in 1..Len(w) /\ ~(m + i <= m) /\ (m + i) - m = i
    BY <1>1
  <2> QED
    BY <1>2, <2>1
<1>5. \A k \in 1..Len(w) : \/ k \in 1..m /\ w[k] = s[k]
                           \/ (k - m) \in 1..n /\ w[k] = u[k - m]
  <2> SUFFICES ASSUME NEW k \in 1..Len(w), k \notin 1..m
               PROVE  (k - m) \in 1..n /\ w[k] = u[k - m]
    BY <1>3
  <2>1. (k - m) \in 1..n /\ ~(k <= m)
    BY <1>1
  <2> QED
    BY <1>2, <2>1
<1> HIDE DEF m, n, w
<1>6. ASSUME NEW x \in Elems(w) PROVE x \in Elems(s) \cup Elems(u)
  BY <1>5, <1>6 DEF Elems, m, n
<1>7. ASSUME NEW x \in Elems(s) PROVE x \in Elems(w)
  BY <1>3, <1>7 DEF Elems, m
<1>8. ASSUME NEW x \in Elems(u) PROVE x \in Elems(w)
  BY <1>4, <1>8 DEF Elems, n
<1> QED
  BY <1>6, <1>7, <1>8 DEF w

\* What is left when the first is taken.
LEMMA TailElems ==
  ASSUME NEW S, NEW s \in Seq(S), s # <<>>
  PROVE  Elems(s) = {Head(s)} \cup Elems(Tail(s))
<1> DEFINE u == Tail(s)
<1>1. Len(s) \in Nat \ {0} /\ Len(u) = Len(s) - 1 /\ Head(s) = s[1]
  BY HeadTailProperties
<1>2. \A i \in 1..Len(u) : (i + 1) \in 1..Len(s) /\ u[i] = s[i + 1]
  BY <1>1, HeadTailProperties
<1>3. \A k \in 1..Len(s) : k = 1 \/ ((k - 1) \in 1..Len(u) /\ u[k - 1] = s[k])
  <2> SUFFICES ASSUME NEW k \in 1..Len(s), k # 1
               PROVE  (k - 1) \in 1..Len(u) /\ u[k - 1] = s[k]
    OBVIOUS
  <2>1. (k - 1) \in 1..Len(u) /\ (k - 1) + 1 = k
    BY <1>1
  <2> QED
    BY <1>2, <2>1
<1>4. 1 \in 1..Len(s)
  BY <1>1
<1> HIDE DEF u
<1>5. Elems(s) = {Head(s)} \cup Elems(u)
  <2>1. ASSUME NEW x \in Elems(s) PROVE x \in {Head(s)} \cup Elems(u)
    <3>1. PICK k \in 1..Len(s) : x = s[k]
      BY DEF Elems
    <3>2. CASE k = 1
      BY <1>1, <3>1, <3>2
    <3>3. CASE k # 1
      BY <1>3, <3>1, <3>3 DEF Elems
    <3> QED
      BY <3>2, <3>3
  <2>2. Head(s) \in Elems(s)
    BY <1>1, <1>4 DEF Elems
  <2>3. ASSUME NEW x \in Elems(u) PROVE x \in Elems(s)
    <3>1. PICK i \in 1..Len(u) : x = u[i]
      BY DEF Elems
    <3> QED
      BY <1>2, <3>1 DEF Elems
  <2> QED
    BY <2>1, <2>2, <2>3
<1> QED
  BY <1>5 DEF u

\* What one message more makes of a sequence.
LEMMA AppendElems ==
  ASSUME NEW S, NEW s \in Seq(S), NEW m \in S
  PROVE  Elems(Append(s, m)) = Elems(s) \cup {m}
<1> DEFINE u == Append(s, m)
<1>1. /\ Len(s) \in Nat /\ Len(u) = Len(s) + 1
      /\ \A i \in 1..Len(s) : u[i] = s[i]
      /\ u[Len(s) + 1] = m
  BY AppendProperties
<1>2. /\ \A i \in 1..Len(u) : i \in 1..Len(s) \/ i = Len(s) + 1
      /\ \A i \in 1..Len(s) : i \in 1..Len(u)
      /\ Len(s) + 1 \in 1..Len(u)
  BY <1>1
<1> HIDE DEF u
<1>3. Elems(u) = Elems(s) \cup {m}
  BY <1>1, <1>2 DEF Elems
<1> QED
  BY <1>3 DEF u

\* Posting adds what is posted.
LEMMA PostMessages ==
  ASSUME NEW q \in [Producers -> Seq(Rq \cup Rs)], NEW p \in Producers,
         NEW ms \in Seq(Rq \cup Rs)
  PROVE  Messages(Post(q, p, ms)) = Messages(q) \cup Elems(ms)
<1> DEFINE z == Post(q, p, ms)
           M == Rq \cup Rs
           s == q[p]
<1>1. z[p] = s \o ms /\ \A r \in Producers : r # p => z[r] = q[r]
  BY PostFacts
<1>2. s \in Seq(M) /\ ms \in Seq(M)
  OBVIOUS
<1> HIDE DEF z, M, s
<1>3. Elems(z[p]) = Elems(s) \cup Elems(ms)
  BY <1>1, <1>2, ConcatElems
<1>4. Elems(z[p]) = Elems(q[p]) \cup Elems(ms)
  BY <1>3 DEF s
<1>5. \A x : x \in Messages(z) <=> x \in Messages(q) \cup Elems(ms)
  BY <1>1, <1>4, MessagesOf
<1> QED
  BY <1>5 DEF z

\* The dispatcher takes one message.
LEMMA PoppedMessages ==
  ASSUME MessageType, NEW p \in Producers, queue[p] # <<>>
  PROVE  Messages(queue) = {Head(queue[p])} \cup Messages(Popped(p))
<1> DEFINE z == Popped(p)
           M == Rq \cup Rs
           s == queue[p]
<1>1. s \in Seq(M) /\ s # <<>>
  BY DEF MessageType
<1>2. z[p] = Tail(s) /\ \A r \in Producers : r # p => z[r] = queue[r]
  BY DEF MessageType, Popped
<1> HIDE DEF z, M, s
<1>3. Elems(s) = {Head(s)} \cup Elems(Tail(s))
  BY <1>1, TailElems
<1>4. Elems(queue[p]) = {Head(queue[p])} \cup Elems(z[p])
  BY <1>2, <1>3 DEF s
<1>5. \A x : x \in Messages(queue) <=> x \in {Head(queue[p])} \cup Messages(z)
  BY <1>2, <1>4, MessagesOf
<1> QED
  BY <1>5 DEF z

\* A finite set as a sequence: nothing is left out.
LEMMA SeqOfElems ==
  ASSUME NEW S, IsFiniteSet(S)
  PROVE  Elems(SeqOf(S)) = S
<1>1. Cardinality(S) \in Nat /\ ExistsBijection(1..Cardinality(S), S)
  BY FS_CardinalityType
<1> DEFINE n == Cardinality(S)
           f == SeqOf(S)
<1> HIDE DEF n
<1>2. PICK g \in Bijection(1..n, S) : TRUE
  BY <1>1 DEF ExistsBijection, n
<1>3. g \in [1..n -> S] /\ \A i, j \in 1..n : g[i] = g[j] => i = j
  BY <1>2 DEF Bijection, Injection, IsInjective
<1>4. /\ f \in [1..n -> S]
      /\ \A i, j \in 1..n : f[i] = f[j] => i = j
  BY <1>3, Zenon DEF SeqOf, n
<1>5. n \in Nat
  BY <1>1 DEF n
<1> HIDE DEF f
<1>6. f \in Injection(1..n, S)
  BY <1>4 DEF Injection, IsInjective
<1>7. IsFiniteSet(1..n) /\ Cardinality(1..n) = n
  BY <1>5, FS_Interval
<1>8. f \in Surjection(1..n, S)
  <2> DEFINE T == 1..n
  <2>1. f \in Injection(T, S) /\ Cardinality(T) = Cardinality(S)
    BY <1>6, <1>7 DEF n
  <2> HIDE DEF T
  <2>2. f \in Surjection(T, S)
    BY <2>1, FS_Injection
  <2> QED
    BY <2>2 DEF T
<1>9. Len(f) = n
  BY <1>4, <1>5
<1>10. \A x \in S : \E i \in 1..n : f[i] = x
  BY <1>8 DEF Surjection
<1>11. Elems(f) = S
  BY <1>4, <1>9, <1>10 DEF Elems
<1> QED
  BY <1>11 DEF f

\* Destructors request the close of every object that nothing refers to any more.
LEMMA DestructorElems ==
  ASSUME NEW bs \in Finite(Bridges), NEW o, NEW q, NEW h
  PROVE  /\ Destructors(bs, o, q, h) \in Seq(Rq \cup Rs)
         /\ Elems(Destructors(bs, o, q, h)) =
              {CloseOf(b) : b \in (bs \ invalid) \ Referenced(o, q, h)}
<1> DEFINE X == (bs \ invalid) \ Referenced(o, q, h)
           C == {CloseOf(b) : b \in X}
           f == [b \in X |-> CloseOf(b)]
<1>1. X \in SUBSET bs /\ IsFiniteSet(bs)
  BY DEF Finite
<1> HIDE DEF X
<1>2. IsFiniteSet(X)
  BY <1>1, FS_Subset
<1>3. f \in Surjection(X, C)
  BY DEF Surjection
<1>4. IsFiniteSet(C)
  BY <1>2, <1>3, FS_Surjection
<1> HIDE DEF C
<1>5. Elems(SeqOf(C)) = C
  BY <1>4, SeqOfElems
<1>6. Destructors(bs, o, q, h) = SeqOf(C)
  BY DEF Destructors, C, X, CloseOf
<1>7. Destructors(bs, o, q, h) \in Seq(Closes)
  BY DestructorFacts
<1>8. Destructors(bs, o, q, h) \in Seq(Rq \cup Rs)
  BY <1>7, KindFacts
<1> QED
  BY <1>5, <1>6, <1>8 DEF C, X

\* Where an object is referred to: in a queued response, in a response on its way
\* back, in a client's owned_objects, in the response_in of a connection.
InQueue(b) == \E m \in Messages(queue) : m.kind = "rs" /\ b \in m.objects
InBack(b) == \E c \in Conns : \E m \in back[c] : b \in m.objects
InHand(b) == \E cl \in Clients : b \in owned[cl]
InHeld(b) == \E c \in Conns : b \in held[c]
Coming(b) == InQueue(b) \/ InBack(b)
Ref(b) == InHand(b) \/ InHeld(b) \/ InQueue(b)
Live(b) == Ref(b) \/ InBack(b)

\* The responses that are under way.
Under(m) == (m \in Messages(queue) /\ m.kind = "rs") \/ \E c \in Conns : m \in back[c]

\* The requests that the dispatcher has taken, and all that are under way.
SentOut(rq) == rq \in disp.rq \/ \E c \in Conns : rq \in Elems(wire[c])
OnWay(rq) == (rq \in Messages(queue) /\ rq.kind = "rq") \/ SentOut(rq)

\* The table has given the id out, over a connection that was made.
Given(c, n) == c \in Conns /\ link[c] # "off" /\ n < nextoid[Port(c)]

\* The object is number n of the table behind connection c.
Same(c, n, b) == Port(c) = Port(b.conn) /\ n = b.oid

\* Every object id in use was given out by its table.
Numbered ==
  /\ invalid \subseteq Bridges
  /\ \A b \in Bridges : Live(b) \/ b \in invalid => Given(b.conn, b.oid)
  /\ \A cl \in Clients : \A k \in known[cl] : Given(k.conn, k.oid)
  /\ \A rq \in Rq : OnWay(rq) /\ rq.oid # 0 => Given(rq.via, rq.oid)
  /\ \A x \in Ports : \A y \in opened[x] : y.oid < nextoid[x]

\* A table gives an id out once, and what is on its way back is new.
Distinct ==
  /\ \A b, d \in Bridges : Live(b) /\ Live(d) /\ Same(b.conn, b.oid, d) => b = d
  /\ \A c \in Conns : \A m \in back[c] : \A b \in m.objects : b.conn = c
  /\ \A b \in Bridges : InBack(b) => ~Ref(b)

\* An object comes in one response, to a client, and then has one owner.
Delivered ==
  /\ \A m, n \in Rs : Under(m) /\ Under(n) =>
       \A b \in m.objects : b \in n.objects => m.tag = n.tag
  /\ \A m \in Rs : Under(m) /\ m.objects # {} => m.client \in Clients
  /\ \A b \in Bridges : Coming(b) => ~InHand(b)
  /\ \A x, y \in Clients : \A b \in owned[x] : b \in owned[y] => x = y

\* twibd closes only what nothing refers to.
Unused ==
  \A rq \in Rq : OnWay(rq) /\ rq.client = Local /\ rq.oid # 0 =>
    \A b \in Bridges : Live(b) => ~Same(rq.via, rq.oid, b)

\* What a client knows, or asks to have closed, nobody else has or will get.
Mine(cl, c, n) ==
  /\ \A b \in Bridges : Coming(b) => ~Same(c, n, b)
  /\ \A x \in Clients : \A b \in owned[x] : Same(c, n, b) => x = cl
Claimed ==
  /\ \A cl \in Clients : \A k \in known[cl] : Mine(cl, k.conn, k.oid)
  /\ \A rq \in Rq : rq \in Messages(queue) /\ rq.client # Local /\ rq.oid # 0
                      => Mine(rq.client, rq.via, rq.oid)

\* What the dispatcher has taken a close for nobody owns or will get.
Disclaimed ==
  \A rq \in Rq : SentOut(rq) /\ rq.oid # 0 =>
    \A b \in Bridges : Coming(b) \/ InHand(b) => ~Same(rq.via, rq.oid, b)

\* What twibd itself asks for, or asks an object, is to close it, and twibd does
\* so for a BridgeObject.
OnlyCloses ==
  \A rq \in Rq : OnWay(rq) =>
    /\ rq.client = Local \/ rq.oid # 0 => rq.command = "close"
    /\ rq.client = Local /\ rq.oid # 0 => \E b \in Bridges : rq = CloseOf(b)

ObjectInv ==
  /\ Numbered /\ Distinct /\ Delivered
  /\ Unused /\ Claimed /\ Disclaimed /\ OnlyCloses

\* Members of Bridges, of a response and of a client's objects.
LEMMA BridgeFacts ==
  ASSUME MessageType
  PROVE  /\ \A b \in Bridges : /\ b.conn \in Conns /\ b.oid \in Nat
                               /\ Port(b.conn) \in Ports
                               /\ b = BridgeObject(b.conn, b.oid)
         /\ \A m \in Rs : m.objects \subseteq Bridges
         /\ \A c \in Conns : back[c] \subseteq Rs /\ held[c] \subseteq Bridges
         /\ \A cl \in Clients : owned[cl] \subseteq Bridges
         /\ \A m \in Messages(queue) : m \in Rq \/ m \in Rs
         /\ \A x \in Ports : nextoid[x] \in Nat
<1> USE ConnAssumption
<1>1. \A b \in Bridges : /\ b.conn \in Conns /\ b.oid \in Nat
                         /\ Port(b.conn) \in Ports
                         /\ b = BridgeObject(b.conn, b.oid)
  BY DEF Bridges, Objects, Port, Ports, BridgeObject
<1>2. \A m \in Rs : m.objects \subseteq Bridges
  BY KindFacts DEF Finite
<1>3. /\ \A c \in Conns : back[c] \subseteq Rs /\ held[c] \subseteq Bridges
      /\ \A cl \in Clients : owned[cl] \subseteq Bridges
      /\ \A x \in Ports : nextoid[x] \in Nat
  BY DEF MessageType, Finite
<1>4. \A m \in Messages(queue) : m \in Rq \/ m \in Rs
  <2> SUFFICES ASSUME NEW m \in Messages(queue) PROVE m \in Rq \cup Rs
    OBVIOUS
  <2>1. PICK p \in Producers : m \in Elems(queue[p])
    BY MessagesOf
  <2>2. queue[p] \in Seq(Rq \cup Rs)
    BY DEF MessageType
  <2> QED
    BY <2>1, <2>2 DEF Elems
<1> QED
  BY <1>1, <1>2, <1>3, <1>4

\* The close of an object.
LEMMA CloseFacts ==
  ASSUME NEW b \in Bridges
  PROVE  /\ CloseOf(b) \in Rq /\ CloseOf(b).client = Local /\ CloseOf(b).kind = "rq"
         /\ CloseOf(b).oid = b.oid /\ CloseOf(b).via = b.conn
         /\ CloseOf(b).device = b.device /\ CloseOf(b).command = "close"
<1>1. /\ b.device \in DeviceIds \cup {Meta, ClientIdAsDevice}
      /\ b.oid \in Nat /\ b.conn \in Conns
  BY DEF Bridges, Objects
<1>2. Aimed(b.oid, b.device, b.conn)
  BY IdAssumption DEF Bridges, Objects, Aimed
<1>3. CloseOf(b) \in Rq
  BY <1>1, <1>2, LocalCloseFacts, KindFacts DEF CloseOf
<1> QED
  BY <1>3 DEF CloseOf, LocalClose, Request

\* A step that gives up references, posts the closes of the objects it gave up
\* the last reference to, and answers without objects.
Releases ==
  /\ \A c \in Conns : link[c] # "off" => link'[c] # "off"
  /\ UNCHANGED <<nextoid, invalid>>
  /\ \A cl \in Clients : owned'[cl] \subseteq owned[cl] /\ known'[cl] \subseteq known[cl]
  /\ \A c \in Conns : held'[c] \subseteq held[c] /\ back'[c] \subseteq back[c]
  /\ \A m \in Messages(queue') : \/ m \in Messages(queue)
                                 \/ m \in Rs /\ m.objects = {}
                                 \/ m \in Rq /\ m.client = Local /\ m.oid = 0 /\ m.command = "close"
                                 \/ \E b \in Bridges : m = CloseOf(b) /\ Ref(b) /\ ~Ref(b)'
  /\ \A rq \in Rq : SentOut(rq)' => SentOut(rq)

\* The object gets no new place, but from a connection to the queues.
NoNewPlace(b) ==
  /\ InHand(b)' => InHand(b)
  /\ InBack(b)' => InBack(b)
  /\ Live(b)' => Live(b)
  /\ Coming(b)' => Coming(b)
  /\ InBack(b)' => ~Ref(b)'

\* A step that gives objects no new place but from a connection to the queues.
Moves ==
  /\ \A c \in Conns : link[c] # "off" => link'[c] # "off"
  /\ UNCHANGED <<nextoid, invalid>>
  /\ \A cl \in Clients : owned'[cl] \subseteq owned[cl] /\ known'[cl] \subseteq known[cl]
  /\ \A c \in Conns : \A m \in back'[c] : m \in back[c] \/ m.objects = {}
  /\ \A b \in Bridges : NoNewPlace(b)
  /\ \A m \in Rs : Under(m)' => Under(m) \/ m.objects = {}
  /\ \A rq \in Rq : OnWay(rq)' =>
       \/ OnWay(rq)
       \/ rq.client = Local /\ rq.oid = 0 /\ rq.command = "close"
       \/ \E b \in Bridges : rq = CloseOf(b) /\ Ref(b) /\ ~Ref(b)'
  /\ \A rq \in Rq : rq \in Messages(queue') /\ rq.client # Local => rq \in Messages(queue)
  /\ \A rq \in Rq : SentOut(rq)' => SentOut(rq)

\* Such a step gives nothing a new place.
LEMMA ReleaseFacts ==
  ASSUME MessageType, Releases
  PROVE  /\ \A b \in Bridges : /\ InHand(b)' => InHand(b)
                               /\ InHeld(b)' => InHeld(b)
                               /\ InBack(b)' => InBack(b)
                               /\ InQueue(b)' => InQueue(b)
         /\ \A b \in Bridges : /\ Ref(b)' => Ref(b)
                               /\ Live(b)' => Live(b)
                               /\ Coming(b)' => Coming(b)
         /\ \A m \in Rs : Under(m)' => Under(m) \/ m.objects = {}
         /\ \A rq \in Rq : OnWay(rq)' =>
              \/ OnWay(rq)
              \/ rq.client = Local /\ rq.oid = 0 /\ rq.command = "close"
              \/ \E b \in Bridges : rq = CloseOf(b) /\ Ref(b) /\ ~Ref(b)'
         /\ \A rq \in Rq : rq \in Messages(queue') /\ rq.client # Local => rq \in Messages(queue)
<1>1. ASSUME NEW b \in Bridges
      PROVE  /\ InHand(b)' => InHand(b)
             /\ InHeld(b)' => InHeld(b)
             /\ InBack(b)' => InBack(b)
             /\ InQueue(b)' => InQueue(b)
  <2>1. (InHand(b)' => InHand(b)) /\ (InHeld(b)' => InHeld(b)) /\ (InBack(b)' => InBack(b))
    BY DEF Releases, InHand, InHeld, InBack
  <2>2. ASSUME InQueue(b)' PROVE InQueue(b)
    <3>1. PICK m \in Messages(queue') : m.kind = "rs" /\ b \in m.objects
      BY <2>2 DEF InQueue
    <3>2. m \in Messages(queue)
      BY <3>1, KindFacts, CloseFacts DEF Releases
    <3> QED
      BY <3>1, <3>2 DEF InQueue
  <2> QED
    BY <2>1, <2>2
<1>2. \A b \in Bridges : /\ Ref(b)' => Ref(b)
                         /\ Live(b)' => Live(b)
                         /\ Coming(b)' => Coming(b)
  BY <1>1 DEF Ref, Live, Coming
<1>3. ASSUME NEW m \in Rs, Under(m)' PROVE Under(m) \/ m.objects = {}
  BY <1>3, KindFacts, CloseFacts DEF Releases, Under
<1>4. ASSUME NEW rq \in Rq, OnWay(rq)'
      PROVE  \/ OnWay(rq)
             \/ rq.client = Local /\ rq.oid = 0 /\ rq.command = "close"
             \/ \E b \in Bridges : rq = CloseOf(b) /\ Ref(b) /\ ~Ref(b)'
  <2>1. CASE SentOut(rq)'
    BY <2>1 DEF Releases, OnWay
  <2>2. CASE rq \in Messages(queue')
    BY <2>2, KindFacts DEF Releases, OnWay
  <2> QED
    BY <1>4, <2>1, <2>2 DEF OnWay
<1>5. \A rq \in Rq : rq \in Messages(queue') /\ rq.client # Local => rq \in Messages(queue)
  BY KindFacts, CloseFacts DEF Releases
<1> QED
  BY <1>1, <1>2, <1>3, <1>4, <1>5, Zenon

\* It keeps what the invariant says of objects: what it closes is referred to by
\* nothing else, since what is on its way back is new.
LEMMA MoveKeeps ==
  ASSUME MessageType, MessageType', ObjectInv, Moves,
         \A x \in Ports : \A y \in opened'[x] : y.oid < nextoid[x]
  PROVE  ObjectInv'
<1>a. \A b \in Bridges : /\ InHand(b)' => InHand(b)
                         /\ InBack(b)' => InBack(b)
                         /\ Live(b)' => Live(b)
                         /\ Coming(b)' => Coming(b)
                         /\ InBack(b)' => ~Ref(b)'
  BY DEF Moves, NoNewPlace
<1>b. \A m \in Rs : Under(m)' => Under(m) \/ m.objects = {}
  BY DEF Moves
<1>c. \A rq \in Rq : OnWay(rq)' =>
        \/ OnWay(rq)
        \/ rq.client = Local /\ rq.oid = 0 /\ rq.command = "close"
        \/ \E b \in Bridges : rq = CloseOf(b) /\ Ref(b) /\ ~Ref(b)'
  BY DEF Moves
<1>d. \A rq \in Rq : rq \in Messages(queue') /\ rq.client # Local => rq \in Messages(queue)
  BY DEF Moves
<1> USE BridgeFacts, <1>a, <1>b, <1>c, <1>d
<1>1. \A c, n : Given(c, n) => Given(c, n)'
  BY DEF Given, Moves
<1>2. Numbered'
  <2>1. (invalid \subseteq Bridges)'
    BY DEF ObjectInv, Numbered, Moves
  <2>2. \A b \in Bridges : Live(b)' \/ b \in invalid' => Given(b.conn, b.oid)'
    BY <1>1 DEF ObjectInv, Numbered, Moves
  <2>3. \A cl \in Clients : \A k \in known'[cl] : Given(k.conn, k.oid)'
    BY <1>1 DEF ObjectInv, Numbered, Moves
  <2>4. ASSUME NEW rq \in Rq, OnWay(rq)', rq.oid # 0 PROVE Given(rq.via, rq.oid)'
    <3>1. CASE OnWay(rq)
      BY <1>1, <2>4, <3>1 DEF ObjectInv, Numbered
    <3>2. CASE ~OnWay(rq)
      <4>1. PICK b \in Bridges : rq = CloseOf(b) /\ Ref(b)
        BY <2>4, <3>2
      <4>2. Given(b.conn, b.oid)
        BY <4>1 DEF ObjectInv, Numbered, Live
      <4> QED
        BY <1>1, <4>1, <4>2, CloseFacts
    <3> QED
      BY <3>1, <3>2
  <2>5. \A x \in Ports : \A y \in opened'[x] : y.oid < nextoid'[x]
    BY DEF Moves
  <2> QED
    BY <2>1, <2>2, <2>3, <2>4, <2>5, Zenon DEF Numbered
<1>3. Distinct'
  <2>1. \A b, d \in Bridges : Live(b)' /\ Live(d)' /\ Same(b.conn, b.oid, d)' => b = d
    BY DEF ObjectInv, Distinct, Same
  <2>2. \A c \in Conns : \A m \in back'[c] : \A b \in m.objects : b.conn = c
    BY DEF ObjectInv, Distinct, Moves
  <2>3. \A b \in Bridges : InBack(b)' => ~Ref(b)'
    OBVIOUS
  <2> QED
    BY <2>1, <2>2, <2>3, Zenon DEF Distinct
<1>4. Delivered'
  <2>1. ASSUME NEW m \in Rs, NEW n \in Rs, Under(m)', Under(n)',
               NEW b \in m.objects, b \in n.objects
        PROVE  m.tag = n.tag
    <3>1. Under(m) /\ Under(n)
      BY <2>1
    <3> QED
      BY <2>1, <3>1 DEF ObjectInv, Delivered
  <2>2. ASSUME NEW m \in Rs, Under(m)', m.objects # {} PROVE m.client \in Clients
    <3>1. Under(m)
      BY <2>2
    <3> QED
      BY <2>2, <3>1 DEF ObjectInv, Delivered
  <2>3. \A b \in Bridges : Coming(b)' => ~InHand(b)'
    BY DEF ObjectInv, Delivered
  <2>4. \A x, y \in Clients : \A b \in owned'[x] : b \in owned'[y] => x = y
    BY DEF ObjectInv, Delivered, Moves
  <2> QED
    BY <2>1, <2>2, <2>3, <2>4, Zenon DEF Delivered
<1>5. Unused'
  <2> SUFFICES ASSUME NEW rq \in Rq, OnWay(rq)', rq.client = Local, rq.oid # 0,
                      NEW d \in Bridges, Live(d)', Same(rq.via, rq.oid, d)
               PROVE  FALSE
    BY DEF Unused, Same
  <2>1. Live(d)
    OBVIOUS
  <2>2. CASE OnWay(rq)
    BY <2>1, <2>2 DEF ObjectInv, Unused
  <2>3. CASE ~OnWay(rq)
    <3>1. PICK b \in Bridges : rq = CloseOf(b) /\ Ref(b) /\ ~Ref(b)'
      BY <2>3
    <3>2. Same(b.conn, b.oid, d)
      BY <3>1, CloseFacts
    <3>3. b = d
      BY <2>1, <3>1, <3>2 DEF ObjectInv, Distinct, Live
    <3>4. InBack(b)'
      BY <3>1, <3>3 DEF Live
    <3>5. InBack(b)
      BY <3>4
    <3> QED
      BY <3>1, <3>5 DEF ObjectInv, Distinct
  <2> QED
    BY <2>2, <2>3
<1>6. Claimed'
  <2>1. ASSUME NEW cl, NEW c, NEW n, Mine(cl, c, n) PROVE Mine(cl, c, n)'
    BY <2>1 DEF Mine, Same, Moves
  <2>2. \A cl \in Clients : \A k \in known'[cl] : Mine(cl, k.conn, k.oid)'
    BY <2>1 DEF ObjectInv, Claimed, Moves
  <2>3. ASSUME NEW rq \in Rq, rq \in Messages(queue'), rq.client # Local, rq.oid # 0
        PROVE  Mine(rq.client, rq.via, rq.oid)'
    <3>1. rq \in Messages(queue)
      BY <2>3
    <3> QED
      BY <2>1, <2>3, <3>1 DEF ObjectInv, Claimed
  <2> QED
    BY <2>2, <2>3, Zenon DEF Claimed
<1>7. Disclaimed'
  <2> SUFFICES ASSUME NEW rq \in Rq, SentOut(rq)', rq.oid # 0,
                      NEW b \in Bridges, Coming(b)' \/ InHand(b)', Same(rq.via, rq.oid, b)
               PROVE  FALSE
    BY DEF Disclaimed, Same
  <2>1. SentOut(rq)
    BY DEF Moves
  <2>2. Coming(b) \/ InHand(b)
    OBVIOUS
  <2> QED
    BY <2>1, <2>2 DEF ObjectInv, Disclaimed
<1>8. OnlyCloses'
  BY CloseFacts DEF ObjectInv, OnlyCloses
<1> QED
  BY <1>2, <1>3, <1>4, <1>5, <1>6, <1>7, <1>8 DEF ObjectInv

\* So does a step that gives up references.
LEMMA ReleaseKeeps ==
  ASSUME MessageType, MessageType', ObjectInv, Releases,
         \A x \in Ports : \A y \in opened'[x] : y.oid < nextoid[x]
  PROVE  ObjectInv'
<1> USE ReleaseFacts
<1>1. \A b \in Bridges : InBack(b)' => ~Ref(b)'
  BY DEF ObjectInv, Distinct
<1>2. \A b \in Bridges : /\ InHand(b)' => InHand(b)
                         /\ InBack(b)' => InBack(b)
                         /\ Live(b)' => Live(b)
                         /\ Coming(b)' => Coming(b)
                         /\ InBack(b)' => ~Ref(b)'
  BY <1>1
<1>3. \A c \in Conns : \A m \in back'[c] : m \in back[c] \/ m.objects = {}
  BY DEF Releases
<1>4. \A b \in Bridges : NoNewPlace(b)
  BY <1>2 DEF NoNewPlace
<1>5. Moves
  BY <1>3, <1>4, Zenon DEF Releases, Moves
<1> QED
  BY <1>5, MoveKeeps

-----------------------------------------------------------------------------
(***************************************************************************)
(* The steps that give up references.                                      *)
(***************************************************************************)

\* Destructors run by a step close the objects that nothing refers to after it.
LEMMA Destructs ==
  ASSUME NEW q \in [Producers -> Seq(Rq \cup Rs)], NEW p \in Producers,
         NEW bs \in Finite(Bridges),
         queue' = Post(q, p, Destructors(bs, owned', q, held'))
  PROVE  /\ \A m \in Messages(queue') :
              m \in Messages(q) \/ \E b \in bs \ invalid : m = CloseOf(b) /\ ~Ref(b)'
         /\ \A m \in Messages(q) : m \in Messages(queue')
         /\ \A b \in bs \ invalid : Ref(b)' \/ CloseOf(b) \in Messages(queue')
<1> DEFINE ds == Destructors(bs, owned', q, held')
           R == Referenced(owned', q, held')
           X == {CloseOf(b) : b \in (bs \ invalid) \ R}
<1>1. ds \in Seq(Rq \cup Rs) /\ Elems(ds) = X
  BY DestructorElems
<1> HIDE DEF ds, R
<1>2. queue' = Post(q, p, ds)
  BY DEF ds
<1>3. Messages(queue') = Messages(q) \cup X
  BY <1>1, <1>2, PostMessages
<1>4. bs \subseteq Bridges
  BY DEF Finite
<1>5. \A m \in X : m.kind = "rq"
  BY <1>4, CloseFacts
<1>6. \A b : b \in R <=> Ref(b)'
  <2> SUFFICES ASSUME NEW b PROVE b \in R <=> Ref(b)'
    OBVIOUS
  <2>1. b \in R <=> \/ \E cl \in Clients : b \in owned'[cl]
                    \/ \E c \in Conns : b \in held'[c]
                    \/ \E m \in Messages(q) : m.kind = "rs" /\ b \in m.objects
    BY Zenon DEF R, Referenced
  <2>2. (\E m \in Messages(q) : m.kind = "rs" /\ b \in m.objects)
          <=> \E m \in Messages(queue') : m.kind = "rs" /\ b \in m.objects
    BY <1>3, <1>5
  <2> QED
    BY <2>1, <2>2, Zenon DEF Ref, InHand, InHeld, InQueue
<1> QED
  BY <1>3, <1>6

\* So do those of a client's objects when it is freed.
LEMMA FreeDestructs ==
  ASSUME MessageType, NEW cl, NEW st, NEW q \in [Producers -> Seq(Rq \cup Rs)], NEW d,
         NEW p \in Producers, FreeClient(cl, st, q, d, p), held' = held
  PROVE  /\ \A x \in Clients : owned'[x] \subseteq owned[x]
         /\ \A m \in Messages(queue') :
              \/ m \in Messages(q)
              \/ \E b \in Bridges : m = CloseOf(b) /\ InHand(b) /\ ~Ref(b)'
         /\ \A m \in Messages(q) : m \in Messages(queue')
         /\ \A x \in Clients, b \in Bridges : b \in owned[x] /\ b \notin invalid =>
              b \in owned'[x] \/ Ref(b)' \/ CloseOf(b) \in Messages(queue')
         /\ ClientFreed(cl, st, q, d) => owned'[cl] = {}
         /\ ~ClientFreed(cl, st, q, d) => owned' = owned
<1>1. owned \in [Clients -> Finite(Bridges)]
  BY DEF MessageType
<1>2. CASE ClientFreed(cl, st, q, d)
  <2>1. cl \in Clients /\ owned' = [owned EXCEPT ![cl] = {}]
    BY <1>2 DEF ClientFreed, FreeClient
  <2>2. /\ owned'[cl] = {}
        /\ \A x \in Clients : x # cl => owned'[x] = owned[x]
        /\ owned[cl] \in Finite(Bridges)
    BY <1>1, <2>1
  <2>3. PICK bs \in Finite(Bridges) : bs = owned[cl]
    BY <2>2
  <2>4. queue' = Post(q, p, Destructors(bs, owned', q, held'))
    BY <1>2, <2>1, <2>3 DEF FreeClient
  <2>5. bs \subseteq Bridges
    BY DEF Finite
  <2>6. /\ \A m \in Messages(queue') :
             m \in Messages(q) \/ \E b \in bs \ invalid : m = CloseOf(b) /\ ~Ref(b)'
        /\ \A m \in Messages(q) : m \in Messages(queue')
        /\ \A b \in bs \ invalid : Ref(b)' \/ CloseOf(b) \in Messages(queue')
    BY <2>4, Destructs
  <2>7. \A b \in bs : InHand(b)
    BY <2>1, <2>3 DEF InHand
  <2> QED
    BY <1>2, <2>1, <2>2, <2>3, <2>5, <2>6, <2>7
<1>3. CASE ~ClientFreed(cl, st, q, d)
  BY <1>3 DEF FreeClient
<1> QED
  BY <1>2, <1>3

\* What is on a wire.
LEMMA WireElems ==
  ASSUME MessageType, NEW c \in Conns
  PROVE  /\ wire[c] \in Seq(Rq) /\ \A rq \in Elems(wire[c]) : rq \in Rq
         /\ wire[c] # <<>> => /\ Elems(wire[c]) = {Head(wire[c])} \cup Elems(Tail(wire[c]))
                              /\ Head(wire[c]) \in Rq
<1>1. wire[c] \in Seq(Rq)
  BY DEF MessageType
<1>2. \A rq \in Elems(wire[c]) : rq \in Rq
  BY <1>1 DEF Elems
<1>3. ASSUME wire[c] # <<>>
      PROVE  /\ Elems(wire[c]) = {Head(wire[c])} \cup Elems(Tail(wire[c]))
             /\ Head(wire[c]) \in Rq
  <2> DEFINE s == wire[c]
  <2>1. s \in Seq(Rq) /\ s # <<>>
    BY <1>1, <1>3
  <2> HIDE DEF s
  <2>2. Elems(s) = {Head(s)} \cup Elems(Tail(s)) /\ Head(s) \in Rq
    BY <2>1, TailElems
  <2> QED
    BY <2>2 DEF s
<1> QED
  BY <1>1, <1>2, <1>3

\* The tables and what they hold.
TableType == opened \in [Ports -> SUBSET [oid : Nat, client : Callers]]

\* A connection's objects are in one of the tables.
LEMMA PortFacts ==
  ASSUME NEW c \in Conns
  PROVE  Port(c) \in Ports
BY ConnAssumption DEF Port, Ports

\* The steps of a connection that leave the queues alone.
LEMMA QuietReleases ==
  ASSUME MessageType, TableType, MayReboot = {FALSE}, NEW c \in Conns,
         \/ Connect(c) \/ Identified(c) \/ RemoveDevice(c)
         \/ \E cut \in BOOLEAN, reboot \in MayReboot : Fail(c, cut, reboot)
  PROVE  /\ Releases /\ \A x \in Ports : opened'[x] \subseteq opened[x]
         /\ UNCHANGED <<queue, disp, held, owned, known, status>>
<1>1. UNCHANGED <<queue, disp, held, owned, known, status, invalid, nextoid>>
  BY DEF Connect, Identified, RemoveDevice, Fail
<1>2. /\ \A d \in Conns : link[d] # "off" => link'[d] # "off"
      /\ \A d \in Conns : back'[d] \subseteq back[d]
      /\ \A d \in Conns : wire'[d] = wire[d] \/ wire'[d] = <<>>
      /\ \A x \in Ports : opened'[x] \subseteq opened[x]
  <2>1. CASE Connect(c) \/ Identified(c) \/ RemoveDevice(c)
    BY <2>1 DEF MessageType, Connect, Identified, RemoveDevice
  <2>2. CASE \E cut \in BOOLEAN, reboot \in MayReboot : Fail(c, cut, reboot)
    <3>1. PICK cut \in BOOLEAN, reboot \in MayReboot : Fail(c, cut, reboot)
      BY <2>2
    <3>2. link' = link
      BY <3>1 DEF Fail
    <3>3. \A d \in Conns : back'[d] \subseteq back[d] /\ (wire'[d] = wire[d] \/ wire'[d] = <<>>)
      BY <3>1 DEF Fail, MessageType
    <3>4. \A x \in Ports : opened'[x] \subseteq opened[x]
      BY <3>1, PortFacts DEF Fail, TableType
    <3> QED
      BY <3>2, <3>3, <3>4
  <2> QED
    BY <2>1, <2>2
<1>3. \A rq : rq \notin Elems(<<>>)
  BY DEF Elems
<1>4. \A rq \in Rq : SentOut(rq)' => SentOut(rq)
  BY <1>1, <1>2, <1>3 DEF SentOut
<1>5. Releases
  BY <1>1, <1>2, <1>4, Zenon DEF Releases
<1> QED
  BY <1>1, <1>2, <1>5

\* A step that leaves the links' messages and the dispatcher alone.
LEMMA SentOutStays ==
  ASSUME UNCHANGED <<disp, wire>>
  PROVE  \A rq : SentOut(rq)' <=> SentOut(rq)
BY DEF SentOut

\* AddDevice closes object 0.
LEMMA AddDeviceReleases ==
  ASSUME MessageType, NEW c \in Conns, AddDevice(c)
  PROVE  Releases
<1> DEFINE z == LocalClose(DeviceOf[c], 0, c)
<1>1. queue' = queue \/ queue' = Post(queue, Backend(c), <<z>>)
  BY DEF AddDevice
<1>2. Aimed(0, DeviceOf[c], c) /\ DeviceOf[c] \in DeviceIds
  BY ConnAssumption DEF Aimed
<1>3. z \in Rq /\ z.client = Local /\ z.oid = 0 /\ z.command = "close"
  <2>1. z \in Closes
    BY <1>2, LocalCloseFacts
  <2> QED
    BY <2>1, KindFacts DEF LocalClose, Request
<1>4. Backend(c) \in Producers /\ queue \in [Producers -> Seq(Rq \cup Rs)]
  BY DEF Backend, Producers, MessageType
<1> HIDE DEF z
<1>5. <<z>> \in Seq(Rq \cup Rs) /\ Elems(<<z>>) = {z}
  BY <1>3 DEF Elems
<1>6. \A m \in Messages(queue') : m \in Messages(queue) \/ m = z
  <2>1. CASE queue' = queue
    BY <2>1
  <2>2. CASE queue' = Post(queue, Backend(c), <<z>>)
    <3>1. Messages(queue') = Messages(queue) \cup Elems(<<z>>)
      BY <1>4, <1>5, <2>2, PostMessages
    <3> QED
      BY <1>5, <3>1
  <2> QED
    BY <1>1, <2>1, <2>2
<1>7. UNCHANGED <<link, nextoid, invalid, owned, known, held, back, disp, wire>>
  BY DEF AddDevice
<1>8. \A rq \in Rq : SentOut(rq)' => SentOut(rq)
  BY <1>7, SentOutStays
<1> QED
  BY <1>3, <1>6, <1>7, <1>8 DEF Releases

\* A device that is destroyed fails what is pending and lets its last response go.
LEMMA DestroyReleases ==
  ASSUME MessageType, NEW c \in Conns, Destroy(c)
  PROVE  /\ Releases
         /\ \A b \in Bridges : Ref(b) /\ b \notin invalid
              => Ref(b)' \/ CloseOf(b) \in Messages(queue')
         /\ \A m \in Messages(queue) : m \in Messages(queue')
<1> DEFINE fs == IF c \in Usb THEN SeqOf(Failures(c)) ELSE <<>>
<1>1. PICK p \in {Backend(c), "disp"} :
        queue' = Post(Post(queue, p, fs), p,
                      Destructors(held[c], owned, Post(queue, p, fs), held'))
  BY Zenon DEF Destroy, Failures
<1>2. p \in Producers /\ queue \in [Producers -> Seq(Rq \cup Rs)]
  BY <1>1 DEF Producers, Backend, MessageType
<1>3. fs \in Seq(Rq \cup Rs) /\ \A m \in Elems(fs) : m \in Rs /\ m.objects = {}
  <2>1. /\ Failures(c) \subseteq Rs /\ IsFiniteSet(Failures(c))
        /\ SeqOf(Failures(c)) \in Seq(Rs)
    BY FailureFacts
  <2>2. \A m \in Failures(c) : m.objects = {}
    BY DEF Failures, Response
  <2> DEFINE F == Failures(c)
  <2> HIDE DEF F
  <2>3. Elems(SeqOf(F)) = F
    BY <2>1, SeqOfElems DEF F
  <2>4. CASE c \in Usb
    BY <2>1, <2>2, <2>3, <2>4 DEF F
  <2>5. CASE c \notin Usb
    BY <2>5 DEF Elems
  <2> QED
    BY <2>4, <2>5
<1> HIDE DEF fs
<1> DEFINE q == Post(queue, p, fs)
<1>4. q \in [Producers -> Seq(Rq \cup Rs)] /\ Messages(q) = Messages(queue) \cup Elems(fs)
  BY <1>2, <1>3, PostFacts, PostMessages
<1>5. /\ UNCHANGED <<nextoid, invalid, owned, known, disp, wire>>
      /\ link' = [link EXCEPT ![c] = "destroyed"]
      /\ held' = [held EXCEPT ![c] = {}] /\ back' = [back EXCEPT ![c] = {}]
  BY DEF Destroy
<1>6. /\ \A d \in Conns : link[d] # "off" => link'[d] # "off"
      /\ \A d \in Conns : held'[d] \subseteq held[d] /\ back'[d] \subseteq back[d]
      /\ \A d \in Conns : d # c => held'[d] = held[d]
      /\ held[c] \in Finite(Bridges) /\ held[c] \subseteq Bridges
  BY <1>5 DEF MessageType, Finite
<1>7. PICK bs \in Finite(Bridges) : bs = held[c]
  BY <1>6
<1>8. queue' = Post(q, p, Destructors(bs, owned', q, held'))
  BY <1>1, <1>5, <1>7
<1> HIDE DEF q
<1>9. /\ \A m \in Messages(queue') :
           m \in Messages(q) \/ \E b \in bs \ invalid : m = CloseOf(b) /\ ~Ref(b)'
      /\ \A m \in Messages(q) : m \in Messages(queue')
      /\ \A b \in bs \ invalid : Ref(b)' \/ CloseOf(b) \in Messages(queue')
  BY <1>2, <1>4, <1>8, Destructs
<1>10. \A b \in bs : Ref(b) /\ b \in Bridges
  BY <1>6, <1>7 DEF Ref, InHeld
<1>11. \A m \in Messages(queue') :
         \/ m \in Messages(queue)
         \/ m \in Rs /\ m.objects = {}
         \/ \E b \in Bridges : m = CloseOf(b) /\ Ref(b) /\ ~Ref(b)'
  BY <1>3, <1>4, <1>9, <1>10
<1>12. \A rq \in Rq : SentOut(rq)' => SentOut(rq)
  BY <1>5, SentOutStays
<1>13. Releases
  BY <1>5, <1>6, <1>11, <1>12, Zenon DEF Releases
<1>14. \A m \in Messages(queue) : m \in Messages(queue')
  BY <1>4, <1>9
<1>15. ASSUME NEW b \in Bridges, Ref(b), b \notin invalid
       PROVE  Ref(b)' \/ CloseOf(b) \in Messages(queue')
  <2>1. CASE b \in bs
    BY <1>9, <1>15, <2>1
  <2>2. CASE b \notin bs
    <3>1. InHand(b) => InHand(b)'
      BY <1>5 DEF InHand
    <3>2. InHeld(b) => InHeld(b)'
      BY <1>6, <1>7, <2>2 DEF InHeld
    <3>3. InQueue(b) => InQueue(b)'
      BY <1>14 DEF InQueue
    <3> QED
      BY <1>15, <3>1, <3>2, <3>3 DEF Ref
  <2> QED
    BY <2>1, <2>2
<1> QED
  BY <1>13, <1>14, <1>15

\* A client that leaves lets its objects go, at once or with its last request.
LEMMA ClientReleases ==
  ASSUME MessageType, NEW cl \in Clients, AddClient(cl) \/ RemoveClient(cl)
  PROVE  Releases
<1>1. UNCHANGED <<link, nextoid, invalid, known, held, back, disp, wire>>
  BY DEF AddClient, RemoveClient
<1>2. \A rq \in Rq : SentOut(rq)' => SentOut(rq)
  BY <1>1, SentOutStays
<1>3. CASE AddClient(cl)
  <2>1. UNCHANGED <<queue, owned>>
    BY <1>3 DEF AddClient
  <2> QED
    BY <1>1, <1>2, <2>1 DEF Releases
<1>4. CASE RemoveClient(cl)
  <2>1. FreeClient(cl, status', queue, disp, "front")
    BY <1>4 DEF RemoveClient
  <2>2. queue \in [Producers -> Seq(Rq \cup Rs)] /\ "front" \in Producers
    BY DEF MessageType, Producers
  <2>3. /\ \A x \in Clients : owned'[x] \subseteq owned[x]
        /\ \A m \in Messages(queue') :
             \/ m \in Messages(queue)
             \/ \E b \in Bridges : m = CloseOf(b) /\ InHand(b) /\ ~Ref(b)'
    BY <1>1, <2>1, <2>2, FreeDestructs
  <2> QED
    BY <1>1, <1>2, <2>3 DEF Releases, Ref
<1> QED
  BY <1>3, <1>4

\* twibd's own answer carries no object; the request may have been the last that
\* held its client.
LEMMA AnswerReleases ==
  ASSUME MessageType, NEW p \in Producers, AnswerRequest(p)
  PROVE  Releases
<1> DEFINE rq == Head(queue[p])
           rs == Response(rq, IF rq.device = Meta THEN "ok" ELSE "unrecognized_device", {})
           q == Post(Popped(p), "disp", <<rs>>)
<1>1. /\ queue[p] # <<>> /\ rq.kind = "rq"
      /\ FreeClient(rq.client, status, q, Idle, "disp")
      /\ UNCHANGED <<link, nextoid, invalid, known, held, back, disp, wire>>
  BY DEF AnswerRequest, Popped, Answer
<1>2. Popped(p) \in [Producers -> Seq(Rq \cup Rs)] /\ rq \in Rq
  BY <1>1, PoppedType, KindFacts
<1>3. rs \in Rs /\ rs.objects = {}
  <2>1. {} \in Finite(Bridges)
    BY FiniteFacts
  <2>2. (IF rq.device = Meta THEN "ok" ELSE "unrecognized_device") \in Results
    BY DEF Results
  <2>3. rs \in Rs
    BY <1>2, <2>1, <2>2, ResponseFacts
  <2> QED
    BY <2>3 DEF Response
<1>4. Messages(queue) = {rq} \cup Messages(Popped(p))
  BY <1>1, PoppedMessages
<1> HIDE DEF rq, rs
<1>5. <<rs>> \in Seq(Rq \cup Rs) /\ Elems(<<rs>>) = {rs} /\ "disp" \in Producers
  BY <1>3 DEF Elems, Producers
<1>6. /\ q \in [Producers -> Seq(Rq \cup Rs)]
      /\ Messages(q) = Messages(Popped(p)) \cup Elems(<<rs>>)
  BY <1>2, <1>5, PostFacts, PostMessages
<1> HIDE DEF q
<1>7. /\ \A x \in Clients : owned'[x] \subseteq owned[x]
      /\ \A m \in Messages(queue') :
           \/ m \in Messages(q)
           \/ \E b \in Bridges : m = CloseOf(b) /\ InHand(b) /\ ~Ref(b)'
  BY <1>1, <1>5, <1>6, FreeDestructs
<1>8. \A m \in Messages(q) : m \in Messages(queue) \/ (m \in Rs /\ m.objects = {})
  BY <1>3, <1>4, <1>5, <1>6
<1>9. \A x \in Rq : SentOut(x)' => SentOut(x)
  BY <1>1, SentOutStays
<1> QED
  BY <1>1, <1>7, <1>8, <1>9 DEF Releases, Ref

\* What the sent wire holds.
LEMMA SendWire ==
  ASSUME MessageType, SendRequest
  PROVE  /\ \A x : SentOut(x)' => SentOut(x)
         /\ \A d \in Conns : \A x \in Elems(wire'[d]) :
              x \in Elems(wire[d]) \/ (x \in disp.rq /\ d = disp.conn)
         /\ \A d \in Conns : \A x \in Elems(wire[d]) : x \in Elems(wire'[d])
<1>1. PICK rq \in disp.rq, cs \in Seq(Closes) :
        /\ rq \in Rq /\ disp.conn \in Conns
        /\ UNCHANGED wire \/ wire' = [wire EXCEPT ![disp.conn] = Append(@, rq)]
  BY SendFacts
<1>2. disp'.rq = {}
  BY SendFacts
<1>3. PICK c \in Conns : c = disp.conn
  BY <1>1
<1>4. wire \in [Conns -> Seq(Rq)]
  BY DEF MessageType
<1>5. /\ \A d \in Conns : d # c => wire'[d] = wire[d]
      /\ wire'[c] = wire[c] \/ wire'[c] = Append(wire[c], rq)
  BY <1>1, <1>3, <1>4
<1>6. Elems(Append(wire[c], rq)) = Elems(wire[c]) \cup {rq}
  <2> DEFINE s == wire[c]
  <2>1. s \in Seq(Rq) /\ rq \in Rq
    BY <1>1, <1>4
  <2> HIDE DEF s
  <2>2. Elems(Append(s, rq)) = Elems(s) \cup {rq}
    BY <2>1, AppendElems
  <2> QED
    BY <2>2 DEF s
<1>7. /\ \A d \in Conns : \A x \in Elems(wire'[d]) :
           x \in Elems(wire[d]) \/ (x \in disp.rq /\ d = disp.conn)
      /\ \A d \in Conns : \A x \in Elems(wire[d]) : x \in Elems(wire'[d])
  BY <1>1, <1>3, <1>5, <1>6
<1>8. \A x : SentOut(x)' => SentOut(x)
  BY <1>2, <1>7 DEF SentOut
<1> QED
  BY <1>7, <1>8

\* The request that is sent may have been the last that held its client.
LEMMA SendReleases ==
  ASSUME MessageType, SendRequest
  PROVE  Releases
<1>1. PICK rq \in disp.rq : FreeClient(rq.client, status, queue, Idle, "disp")
  BY DEF SendRequest
<1>2. UNCHANGED <<link, nextoid, invalid, known, held, back>>
  BY DEF SendRequest
<1>3. queue \in [Producers -> Seq(Rq \cup Rs)] /\ "disp" \in Producers
  BY DEF MessageType, Producers
<1>4. /\ \A x \in Clients : owned'[x] \subseteq owned[x]
      /\ \A m \in Messages(queue') :
           \/ m \in Messages(queue)
           \/ \E b \in Bridges : m = CloseOf(b) /\ InHand(b) /\ ~Ref(b)'
  BY <1>1, <1>2, <1>3, FreeDestructs
<1>5. \A rq2 \in Rq : SentOut(rq2)' => SentOut(rq2)
  BY SendWire
<1> QED
  BY <1>2, <1>4, <1>5 DEF Releases, Ref

\* A response whose client is not connected.
Undelivered(p) ==
  /\ DispatchResponse(p)
  /\ UNCHANGED <<owned, known, got>>
  /\ queue' = Post(Popped(p), "disp", Destructors(Head(queue[p]).objects, owned, Popped(p), held))

\* It is dropped, and its objects go.
LEMMA DropReleases ==
  ASSUME MessageType, NEW p \in Producers, Undelivered(p)
  PROVE  /\ Releases
         /\ \A b \in Bridges : Ref(b) /\ b \notin invalid
              => Ref(b)' \/ CloseOf(b) \in Messages(queue')
         /\ \A m \in Messages(queue) : m.kind = "rq" => m \in Messages(queue')
<1> DEFINE rs == Head(queue[p])
<1>1. /\ queue[p] # <<>> /\ rs.kind = "rs"
      /\ UNCHANGED <<link, nextoid, invalid, owned, known, held, back, disp, wire>>
  BY DEF Undelivered, DispatchResponse
<1>2. Popped(p) \in [Producers -> Seq(Rq \cup Rs)] /\ rs \in Rs
  BY <1>1, PoppedType, KindFacts
<1>3. Messages(queue) = {rs} \cup Messages(Popped(p))
  BY <1>1, PoppedMessages
<1>4. PICK bs \in Finite(Bridges) : bs = rs.objects
  BY <1>2, KindFacts
<1>5. PICK q \in [Producers -> Seq(Rq \cup Rs)] : q = Popped(p)
  BY <1>2
<1>6. queue' = Post(q, "disp", Destructors(bs, owned', q, held')) /\ "disp" \in Producers
  BY <1>1, <1>4, <1>5 DEF Undelivered, Producers
<1> HIDE DEF rs
<1>7. /\ \A m \in Messages(queue') :
           m \in Messages(q) \/ \E b \in bs \ invalid : m = CloseOf(b) /\ ~Ref(b)'
      /\ \A m \in Messages(q) : m \in Messages(queue')
      /\ \A b \in bs \ invalid : Ref(b)' \/ CloseOf(b) \in Messages(queue')
  BY <1>6, Destructs
<1>8. \A b \in bs : b \in Bridges /\ Ref(b)
  BY <1>1, <1>3, <1>4 DEF Ref, InQueue, Finite
<1>9. \A m \in Messages(queue') :
        \/ m \in Messages(queue)
        \/ \E b \in Bridges : m = CloseOf(b) /\ Ref(b) /\ ~Ref(b)'
  BY <1>3, <1>5, <1>7, <1>8
<1>10. \A x \in Rq : SentOut(x)' => SentOut(x)
  BY <1>1, SentOutStays
<1>11. Releases
  BY <1>1, <1>9, <1>10 DEF Releases
<1>12. ASSUME NEW b \in Bridges, Ref(b), b \notin invalid
       PROVE  Ref(b)' \/ CloseOf(b) \in Messages(queue')
  <2>1. CASE b \in bs
    BY <1>7, <1>12, <2>1
  <2>2. CASE b \notin bs
    <3>1. InQueue(b) => InQueue(b)'
      BY <1>3, <1>4, <1>5, <1>7, <2>2 DEF InQueue
    <3>2. (InHand(b) => InHand(b)') /\ (InHeld(b) => InHeld(b)')
      BY <1>1 DEF InHand, InHeld
    <3> QED
      BY <1>12, <3>1, <3>2 DEF Ref
  <2> QED
    BY <2>1, <2>2
<1>13. \A m \in Messages(queue) : m.kind = "rq" => m \in Messages(queue')
  BY <1>1, <1>3, <1>5, <1>7
<1> QED
  BY <1>11, <1>12, <1>13

-----------------------------------------------------------------------------
(***************************************************************************)
(* Connections that are used were made.                                    *)
(***************************************************************************)

\* A connection once made is never as before.
LEMMA MadeStays ==
  ASSUME MessageType, Next
  PROVE  \A d \in Conns : link[d] # "off" => link'[d] # "off"
<1>1. ASSUME NEW c \in Conns,
             \/ Connect(c) \/ Identified(c) \/ AddDevice(c) \/ RemoveDevice(c)
             \/ \E cut \in BOOLEAN, reboot \in MayReboot : Fail(c, cut, reboot)
      PROVE  \A d \in Conns : link[d] # "off" => link'[d] # "off"
  BY <1>1 DEF MessageType, Connect, Identified, AddDevice, RemoveDevice, Fail
<1>2. ASSUME NEW c \in Conns, Destroy(c) \/ Receive(c) \/ Handle(c)
      PROVE  \A d \in Conns : link[d] # "off" => link'[d] # "off"
  <2>1. link' = link \/ link' = [link EXCEPT ![c] = "destroyed"]
    BY <1>2 DEF Destroy, Receive, Handle
  <2> QED
    BY <2>1 DEF MessageType
<1>3. ASSUME NEW cl \in Clients, AddClient(cl) \/ PostRequest(cl) \/ RemoveClient(cl)
      PROVE  link' = link
  BY <1>3 DEF AddClient, PostRequest, RemoveClient
<1>4. ASSUME NEW p \in Producers, AnswerRequest(p) \/ LockDevice(p) \/ DispatchResponse(p)
      PROVE  link' = link
  BY <1>4 DEF AnswerRequest, LockDevice, DispatchResponse
<1>5. ASSUME SendRequest PROVE link' = link
  BY <1>5 DEF SendRequest
<1>6. link' = link => \A d \in Conns : link[d] # "off" => link'[d] # "off"
  OBVIOUS
<1> QED
  BY <1>1, <1>2, <1>3, <1>4, <1>5, <1>6, Zenon DEF Next

\* The dispatcher locks what the device map leads to, and sends to what it locked.
LEMMA NextUsed ==
  ASSUME MessageType, MapInv, Next
  PROVE  /\ disp'.rq # {} => \/ disp' = disp
                             \/ /\ disp'.conn \in Conns /\ link' = link /\ devices' = devices
                                /\ link[disp'.conn] # "off"
                                /\ devices[DeviceOf[disp'.conn]] # NoConn
         /\ \A c \in Conns : wire'[c] # <<>> =>
              wire[c] # <<>> \/ (disp.rq # {} /\ c = disp.conn)
<1> DEFINE Locks == /\ disp'.conn \in Conns /\ link' = link /\ devices' = devices
                    /\ link[disp'.conn] # "off"
                    /\ devices[DeviceOf[disp'.conn]] # NoConn
           Goal == /\ disp'.rq # {} => disp' = disp \/ Locks
                   /\ \A c \in Conns : wire'[c] # <<>> =>
                        wire[c] # <<>> \/ (disp.rq # {} /\ c = disp.conn)
<1>1. ASSUME disp' = disp, \A d \in Conns : wire'[d] = wire[d] \/ wire'[d] = <<>> PROVE Goal
  BY <1>1
<1>2. ASSUME NEW c \in Conns,
             \/ Connect(c) \/ Identified(c) \/ AddDevice(c) \/ RemoveDevice(c)
             \/ \E cut \in BOOLEAN, reboot \in MayReboot : Fail(c, cut, reboot)
      PROVE  Goal
  <2>1. disp' = disp /\ \A d \in Conns : wire'[d] = wire[d] \/ wire'[d] = <<>>
    BY <1>2 DEF MessageType, Connect, Identified, AddDevice, RemoveDevice, Fail
  <2> QED
    BY <1>1, <2>1
<1>3. ASSUME NEW c \in Conns, Destroy(c) \/ Receive(c) PROVE Goal
  <2>1. disp' = disp /\ wire' = wire
    BY <1>3 DEF Destroy, Receive
  <2> QED
    BY <1>1, <2>1
<1>4. ASSUME NEW c \in Conns, Handle(c) PROVE Goal
  <2>1. /\ disp' = disp /\ wire[c] # <<>>
        /\ \A d \in Conns : d # c => wire'[d] = wire[d]
    BY <1>4 DEF Handle, MessageType
  <2> QED
    BY <2>1
<1>5. ASSUME NEW cl \in Clients, AddClient(cl) \/ PostRequest(cl) \/ RemoveClient(cl)
      PROVE  Goal
  <2>1. disp' = disp /\ wire' = wire
    BY <1>5 DEF AddClient, PostRequest, RemoveClient
  <2> QED
    BY <1>1, <2>1
<1>6. ASSUME NEW p \in Producers, AnswerRequest(p) \/ DispatchResponse(p)
      PROVE  Goal
  <2>1. disp' = disp /\ wire' = wire
    BY <1>6 DEF AnswerRequest, DispatchResponse
  <2> QED
    BY <1>1, <2>1
<1>7. ASSUME NEW p \in Producers, LockDevice(p) PROVE Goal
  <2> DEFINE rq == Head(queue[p])
  <2>1. /\ Found(rq) /\ disp' = [rq |-> {rq}, conn |-> Target(rq)]
        /\ wire' = wire /\ link' = link /\ devices' = devices
    BY <1>7 DEF LockDevice
  <2>2. /\ link[Target(rq)] # "off" /\ DeviceOf[Target(rq)] = rq.device
        /\ Target(rq) \in Conns /\ devices[rq.device] # NoConn
    BY <2>1 DEF Found, Target, MapInv, MapType, EntriesLive
  <2> HIDE DEF rq
  <2>3. disp'.conn = Target(rq)
    BY <2>1
  <2> QED
    BY <2>1, <2>2, <2>3
<1>8. ASSUME SendRequest PROVE Goal
  <2>1. disp.rq # {} /\ disp'.rq = {} /\ disp.conn \in Conns
    BY <1>8, SendFacts
  <2>2. \A d \in Conns : wire'[d] = wire[d] \/ d = disp.conn
    <3>1. PICK rq \in disp.rq, cs \in Seq(Closes) :
            UNCHANGED wire \/ wire' = [wire EXCEPT ![disp.conn] = Append(@, rq)]
      BY <1>8, SendFacts
    <3> QED
      BY <3>1 DEF MessageType
  <2> QED
    BY <2>1, <2>2
<1> HIDE DEF Goal
<1>9. Goal
  BY <1>2, <1>3, <1>4, <1>5, <1>6, <1>7, <1>8, Zenon DEF Next
<1> QED
  BY <1>9 DEF Goal

\* Requests go out over connections that were made.
Reached ==
  /\ disp.rq # {} => link[disp.conn] # "off"
  /\ \A c \in Conns : wire[c] # <<>> => link[c] # "off"

\* The device map leads to nothing else.
LEMMA NextReached ==
  ASSUME MessageType, MapInv, Reached, Next
  PROVE  Reached'
<1>1. disp.rq # {} => disp.conn \in Conns
  BY DEF MessageType
<1> QED
  BY <1>1, NextUsed, MadeStays DEF Reached

-----------------------------------------------------------------------------
(***************************************************************************)
(* The steps that move objects.                                            *)
(***************************************************************************)

\* A received response moves from the connection to the queues; what response_in
\* held before is let go.
LEMMA ReceiveObjects ==
  ASSUME MessageType, NEW c \in Conns, Receive(c)
  PROVE  /\ \E rs \in back[c] \cap Rs :
              /\ back' = [back EXCEPT ![c] = @ \ {rs}]
              /\ held' = [held EXCEPT ![c] = rs.objects]
              /\ rs \in Messages(queue')
              /\ \A m \in Messages(queue') :
                   \/ m \in Messages(queue) \/ m = rs
                   \/ \E b \in Bridges : m = CloseOf(b) /\ Ref(b) /\ ~Ref(b)'
         /\ \A m \in Messages(queue) : m \in Messages(queue')
         /\ \A b \in held[c] \ invalid : Ref(b)' \/ CloseOf(b) \in Messages(queue')
<1>1. PICK rs \in back[c] :
        /\ back' = [back EXCEPT ![c] = @ \ {rs}]
        /\ held' = [held EXCEPT ![c] = rs.objects]
        /\ queue' = Post(queue, Backend(c),
                         Append(Destructors(held[c], owned, queue, held'), rs))
  BY DEF Receive
<1>2. rs \in Rs /\ held[c] \in Finite(Bridges) /\ queue \in [Producers -> Seq(Rq \cup Rs)]
      /\ Backend(c) \in Producers
  BY DEF MessageType, Backend, Producers
<1>3. PICK bs \in Finite(Bridges) : bs = held[c]
  BY <1>2
<1>4. bs \subseteq Bridges /\ owned' = owned /\ held'[c] = rs.objects
  BY <1>1 DEF Receive, MessageType, Finite
<1> DEFINE ds == Destructors(bs, owned', queue, held')
           R == Referenced(owned', queue, held')
           X == {CloseOf(b) : b \in (bs \ invalid) \ R}
           es == Append(ds, rs)
<1>5. ds \in Seq(Rq \cup Rs) /\ Elems(ds) = X
  BY DestructorElems
<1>6. queue' = Post(queue, Backend(c), es)
  BY <1>1, <1>3, <1>4
<1>7. rs \in Rq \cup Rs
  BY <1>2
<1> HIDE DEF ds, R
<1>8. es \in Seq(Rq \cup Rs) /\ Elems(es) = X \cup {rs}
  <2> DEFINE M == Rq \cup Rs
  <2>1. ds \in Seq(M) /\ rs \in M
    BY <1>5, <1>7
  <2> HIDE DEF M
  <2>2. Append(ds, rs) \in Seq(M) /\ Elems(Append(ds, rs)) = Elems(ds) \cup {rs}
    BY <2>1, AppendElems
  <2> QED
    BY <1>5, <2>2 DEF M
<1> HIDE DEF es
<1>9. Messages(queue') = Messages(queue) \cup X \cup {rs}
  <2> HIDE DEF X
  <2>1. Messages(queue') = Messages(queue) \cup Elems(es)
    BY <1>2, <1>6, <1>8, PostMessages
  <2> QED
    BY <1>8, <2>1
<1>10. \A m \in X : m.kind = "rq"
  BY <1>4, CloseFacts
<1>11. \A b : b \in R <=> Ref(b)'
  <2> SUFFICES ASSUME NEW b PROVE b \in R <=> Ref(b)'
    OBVIOUS
  <2>1. b \in R <=> \/ \E cl \in Clients : b \in owned'[cl]
                    \/ \E d \in Conns : b \in held'[d]
                    \/ \E m \in Messages(queue) : m.kind = "rs" /\ b \in m.objects
    BY Zenon DEF R, Referenced
  <2>2. (\E m \in Messages(queue) : m.kind = "rs" /\ b \in m.objects)
          => \E m \in Messages(queue') : m.kind = "rs" /\ b \in m.objects
    BY <1>9
  <2>3. (\E m \in Messages(queue') : m.kind = "rs" /\ b \in m.objects)
          => \/ \E m \in Messages(queue) : m.kind = "rs" /\ b \in m.objects
             \/ b \in held'[c]
    BY <1>4, <1>9, <1>10
  <2> QED
    BY <2>1, <2>2, <2>3, Zenon DEF Ref, InHand, InHeld, InQueue
<1>12. \A b \in bs : Ref(b)
  BY <1>3 DEF Ref, InHeld
<1>13. \A m \in Messages(queue') :
         \/ m \in Messages(queue) \/ m = rs
         \/ \E b \in Bridges : m = CloseOf(b) /\ Ref(b) /\ ~Ref(b)'
  BY <1>4, <1>9, <1>11, <1>12
<1>14. \A b \in held[c] \ invalid : Ref(b)' \/ CloseOf(b) \in Messages(queue')
  BY <1>3, <1>9, <1>11
<1>15. rs \in Messages(queue') /\ \A m \in Messages(queue) : m \in Messages(queue')
  BY <1>9
<1> QED
  BY <1>1, <1>2, <1>13, <1>14, <1>15

\* Receiving a response keeps the invariant: no other response on its way back
\* has the same tag, so what is left there has other objects.
LEMMA ReceiveObjectInv ==
  ASSUME PlaceInv, MessageType', ObjectInv, NEW c \in Conns, Receive(c)
  PROVE  ObjectInv'
<1>0. MessageType /\ \A t \in OwnTags : OnePlace(t)
  BY DEF PlaceInv
<1> USE <1>0, BridgeFacts
<1>1. PICK rs \in back[c] \cap Rs :
        /\ back' = [back EXCEPT ![c] = @ \ {rs}]
        /\ held' = [held EXCEPT ![c] = rs.objects]
        /\ \A m \in Messages(queue') :
             \/ m \in Messages(queue) \/ m = rs
             \/ \E b \in Bridges : m = CloseOf(b) /\ Ref(b) /\ ~Ref(b)'
  BY ReceiveObjects
<1>2. /\ \A d \in Conns : back'[d] = IF d = c THEN back[c] \ {rs} ELSE back[d]
      /\ \A d \in Conns : held'[d] = IF d = c THEN rs.objects ELSE held[d]
  BY <1>1 DEF MessageType
<1>3. UNCHANGED <<link, nextoid, invalid, owned, known, disp, wire, opened>>
  BY DEF Receive
<1>4. ASSUME NEW b \in Bridges, b \in rs.objects PROVE InBack(b)
  BY <1>1, <1>4 DEF InBack
<1>5. ASSUME NEW b \in Bridges
      PROVE  /\ InHand(b)' => InHand(b)
             /\ InBack(b)' => InBack(b)
             /\ InHeld(b)' => InHeld(b) \/ b \in rs.objects
             /\ InQueue(b)' => InQueue(b) \/ b \in rs.objects
  <2>1. InHand(b)' => InHand(b)
    BY <1>3 DEF InHand
  <2>2. InBack(b)' => InBack(b)
    BY <1>2 DEF InBack
  <2>3. InHeld(b)' => InHeld(b) \/ b \in rs.objects
    BY <1>2 DEF InHeld
  <2>4. InQueue(b)' => InQueue(b) \/ b \in rs.objects
    BY <1>1, CloseFacts DEF InQueue
  <2> QED
    BY <2>1, <2>2, <2>3, <2>4
<1>6. ASSUME NEW b \in Bridges, InBack(b)' PROVE b \notin rs.objects
  <2>1. SUFFICES ASSUME b \in rs.objects PROVE FALSE
    OBVIOUS
  <2>2. PICK d \in Conns : \E m \in back'[d] : b \in m.objects
    BY <1>6 DEF InBack
  <2>3. PICK m \in back'[d] : b \in m.objects
    BY <2>2
  <2>4. m \in back[d] /\ m \in Rs
    BY <1>2
  <2>5. b.conn = d /\ b.conn = c
    BY <2>1, <2>3, <2>4 DEF ObjectInv, Distinct
  <2>6. m \in back[c] /\ m # rs
    BY <1>2, <2>4, <2>5
  <2>7. Under(m) /\ Under(rs) /\ rs \in Rs
    BY <2>4 DEF Under
  <2>8. m.tag = rs.tag /\ rs.client \in Clients
    BY <2>1, <2>3, <2>4, <2>7 DEF ObjectInv, Delivered
  <2>9. PICK t \in OwnTags : t = rs.tag
    BY <2>7, <2>8, KindFacts DEF Tags, OwnTags
  <2>10. link[c] # "destroyed"
    BY DEF Receive
  <2>11. AtOnce(c, t)
    BY DEF OnePlace, LinkedOnce
  <2>12. Single(back[c], t)
    BY <2>10, <2>11 DEF AtOnce, Alive
  <2> QED
    BY <2>6, <2>8, <2>9, <2>12 DEF Single
<1>7. ASSUME NEW b \in Bridges PROVE NoNewPlace(b)
  <2>1. Live(b)' => Live(b)
    BY <1>4, <1>5 DEF Live, Ref
  <2>2. Coming(b)' => Coming(b)
    BY <1>4, <1>5 DEF Coming
  <2>3. InBack(b)' => ~Ref(b)'
    BY <1>5, <1>6 DEF ObjectInv, Distinct, Ref
  <2> QED
    BY <1>5, <2>1, <2>2, <2>3 DEF NoNewPlace
<1>8. \A x \in Rq : SentOut(x)' <=> SentOut(x)
  BY <1>3, SentOutStays
<1>9. ASSUME NEW m \in Rs, Under(m)' PROVE Under(m)
  BY <1>1, <1>2, <1>9, KindFacts, CloseFacts DEF Under
<1>10. ASSUME NEW x \in Rq, OnWay(x)'
       PROVE  OnWay(x) \/ \E b \in Bridges : x = CloseOf(b) /\ Ref(b) /\ ~Ref(b)'
  BY <1>1, <1>8, <1>10, KindFacts DEF OnWay
<1>11. \A x \in Rq : x \in Messages(queue') /\ x.client # Local => x \in Messages(queue)
  BY <1>1, KindFacts, CloseFacts
<1>12. \A d \in Conns : \A m \in back'[d] : m \in back[d]
  BY <1>2
<1>13. Moves
  BY <1>3, <1>7, <1>8, <1>9, <1>10, <1>11, <1>12, Zenon DEF Moves
<1>14. \A x \in Ports : \A y \in opened'[x] : y.oid < nextoid[x]
  BY <1>3 DEF ObjectInv, Numbered
<1> QED
  BY <1>13, <1>14, MoveKeeps

\* What the console does with a request: it opens an object under a new id, or
\* answers without one and has no more objects than before.
LEMMA HandleObjects ==
  ASSUME MessageType, TableType, NEW c \in Conns, Handle(c)
  PROVE  LET rq == Head(wire[c])
             port == Port(c)
             n == nextoid[port]
         IN  /\ wire[c] # <<>> /\ rq \in Rq
             /\ wire' = [wire EXCEPT ![c] = Tail(@)]
             /\ \E rs \in Rs :
                  /\ rs.tag = rq.tag /\ rs.client = rq.client
                  /\ back' = [back EXCEPT ![c] = @ \cup {rs}]
                  /\ \/ /\ rq.command = "open"
                        /\ rs.objects = {BridgeObject(c, n)} /\ BridgeObject(c, n) \in Bridges
                        /\ nextoid' = [nextoid EXCEPT ![port] = @ + 1]
                        /\ opened' = [opened EXCEPT ![port] =
                                        @ \cup {[oid |-> n, client |-> rq.client]}]
                     \/ /\ rs.objects = {} /\ UNCHANGED nextoid
                        /\ \A x \in Ports : \A y \in opened[x] :
                             y \notin opened'[x] =>
                               x = port /\ rq.command = "close" /\ rq.oid \in {0, y.oid}
                                 /\ (rq.oid = 0 => c \in Usb)
                        /\ \A x \in Ports : opened'[x] \subseteq opened[x]
                        /\ rq.command = "close" /\ rq.oid # 0 =>
                             \A y \in opened'[port] : y.oid # rq.oid
                        /\ rq.command = "close" /\ rq.oid = 0 /\ c \in Usb => opened'[port] = {}
<1> DEFINE rq == Head(wire[c])
           port == Port(c)
           n == nextoid[port]
           d == BridgeObject(c, n)
           rs(result, objects) == Response(rq, result, objects)
<1>1. wire[c] # <<>> /\ wire' = [wire EXCEPT ![c] = Tail(@)]
  BY DEF Handle
<1>2. rq \in Rq
  BY <1>1, WireElems
<1>3. port \in Ports /\ n \in Nat
  BY PortFacts DEF MessageType
<1>4. d \in Bridges /\ {d} \in Finite(Bridges) /\ {} \in Finite(Bridges)
  <2>1. d \in Bridges
    BY <1>3, ConnAssumption DEF BridgeObject, Bridges, Objects
  <2>2. {} \in Finite(Bridges)
    BY FiniteFacts
  <2>3. {} \cup {d} \in Finite(Bridges)
    BY <2>1, <2>2, FiniteFacts
  <2> QED
    BY <2>1, <2>2, <2>3
<1>5. ASSUME NEW result \in Results, NEW objects \in Finite(Bridges)
      PROVE  /\ rs(result, objects) \in Rs /\ rs(result, objects).objects = objects
             /\ rs(result, objects).tag = rq.tag
             /\ rs(result, objects).client = rq.client
  <2>1. rs(result, objects) \in Rs
    BY <1>2, ResponseFacts
  <2> QED
    BY <2>1 DEF Response
<1>6. {"ok", "error", "unrecognized_object"} \subseteq Results
  BY DEF Results
<1> DEFINE back1(r) == back' = [back EXCEPT ![c] = @ \cup {r}]
           named == {x \in opened[port] : x.oid = rq.oid}
<1>7. \/ /\ rq.command = "open"
         /\ nextoid' = [nextoid EXCEPT ![port] = @ + 1]
         /\ opened' = [opened EXCEPT ![port] = @ \cup {[oid |-> n, client |-> rq.client]}]
         /\ back1(rs("ok", {d}))
      \/ /\ rq.command = "open"
         /\ back1(rs("error", {})) /\ UNCHANGED <<opened, nextoid>>
      \/ /\ rq.command = "close" /\ rq.oid = 0
         /\ opened' = IF c \in Usb THEN [opened EXCEPT ![port] = {}] ELSE opened
         /\ back1(rs("ok", {})) /\ UNCHANGED nextoid
      \/ /\ rq.command = "close" /\ rq.oid # 0
         /\ opened' = [opened EXCEPT ![port] = @ \ named]
         /\ back1(rs(IF named = {} THEN "unrecognized_object" ELSE "ok", {}))
         /\ UNCHANGED nextoid
  BY DEF Handle, consoleVars
<1>8. (IF named = {} THEN "unrecognized_object" ELSE "ok") \in Results
  BY <1>6
<1>9. opened \in [Ports -> SUBSET [oid : Nat, client : Callers]]
  BY DEF TableType
<1> DEFINE Less == /\ \A x \in Ports : \A y \in opened[x] :
                        y \notin opened'[x] =>
                          x = port /\ rq.command = "close" /\ rq.oid \in {0, y.oid}
                            /\ (rq.oid = 0 => c \in Usb)
                   /\ \A x \in Ports : opened'[x] \subseteq opened[x]
                   /\ rq.command = "close" /\ rq.oid # 0 =>
                        \A y \in opened'[port] : y.oid # rq.oid
                   /\ rq.command = "close" /\ rq.oid = 0 /\ c \in Usb => opened'[port] = {}
           New == /\ rq.command = "open"
                  /\ nextoid' = [nextoid EXCEPT ![port] = @ + 1]
                  /\ opened' = [opened EXCEPT ![port] = @ \cup {[oid |-> n, client |-> rq.client]}]
           Got1(r) == r \in Rs /\ r.tag = rq.tag /\ r.client = rq.client /\ back1(r)
<1>10. \/ /\ New
          /\ back1(rs("ok", {d}))
       \/ \E result \in Results : back1(rs(result, {})) /\ Less /\ UNCHANGED nextoid
  <2>1. CASE /\ rq.command = "open"
             /\ back1(rs("error", {})) /\ UNCHANGED <<opened, nextoid>>
    <3> HIDE DEF rs, rq
    <3> QED
      BY <1>6, <2>1
  <2>2. CASE /\ rq.command = "close" /\ rq.oid = 0
             /\ opened' = IF c \in Usb THEN [opened EXCEPT ![port] = {}] ELSE opened
             /\ back1(rs("ok", {})) /\ UNCHANGED nextoid
    <3> HIDE DEF rs, rq, port
    <3>1. Less
      BY <1>3, <1>9, <2>2
    <3> HIDE DEF Less
    <3> QED
      BY <1>6, <2>2, <3>1
  <2>3. CASE /\ rq.command = "close" /\ rq.oid # 0
             /\ opened' = [opened EXCEPT ![port] = @ \ named]
             /\ back1(rs(IF named = {} THEN "unrecognized_object" ELSE "ok", {}))
             /\ UNCHANGED nextoid
    <3> HIDE DEF rs, rq, port
    <3>1. Less
      BY <1>3, <1>9, <2>3
    <3> HIDE DEF Less
    <3> QED
      BY <1>8, <2>3, <3>1
  <2> HIDE DEF Less, rs, rq, port, back1, named
  <2> QED
    BY <1>7, <2>1, <2>2, <2>3
<1>11. \/ New /\ \E r \in Rs : Got1(r) /\ r.objects = {d}
       \/ (\E r \in Rs : Got1(r) /\ r.objects = {}) /\ Less /\ UNCHANGED nextoid
  <2>1. CASE New /\ back1(rs("ok", {d}))
    <3>1. rs("ok", {d}) \in Rs /\ Got1(rs("ok", {d})) /\ rs("ok", {d}).objects = {d}
      BY <1>4, <1>5, <1>6, <2>1
    <3> QED
      BY <2>1, <3>1
  <2>2. CASE \E result \in Results : back1(rs(result, {})) /\ Less /\ UNCHANGED nextoid
    <3>1. PICK result \in Results : back1(rs(result, {})) /\ Less /\ UNCHANGED nextoid
      BY <2>2
    <3>2. rs(result, {}) \in Rs /\ Got1(rs(result, {})) /\ rs(result, {}).objects = {}
      BY <1>4, <1>5, <3>1
    <3> QED
      BY <3>1, <3>2
  <2> QED
    BY <1>10, <2>1, <2>2
<1> QED
  <2> HIDE DEF rs
  <2> QED
    BY <1>1, <1>2, <1>4, <1>11

\* The console takes a request off the wire.
LEMMA HandleWire ==
  ASSUME MessageType, NEW c \in Conns, wire[c] # <<>>, wire' = [wire EXCEPT ![c] = Tail(@)]
  PROVE  /\ \A d \in Conns : \A x \in Elems(wire'[d]) : x \in Elems(wire[d])
         /\ \A d \in Conns : \A x \in Elems(wire[d]) :
              x \in Elems(wire'[d]) \/ (d = c /\ x = Head(wire[c]))
         /\ Head(wire[c]) \in Elems(wire[c])
<1>1. \A d \in Conns : wire'[d] = IF d = c THEN Tail(wire[c]) ELSE wire[d]
  BY DEF MessageType
<1> QED
  BY <1>1, WireElems

\* It opens an object under an id that nothing has yet.
LEMMA OpenObjectInv ==
  ASSUME MessageType, MessageType', TableType, ObjectInv, NEW c \in Conns,
         UNCHANGED <<link, queue, disp, owned, known, held, invalid>>,
         link[c] # "off",
         NEW n, n = nextoid[Port(c)], NEW d, d = BridgeObject(c, n), d \in Bridges,
         NEW rs \in Rs, rs.objects = {d}, rs.client \in Clients,
         back' = [back EXCEPT ![c] = @ \cup {rs}],
         nextoid' = [nextoid EXCEPT ![Port(c)] = @ + 1],
         opened' = [opened EXCEPT ![Port(c)] = @ \cup {[oid |-> n, client |-> rs.client]}],
         \A x \in Rq : SentOut(x)' => SentOut(x)
  PROVE  ObjectInv'
<1> USE BridgeFacts, PortFacts
<1>1. d.conn = c /\ d.oid = n
  BY DEF BridgeObject
<1>2. \A a \in Conns : back'[a] = IF a = c THEN back[c] \cup {rs} ELSE back[a]
  BY DEF MessageType
<1>3. /\ nextoid \in [Ports -> Nat] /\ n \in Nat /\ nextoid'[Port(c)] = n + 1
      /\ \A x \in Ports : x # Port(c) => nextoid'[x] = nextoid[x]
  BY DEF MessageType
<1>4. \A a, k : Given(a, k) => Given(a, k)' \/ k \notin Nat
  BY <1>3 DEF Given
<1>4a. ASSUME NEW a, NEW k \in Nat, Given(a, k) PROVE Given(a, k)' /\ ~Same(a, k, d)
  BY <1>1, <1>3, <1>4, <1>4a DEF Given, Same
<1>5. Given(d.conn, d.oid)'
  BY <1>1, <1>3 DEF Given
<1>6. \A b \in Bridges : /\ InHand(b)' <=> InHand(b)
                         /\ InHeld(b)' <=> InHeld(b)
                         /\ InQueue(b)' <=> InQueue(b)
                         /\ InBack(b)' <=> InBack(b) \/ b = d
  <2>1. \A b \in Bridges : InBack(b)' <=> InBack(b) \/ b = d
    BY <1>2 DEF InBack
  <2> QED
    BY <2>1 DEF InHand, InHeld, InQueue
<1>7. \A b \in Bridges : /\ Ref(b)' <=> Ref(b)
                         /\ Live(b)' <=> Live(b) \/ b = d
                         /\ Coming(b)' <=> Coming(b) \/ b = d
  BY <1>6 DEF Ref, Live, Coming
<1>8. \A b \in Bridges : Live(b) => Given(b.conn, b.oid) /\ ~Same(b.conn, b.oid, d) /\ b # d
  <2> SUFFICES ASSUME NEW b \in Bridges, Live(b)
               PROVE  Given(b.conn, b.oid) /\ ~Same(b.conn, b.oid, d) /\ b # d
    OBVIOUS
  <2>1. Given(b.conn, b.oid)
    BY DEF ObjectInv, Numbered
  <2>2. ~Same(b.conn, b.oid, d)
    BY <1>4a, <2>1
  <2> QED
    BY <2>1, <2>2 DEF Same
<1>9. \A x \in Rq : OnWay(x)' => OnWay(x)
  BY DEF OnWay
<1>10. \A m \in Rs : Under(m)' => Under(m) \/ m = rs
  BY <1>2 DEF Under
<1>11. \A m \in Rs : Under(m) => d \notin m.objects
  <2> SUFFICES ASSUME NEW m \in Rs, Under(m), d \in m.objects PROVE FALSE
    OBVIOUS
  <2>1. Live(d)
    BY DEF Under, Live, Ref, InQueue, InBack
  <2> QED
    BY <1>8, <2>1
<1>12. \A x \in Rq : x.oid \in Nat
  BY KindFacts
<1>13. \A cl \in Clients : \A k \in known[cl] : k.oid \in Nat /\ k.conn \in Conns
  BY DEF MessageType
<1>14. Numbered'
  <2>1. (invalid \subseteq Bridges)'
    BY DEF ObjectInv, Numbered
  <2>2. \A b \in Bridges : Live(b)' \/ b \in invalid' => Given(b.conn, b.oid)'
    BY <1>4a, <1>5, <1>7 DEF ObjectInv, Numbered
  <2>3. \A cl \in Clients : \A k \in known'[cl] : Given(k.conn, k.oid)'
    BY <1>4a, <1>13 DEF ObjectInv, Numbered
  <2>4. \A x \in Rq : OnWay(x)' /\ x.oid # 0 => Given(x.via, x.oid)'
    BY <1>4a, <1>9, <1>12 DEF ObjectInv, Numbered
  <2>5. ASSUME NEW x \in Ports, NEW y \in opened'[x] PROVE y.oid < nextoid'[x]
    <3>1. \A z \in opened[x] : z.oid \in Nat /\ z.oid < nextoid[x]
      BY DEF TableType, ObjectInv, Numbered
    <3>2. CASE x = Port(c)
      <4>1. y \in opened[x] \/ y.oid = n
        BY <2>5, <3>2 DEF TableType
      <4> QED
        BY <1>3, <3>1, <3>2, <4>1
    <3>3. CASE x # Port(c)
      <4>1. y \in opened[x]
        BY <2>5, <3>3 DEF TableType
      <4> QED
        BY <1>3, <3>1, <3>3, <4>1
    <3> QED
      BY <3>2, <3>3
  <2> QED
    BY <2>1, <2>2, <2>3, <2>4, <2>5, Zenon DEF Numbered
<1>15. Distinct'
  <2>1. ASSUME NEW b \in Bridges, NEW e \in Bridges, Live(b)', Live(e)', Same(b.conn, b.oid, e)
        PROVE  b = e
    <3>1. Same(e.conn, e.oid, b)
      BY <2>1 DEF Same
    <3> QED
      BY <1>7, <1>8, <2>1, <3>1 DEF ObjectInv, Distinct
  <2>2. \A a \in Conns : \A m \in back'[a] : \A b \in m.objects : b.conn = a
    BY <1>1, <1>2 DEF ObjectInv, Distinct
  <2>3. \A b \in Bridges : InBack(b)' => ~Ref(b)'
    BY <1>6, <1>7, <1>8 DEF ObjectInv, Distinct, Live
  <2>4. \A b, e \in Bridges : Live(b)' /\ Live(e)' /\ Same(b.conn, b.oid, e)' => b = e
    BY <2>1 DEF Same
  <2> QED
    BY <2>2, <2>3, <2>4, Zenon DEF Distinct
<1>16. Delivered'
  <2>1. ASSUME NEW m \in Rs, NEW o \in Rs, Under(m)', Under(o)',
               NEW b \in m.objects, b \in o.objects
        PROVE  m.tag = o.tag
    <3>1. (Under(m) \/ m = rs) /\ (Under(o) \/ o = rs)
      BY <1>10, <2>1
    <3>2. CASE Under(m) /\ Under(o)
      BY <2>1, <3>2 DEF ObjectInv, Delivered
    <3>3. CASE m = rs \/ o = rs
      <4>1. b = d
        BY <2>1, <3>3
      <4>2. m = rs /\ o = rs
        BY <1>11, <2>1, <3>1, <4>1
      <4> QED
        BY <4>2
    <3> QED
      BY <3>1, <3>2, <3>3
  <2>2. \A m \in Rs : Under(m)' /\ m.objects # {} => m.client \in Clients
    BY <1>10 DEF ObjectInv, Delivered
  <2>3. \A b \in Bridges : Coming(b)' => ~InHand(b)'
    BY <1>6, <1>7, <1>8 DEF ObjectInv, Delivered, Live, Ref
  <2>4. \A x, y \in Clients : \A b \in owned'[x] : b \in owned'[y] => x = y
    BY DEF ObjectInv, Delivered
  <2> QED
    BY <2>1, <2>2, <2>3, <2>4, Zenon DEF Delivered
<1>17. ASSUME NEW x \in Rq, OnWay(x), x.oid # 0 PROVE ~Same(x.via, x.oid, d)
  BY <1>4a, <1>12, <1>17 DEF ObjectInv, Numbered
<1>18. Unused'
  <2> SUFFICES ASSUME NEW x \in Rq, OnWay(x)', x.client = Local, x.oid # 0,
                      NEW b \in Bridges, Live(b)', Same(x.via, x.oid, b)
               PROVE  FALSE
    BY DEF Unused, Same
  <2> QED
    BY <1>7, <1>9, <1>17 DEF ObjectInv, Unused
<1>19. Claimed'
  <2>1. ASSUME NEW cl, NEW a, NEW k, Mine(cl, a, k), ~Same(a, k, d) PROVE Mine(cl, a, k)'
    BY <1>7, <2>1 DEF Mine, Same
  <2>2. \A cl \in Clients : \A k \in known'[cl] : Mine(cl, k.conn, k.oid)'
    BY <1>4a, <1>13, <2>1 DEF ObjectInv, Claimed, Numbered
  <2>3. ASSUME NEW x \in Rq, x \in Messages(queue'), x.client # Local, x.oid # 0
        PROVE  Mine(x.client, x.via, x.oid)'
    <3>1. x \in Messages(queue) /\ OnWay(x)
      BY <2>3, KindFacts DEF OnWay
    <3> QED
      BY <1>17, <2>1, <2>3, <3>1 DEF ObjectInv, Claimed
  <2> QED
    BY <2>2, <2>3, Zenon DEF Claimed
<1>20. Disclaimed'
  <2> SUFFICES ASSUME NEW x \in Rq, SentOut(x)', x.oid # 0,
                      NEW b \in Bridges, Coming(b)' \/ InHand(b)', Same(x.via, x.oid, b)
               PROVE  FALSE
    BY DEF Disclaimed, Same
  <2>1. SentOut(x) /\ OnWay(x)
    BY DEF OnWay
  <2> QED
    BY <1>6, <1>7, <1>17, <2>1 DEF ObjectInv, Disclaimed
<1>21. OnlyCloses'
  BY <1>9 DEF ObjectInv, OnlyCloses
<1> QED
  BY <1>14, <1>15, <1>16, <1>18, <1>19, <1>20, <1>21 DEF ObjectInv

\* Handling a request keeps the invariant.
LEMMA HandleObjectInv ==
  ASSUME MessageType, MessageType', TableType, Reached, ObjectInv, NEW c \in Conns, Handle(c)
  PROVE  ObjectInv'
<1> DEFINE rq == Head(wire[c])
           n == nextoid[Port(c)]
           d == BridgeObject(c, n)
<1>1. wire[c] # <<>> /\ rq \in Rq /\ wire' = [wire EXCEPT ![c] = Tail(@)]
  BY HandleObjects
<1>2. PICK rs \in Rs :
        /\ rs.tag = rq.tag /\ rs.client = rq.client
        /\ back' = [back EXCEPT ![c] = @ \cup {rs}]
        /\ \/ /\ rq.command = "open"
              /\ rs.objects = {d} /\ d \in Bridges
              /\ nextoid' = [nextoid EXCEPT ![Port(c)] = @ + 1]
              /\ opened' = [opened EXCEPT ![Port(c)] =
                              @ \cup {[oid |-> n, client |-> rq.client]}]
           \/ /\ rs.objects = {} /\ UNCHANGED nextoid
              /\ \A x \in Ports : opened'[x] \subseteq opened[x]
  BY HandleObjects, ZenonT(40)
<1>3. UNCHANGED <<link, queue, disp, owned, known, held, invalid>>
  BY DEF Handle
<1>4. \A x \in Rq : SentOut(x)' => SentOut(x)
  BY <1>1, <1>3, HandleWire DEF SentOut
<1>5. link[c] # "off" /\ OnWay(rq)
  BY <1>1, HandleWire DEF Reached, OnWay, SentOut
<1>6. CASE rs.objects = {d}
  <2>1. /\ rq.command = "open" /\ d \in Bridges
        /\ nextoid' = [nextoid EXCEPT ![Port(c)] = @ + 1]
        /\ opened' = [opened EXCEPT ![Port(c)] = @ \cup {[oid |-> n, client |-> rs.client]}]
    BY <1>2, <1>6
  <2>2. rs.client \in Clients
    BY <1>1, <1>2, <1>5, <2>1, KindFacts DEF ObjectInv, OnlyCloses, Callers
  <2> HIDE DEF rq, n, d
  <2>3. n = nextoid[Port(c)] /\ d = BridgeObject(c, n)
    BY DEF n, d
  <2> QED
    BY <1>2, <1>3, <1>4, <1>5, <1>6, <2>1, <2>2, <2>3, OpenObjectInv
<1>7. CASE rs.objects # {d}
  <2>1. rs.objects = {} /\ UNCHANGED nextoid /\ \A x \in Ports : opened'[x] \subseteq opened[x]
    BY <1>2, <1>7
  <2>2. \A a \in Conns : back'[a] = IF a = c THEN back[c] \cup {rs} ELSE back[a]
    BY <1>2 DEF MessageType
  <2> HIDE DEF rq, n, d
  <2>3. \A b \in Bridges : /\ InHand(b)' <=> InHand(b)
                           /\ InHeld(b)' <=> InHeld(b)
                           /\ InQueue(b)' <=> InQueue(b)
                           /\ InBack(b)' <=> InBack(b)
    <3>1. \A b \in Bridges : InBack(b)' <=> InBack(b)
      BY <2>1, <2>2 DEF InBack
    <3> QED
      BY <1>3, <3>1 DEF InHand, InHeld, InQueue
  <2>4. \A b \in Bridges : NoNewPlace(b)
    BY <2>3 DEF NoNewPlace, Live, Ref, Coming, ObjectInv, Distinct
  <2>5. \A m \in Rs : Under(m)' => Under(m) \/ m.objects = {}
    BY <1>3, <2>1, <2>2 DEF Under
  <2>6. \A x \in Rq : OnWay(x)' => OnWay(x)
    BY <1>3, <1>4 DEF OnWay
  <2>7. \A a \in Conns : \A m \in back'[a] : m \in back[a] \/ m.objects = {}
    BY <2>1, <2>2
  <2>8. Moves
    BY <1>3, <1>4, <2>1, <2>4, <2>5, <2>6, <2>7, Zenon DEF Moves
  <2>9. \A x \in Ports : \A y \in opened'[x] : y.oid < nextoid[x]
    BY <2>1 DEF ObjectInv, Numbered
  <2> QED
    BY <2>8, <2>9, MoveKeeps
<1> QED
  BY <1>6, <1>7

\* A client's request for an object is one to close an object it knows.
LEMMA PostObjects ==
  ASSUME MessageType, NEW cl \in Clients, PostRequest(cl)
  PROVE  \E rq \in Rq :
           /\ Messages(queue') = Messages(queue) \cup {rq} /\ rq.client = cl
           /\ \/ rq.oid = 0 /\ UNCHANGED known
              \/ \E b \in known[cl] : /\ rq.oid = b.oid /\ rq.via = b.conn
                                      /\ rq.command = "close"
                                      /\ known' = [known EXCEPT ![cl] = @ \ {b}]
<1> DEFINE tag == <<cl, sent[cl] + 1>>
           Asks(device, oid, command, via) ==
             queue' = Post(queue, "front", <<Request(cl, device, oid, command, tag, via)>>)
<1>1. \/ Asks(Meta, 0, "list", NoConn) /\ UNCHANGED known
      \/ (\E id \in DeviceIds : Asks(id, 0, "open", NoConn)) /\ UNCHANGED known
      \/ \E b \in known[cl] : /\ Asks(DeviceOf[b.conn], b.oid, "close", b.conn)
                              /\ known' = [known EXCEPT ![cl] = @ \ {b}]
  BY DEF PostRequest
<1>2. tag \in Tags /\ tag[1] = cl
  BY DEF Tags, Callers, MessageType
<1>3. queue \in [Producers -> Seq(Rq \cup Rs)] /\ "front" \in Producers
  BY DEF MessageType, Producers
<1> HIDE DEF tag
<1>4. ASSUME NEW device \in DeviceIds \cup {Meta}, NEW oid \in Nat,
             NEW command \in CommandNames, NEW via \in Conns \cup {NoConn},
             Aimed(oid, device, via), Asks(device, oid, command, via)
      PROVE  \E rq \in Rq : /\ Messages(queue') = Messages(queue) \cup {rq} /\ rq.client = cl
                            /\ rq.oid = oid /\ rq.via = via /\ rq.command = command
  <2> DEFINE r == Request(cl, device, oid, command, tag, via)
  <2>1. r \in Rq
    BY <1>2, <1>4, RequestFacts
  <2>2. r.client = cl /\ r.oid = oid /\ r.via = via /\ r.command = command
    BY DEF Request
  <2>3. queue' = Post(queue, "front", <<r>>)
    BY <1>4
  <2> HIDE DEF r
  <2>4. <<r>> \in Seq(Rq \cup Rs) /\ Elems(<<r>>) = {r}
    BY <2>1 DEF Elems
  <2>5. Messages(queue') = Messages(queue) \cup Elems(<<r>>)
    BY <1>3, <2>3, <2>4, PostMessages
  <2> QED
    BY <2>1, <2>2, <2>4, <2>5
<1>5. CASE Asks(Meta, 0, "list", NoConn) /\ UNCHANGED known
  <2>1. Aimed(0, Meta, NoConn) /\ "list" \in CommandNames
    BY DEF Aimed, CommandNames
  <2> HIDE DEF Asks
  <2> QED
    BY <1>4, <1>5, <2>1
<1>6. CASE (\E id \in DeviceIds : Asks(id, 0, "open", NoConn)) /\ UNCHANGED known
  <2>1. PICK id \in DeviceIds : Asks(id, 0, "open", NoConn)
    BY <1>6
  <2>2. Aimed(0, id, NoConn) /\ "open" \in CommandNames
    BY DEF Aimed, CommandNames
  <2> HIDE DEF Asks
  <2> QED
    BY <1>4, <1>6, <2>1, <2>2
<1>7. CASE \E b \in known[cl] : /\ Asks(DeviceOf[b.conn], b.oid, "close", b.conn)
                                /\ known' = [known EXCEPT ![cl] = @ \ {b}]
  <2>1. PICK b \in known[cl] : /\ Asks(DeviceOf[b.conn], b.oid, "close", b.conn)
                               /\ known' = [known EXCEPT ![cl] = @ \ {b}]
    BY <1>7
  <2>2. b.conn \in Conns /\ b.oid \in Nat /\ DeviceOf[b.conn] \in DeviceIds
    BY ConnAssumption DEF MessageType
  <2>3. Aimed(b.oid, DeviceOf[b.conn], b.conn) /\ "close" \in CommandNames
    BY <2>2 DEF Aimed, CommandNames
  <2>4. Asks(DeviceOf[b.conn], b.oid, "close", b.conn) /\ b.conn \in Conns \cup {NoConn}
    BY <2>1, <2>2
  <2> HIDE DEF Asks
  <2>5. \E rq \in Rq : /\ Messages(queue') = Messages(queue) \cup {rq} /\ rq.client = cl
                       /\ rq.oid = b.oid /\ rq.via = b.conn /\ rq.command = "close"
    BY <1>4, <2>2, <2>3, <2>4
  <2> QED
    BY <2>1, <2>5
<1> QED
  BY <1>1, <1>5, <1>6, <1>7

\* Posting a request keeps the invariant.
LEMMA PostObjectInv ==
  ASSUME MessageType, MessageType', ObjectInv, NEW cl \in Clients, PostRequest(cl)
  PROVE  ObjectInv'
<1> USE BridgeFacts
<1>1. PICK rq \in Rq :
        /\ Messages(queue') = Messages(queue) \cup {rq} /\ rq.client = cl
        /\ \/ rq.oid = 0 /\ UNCHANGED known
           \/ \E b \in known[cl] : /\ rq.oid = b.oid /\ rq.via = b.conn
                                   /\ rq.command = "close"
                                   /\ known' = [known EXCEPT ![cl] = @ \ {b}]
  BY PostObjects
<1>2. UNCHANGED <<link, disp, wire, owned, held, back, invalid, nextoid, opened>>
  BY DEF PostRequest
<1>3. cl # Local /\ rq.kind = "rq"
  BY <1>1, ClientAssumption, KindFacts
<1>4. \A b \in Bridges : /\ InHand(b)' <=> InHand(b)
                         /\ InHeld(b)' <=> InHeld(b)
                         /\ InQueue(b)' <=> InQueue(b)
                         /\ InBack(b)' <=> InBack(b)
  <2>1. \A b \in Bridges : InQueue(b)' <=> InQueue(b)
    BY <1>1, <1>3 DEF InQueue
  <2> QED
    BY <1>2, <2>1 DEF InHand, InHeld, InBack
<1>5. \A b \in Bridges : /\ Ref(b)' <=> Ref(b)
                         /\ Live(b)' <=> Live(b)
                         /\ Coming(b)' <=> Coming(b)
  BY <1>4 DEF Ref, Live, Coming
<1>6. \A m \in Rs : Under(m)' <=> Under(m)
  BY <1>1, <1>2, <1>3 DEF Under
<1>7. \A x \in Rq : SentOut(x)' <=> SentOut(x)
  BY <1>2, SentOutStays
<1>8. \A x \in Rq : OnWay(x)' => OnWay(x) \/ x = rq
  BY <1>1, <1>7 DEF OnWay
<1>9. \A k \in Clients : known'[k] \subseteq known[k]
  <2>1. UNCHANGED known \/ \E b \in known[cl] : known' = [known EXCEPT ![cl] = @ \ {b}]
    BY <1>1
  <2> QED
    BY <2>1 DEF MessageType
<1>10. rq.oid # 0 => /\ Given(rq.via, rq.oid) /\ Mine(cl, rq.via, rq.oid)
                     /\ rq.command = "close"
  <2>1. CASE rq.oid # 0
    <3>1. PICK b \in known[cl] : rq.oid = b.oid /\ rq.via = b.conn /\ rq.command = "close"
      BY <1>1, <2>1
    <3> QED
      BY <3>1 DEF ObjectInv, Numbered, Claimed
  <2> QED
    BY <2>1
<1>11. \A c, n : Given(c, n) => Given(c, n)'
  BY <1>2 DEF Given
<1>12. Numbered'
  <2>1. (invalid \subseteq Bridges)'
    BY <1>2 DEF ObjectInv, Numbered
  <2>2. \A b \in Bridges : Live(b)' \/ b \in invalid' => Given(b.conn, b.oid)'
    BY <1>2, <1>5, <1>11 DEF ObjectInv, Numbered
  <2>3. \A k \in Clients : \A b \in known'[k] : Given(b.conn, b.oid)'
    BY <1>9, <1>11 DEF ObjectInv, Numbered
  <2>4. \A x \in Rq : OnWay(x)' /\ x.oid # 0 => Given(x.via, x.oid)'
    BY <1>8, <1>10, <1>11 DEF ObjectInv, Numbered
  <2>5. \A x \in Ports : \A y \in opened'[x] : y.oid < nextoid'[x]
    BY <1>2 DEF ObjectInv, Numbered
  <2> QED
    BY <2>1, <2>2, <2>3, <2>4, <2>5, Zenon DEF Numbered
<1>13. Distinct'
  <2>1. \A b, d \in Bridges : Live(b)' /\ Live(d)' /\ Same(b.conn, b.oid, d)' => b = d
    BY <1>5 DEF ObjectInv, Distinct, Same
  <2>2. \A c \in Conns : \A m \in back'[c] : \A b \in m.objects : b.conn = c
    BY <1>2 DEF ObjectInv, Distinct
  <2>3. \A b \in Bridges : InBack(b)' => ~Ref(b)'
    BY <1>4, <1>5 DEF ObjectInv, Distinct
  <2> QED
    BY <2>1, <2>2, <2>3, Zenon DEF Distinct
<1>14. Delivered'
  <2>1. \A m, n \in Rs : Under(m)' /\ Under(n)' =>
          \A b \in m.objects : b \in n.objects => m.tag = n.tag
    BY <1>6 DEF ObjectInv, Delivered
  <2>2. \A m \in Rs : Under(m)' /\ m.objects # {} => m.client \in Clients
    BY <1>6 DEF ObjectInv, Delivered
  <2>3. \A b \in Bridges : Coming(b)' => ~InHand(b)'
    BY <1>4, <1>5 DEF ObjectInv, Delivered
  <2>4. \A x, y \in Clients : \A b \in owned'[x] : b \in owned'[y] => x = y
    BY <1>2 DEF ObjectInv, Delivered
  <2> QED
    BY <2>1, <2>2, <2>3, <2>4, Zenon DEF Delivered
<1>15. Unused'
  <2> SUFFICES ASSUME NEW x \in Rq, OnWay(x)', x.client = Local, x.oid # 0,
                      NEW b \in Bridges, Live(b)', Same(x.via, x.oid, b)
               PROVE  FALSE
    BY DEF Unused, Same
  <2> QED
    BY <1>1, <1>3, <1>5, <1>8 DEF ObjectInv, Unused
<1>16. Claimed'
  <2>1. ASSUME NEW k, NEW c, NEW n, Mine(k, c, n) PROVE Mine(k, c, n)'
    BY <1>2, <1>5, <2>1 DEF Mine, Same
  <2>2. \A k \in Clients : \A b \in known'[k] : Mine(k, b.conn, b.oid)'
    BY <1>9, <2>1 DEF ObjectInv, Claimed
  <2>3. ASSUME NEW x \in Rq, x \in Messages(queue'), x.client # Local, x.oid # 0
        PROVE  Mine(x.client, x.via, x.oid)'
    <3>1. x \in Messages(queue) \/ x = rq
      BY <1>1, <2>3
    <3> QED
      BY <1>1, <1>10, <2>1, <2>3, <3>1 DEF ObjectInv, Claimed
  <2> QED
    BY <2>2, <2>3, Zenon DEF Claimed
<1>17. Disclaimed'
  <2> SUFFICES ASSUME NEW x \in Rq, SentOut(x)', x.oid # 0,
                      NEW b \in Bridges, Coming(b)' \/ InHand(b)', Same(x.via, x.oid, b)
               PROVE  FALSE
    BY DEF Disclaimed, Same
  <2> QED
    BY <1>4, <1>5, <1>7 DEF ObjectInv, Disclaimed
<1>18. OnlyCloses'
  BY <1>1, <1>3, <1>8, <1>10 DEF ObjectInv, OnlyCloses
<1> QED
  BY <1>12, <1>13, <1>14, <1>15, <1>16, <1>17, <1>18 DEF ObjectInv

\* The dispatcher takes a request: a client's close disowns the object first.
LEMMA LockObjectInv ==
  ASSUME MessageType, MessageType', ObjectInv, NEW p \in Producers, LockDevice(p)
  PROVE  ObjectInv'
<1> USE BridgeFacts
<1>1. PICK rq \in Rq : rq = Head(queue[p])
  BY LockFacts
<1>2. queue[p] # <<>> /\ queue' = Popped(p) /\ disp.rq = {} /\ disp'.rq = {rq}
  BY <1>1, LockFacts
<1>3. Messages(queue) = {rq} \cup Messages(queue')
  BY <1>1, <1>2, PoppedMessages
<1>4. UNCHANGED <<link, wire, known, held, back, nextoid, opened>>
  BY DEF LockDevice
<1>5. /\ rq.kind = "rq" /\ rq.client \in Callers /\ rq \in Messages(queue) /\ OnWay(rq)
  BY <1>3, KindFacts DEF OnWay
<1>6. /\ \A cl \in Clients : owned'[cl] \subseteq owned[cl]
      /\ invalid \subseteq invalid'
      /\ \A b \in invalid' : b \in invalid \/ \E cl \in Clients : b \in owned[cl]
      /\ rq.command = "close" /\ rq.client # Local =>
           \A b \in owned'[rq.client] : b.oid # rq.oid
  <2>1. CASE rq.command = "close" /\ rq.client # Local
    <3>1. /\ owned' = [owned EXCEPT ![rq.client] = @ \ Disowned(rq)]
          /\ invalid' = invalid \cup Disowned(rq)
      BY <1>1, <2>1 DEF LockDevice
    <3>2. rq.client \in Clients
      BY <1>5, <2>1 DEF Callers
    <3>3. PICK cl \in Clients : cl = rq.client
      BY <3>2
    <3>4. /\ owned'[cl] = owned[cl] \ Disowned(rq)
          /\ \A x \in Clients : x # cl => owned'[x] = owned[x]
      BY <3>1, <3>3 DEF MessageType
    <3> QED
      BY <3>1, <3>3, <3>4 DEF Disowned
  <2>2. CASE ~(rq.command = "close" /\ rq.client # Local)
    <3>1. UNCHANGED <<owned, invalid>>
      BY <1>1, <2>2 DEF LockDevice
    <3> QED
      BY <2>2, <3>1
  <2> QED
    BY <2>1, <2>2
<1>7. \A b \in Bridges : /\ InHand(b)' => InHand(b)
                         /\ InHeld(b)' <=> InHeld(b)
                         /\ InQueue(b)' <=> InQueue(b)
                         /\ InBack(b)' <=> InBack(b)
  <2>1. \A b \in Bridges : InQueue(b)' <=> InQueue(b)
    BY <1>3, <1>5 DEF InQueue
  <2>2. \A b \in Bridges : InHand(b)' => InHand(b)
    BY <1>6 DEF InHand
  <2> QED
    BY <1>4, <2>1, <2>2 DEF InHeld, InBack
<1>8. \A b \in Bridges : /\ Ref(b)' => Ref(b)
                         /\ Live(b)' => Live(b)
                         /\ Coming(b)' <=> Coming(b)
  BY <1>7 DEF Ref, Live, Coming
<1>9. \A m \in Rs : Under(m)' => Under(m)
  BY <1>3, <1>4 DEF Under
<1>10. \A x \in Rq : SentOut(x)' => SentOut(x) \/ x = rq
  BY <1>2, <1>4 DEF SentOut
<1>11. \A x \in Rq : OnWay(x)' => OnWay(x)
  BY <1>3, <1>5, <1>10 DEF OnWay
<1>12. \A c, n : Given(c, n) => Given(c, n)'
  BY <1>4 DEF Given
<1>13. Numbered'
  <2>1. (invalid \subseteq Bridges)'
    BY <1>6 DEF ObjectInv, Numbered
  <2>2. \A b \in Bridges : b \in invalid' => b \in invalid \/ Live(b)
    BY <1>6 DEF Live, Ref, InHand
  <2>3. \A b \in Bridges : Live(b)' \/ b \in invalid' => Given(b.conn, b.oid)'
    BY <1>8, <1>12, <2>2 DEF ObjectInv, Numbered
  <2>4. \A k \in Clients : \A b \in known'[k] : Given(b.conn, b.oid)'
    BY <1>4, <1>12 DEF ObjectInv, Numbered
  <2>5. \A x \in Rq : OnWay(x)' /\ x.oid # 0 => Given(x.via, x.oid)'
    BY <1>11, <1>12 DEF ObjectInv, Numbered
  <2>6. \A x \in Ports : \A y \in opened'[x] : y.oid < nextoid'[x]
    BY <1>4 DEF ObjectInv, Numbered
  <2> QED
    BY <2>1, <2>3, <2>4, <2>5, <2>6, Zenon DEF Numbered
<1>14. Distinct'
  <2>1. \A b, d \in Bridges : Live(b)' /\ Live(d)' /\ Same(b.conn, b.oid, d)' => b = d
    BY <1>8 DEF ObjectInv, Distinct, Same
  <2>2. \A c \in Conns : \A m \in back'[c] : \A b \in m.objects : b.conn = c
    BY <1>4 DEF ObjectInv, Distinct
  <2>3. \A b \in Bridges : InBack(b)' => ~Ref(b)'
    BY <1>7, <1>8 DEF ObjectInv, Distinct
  <2> QED
    BY <2>1, <2>2, <2>3, Zenon DEF Distinct
<1>15. Delivered'
  <2>1. \A m, n \in Rs : Under(m)' /\ Under(n)' =>
          \A b \in m.objects : b \in n.objects => m.tag = n.tag
    BY <1>9 DEF ObjectInv, Delivered
  <2>2. \A m \in Rs : Under(m)' /\ m.objects # {} => m.client \in Clients
    BY <1>9 DEF ObjectInv, Delivered
  <2>3. \A b \in Bridges : Coming(b)' => ~InHand(b)'
    BY <1>7, <1>8 DEF ObjectInv, Delivered
  <2>4. \A x, y \in Clients : \A b \in owned'[x] : b \in owned'[y] => x = y
    BY <1>6 DEF ObjectInv, Delivered
  <2> QED
    BY <2>1, <2>2, <2>3, <2>4, Zenon DEF Delivered
<1>16. Unused'
  <2> SUFFICES ASSUME NEW x \in Rq, OnWay(x)', x.client = Local, x.oid # 0,
                      NEW b \in Bridges, Live(b)', Same(x.via, x.oid, b)
               PROVE  FALSE
    BY DEF Unused, Same
  <2> QED
    BY <1>8, <1>11 DEF ObjectInv, Unused
<1>17. Claimed'
  <2>1. ASSUME NEW k, NEW c, NEW n, Mine(k, c, n) PROVE Mine(k, c, n)'
    BY <1>6, <1>8, <2>1 DEF Mine, Same
  <2>2. \A k \in Clients : \A b \in known'[k] : Mine(k, b.conn, b.oid)'
    BY <1>4, <2>1 DEF ObjectInv, Claimed
  <2>3. \A x \in Rq : x \in Messages(queue') /\ x.client # Local /\ x.oid # 0
          => Mine(x.client, x.via, x.oid)'
    BY <1>3, <2>1 DEF ObjectInv, Claimed
  <2> QED
    BY <2>2, <2>3, Zenon DEF Claimed
<1>18. Disclaimed'
  <2> SUFFICES ASSUME NEW x \in Rq, SentOut(x)', x.oid # 0,
                      NEW b \in Bridges, Coming(b)' \/ InHand(b)', Same(x.via, x.oid, b)
               PROVE  FALSE
    BY DEF Disclaimed, Same
  <2>1. Coming(b) \/ InHand(b)
    BY <1>7, <1>8
  <2>2. CASE SentOut(x)
    BY <2>1, <2>2 DEF ObjectInv, Disclaimed
  <2>3. CASE x = rq /\ rq.client = Local
    BY <1>5, <2>1, <2>3 DEF ObjectInv, Unused, Live, Ref, Coming
  <2>4. CASE x = rq /\ rq.client # Local
    <3>1. Mine(rq.client, rq.via, rq.oid) /\ rq.command = "close"
      BY <1>5, <2>4 DEF ObjectInv, Claimed, OnlyCloses
    <3>2. ~Coming(b) /\ ~Coming(b)'
      BY <1>8, <2>4, <3>1 DEF Mine
    <3>3. PICK y \in Clients : b \in owned'[y]
      BY <3>2 DEF InHand
    <3>4. b \in owned[y]
      BY <1>6, <3>3
    <3>5. y = rq.client
      BY <2>4, <3>1, <3>4 DEF Mine
    <3>6. b.oid # rq.oid
      BY <1>6, <2>4, <3>1, <3>3, <3>5
    <3> QED
      BY <2>4, <3>6 DEF Same
  <2> QED
    BY <1>10, <2>2, <2>3, <2>4
<1>19. OnlyCloses'
  BY <1>11 DEF ObjectInv, OnlyCloses
<1> QED
  BY <1>13, <1>14, <1>15, <1>16, <1>17, <1>18, <1>19 DEF ObjectInv

\* A response that reaches its client.
Delivery(p) ==
  LET rs == Head(queue[p])
      handles == {[conn |-> b.conn, oid |-> b.oid] : b \in rs.objects}
  IN  /\ DispatchResponse(p)
      /\ rs.client \in Clients /\ status[rs.client] = "on"
      /\ owned' = [owned EXCEPT ![rs.client] = @ \cup rs.objects]
      /\ known' = [known EXCEPT ![rs.client] = @ \cup handles]
      /\ queue' = Popped(p)

\* A response is delivered or dropped.
LEMMA DispatchCases ==
  ASSUME NEW p \in Producers, DispatchResponse(p)
  PROVE  Delivery(p) \/ Undelivered(p)
<1> DEFINE rs == Head(queue[p])
           handles == {[conn |-> b.conn, oid |-> b.oid] : b \in rs.objects}
<1>1. \/ /\ rs.client \in Clients /\ status[rs.client] = "on"
         /\ owned' = [owned EXCEPT ![rs.client] = @ \cup rs.objects]
         /\ known' = [known EXCEPT ![rs.client] = @ \cup handles]
         /\ queue' = Popped(p)
      \/ /\ queue' = Post(Popped(p), "disp", Destructors(rs.objects, owned, Popped(p), held))
         /\ UNCHANGED <<owned, known, got>>
  BY DEF DispatchResponse, Popped
<1> QED
  BY <1>1 DEF Delivery, Undelivered

\* What the client gets.
LEMMA DeliveryObjects ==
  ASSUME MessageType, NEW p \in Producers, Delivery(p)
  PROVE  \E rs \in Rs :
           /\ rs = Head(queue[p]) /\ rs.kind = "rs" /\ rs.client \in Clients
           /\ status[rs.client] = "on"
           /\ queue[p] # <<>> /\ queue' = Popped(p)
           /\ Messages(queue) = {rs} \cup Messages(queue')
           /\ \A x \in Clients : owned'[x] = IF x = rs.client THEN owned[x] \cup rs.objects
                                                              ELSE owned[x]
           /\ \A x \in Clients : \A k \in known'[x] :
                k \in known[x] \/ (x = rs.client /\ \E b \in rs.objects : k.conn = b.conn /\ k.oid = b.oid)
           /\ UNCHANGED <<link, disp, wire, held, back, nextoid, opened, invalid>>
<1> DEFINE rs == Head(queue[p])
           handles == {[conn |-> b.conn, oid |-> b.oid] : b \in rs.objects}
<1>1. /\ queue[p] # <<>> /\ rs.kind = "rs"
      /\ UNCHANGED <<link, disp, wire, held, back, nextoid, opened, invalid>>
  BY DEF Delivery, DispatchResponse
<1>2. rs \in Rs
  BY <1>1, PoppedType, KindFacts
<1>3. /\ rs.client \in Clients /\ status[rs.client] = "on"
      /\ owned' = [owned EXCEPT ![rs.client] = @ \cup rs.objects]
      /\ known' = [known EXCEPT ![rs.client] = @ \cup handles]
      /\ queue' = Popped(p)
  BY DEF Delivery
<1>4. Messages(queue) = {rs} \cup Messages(queue')
  BY <1>1, <1>3, PoppedMessages
<1> HIDE DEF rs
<1>5. PICK cl \in Clients : cl = rs.client
  BY <1>3
<1>6. /\ owned'[cl] = owned[cl] \cup rs.objects
      /\ \A x \in Clients : x # cl => owned'[x] = owned[x]
  BY <1>3, <1>5 DEF MessageType
<1>7. \A k \in handles : \E b \in rs.objects : k.conn = b.conn /\ k.oid = b.oid
  OBVIOUS
<1> HIDE DEF handles
<1>8. /\ known'[cl] = known[cl] \cup handles
      /\ \A x \in Clients : x # cl => known'[x] = known[x]
  BY <1>3, <1>5 DEF MessageType
<1>9. \A x \in Clients : owned'[x] = IF x = rs.client THEN owned[x] \cup rs.objects
                                                      ELSE owned[x]
  BY <1>5, <1>6
<1>10. \A x \in Clients : \A k \in known'[x] :
         \/ k \in known[x]
         \/ x = rs.client /\ \E b \in rs.objects : k.conn = b.conn /\ k.oid = b.oid
  BY <1>5, <1>7, <1>8
<1> QED
  BY <1>1, <1>2, <1>3, <1>4, <1>9, <1>10 DEF rs

\* A response that reaches its client makes it the one owner of the objects: no
\* other queued response has the same tag, and what is on its way back is new.
LEMMA DeliveryObjectInv ==
  ASSUME PlaceInv, MessageType', ObjectInv, NEW p \in Producers, Delivery(p)
  PROVE  ObjectInv'
<1>0. MessageType /\ \A t \in OwnTags : OnePlace(t)
  BY DEF PlaceInv
<1> USE <1>0
<1>1. PICK rs \in Rs :
        /\ rs = Head(queue[p]) /\ rs.kind = "rs" /\ rs.client \in Clients
        /\ queue[p] # <<>> /\ queue' = Popped(p)
        /\ Messages(queue) = {rs} \cup Messages(queue')
        /\ \A x \in Clients : owned'[x] = IF x = rs.client THEN owned[x] \cup rs.objects
                                                           ELSE owned[x]
        /\ \A x \in Clients : \A k \in known'[x] :
             k \in known[x] \/ (x = rs.client /\ \E b \in rs.objects : k.conn = b.conn /\ k.oid = b.oid)
        /\ UNCHANGED <<link, disp, wire, held, back, nextoid, opened, invalid>>
  BY DeliveryObjects
<1> USE BridgeFacts
<1>2. Under(rs) /\ rs \in Messages(queue)
  BY <1>1 DEF Under
<1>3. \A b \in rs.objects : b \in Bridges /\ InQueue(b) /\ Coming(b) /\ Ref(b) /\ Live(b)
  BY <1>1, <1>2 DEF InQueue, Coming, Ref, Live
<1>4. ASSUME NEW b \in rs.objects PROVE ~InQueue(b)' /\ ~InBack(b)
  <2>1. ~InBack(b)
    BY <1>3 DEF ObjectInv, Distinct
  <2>2. ASSUME InQueue(b)' PROVE FALSE
    <3>1. PICK m \in Messages(queue') : m.kind = "rs" /\ b \in m.objects
      BY <2>2 DEF InQueue
    <3>2. m \in Rs /\ Under(m)
      BY <1>1, <3>1, KindFacts DEF Under
    <3>3. m.tag = rs.tag
      BY <1>2, <3>1, <3>2 DEF ObjectInv, Delivered
    <3>4. PICK t \in OwnTags : t = rs.tag
      BY <1>1, KindFacts DEF Tags, OwnTags
    <3>5. QOnce(queue, t)
      BY DEF OnePlace, QueuedOnce
    <3>6. ~QHas(Popped(p), t)
      BY <1>1, <3>4, <3>5, PoppedTag
    <3>7. PICK r \in Producers : m \in Elems(queue'[r])
      BY MessagesOf
    <3> QED
      BY <1>1, <3>3, <3>4, <3>6, <3>7 DEF QHas, Has, Elems
  <2> QED
    BY <2>1, <2>2
<1>5. \A b \in Bridges : /\ InHand(b)' <=> InHand(b) \/ b \in rs.objects
                         /\ InHeld(b)' <=> InHeld(b)
                         /\ InQueue(b)' => InQueue(b) /\ b \notin rs.objects
                         /\ InBack(b)' <=> InBack(b)
  <2>1. \A b \in Bridges : InHand(b)' <=> InHand(b) \/ b \in rs.objects
    BY <1>1 DEF InHand
  <2>2. \A b \in Bridges : InQueue(b)' => InQueue(b)
    BY <1>1 DEF InQueue
  <2> QED
    BY <1>1, <1>4, <2>1, <2>2 DEF InHeld, InBack
<1>6. \A b \in Bridges : /\ Ref(b)' => Ref(b)
                         /\ Live(b)' => Live(b)
                         /\ Coming(b)' => Coming(b) /\ b \notin rs.objects
  BY <1>3, <1>4, <1>5 DEF Ref, Live, Coming
<1>7. \A m \in Rs : Under(m)' => Under(m)
  BY <1>1 DEF Under
<1>8. \A x \in Rq : SentOut(x)' <=> SentOut(x)
  BY <1>1, SentOutStays
<1>9. \A x \in Rq : OnWay(x)' => OnWay(x)
  BY <1>1, <1>8 DEF OnWay
<1>10. \A c, n : Given(c, n) => Given(c, n)'
  BY <1>1 DEF Given
<1>11. Numbered'
  <2>1. (invalid \subseteq Bridges)'
    BY <1>1 DEF ObjectInv, Numbered
  <2>2. \A b \in Bridges : Live(b)' \/ b \in invalid' => Given(b.conn, b.oid)'
    BY <1>1, <1>6, <1>10 DEF ObjectInv, Numbered
  <2>3. ASSUME NEW x \in Clients, NEW k \in known'[x] PROVE Given(k.conn, k.oid)'
    BY <1>1, <1>3, <1>10, <2>3 DEF ObjectInv, Numbered
  <2>4. \A x \in Rq : OnWay(x)' /\ x.oid # 0 => Given(x.via, x.oid)'
    BY <1>9, <1>10 DEF ObjectInv, Numbered
  <2>5. \A x \in Ports : \A y \in opened'[x] : y.oid < nextoid'[x]
    BY <1>1 DEF ObjectInv, Numbered
  <2> QED
    BY <2>1, <2>2, <2>3, <2>4, <2>5, Zenon DEF Numbered
<1>12. Distinct'
  <2>1. \A b, d \in Bridges : Live(b)' /\ Live(d)' /\ Same(b.conn, b.oid, d)' => b = d
    BY <1>6 DEF ObjectInv, Distinct, Same
  <2>2. \A c \in Conns : \A m \in back'[c] : \A b \in m.objects : b.conn = c
    BY <1>1 DEF ObjectInv, Distinct
  <2>3. \A b \in Bridges : InBack(b)' => ~Ref(b)'
    BY <1>5, <1>6 DEF ObjectInv, Distinct
  <2> QED
    BY <2>1, <2>2, <2>3, Zenon DEF Distinct
<1>13. Delivered'
  <2>1. \A m, n \in Rs : Under(m)' /\ Under(n)' =>
          \A b \in m.objects : b \in n.objects => m.tag = n.tag
    BY <1>7 DEF ObjectInv, Delivered
  <2>2. \A m \in Rs : Under(m)' /\ m.objects # {} => m.client \in Clients
    BY <1>7 DEF ObjectInv, Delivered
  <2>3. \A b \in Bridges : Coming(b)' => ~InHand(b)'
    BY <1>5, <1>6 DEF ObjectInv, Delivered
  <2>4. ASSUME NEW x \in Clients, NEW y \in Clients, NEW b \in owned'[x], b \in owned'[y]
        PROVE  x = y
    <3>1. \A z \in Clients : b \in owned[z] => InHand(b) /\ b \in Bridges
      BY DEF InHand
    <3>2. CASE b \in rs.objects
      <4>1. ~InHand(b)
        BY <1>3, <3>2 DEF ObjectInv, Delivered
      <4> QED
        BY <1>1, <2>4, <3>1, <4>1
    <3>3. CASE b \notin rs.objects
      <4>1. b \in owned[x] /\ b \in owned[y]
        BY <1>1, <2>4, <3>3
      <4> QED
        BY <4>1 DEF ObjectInv, Delivered
    <3> QED
      BY <3>2, <3>3
  <2> QED
    BY <2>1, <2>2, <2>3, <2>4, Zenon DEF Delivered
<1>14. Unused'
  <2> SUFFICES ASSUME NEW x \in Rq, OnWay(x)', x.client = Local, x.oid # 0,
                      NEW b \in Bridges, Live(b)', Same(x.via, x.oid, b)
               PROVE  FALSE
    BY DEF Unused, Same
  <2> QED
    BY <1>6, <1>9 DEF ObjectInv, Unused
<1>15. Claimed'
  <2>1. ASSUME NEW k, NEW c, NEW n, Mine(k, c, n) PROVE Mine(k, c, n)'
    <3>1. \A b \in Bridges : Coming(b)' => ~Same(c, n, b)
      BY <1>6, <2>1 DEF Mine
    <3>2. ASSUME NEW x \in Clients, NEW b \in owned'[x], Same(c, n, b) PROVE x = k
      <4>1. b \notin rs.objects
        BY <1>3, <2>1, <3>2 DEF Mine
      <4>2. b \in owned[x]
        BY <1>1, <3>2, <4>1
      <4> QED
        BY <2>1, <3>2, <4>2 DEF Mine
    <3> QED
      BY <3>1, <3>2 DEF Mine, Same
  <2>2. ASSUME NEW b \in rs.objects PROVE Mine(rs.client, b.conn, b.oid)'
    <3>1. ASSUME NEW d \in Bridges, Coming(d)', Same(b.conn, b.oid, d) PROVE FALSE
      <4>1. Live(d)
        BY <1>6, <3>1 DEF Live, Ref, Coming
      <4>2. b = d
        BY <1>3, <3>1, <4>1 DEF ObjectInv, Distinct
      <4> QED
        BY <1>6, <2>2, <3>1, <4>2
    <3>2. ASSUME NEW x \in Clients, NEW d \in owned'[x], Same(b.conn, b.oid, d)
          PROVE  x = rs.client
      <4> SUFFICES ASSUME x # rs.client PROVE FALSE
        OBVIOUS
      <4>1. d \in owned[x] /\ d \in Bridges
        BY <1>1, <3>2
      <4>2. InHand(d) /\ Live(d)
        BY <4>1 DEF InHand, Live, Ref
      <4>3. b = d
        BY <1>3, <3>2, <4>1, <4>2 DEF ObjectInv, Distinct
      <4> QED
        BY <1>3, <4>2, <4>3 DEF ObjectInv, Delivered
    <3> QED
      BY <3>1, <3>2 DEF Mine, Same
  <2>3. ASSUME NEW x \in Clients, NEW k \in known'[x] PROVE Mine(x, k.conn, k.oid)'
    <3>1. CASE k \in known[x]
      BY <2>1, <3>1 DEF ObjectInv, Claimed
    <3>2. CASE k \notin known[x]
      <4>1. PICK b \in rs.objects : x = rs.client /\ k.conn = b.conn /\ k.oid = b.oid
        BY <1>1, <2>3, <3>2
      <4>2. Mine(rs.client, b.conn, b.oid)'
        BY <2>2
      <4> QED
        BY <4>1, <4>2
    <3> QED
      BY <3>1, <3>2
  <2>4. \A x \in Rq : x \in Messages(queue') /\ x.client # Local /\ x.oid # 0
          => Mine(x.client, x.via, x.oid)'
    BY <1>1, <2>1 DEF ObjectInv, Claimed
  <2> QED
    BY <2>3, <2>4, Zenon DEF Claimed
<1>16. Disclaimed'
  <2> SUFFICES ASSUME NEW x \in Rq, SentOut(x)', x.oid # 0,
                      NEW b \in Bridges, Coming(b)' \/ InHand(b)', Same(x.via, x.oid, b)
               PROVE  FALSE
    BY DEF Disclaimed, Same
  <2>1. Coming(b) \/ InHand(b)
    BY <1>3, <1>5, <1>6
  <2> QED
    BY <1>8, <2>1 DEF ObjectInv, Disclaimed
<1>17. OnlyCloses'
  BY <1>9 DEF ObjectInv, OnlyCloses
<1> QED
  BY <1>11, <1>12, <1>13, <1>14, <1>15, <1>16, <1>17 DEF ObjectInv

-----------------------------------------------------------------------------
(***************************************************************************)
(* twibd closes only what nothing refers to.                               *)
(***************************************************************************)

\* The tables keep their type.
LEMMA NextTableType ==
  ASSUME MessageType, TableType, Next
  PROVE  TableType'
<1>1. opened' = opened => TableType'
  BY DEF TableType
<1>2. ASSUME NEW c \in Conns,
             \/ Connect(c) \/ Identified(c) \/ AddDevice(c) \/ RemoveDevice(c)
             \/ Destroy(c) \/ Receive(c)
      PROVE  opened' = opened
  BY <1>2 DEF Connect, Identified, AddDevice, RemoveDevice, Destroy, Receive
<1>3. ASSUME NEW c \in Conns, NEW cut \in BOOLEAN, NEW reboot \in MayReboot,
             Fail(c, cut, reboot)
      PROVE  TableType'
  BY <1>3, PortFacts DEF Fail, TableType
<1>4. ASSUME NEW c \in Conns, Handle(c) PROVE TableType'
  <2> DEFINE rq == Head(wire[c])
             x == [oid |-> nextoid[Port(c)], client |-> rq.client]
  <2>1. rq \in Rq /\ wire[c] # <<>>
    BY <1>4, HandleFacts, WireElems
  <2>2. Port(c) \in Ports /\ x \in [oid : Nat, client : Callers]
    BY <2>1, PortFacts, KindFacts DEF MessageType
  <2>3. \/ opened' = [opened EXCEPT ![Port(c)] = @ \cup {x}]
        \/ opened' = opened
        \/ opened' = [opened EXCEPT ![Port(c)] = {}]
        \/ opened' = [opened EXCEPT ![Port(c)] = @ \ {y \in opened[Port(c)] : y.oid = rq.oid}]
    BY <1>4 DEF Handle, consoleVars
  <2> HIDE DEF rq, x
  <2> QED
    BY <2>2, <2>3 DEF TableType
<1>5. ASSUME NEW cl \in Clients, AddClient(cl) \/ PostRequest(cl) \/ RemoveClient(cl)
      PROVE  opened' = opened
  BY <1>5 DEF AddClient, PostRequest, RemoveClient
<1>6. ASSUME NEW p \in Producers, AnswerRequest(p) \/ LockDevice(p) \/ DispatchResponse(p)
      PROVE  opened' = opened
  BY <1>6 DEF AnswerRequest, LockDevice, DispatchResponse
<1>7. ASSUME SendRequest PROVE opened' = opened
  BY <1>7 DEF SendRequest
<1> QED
  BY <1>1, <1>2, <1>3, <1>4, <1>5, <1>6, <1>7, Zenon DEF Next

\* Every step keeps the invariant as long as no console restarts, which would
\* give ids out again.
LEMMA NextObjectInv ==
  ASSUME MayReboot = {FALSE}, PlaceInv, MessageType', MapInv, TableType, Reached, ObjectInv, Next
  PROVE  ObjectInv'
<1>0. MessageType /\ \A x \in Ports : \A y \in opened[x] : y.oid < nextoid[x]
  BY DEF PlaceInv, ObjectInv, Numbered
<1> USE <1>0
<1>1. ASSUME Releases, opened' = opened \/ \A x \in Ports : opened'[x] \subseteq opened[x]
      PROVE  ObjectInv'
  <2>1. \A x \in Ports : \A y \in opened'[x] : y.oid < nextoid[x]
    BY <1>1
  <2> QED
    BY <1>1, <2>1, ReleaseKeeps
<1>2. ASSUME NEW c \in Conns,
             \/ Connect(c) \/ Identified(c) \/ RemoveDevice(c)
             \/ \E cut \in BOOLEAN, reboot \in MayReboot : Fail(c, cut, reboot)
      PROVE  ObjectInv'
  <2>1. Releases /\ \A x \in Ports : opened'[x] \subseteq opened[x]
    BY <1>2, QuietReleases
  <2> QED
    BY <1>1, <2>1
<1>3. ASSUME NEW c \in Conns, AddDevice(c) \/ Destroy(c) PROVE ObjectInv'
  <2>1. opened' = opened
    BY <1>3 DEF AddDevice, Destroy
  <2>2. Releases
    BY <1>3, AddDeviceReleases, DestroyReleases
  <2> QED
    BY <1>1, <2>1, <2>2
<1>4. ASSUME NEW c \in Conns, Receive(c) \/ Handle(c) PROVE ObjectInv'
  BY <1>4, ReceiveObjectInv, HandleObjectInv
<1>5. ASSUME NEW cl \in Clients, AddClient(cl) \/ RemoveClient(cl) PROVE ObjectInv'
  <2>1. opened' = opened
    BY <1>5 DEF AddClient, RemoveClient
  <2>2. Releases
    BY <1>5, ClientReleases
  <2> QED
    BY <1>1, <2>1, <2>2
<1>6. ASSUME NEW cl \in Clients, PostRequest(cl) PROVE ObjectInv'
  BY <1>6, PostObjectInv
<1>7. ASSUME NEW p \in Producers, AnswerRequest(p) PROVE ObjectInv'
  <2>1. opened' = opened
    BY <1>7 DEF AnswerRequest
  <2>2. Releases
    BY <1>7, AnswerReleases
  <2> QED
    BY <1>1, <2>1, <2>2
<1>8. ASSUME NEW p \in Producers, LockDevice(p) PROVE ObjectInv'
  BY <1>8, LockObjectInv
<1>9. ASSUME NEW p \in Producers, DispatchResponse(p) PROVE ObjectInv'
  <2>1. opened' = opened
    BY <1>9 DEF DispatchResponse
  <2>2. CASE Delivery(p)
    BY <2>2, DeliveryObjectInv
  <2>3. CASE Undelivered(p)
    BY <1>1, <2>1, <2>3, DropReleases
  <2> QED
    BY <1>9, <2>2, <2>3, DispatchCases
<1>10. ASSUME SendRequest PROVE ObjectInv'
  <2>1. opened' = opened
    BY <1>10 DEF SendRequest
  <2> QED
    BY <1>1, <1>10, <2>1, SendReleases
<1> QED
  BY <1>2, <1>3, <1>4, <1>5, <1>6, <1>7, <1>8, <1>9, <1>10, Zenon DEF Next

\* What is wanted follows: the close of an object that a client owns would be the
\* close of an object that is referred to.
LEMMA ClosedUnowned ==
  ASSUME MessageType, ObjectInv
  PROVE  OwnedNotClosed
<1> USE BridgeFacts
<1> SUFFICES ASSUME NEW rq \in InFlight, rq.client = Local, rq.oid # 0,
                    rq.device # ClientIdAsDevice, NEW cl \in Clients, NEW b \in owned[cl],
                    b.device = rq.device, b.oid = rq.oid
             PROVE  FALSE
  BY DEF OwnedNotClosed
<1>1. rq \in Rq /\ OnWay(rq)
  <2>1. CASE rq \in Messages(queue) /\ rq.kind = "rq"
    BY <2>1, KindFacts DEF OnWay
  <2>2. CASE rq \in disp.rq
    BY <2>2 DEF OnWay, SentOut, MessageType
  <2>3. CASE \E c \in Conns : rq \in Elems(wire[c])
    BY <2>3, WireElems DEF OnWay, SentOut
  <2>4. \/ rq \in Messages(queue) /\ rq.kind = "rq"
        \/ rq \in disp.rq
        \/ \E c \in Conns : rq \in Elems(wire[c])
    BY Zenon DEF InFlight, Elems
  <2> QED
    BY <2>1, <2>2, <2>3, <2>4
<1>2. PICK d \in Bridges : rq = CloseOf(d)
  BY <1>1 DEF ObjectInv, OnlyCloses
<1>3. rq.via = d.conn /\ rq.oid = d.oid /\ rq.device = d.device
  BY <1>2, CloseFacts
<1>4. b \in Bridges /\ Live(b)
  BY DEF Live, Ref, InHand
<1>5. Same(rq.via, rq.oid, b)
  BY <1>3, <1>4 DEF Same, Port, Bridges, BridgeObject
<1> QED
  BY <1>1, <1>4, <1>5 DEF ObjectInv, Unused

-----------------------------------------------------------------------------
(***************************************************************************)
(* Whom an object is for.                                                  *)
(***************************************************************************)

\* The object is in a response to the client, or the client owns it.
For(b, x) == b \in owned[x] \/ \E m \in Rs : Under(m) /\ m.client = x /\ b \in m.objects

\* That is so of what comes and what is in hand.
LEMMA ForFacts ==
  ASSUME MessageType, ObjectInv, NEW b \in Bridges
  PROVE  Coming(b) \/ InHand(b) <=> \E x \in Clients : For(b, x)
<1> USE BridgeFacts
<1>1. Coming(b) <=> \E m \in Rs : Under(m) /\ b \in m.objects
  BY KindFacts DEF Coming, InQueue, InBack, Under
<1>2. \A m \in Rs : Under(m) /\ b \in m.objects => m.client \in Clients
  BY DEF ObjectInv, Delivered
<1> QED
  BY <1>1, <1>2 DEF For, InHand

\* The object a console gives out.
NewFor(b, x) ==
  \E c \in Conns : /\ Handle(c) /\ Head(wire[c]).command = "open"
                   /\ b = BridgeObject(c, nextoid[Port(c)]) /\ x = Head(wire[c]).client
                   /\ \E y \in opened'[Port(c)] : y.oid = b.oid

\* It is for one client from then on.
LEMMA NextFor ==
  ASSUME MayReboot = {FALSE}, MessageType, TableType, Next,
         NEW b \in Bridges, NEW x \in Clients, For(b, x)'
  PROVE  For(b, x) \/ NewFor(b, x)
<1> USE BridgeFacts
<1>1. ASSUME owned'[x] \subseteq owned[x],
             \A m \in Rs : Under(m)' => Under(m) \/ m.objects = {}
      PROVE  For(b, x)
  BY <1>1 DEF For
<1>2. Releases => For(b, x)
  <2>1. ASSUME Releases PROVE \A m \in Rs : Under(m)' => Under(m) \/ m.objects = {}
    BY <2>1, ReleaseFacts
  <2>2. Releases => owned'[x] \subseteq owned[x]
    BY DEF Releases
  <2> QED
    BY <1>1, <2>1, <2>2
<1>3. ASSUME NEW c \in Conns,
             \/ Connect(c) \/ Identified(c) \/ RemoveDevice(c)
             \/ \E cut \in BOOLEAN, reboot \in MayReboot : Fail(c, cut, reboot)
      PROVE  For(b, x)
  BY <1>2, <1>3, QuietReleases
<1>4. ASSUME NEW c \in Conns, AddDevice(c) \/ Destroy(c) PROVE For(b, x)
  BY <1>2, <1>4, AddDeviceReleases, DestroyReleases
<1>5. ASSUME NEW c \in Conns, Receive(c) PROVE For(b, x)
  <2>1. PICK rs \in back[c] \cap Rs :
          /\ back' = [back EXCEPT ![c] = @ \ {rs}]
          /\ \A m \in Messages(queue') :
               \/ m \in Messages(queue) \/ m = rs
               \/ \E d \in Bridges : m = CloseOf(d) /\ Ref(d) /\ ~Ref(d)'
    BY <1>5, ReceiveObjects
  <2>2. \A d \in Conns : back'[d] \subseteq back[d]
    BY <2>1 DEF MessageType
  <2>3. \A m \in Rs : Under(m)' => Under(m)
    BY <2>1, <2>2, KindFacts, CloseFacts DEF Under
  <2>4. owned' = owned
    BY <1>5 DEF Receive
  <2> QED
    BY <1>1, <2>3, <2>4
<1>6. ASSUME NEW c \in Conns, Handle(c) PROVE For(b, x) \/ NewFor(b, x)
  <2> DEFINE rq == Head(wire[c])
             n == nextoid[Port(c)]
  <2>1. PICK rs \in Rs :
          /\ rs.client = rq.client
          /\ back' = [back EXCEPT ![c] = @ \cup {rs}]
          /\ \/ /\ rq.command = "open" /\ rs.objects = {BridgeObject(c, n)}
                /\ opened' = [opened EXCEPT ![Port(c)] =
                                @ \cup {[oid |-> n, client |-> rq.client]}]
             \/ rs.objects = {}
    BY <1>6, HandleObjects, ZenonT(40)
  <2>2. \A d \in Conns : \A m \in back'[d] : m \in back[d] \/ m = rs
    BY <2>1 DEF MessageType
  <2>3. UNCHANGED <<queue, owned>>
    BY <1>6 DEF Handle
  <2>4. \A m \in Rs : Under(m)' => Under(m) \/ m = rs
    BY <2>2, <2>3 DEF Under
  <2> HIDE DEF rq, n
  <2>5. \/ For(b, x)
        \/ x = rq.client /\ rq.command = "open" /\ b = BridgeObject(c, n) /\ rs.objects # {}
    BY <2>1, <2>3, <2>4 DEF For
  <2>6. CASE x = rq.client /\ rq.command = "open" /\ b = BridgeObject(c, n) /\ rs.objects # {}
    <3>1. opened' = [opened EXCEPT ![Port(c)] = @ \cup {[oid |-> n, client |-> rq.client]}]
      BY <2>1, <2>6
    <3>2. [oid |-> n, client |-> rq.client] \in opened'[Port(c)]
      BY <3>1, PortFacts DEF TableType
    <3>3. b.oid = n
      BY <2>6 DEF BridgeObject
    <3>4. \E y \in opened'[Port(c)] : y.oid = b.oid
      BY <3>2, <3>3
    <3> QED
      BY <1>6, <2>6, <3>4 DEF NewFor, rq, n
  <2> QED
    BY <2>5, <2>6
<1>7. ASSUME NEW cl \in Clients, AddClient(cl) \/ RemoveClient(cl) PROVE For(b, x)
  BY <1>2, <1>7, ClientReleases
<1>8. ASSUME NEW cl \in Clients, PostRequest(cl) PROVE For(b, x)
  <2>1. PICK rq \in Rq : Messages(queue') = Messages(queue) \cup {rq}
    BY <1>8, PostObjects
  <2>2. UNCHANGED <<owned, back>>
    BY <1>8 DEF PostRequest
  <2>3. \A m \in Rs : Under(m)' => Under(m)
    BY <2>1, <2>2, KindFacts DEF Under
  <2> QED
    BY <1>1, <2>2, <2>3
<1>9. ASSUME NEW p \in Producers, AnswerRequest(p) PROVE For(b, x)
  BY <1>2, <1>9, AnswerReleases
<1>10. ASSUME NEW p \in Producers, LockDevice(p) PROVE For(b, x)
  <2>1. queue[p] # <<>> /\ queue' = Popped(p)
    BY <1>10, LockFacts
  <2>2. \A m \in Messages(queue') : m \in Messages(queue)
    BY <2>1, PoppedMessages
  <2>3. owned'[x] \subseteq owned[x] /\ back' = back
    <3>1. \/ owned' = owned
          \/ owned' = [owned EXCEPT ![Head(queue[p]).client] = @ \ Disowned(Head(queue[p]))]
      BY <1>10 DEF LockDevice
    <3>2. back' = back
      BY <1>10 DEF LockDevice
    <3> QED
      BY <3>1, <3>2 DEF MessageType
  <2>4. \A m \in Rs : Under(m)' => Under(m)
    BY <2>2, <2>3 DEF Under
  <2> QED
    BY <1>1, <2>3, <2>4
<1>11. ASSUME NEW p \in Producers, DispatchResponse(p) PROVE For(b, x)
  <2>1. CASE Undelivered(p)
    BY <1>2, <2>1, DropReleases
  <2>2. CASE Delivery(p)
    <3>1. PICK rs \in Rs :
            /\ rs.kind = "rs" /\ rs.client \in Clients
            /\ Messages(queue) = {rs} \cup Messages(queue')
            /\ \A y \in Clients : owned'[y] = IF y = rs.client THEN owned[y] \cup rs.objects
                                                               ELSE owned[y]
            /\ back' = back
      BY <2>2, DeliveryObjects
    <3>2. Under(rs) /\ \A m \in Rs : Under(m)' => Under(m)
      BY <3>1 DEF Under
    <3> QED
      BY <3>1, <3>2 DEF For
  <2> QED
    BY <1>11, <2>1, <2>2, DispatchCases
<1>12. ASSUME SendRequest PROVE For(b, x)
  BY <1>2, <1>12, SendReleases
<1> QED
  BY <1>3, <1>4, <1>5, <1>6, <1>7, <1>8, <1>9, <1>10, <1>11, <1>12, Zenon DEF Next

-----------------------------------------------------------------------------
(***************************************************************************)
(* What the tables hold.                                                   *)
(***************************************************************************)

\* The console handles one request at a time.
LEMMA HandleOne ==
  ASSUME MessageType, NEW c \in Conns, NEW d \in Conns, Handle(c), Handle(d)
  PROVE  c = d
<1> SUFFICES ASSUME c # d PROVE FALSE
  OBVIOUS
<1>1. wire[c] # <<>> /\ wire'[c] = Tail(wire[c]) /\ wire'[c] = wire[c]
  BY HandleFacts DEF MessageType
<1> DEFINE s == wire[c]
<1>2. s \in Seq(Rq) /\ s # <<>>
  BY <1>1 DEF MessageType
<1>3. Tail(s) = s
  BY <1>1
<1> HIDE DEF s
<1>4. Len(s) \in Nat /\ Len(Tail(s)) = Len(s) - 1
  BY <1>2, HeadTailProperties
<1> QED
  BY <1>3, <1>4

\* The request that a console opens an object for, and the one it closes it for.
OpensAt(c, x, y) ==
  /\ Handle(c) /\ Head(wire[c]).command = "open" /\ x = Port(c)
  /\ y.oid = nextoid[x] /\ y.client = Head(wire[c]).client
ClosesAt(c, x, y) ==
  /\ Handle(c) /\ x = Port(c)
  /\ Head(wire[c]).command = "close" /\ Head(wire[c]).oid \in {0, y.oid}
  /\ Head(wire[c]).oid = 0 => c \in Usb

\* Tables change only then, and when a TCP connection fails.
LEMMA NextOpened ==
  ASSUME MayReboot = {FALSE}, MessageType, TableType, flagged \in [Conns -> BOOLEAN], Next,
         NEW x \in Ports
  PROVE  /\ \A y \in opened'[x] : y \in opened[x] \/ \E c \in Conns : OpensAt(c, x, y)
         /\ \A y \in opened[x] : \/ y \in opened'[x]
                                 \/ \E c \in Conns : c \notin Usb /\ x = Port(c) /\ flagged'[c]
                                 \/ \E c \in Conns : ClosesAt(c, x, y)
<1> DEFINE Goal == /\ \A y \in opened'[x] : y \in opened[x] \/ \E c \in Conns : OpensAt(c, x, y)
                   /\ \A y \in opened[x] :
                        \/ y \in opened'[x]
                        \/ \E c \in Conns : c \notin Usb /\ x = Port(c) /\ flagged'[c]
                        \/ \E c \in Conns : ClosesAt(c, x, y)
<1>1. opened' = opened => Goal
  OBVIOUS
<1>2. ASSUME NEW c \in Conns,
             \/ Connect(c) \/ Identified(c) \/ AddDevice(c) \/ RemoveDevice(c)
             \/ Destroy(c) \/ Receive(c)
      PROVE  opened' = opened
  BY <1>2 DEF Connect, Identified, AddDevice, RemoveDevice, Destroy, Receive
<1>3. ASSUME NEW c \in Conns, NEW cut \in BOOLEAN, NEW reboot \in MayReboot,
             Fail(c, cut, reboot)
      PROVE  Goal
  <2>1. flagged'[c]
    BY <1>3 DEF Fail
  <2>2. opened' = opened \/ (c \notin Usb /\ opened' = [opened EXCEPT ![Port(c)] = {}])
    BY <1>3 DEF Fail
  <2>3. CASE c \notin Usb /\ opened' = [opened EXCEPT ![Port(c)] = {}]
    <3>1. opened'[x] = opened[x] \/ (x = Port(c) /\ opened'[x] = {})
      BY <2>3 DEF TableType
    <3> QED
      BY <2>1, <2>3, <3>1
  <2> QED
    BY <1>1, <2>2, <2>3
<1>4. ASSUME NEW c \in Conns, Handle(c) PROVE Goal
  <2> DEFINE rq == Head(wire[c])
             z == [oid |-> nextoid[Port(c)], client |-> rq.client]
  <2>1. \/ /\ rq.command = "open"
           /\ opened' = [opened EXCEPT ![Port(c)] = @ \cup {z}]
        \/ /\ \A y \in opened[x] :
                y \notin opened'[x] =>
                  x = Port(c) /\ rq.command = "close" /\ rq.oid \in {0, y.oid}
                    /\ (rq.oid = 0 => c \in Usb)
           /\ opened'[x] \subseteq opened[x]
    BY <1>4, HandleObjects
  <2>2. z.oid = nextoid[Port(c)] /\ z.client = rq.client
    OBVIOUS
  <2> HIDE DEF z
  <2>3. CASE /\ rq.command = "open"
             /\ opened' = [opened EXCEPT ![Port(c)] = @ \cup {z}]
    <3>1. \/ opened'[x] = opened[x]
          \/ x = Port(c) /\ opened'[x] = opened[x] \cup {z}
      BY <2>3 DEF TableType
    <3>2. x = Port(c) => OpensAt(c, x, z)
      BY <1>4, <2>2, <2>3 DEF OpensAt
    <3> QED
      BY <3>1, <3>2
  <2>4. CASE /\ \A y \in opened[x] :
                  y \notin opened'[x] =>
                    x = Port(c) /\ rq.command = "close" /\ rq.oid \in {0, y.oid}
                      /\ (rq.oid = 0 => c \in Usb)
             /\ opened'[x] \subseteq opened[x]
    <3>1. \A y \in opened[x] : y \notin opened'[x] => ClosesAt(c, x, y)
      BY <1>4, <2>4 DEF ClosesAt
    <3> QED
      BY <2>4, <3>1
  <2> QED
    BY <2>1, <2>3, <2>4
<1>5. ASSUME NEW cl \in Clients, AddClient(cl) \/ PostRequest(cl) \/ RemoveClient(cl)
      PROVE  opened' = opened
  BY <1>5 DEF AddClient, PostRequest, RemoveClient
<1>6. ASSUME NEW p \in Producers, AnswerRequest(p) \/ LockDevice(p) \/ DispatchResponse(p)
      PROVE  opened' = opened
  BY <1>6 DEF AnswerRequest, LockDevice, DispatchResponse
<1>7. ASSUME SendRequest PROVE opened' = opened
  BY <1>7 DEF SendRequest
<1> HIDE DEF Goal
<1>8. Goal
  BY <1>1, <1>2, <1>3, <1>4, <1>5, <1>6, <1>7, Zenon DEF Next
<1> QED
  BY <1>8 DEF Goal

\* An object in a table is for the client it was opened for.
OpenedFor ==
  \A b \in Bridges, x \in Clients :
    For(b, x) => \A y \in opened[Port(b.conn)] : y.oid = b.oid => y.client = x

\* Ids are given out once, so this stays so.
LEMMA NextOpenedFor ==
  ASSUME MayReboot = {FALSE}, MessageType, TableType, flagged \in [Conns -> BOOLEAN],
         ObjectInv, OpenedFor, Next
  PROVE  OpenedFor'
<1> USE BridgeFacts
<1> SUFFICES ASSUME NEW b \in Bridges, NEW x \in Clients, For(b, x)',
                    NEW y \in opened'[Port(b.conn)], y.oid = b.oid
             PROVE  y.client = x
  BY DEF OpenedFor, Port
<1> DEFINE z == Port(b.conn)
<1>1. z \in Ports /\ nextoid[z] \in Nat
  OBVIOUS
<1> HIDE DEF z
<1>2. For(b, x) \/ NewFor(b, x)
  BY NextFor
<1>3. y \in opened[z] \/ \E c \in Conns : OpensAt(c, z, y)
  BY <1>1, NextOpened DEF z
<1>4. For(b, x) => b.oid \in Nat /\ b.oid < nextoid[z]
  <2>1. For(b, x) => Live(b)
    BY ForFacts DEF Live, Ref, Coming
  <2> QED
    BY <2>1 DEF ObjectInv, Numbered, Given, z
<1>5. y \in opened[z] => y.oid \in Nat /\ y.oid < nextoid[z]
  BY <1>1 DEF ObjectInv, Numbered, TableType
<1>6. NewFor(b, x) => b.oid = nextoid[z]
  BY DEF NewFor, BridgeObject, z
<1>7. (\E c \in Conns : OpensAt(c, z, y)) => y.oid = nextoid[z]
  BY DEF OpensAt
<1>8. CASE For(b, x) /\ y \in opened[z]
  BY <1>8 DEF OpenedFor, z
<1>9. CASE NewFor(b, x) /\ \E c \in Conns : OpensAt(c, z, y)
  <2>1. PICK c \in Conns : Handle(c) /\ y.client = Head(wire[c]).client
    BY <1>9 DEF OpensAt
  <2>2. PICK d \in Conns : Handle(d) /\ x = Head(wire[d]).client
    BY <1>9 DEF NewFor
  <2> QED
    BY <2>1, <2>2, HandleOne
<1> QED
  BY <1>1, <1>2, <1>3, <1>4, <1>5, <1>6, <1>7, <1>8, <1>9

\* As long as no console has a TCP connection next to another, what a client has
\* from a TCP connection is in its table until the connection fails.
StillOpen ==
  TcpApart => \A b \in Bridges, x \in Clients :
    For(b, x) /\ b.conn \notin Usb /\ ~flagged[b.conn]
      => \E y \in opened[Port(b.conn)] : y.oid = b.oid

\* A request for an object of a TCP connection reaches that connection only.
LEMMA TcpReached ==
  ASSUME MessageType, Routed, Reached, ObjectInv, TcpApart,
         NEW c \in Conns, NEW rq \in Elems(wire[c]), rq.oid # 0
  PROVE  rq \in Rq /\ rq.via \in Conns /\ Port(rq.via) = Port(c)
<1> USE ConnAssumption
<1>1. rq \in Rq /\ OnWay(rq)
  BY WireElems DEF OnWay, SentOut
<1>2. PICK i \in 1..Len(wire[c]) : rq = wire[c][i]
  BY DEF Elems
<1>3. rq.device = DeviceOf[c]
  BY <1>2 DEF Routed
<1>4. Aimed(rq.oid, rq.device, rq.via)
  BY <1>1, KindFacts
<1>5. rq.via \in Conns /\ DeviceOf[rq.via] = DeviceOf[c]
  BY <1>3, <1>4 DEF Aimed
<1>6. link[rq.via] # "off"
  BY <1>1 DEF ObjectInv, Numbered, Given
<1>7. link[c] # "off"
  <2>1. wire[c] # <<>>
    BY DEF Elems
  <2> QED
    BY <2>1 DEF Reached
<1>8. c \notin Usb \/ rq.via \notin Usb => c = rq.via
  BY <1>5, <1>6, <1>7 DEF TcpApart, Made
<1>9. Port(rq.via) = Port(c)
  <2>1. CASE c \in Usb /\ rq.via \in Usb
    BY <1>5, <2>1 DEF Port
  <2>2. CASE c \notin Usb \/ rq.via \notin Usb
    BY <1>8, <2>2
  <2> QED
    BY <2>1, <2>2
<1> QED
  BY <1>1, <1>5, <1>9

\* It is closed only by a request for it, which nobody makes who has it.
LEMMA NextStillOpen ==
  ASSUME MayReboot = {FALSE}, MessageType, TableType, flagged \in [Conns -> BOOLEAN],
         Routed, Reached, ObjectInv, StillOpen, Next
  PROVE  StillOpen'
<1> USE BridgeFacts
<1> SUFFICES ASSUME TcpApart', NEW b \in Bridges, NEW x \in Clients, For(b, x)',
                    b.conn \notin Usb, ~flagged'[b.conn]
             PROVE  \E y \in opened'[Port(b.conn)] : y.oid = b.oid
  BY DEF StillOpen, Port
<1>1. TcpApart
  BY MadeStays DEF TcpApart, Made
<1>2. ~flagged[b.conn]
  BY FlagStays
<1>3. b.conn \in Conns /\ Port(b.conn) = b.conn /\ Port(b.conn) \in Ports
  BY DEF Port
<1>4. \A c \in Conns : Port(c) = b.conn => c = b.conn
  BY <1>3, PortAssumption, ConnAssumption DEF Port
<1>5. CASE For(b, x)
  <2>1. PICK y \in opened[Port(b.conn)] : y.oid = b.oid
    BY <1>1, <1>2, <1>5 DEF StillOpen
  <2>2. SUFFICES ASSUME y \notin opened'[Port(b.conn)] PROVE FALSE
    BY <2>1
  <2>3. PICK c \in Conns : ClosesAt(c, b.conn, y)
    BY <1>3, <1>4, <2>2, NextOpened
  <2>4. c = b.conn /\ Handle(c) /\ Head(wire[c]).oid = b.oid /\ b.oid # 0
    BY <1>3, <1>4, <2>1, <2>3 DEF ClosesAt
  <2>5. wire[c] # <<>>
    BY <2>4, HandleFacts
  <2>6. PICK rq \in Elems(wire[c]) : rq = Head(wire[c])
    BY <2>5, WireElems
  <2>7. rq \in Rq /\ Port(rq.via) = Port(c) /\ SentOut(rq)
    BY <1>1, <2>4, <2>6, TcpReached DEF SentOut
  <2>8. Same(rq.via, rq.oid, b)
    BY <2>4, <2>6, <2>7 DEF Same
  <2>9. Coming(b) \/ InHand(b)
    BY <1>5, ForFacts
  <2> QED
    BY <2>4, <2>6, <2>7, <2>8, <2>9 DEF ObjectInv, Disclaimed
<1>6. CASE NewFor(b, x)
  <2>1. PICK c \in Conns : /\ Handle(c) /\ Head(wire[c]).command = "open"
                           /\ b = BridgeObject(c, nextoid[Port(c)])
                           /\ \E y \in opened'[Port(c)] : y.oid = b.oid
    BY <1>6 DEF NewFor
  <2>2. b.conn = c
    BY <2>1 DEF BridgeObject
  <2> QED
    BY <2>1, <2>2
<1> QED
  BY <1>5, <1>6, NextFor

-----------------------------------------------------------------------------
(***************************************************************************)
(* Nothing of a departed client is forgotten.                              *)
(***************************************************************************)

\* A request of the client is queued or in the dispatcher's hands.
Waits(x) ==
  \/ \E m \in Messages(queue) : m.kind = "rq" /\ m.client = x
  \/ \E rq \in disp.rq : rq.client = x

\* A client whose last request is through has been freed.
FreedOwnsNothing == \A x \in Clients : status[x] = "gone" /\ ~Waits(x) => owned[x] = {}

\* FreeClient sees to that.
LEMMA FreeWaits ==
  ASSUME MessageType, NEW cl \in Clients, NEW q \in [Producers -> Seq(Rq \cup Rs)],
         NEW p \in Producers, FreeClient(cl, status', q, disp', p), held' = held,
         status'[cl] = "gone", ~Waits(cl)'
  PROVE  owned'[cl] = {}
<1> DEFINE st == status'
           d == disp'
<1> HIDE DEF st, d
<1>0. FreeClient(cl, st, q, d, p)
  BY DEF st, d
<1>1. /\ \A m \in Messages(q) : m \in Messages(queue')
      /\ ClientFreed(cl, st, q, d) => owned'[cl] = {}
  BY <1>0, FreeDestructs
<1>2. ClientFreed(cl, st, q, d)
  BY <1>1 DEF ClientFreed, Waits, st, d
<1> QED
  BY <1>1, <1>2

\* AddDevice posts only.
LEMMA AddDevicePosts ==
  ASSUME MessageType, NEW c \in Conns, AddDevice(c)
  PROVE  \A m \in Messages(queue) : m \in Messages(queue')
<1>1. PICK cs \in Seq(Closes) : queue' = Post(queue, Backend(c), cs)
  BY AddDeviceFacts
<1>2. cs \in Seq(Rq \cup Rs) /\ Backend(c) \in Producers
      /\ queue \in [Producers -> Seq(Rq \cup Rs)]
  BY KindFacts DEF Backend, Producers, MessageType
<1> QED
  BY <1>1, <1>2, PostMessages

\* The request twibd answers itself is the only one that leaves the queues.
LEMMA AnswerPosts ==
  ASSUME MessageType, NEW p \in Producers, AnswerRequest(p)
  PROVE  \E rq \in Rq, q \in [Producers -> Seq(Rq \cup Rs)] :
           /\ rq = Head(queue[p]) /\ ~Found(rq) /\ disp = Idle
           /\ UNCHANGED <<link, disp, status, held, back, wire, invalid, opened>>
           /\ FreeClient(rq.client, status', q, disp', "disp")
           /\ \A m \in Messages(queue) : m = rq \/ m \in Messages(q)
<1> DEFINE rq == Head(queue[p])
           rs == Response(rq, IF rq.device = Meta THEN "ok" ELSE "unrecognized_device", {})
           q == Post(Popped(p), "disp", <<rs>>)
<1>1. /\ queue[p] # <<>> /\ rq.kind = "rq" /\ ~Found(rq) /\ disp = Idle
      /\ FreeClient(rq.client, status, q, Idle, "disp")
      /\ UNCHANGED <<link, disp, status, held, back, wire, invalid, opened>>
  BY DEF AnswerRequest, Popped, Answer
<1>2. Popped(p) \in [Producers -> Seq(Rq \cup Rs)] /\ rq \in Rq
  BY <1>1, PoppedType, KindFacts
<1>3. rs \in Rs
  <2>1. {} \in Finite(Bridges)
    BY FiniteFacts
  <2>2. (IF rq.device = Meta THEN "ok" ELSE "unrecognized_device") \in Results
    BY DEF Results
  <2> QED
    BY <1>2, <2>1, <2>2, ResponseFacts
<1>4. Messages(queue) = {rq} \cup Messages(Popped(p))
  BY <1>1, PoppedMessages
<1> HIDE DEF rq, rs
<1>5. <<rs>> \in Seq(Rq \cup Rs) /\ "disp" \in Producers
  BY <1>3 DEF Producers
<1>6. /\ q \in [Producers -> Seq(Rq \cup Rs)]
      /\ Messages(q) = Messages(Popped(p)) \cup Elems(<<rs>>)
  BY <1>2, <1>5, PostFacts, PostMessages
<1> HIDE DEF q
<1>7. FreeClient(rq.client, status', q, disp', "disp")
  BY <1>1
<1>8. \A m \in Messages(queue) : m = rq \/ m \in Messages(q)
  BY <1>4, <1>6
<1> QED
  BY <1>1, <1>2, <1>6, <1>7, <1>8 DEF rq

\* Every step keeps that: a client is freed by the step that takes its last
\* request, or by RemoveClient.
LEMMA NextFreed ==
  ASSUME MayReboot = {FALSE}, MessageType, TableType, \A m, n \in disp.rq : m = n,
         status \in [Clients -> {"off", "on", "gone"}], FreedOwnsNothing, Next
  PROVE  FreedOwnsNothing'
<1> SUFFICES ASSUME NEW x \in Clients, status'[x] = "gone", ~Waits(x)'
             PROVE  owned'[x] = {}
  BY DEF FreedOwnsNothing
<1>1. ASSUME status[x] = "gone", Waits(x) => Waits(x)', owned'[x] \subseteq owned[x]
      PROVE  owned'[x] = {}
  BY <1>1 DEF FreedOwnsNothing
<1>2. ASSUME \A m \in Messages(queue) : m.kind = "rq" /\ m.client = x => m \in Messages(queue'),
             disp' = disp
      PROVE  Waits(x) => Waits(x)'
  BY <1>2 DEF Waits
<1>3. ASSUME NEW c \in Conns,
             \/ Connect(c) \/ Identified(c) \/ RemoveDevice(c)
             \/ \E cut \in BOOLEAN, reboot \in MayReboot : Fail(c, cut, reboot)
      PROVE  owned'[x] = {}
  <2>1. UNCHANGED <<queue, disp, owned, status>>
    BY <1>3, QuietReleases
  <2> QED
    BY <1>1, <1>2, <2>1
<1>4. ASSUME NEW c \in Conns, AddDevice(c) \/ Destroy(c) \/ Receive(c) PROVE owned'[x] = {}
  <2>1. \A m \in Messages(queue) : m \in Messages(queue')
    BY <1>4, AddDevicePosts, DestroyReleases, ReceiveObjects
  <2>2. UNCHANGED <<disp, owned, status>>
    BY <1>4 DEF AddDevice, Destroy, Receive
  <2> QED
    BY <1>1, <1>2, <2>1, <2>2
<1>5. ASSUME NEW c \in Conns, Handle(c) PROVE owned'[x] = {}
  <2>1. UNCHANGED <<queue, disp, owned, status>>
    BY <1>5 DEF Handle
  <2> QED
    BY <1>1, <1>2, <2>1
<1>6. ASSUME NEW cl \in Clients, AddClient(cl) PROVE owned'[x] = {}
  <2>1. UNCHANGED <<queue, disp, owned>> /\ status' = [status EXCEPT ![cl] = "on"]
    BY <1>6 DEF AddClient
  <2> QED
    BY <1>1, <1>2, <2>1
<1>7. ASSUME NEW cl \in Clients, PostRequest(cl) PROVE owned'[x] = {}
  <2>1. UNCHANGED <<disp, owned, status>>
    BY <1>7 DEF PostRequest
  <2>2. \A m \in Messages(queue) : m \in Messages(queue')
    BY <1>7, PostObjects
  <2> QED
    BY <1>1, <1>2, <2>1, <2>2
<1>8. ASSUME NEW cl \in Clients, RemoveClient(cl) PROVE owned'[x] = {}
  <2>1. /\ FreeClient(cl, status', queue, disp', "front") /\ held' = held /\ disp' = disp
        /\ status' = [status EXCEPT ![cl] = "gone"]
    BY <1>8 DEF RemoveClient
  <2>2. queue \in [Producers -> Seq(Rq \cup Rs)] /\ "front" \in Producers
    BY DEF MessageType, Producers
  <2>3. CASE x = cl
    BY <2>1, <2>2, <2>3, FreeWaits
  <2>4. CASE x # cl
    <3> DEFINE st == status'
               d == disp'
    <3> HIDE DEF st, d
    <3>1. FreeClient(cl, st, queue, d, "front")
      BY <2>1 DEF st, d
    <3>2. /\ owned'[x] \subseteq owned[x]
          /\ \A m \in Messages(queue) : m \in Messages(queue')
      BY <2>1, <2>2, <3>1, FreeDestructs
    <3> QED
      BY <1>1, <1>2, <2>1, <2>4, <3>2
  <2> QED
    BY <2>3, <2>4
<1>9. ASSUME NEW cl, NEW q \in [Producers -> Seq(Rq \cup Rs)], NEW p \in Producers,
             FreeClient(cl, status', q, disp', p), UNCHANGED <<held, status>>,
             Waits(x) /\ x # cl => \E m \in Messages(q) : m.kind = "rq" /\ m.client = x
      PROVE  owned'[x] = {}
  <2>1. CASE x = cl
    BY <1>9, <2>1, FreeWaits
  <2>2. CASE x # cl
    <3> DEFINE st == status'
               d == disp'
    <3> HIDE DEF st, d
    <3>1. FreeClient(cl, st, q, d, p)
      BY <1>9 DEF st, d
    <3>2. /\ owned'[x] \subseteq owned[x]
          /\ \A m \in Messages(q) : m \in Messages(queue')
      BY <1>9, <3>1, FreeDestructs
    <3>3. Waits(x) => Waits(x)'
      BY <1>9, <2>2, <3>2 DEF Waits
    <3> QED
      BY <1>1, <1>9, <3>2, <3>3
  <2> QED
    BY <2>1, <2>2
<1>10. ASSUME NEW p \in Producers, AnswerRequest(p) PROVE owned'[x] = {}
  <2>1. PICK rq \in Rq, q \in [Producers -> Seq(Rq \cup Rs)] :
          /\ disp = Idle /\ UNCHANGED <<status, held>>
          /\ FreeClient(rq.client, status', q, disp', "disp")
          /\ \A m \in Messages(queue) : m = rq \/ m \in Messages(q)
    BY <1>10, AnswerPosts
  <2>2. Waits(x) /\ x # rq.client => \E m \in Messages(q) : m.kind = "rq" /\ m.client = x
    BY <2>1 DEF Waits, Idle
  <2>3. "disp" \in Producers
    BY DEF Producers
  <2> QED
    BY <1>9, <2>1, <2>2, <2>3
<1>11. ASSUME NEW p \in Producers, LockDevice(p) PROVE owned'[x] = {}
  <2>1. queue[p] # <<>> /\ queue' = Popped(p) /\ disp.rq = {} /\ disp'.rq = {Head(queue[p])}
    BY <1>11, LockFacts
  <2>2. Messages(queue) = {Head(queue[p])} \cup Messages(queue')
    BY <2>1, PoppedMessages
  <2>3. Waits(x) => Waits(x)'
    BY <2>1, <2>2 DEF Waits
  <2>4. status' = status
    BY <1>11 DEF LockDevice
  <2>5. owned'[x] \subseteq owned[x]
    <3>1. \/ owned' = owned
          \/ owned' = [owned EXCEPT ![Head(queue[p]).client] = @ \ Disowned(Head(queue[p]))]
      BY <1>11 DEF LockDevice
    <3>2. owned \in [Clients -> Finite(Bridges)]
      BY DEF MessageType
    <3> QED
      BY <3>1, <3>2
  <2> QED
    BY <1>1, <2>3, <2>4, <2>5
<1>12. ASSUME NEW p \in Producers, DispatchResponse(p) PROVE owned'[x] = {}
  <2>1. UNCHANGED <<disp, status>>
    BY <1>12 DEF DispatchResponse
  <2>2. CASE Undelivered(p)
    <3>1. \A m \in Messages(queue) : m.kind = "rq" => m \in Messages(queue')
      BY <2>2, DropReleases
    <3>2. owned' = owned
      BY <2>2 DEF Undelivered
    <3> QED
      BY <1>1, <1>2, <2>1, <3>1, <3>2
  <2>3. CASE Delivery(p)
    <3>1. PICK rs \in Rs :
            /\ rs.kind = "rs" /\ status[rs.client] = "on"
            /\ Messages(queue) = {rs} \cup Messages(queue')
            /\ \A y \in Clients : owned'[y] = IF y = rs.client THEN owned[y] \cup rs.objects
                                                               ELSE owned[y]
      BY <2>3, DeliveryObjects
    <3>2. x # rs.client
      BY <2>1, <3>1
    <3>3. \A m \in Messages(queue) : m.kind = "rq" => m \in Messages(queue')
      BY <3>1
    <3> QED
      BY <1>1, <1>2, <2>1, <3>1, <3>2, <3>3
  <2> QED
    BY <1>12, <2>2, <2>3, DispatchCases
<1>13. ASSUME SendRequest PROVE owned'[x] = {}
  <2>1. PICK rq \in disp.rq : FreeClient(rq.client, status, queue, Idle, "disp")
    BY <1>13 DEF SendRequest
  <2>2. UNCHANGED <<status, held>> /\ disp' = Idle
    BY <1>13 DEF SendRequest
  <2>3. FreeClient(rq.client, status', queue, disp', "disp")
    BY <2>1, <2>2
  <2>4. Waits(x) /\ x # rq.client => \E m \in Messages(queue) : m.kind = "rq" /\ m.client = x
    BY <2>1 DEF Waits
  <2>5. queue \in [Producers -> Seq(Rq \cup Rs)] /\ "disp" \in Producers
    BY DEF MessageType, Producers
  <2> QED
    BY <1>9, <2>2, <2>3, <2>4, <2>5
<1> QED
  BY <1>3, <1>4, <1>5, <1>6, <1>7, <1>8, <1>10, <1>11, <1>12, <1>13, Zenon DEF Next

-----------------------------------------------------------------------------
(***************************************************************************)
(* Until a connection fails every object of the one console is watched.    *)
(***************************************************************************)

\* Where a request went, or an object is, the device map leads.
EntryStays ==
  NoneFailed =>
    /\ disp.rq # {} => devices[DeviceOf[disp.conn]] # NoConn
    /\ \A c \in Conns : wire[c] # <<>> => devices[DeviceOf[c]] # NoConn
    /\ \A id \in DeviceIds : opened[id] # {} => devices[id] # NoConn

\* A step without a failure erases no entry.
LEMMA MapGrows ==
  ASSUME MapType, flagged \in [Conns -> BOOLEAN], Next, NoneFailed'
  PROVE  /\ NoneFailed
         /\ \A id \in DeviceIds : devices[id] # NoConn => devices'[id] # NoConn
<1> USE ConnAssumption
<1>1. NoneFailed
  BY FlagStays DEF NoneFailed
<1>2. \A c \in Conns : ~RemoveDevice(c)
  BY <1>1 DEF NoneFailed, RemoveDevice
<1>3. ASSUME NEW c \in Conns, Connect(c) \/ AddDevice(c) \/ Destroy(c)
      PROVE  \A id \in DeviceIds : devices[id] # NoConn => devices'[id] # NoConn
  <2>1. devices' = devices \/ devices' = [devices EXCEPT ![DeviceOf[c]] = c]
    BY <1>3 DEF Connect, AddDevice, Destroy
  <2> QED
    BY <2>1 DEF MapType
<1> QED
  BY <1>1, <1>2, <1>3, MapActions

\* So the entry is there as long as nothing fails.
LEMMA NextEntryStays ==
  ASSUME MayReboot = {FALSE}, MessageType, MapInv, TableType,
         flagged \in [Conns -> BOOLEAN], EntryStays, Next
  PROVE  EntryStays'
<1> USE ConnAssumption
<1> SUFFICES ASSUME NoneFailed'
             PROVE  /\ disp'.rq # {} => devices'[DeviceOf[disp'.conn]] # NoConn
                    /\ \A c \in Conns : wire'[c] # <<>> => devices'[DeviceOf[c]] # NoConn
                    /\ \A id \in DeviceIds : opened'[id] # {} => devices'[id] # NoConn
  BY DEF EntryStays
<1>1. /\ NoneFailed
      /\ \A id \in DeviceIds : devices[id] # NoConn => devices'[id] # NoConn
  BY MapGrows DEF MapInv
<1>2. /\ disp.rq # {} => devices[DeviceOf[disp.conn]] # NoConn
      /\ \A c \in Conns : wire[c] # <<>> => devices[DeviceOf[c]] # NoConn
      /\ \A id \in DeviceIds : opened[id] # {} => devices[id] # NoConn
  BY <1>1 DEF EntryStays
<1>3. disp.rq # {} => disp.conn \in Conns
  BY DEF MessageType
<1>4. disp'.rq # {} => devices'[DeviceOf[disp'.conn]] # NoConn
  BY <1>1, <1>2, <1>3, NextUsed
<1>5. \A c \in Conns : wire'[c] # <<>> => devices'[DeviceOf[c]] # NoConn
  BY <1>1, <1>2, <1>3, NextUsed
<1>6. ASSUME NEW id \in DeviceIds, NEW y \in opened'[id] PROVE devices'[id] # NoConn
  <2>1. id \in Ports
    BY DEF Ports
  <2>2. CASE y \in opened[id]
    BY <1>1, <1>2, <2>2
  <2>3. ASSUME NEW c \in Conns, OpensAt(c, id, y) PROVE devices'[id] # NoConn
    <3>1. id = Port(c) /\ wire[c] # <<>>
      BY <2>3, HandleFacts DEF OpensAt
    <3>2. DeviceOf[c] = id
      BY <3>1, PortAssumption DEF Port
    <3> QED
      BY <1>1, <1>2, <3>1, <3>2
  <2> QED
    BY <2>1, <2>2, <2>3, NextOpened
<1> QED
  BY <1>4, <1>5, <1>6

\* An object that somebody refers to and nobody has closed.
Watch(b) == Live(b) /\ b \notin invalid

\* It stays so while references stay.
LEMMA WatchStays ==
  ASSUME NEW b, invalid' = invalid,
         \A cl \in Clients : owned[cl] \subseteq owned'[cl],
         \A c \in Conns : held[c] \subseteq held'[c] /\ back[c] \subseteq back'[c],
         \A m \in Messages(queue) : m.kind = "rs" => m \in Messages(queue'),
         Watch(b)
  PROVE  Watch(b)'
<1>1. InHand(b) => InHand(b)'
  BY DEF InHand
<1>2. InHeld(b) => InHeld(b)'
  BY DEF InHeld
<1>3. InBack(b) => InBack(b)'
  BY DEF InBack
<1>4. InQueue(b) => InQueue(b)'
  BY DEF InQueue
<1> QED
  BY <1>1, <1>2, <1>3, <1>4 DEF Watch, Live, Ref

\* Freeing a client closes what it alone referred to.
LEMMA FreeWatch ==
  ASSUME MessageType, NEW cl, NEW st, NEW q \in [Producers -> Seq(Rq \cup Rs)], NEW d,
         NEW p \in Producers, FreeClient(cl, st, q, d, p), UNCHANGED <<held, back, invalid>>,
         \A m \in Messages(queue) : m.kind = "rs" => m \in Messages(q),
         NEW b \in Bridges, Watch(b)
  PROVE  Watch(b)' \/ CloseOf(b) \in Messages(queue')
<1>1. /\ \A m \in Messages(q) : m \in Messages(queue')
      /\ \A x \in Clients, e \in Bridges : e \in owned[x] /\ e \notin invalid =>
           e \in owned'[x] \/ Ref(e)' \/ CloseOf(e) \in Messages(queue')
  BY FreeDestructs
<1>2. InHand(b) /\ b \notin invalid => Ref(b)' \/ CloseOf(b) \in Messages(queue')
  BY <1>1 DEF InHand, Ref
<1>3. InHeld(b) => InHeld(b)'
  BY DEF InHeld
<1>4. InBack(b) => InBack(b)'
  BY DEF InBack
<1>5. InQueue(b) => InQueue(b)'
  BY <1>1 DEF InQueue
<1> QED
  BY <1>2, <1>3, <1>4, <1>5 DEF Watch, Live, Ref

\* The dispatcher takes the object from its owner, to close it.
TakenAt(p, b) ==
  /\ LockDevice(p) /\ Head(queue[p]).command = "close" /\ Head(queue[p]).oid = b.oid

\* Without a failure an object goes unwatched only when its close is asked for.
LEMMA NextWatch ==
  ASSUME MayReboot = {FALSE}, MessageType, TableType, flagged \in [Conns -> BOOLEAN],
         \A c \in Conns : link[c] \in {"off", "listed"}, NoneFailed, NoneFailed', Next,
         NEW b \in Bridges, Watch(b)
  PROVE  \/ Watch(b)' \/ CloseOf(b) \in Messages(queue')
         \/ \E p \in Producers : TakenAt(p, b)
<1> DEFINE Goal == \/ Watch(b)' \/ CloseOf(b) \in Messages(queue')
                   \/ \E p \in Producers : TakenAt(p, b)
<1>1. ASSUME NEW c \in Conns,
             Connect(c) \/ Identified(c) \/ AddDevice(c)
      PROVE  Goal
  <2>1. UNCHANGED <<owned, held, back, invalid>>
    BY <1>1 DEF Connect, Identified, AddDevice
  <2>2. \A m \in Messages(queue) : m \in Messages(queue')
    BY <1>1, AddDevicePosts DEF Connect, Identified
  <2> QED
    BY <2>1, <2>2, WatchStays
<1>2. ASSUME NEW c \in Conns,
             \/ RemoveDevice(c) \/ Destroy(c)
             \/ \E cut \in BOOLEAN, reboot \in MayReboot : Fail(c, cut, reboot)
      PROVE  Goal
  BY <1>2 DEF NoneFailed, RemoveDevice, Destroy, Fail
<1>3. ASSUME NEW c \in Conns, Receive(c) PROVE Goal
  <2>1. PICK rs \in back[c] \cap Rs :
          /\ back' = [back EXCEPT ![c] = @ \ {rs}]
          /\ held' = [held EXCEPT ![c] = rs.objects]
          /\ rs \in Messages(queue')
    BY <1>3, ReceiveObjects
  <2>2. /\ \A m \in Messages(queue) : m \in Messages(queue')
        /\ \A e \in held[c] \ invalid : Ref(e)' \/ CloseOf(e) \in Messages(queue')
    BY <1>3, ReceiveObjects
  <2>3. UNCHANGED <<owned, invalid>>
    BY <1>3 DEF Receive
  <2>4. InHand(b) => InHand(b)'
    BY <2>3 DEF InHand
  <2>5. InQueue(b) => InQueue(b)'
    BY <2>2 DEF InQueue
  <2>6. InHeld(b) => InHeld(b)' \/ b \in held[c]
    BY <2>1 DEF InHeld, MessageType
  <2>7. InBack(b) => InBack(b)' \/ InQueue(b)'
    <3>1. rs.kind = "rs"
      BY <2>1, KindFacts
    <3> QED
      BY <2>1, <3>1 DEF InBack, InQueue, MessageType
  <2> QED
    BY <2>2, <2>3, <2>4, <2>5, <2>6, <2>7 DEF Watch, Live, Ref
<1>4. ASSUME NEW c \in Conns, Handle(c) PROVE Goal
  <2>1. UNCHANGED <<owned, held, queue, invalid>>
    BY <1>4 DEF Handle
  <2>2. \A d \in Conns : back[d] \subseteq back'[d]
    BY <1>4, HandleFacts DEF MessageType
  <2> QED
    BY <2>1, <2>2, WatchStays
<1>5. ASSUME NEW cl \in Clients, AddClient(cl) \/ PostRequest(cl) PROVE Goal
  <2>1. UNCHANGED <<owned, held, back, invalid>>
    BY <1>5 DEF AddClient, PostRequest
  <2>2. \A m \in Messages(queue) : m \in Messages(queue')
    BY <1>5, PostObjects DEF AddClient
  <2> QED
    BY <2>1, <2>2, WatchStays
<1>6. ASSUME NEW cl \in Clients, RemoveClient(cl) PROVE Goal
  <2>1. /\ FreeClient(cl, status', queue, disp, "front")
        /\ UNCHANGED <<held, back, invalid>>
    BY <1>6 DEF RemoveClient
  <2>2. queue \in [Producers -> Seq(Rq \cup Rs)] /\ "front" \in Producers
    BY DEF MessageType, Producers
  <2> DEFINE st == status'
  <2>3. FreeClient(cl, st, queue, disp, "front")
    BY <2>1
  <2> HIDE DEF st
  <2> QED
    BY <2>1, <2>2, <2>3, FreeWatch
<1>7. ASSUME NEW p \in Producers, AnswerRequest(p) PROVE Goal
  <2>1. PICK rq \in Rq, q \in [Producers -> Seq(Rq \cup Rs)] :
          /\ UNCHANGED <<disp, status, held, back, invalid>>
          /\ FreeClient(rq.client, status', q, disp', "disp")
          /\ \A m \in Messages(queue) : m = rq \/ m \in Messages(q)
    BY <1>7, AnswerPosts
  <2>2. FreeClient(rq.client, status, q, disp, "disp") /\ "disp" \in Producers
    BY <2>1 DEF Producers
  <2>3. \A m \in Messages(queue) : m.kind = "rs" => m \in Messages(q)
    BY <2>1, KindFacts
  <2> QED
    BY <2>1, <2>2, <2>3, FreeWatch
<1>8. ASSUME NEW p \in Producers, LockDevice(p) PROVE Goal
  <2> DEFINE rq == Head(queue[p])
  <2>1. queue[p] # <<>> /\ queue' = Popped(p) /\ rq \in Rq
    BY <1>8, LockFacts
  <2>2. Messages(queue) = {rq} \cup Messages(queue')
    BY <2>1, PoppedMessages
  <2>3. rq.kind = "rq" /\ UNCHANGED <<held, back>>
    BY <1>8 DEF LockDevice
  <2>4. \/ UNCHANGED <<owned, invalid>>
        \/ /\ rq.command = "close"
           /\ owned' = [owned EXCEPT ![rq.client] = @ \ Disowned(rq)]
           /\ invalid' = invalid \cup Disowned(rq)
    BY <1>8 DEF LockDevice
  <2>5. rq.command = "close" /\ b \in Disowned(rq) => TakenAt(p, b)
    BY <1>8 DEF TakenAt, Disowned
  <2>6. \A m \in Messages(queue) : m.kind = "rs" => m \in Messages(queue')
    BY <2>2, <2>3
  <2> HIDE DEF rq
  <2>7. CASE UNCHANGED <<owned, invalid>>
    BY <2>3, <2>6, <2>7, WatchStays
  <2>8. CASE /\ owned' = [owned EXCEPT ![rq.client] = @ \ Disowned(rq)]
             /\ invalid' = invalid \cup Disowned(rq)
             /\ b \notin Disowned(rq)
    <3>1. InHand(b) => InHand(b)'
      BY <2>8 DEF InHand, MessageType
    <3>2. (InHeld(b) => InHeld(b)') /\ (InBack(b) => InBack(b)')
      BY <2>3 DEF InHeld, InBack
    <3>3. InQueue(b) => InQueue(b)'
      BY <2>6 DEF InQueue
    <3> QED
      BY <2>8, <3>1, <3>2, <3>3 DEF Watch, Live, Ref
  <2> QED
    BY <2>4, <2>5, <2>7, <2>8
<1>9. ASSUME NEW p \in Producers, DispatchResponse(p) PROVE Goal
  <2>1. CASE Undelivered(p)
    <3>1. UNCHANGED <<back, invalid>>
      BY <2>1 DEF Undelivered, DispatchResponse
    <3>2. Ref(b) /\ b \notin invalid => Ref(b)' \/ CloseOf(b) \in Messages(queue')
      BY <2>1, DropReleases
    <3>3. InBack(b) => InBack(b)'
      BY <3>1 DEF InBack
    <3> QED
      BY <3>1, <3>2, <3>3 DEF Watch, Live
  <2>2. CASE Delivery(p)
    <3>1. PICK rs \in Rs :
            /\ rs.client \in Clients
            /\ Messages(queue) = {rs} \cup Messages(queue')
            /\ \A x \in Clients : owned'[x] = IF x = rs.client THEN owned[x] \cup rs.objects
                                                              ELSE owned[x]
            /\ UNCHANGED <<held, back, invalid>>
      BY <2>2, DeliveryObjects
    <3>2. InHand(b) => InHand(b)'
      BY <3>1 DEF InHand
    <3>3. (InHeld(b) => InHeld(b)') /\ (InBack(b) => InBack(b)')
      BY <3>1 DEF InHeld, InBack
    <3>4. InQueue(b) => InQueue(b)' \/ InHand(b)'
      BY <3>1 DEF InQueue, InHand
    <3> QED
      BY <3>1, <3>2, <3>3, <3>4 DEF Watch, Live, Ref
  <2> QED
    BY <1>9, <2>1, <2>2, DispatchCases
<1>10. ASSUME SendRequest PROVE Goal
  <2>1. PICK rq \in disp.rq : FreeClient(rq.client, status, queue, Idle, "disp")
    BY <1>10 DEF SendRequest
  <2>2. UNCHANGED <<held, back, invalid>>
    BY <1>10 DEF SendRequest
  <2>3. queue \in [Producers -> Seq(Rq \cup Rs)] /\ "disp" \in Producers
    BY DEF MessageType, Producers
  <2> QED
    BY <2>1, <2>2, <2>3, FreeWatch
<1> HIDE DEF Goal
<1>11. Goal
  BY <1>1, <1>2, <1>3, <1>4, <1>5, <1>6, <1>7, <1>8, <1>9, <1>10, Zenon DEF Next
<1> QED
  BY <1>11 DEF Goal

\* Without a failure a request goes on until the console handles it, unless it
\* finds no device.
LEMMA NextAsked ==
  ASSUME MessageType, flagged \in [Conns -> BOOLEAN],
         \A c \in Conns : link[c] \in {"off", "listed"}, NoneFailed, NoneFailed',
         \A m, n \in disp.rq : m = n, Next, NEW rq \in Rq, OnWay(rq)
  PROVE  \/ OnWay(rq)'
         \/ \E p \in Producers : AnswerRequest(p) /\ rq = Head(queue[p]) /\ ~Found(rq)
         \/ \E c \in Conns : Handle(c) /\ rq = Head(wire[c])
<1> DEFINE Goal == \/ OnWay(rq)'
                   \/ \E p \in Producers : AnswerRequest(p) /\ rq = Head(queue[p]) /\ ~Found(rq)
                   \/ \E c \in Conns : Handle(c) /\ rq = Head(wire[c])
<1>0. ASSUME \A m \in Messages(queue) : m.kind = "rq" => m \in Messages(queue'),
             UNCHANGED <<disp, wire>>
      PROVE  Goal
  BY <1>0, SentOutStays DEF OnWay
<1>1. ASSUME NEW c \in Conns, Connect(c) \/ Identified(c) \/ AddDevice(c) PROVE Goal
  <2>1. UNCHANGED <<disp, wire>>
    BY <1>1 DEF Connect, Identified, AddDevice
  <2>2. \A m \in Messages(queue) : m \in Messages(queue')
    BY <1>1, AddDevicePosts DEF Connect, Identified
  <2> QED
    BY <1>0, <2>1, <2>2
<1>2. ASSUME NEW c \in Conns,
             \/ RemoveDevice(c) \/ Destroy(c)
             \/ \E cut \in BOOLEAN, reboot \in MayReboot : Fail(c, cut, reboot)
      PROVE  Goal
  BY <1>2 DEF NoneFailed, RemoveDevice, Destroy, Fail
<1>3. ASSUME NEW c \in Conns, Receive(c) PROVE Goal
  <2>1. UNCHANGED <<disp, wire>>
    BY <1>3 DEF Receive
  <2>2. \A m \in Messages(queue) : m \in Messages(queue')
    BY <1>3, ReceiveObjects
  <2> QED
    BY <1>0, <2>1, <2>2
<1>4. ASSUME NEW c \in Conns, Handle(c) PROVE Goal
  <2>1. UNCHANGED <<disp, queue>>
    BY <1>4 DEF Handle
  <2>2. wire[c] # <<>> /\ wire' = [wire EXCEPT ![c] = Tail(@)]
    BY <1>4, HandleFacts
  <2>3. \A d \in Conns : \A x \in Elems(wire[d]) :
          x \in Elems(wire'[d]) \/ (d = c /\ x = Head(wire[c]))
    BY <2>2, HandleWire
  <2>4. SentOut(rq) => SentOut(rq)' \/ rq = Head(wire[c])
    BY <2>1, <2>3 DEF SentOut
  <2> QED
    BY <1>4, <2>1, <2>4 DEF OnWay
<1>5. ASSUME NEW cl \in Clients, AddClient(cl) \/ PostRequest(cl) PROVE Goal
  <2>1. UNCHANGED <<disp, wire>>
    BY <1>5 DEF AddClient, PostRequest
  <2>2. \A m \in Messages(queue) : m \in Messages(queue')
    BY <1>5, PostObjects DEF AddClient
  <2> QED
    BY <1>0, <2>1, <2>2
<1>6. ASSUME NEW cl \in Clients, RemoveClient(cl) PROVE Goal
  <2>1. FreeClient(cl, status', queue, disp, "front") /\ UNCHANGED <<held, disp, wire>>
    BY <1>6 DEF RemoveClient
  <2>2. queue \in [Producers -> Seq(Rq \cup Rs)] /\ "front" \in Producers
    BY DEF MessageType, Producers
  <2> DEFINE st == status'
  <2>3. FreeClient(cl, st, queue, disp, "front")
    BY <2>1
  <2> HIDE DEF st
  <2>4. \A m \in Messages(queue) : m \in Messages(queue')
    BY <2>1, <2>2, <2>3, FreeDestructs
  <2> QED
    BY <1>0, <2>1, <2>4
<1>7. ASSUME NEW p \in Producers, AnswerRequest(p) PROVE Goal
  <2>1. PICK r \in Rq, q \in [Producers -> Seq(Rq \cup Rs)] :
          /\ r = Head(queue[p]) /\ ~Found(r)
          /\ UNCHANGED <<disp, status, held, wire>>
          /\ FreeClient(r.client, status', q, disp', "disp")
          /\ \A m \in Messages(queue) : m = r \/ m \in Messages(q)
    BY <1>7, AnswerPosts
  <2>2. FreeClient(r.client, status, q, disp, "disp") /\ "disp" \in Producers
    BY <2>1 DEF Producers
  <2>3. \A m \in Messages(q) : m \in Messages(queue')
    BY <2>1, <2>2, FreeDestructs
  <2>4. SentOut(rq) => SentOut(rq)'
    BY <2>1, SentOutStays
  <2> QED
    BY <1>7, <2>1, <2>3, <2>4 DEF OnWay
<1>8. ASSUME NEW p \in Producers, LockDevice(p) PROVE Goal
  <2>1. queue[p] # <<>> /\ queue' = Popped(p) /\ disp.rq = {} /\ disp'.rq = {Head(queue[p])}
    BY <1>8, LockFacts
  <2>2. Messages(queue) = {Head(queue[p])} \cup Messages(queue')
    BY <2>1, PoppedMessages
  <2>3. wire' = wire
    BY <1>8 DEF LockDevice
  <2> QED
    BY <2>1, <2>2, <2>3 DEF OnWay, SentOut
<1>9. ASSUME NEW p \in Producers, DispatchResponse(p) PROVE Goal
  <2>1. UNCHANGED <<disp, wire>>
    BY <1>9 DEF DispatchResponse
  <2>2. \A m \in Messages(queue) : m.kind = "rq" => m \in Messages(queue')
    <3>1. CASE Undelivered(p)
      BY <3>1, DropReleases
    <3>2. CASE Delivery(p)
      <4>1. PICK rs \in Rs : rs.kind = "rs" /\ Messages(queue) = {rs} \cup Messages(queue')
        BY <3>2, DeliveryObjects
      <4> QED
        BY <4>1
    <3> QED
      BY <1>9, <3>1, <3>2, DispatchCases
  <2> QED
    BY <1>0, <2>1, <2>2
<1>10. ASSUME SendRequest PROVE Goal
  <2>1. PICK r \in disp.rq : /\ SendOverTcp(disp.conn, r) \/ SendOverUsb(disp.conn, r)
                             /\ FreeClient(r.client, status, queue, Idle, "disp")
    BY <1>10 DEF SendRequest
  <2>2. r \in Rq /\ disp.conn \in Conns /\ held' = held
    BY <1>10 DEF MessageType, SendRequest
  <2>3. wire' = [wire EXCEPT ![disp.conn] = Append(@, r)]
    BY <2>1, <2>2 DEF SendOverTcp, SendOverUsb, NoneFailed
  <2>4. queue \in [Producers -> Seq(Rq \cup Rs)] /\ "disp" \in Producers
    BY DEF MessageType, Producers
  <2>5. \A m \in Messages(queue) : m \in Messages(queue')
    BY <2>1, <2>2, <2>4, FreeDestructs
  <2>6. \A d \in Conns : \A x \in Elems(wire[d]) : x \in Elems(wire'[d])
    BY <1>10, SendWire
  <2>7. r \in Elems(wire'[disp.conn])
    <3> DEFINE s == wire[disp.conn]
    <3>1. s \in Seq(Rq)
      BY <2>2 DEF MessageType
    <3>2. wire'[disp.conn] = Append(s, r)
      BY <2>2, <2>3 DEF MessageType
    <3> HIDE DEF s
    <3>3. Elems(Append(s, r)) = Elems(s) \cup {r}
      BY <2>2, <3>1, AppendElems
    <3> QED
      BY <3>2, <3>3
  <2>8. SentOut(rq) => SentOut(rq)'
    BY <2>1, <2>2, <2>6, <2>7 DEF SentOut
  <2> QED
    BY <2>5, <2>8 DEF OnWay
<1> HIDE DEF Goal
<1>11. Goal
  BY <1>1, <1>2, <1>3, <1>4, <1>5, <1>6, <1>7, <1>8, <1>9, <1>10, Zenon DEF Next
<1> QED
  BY <1>11 DEF Goal

\* Object n of console id is referred to and valid, or its close is under way.
Covered(id, n) ==
  \/ \E b \in Bridges : Watch(b) /\ Port(b.conn) = id /\ b.oid = n
  \/ \E rq \in Rq : OnWay(rq) /\ rq.command = "close" /\ rq.device = id /\ rq.oid = n

Watched ==
  OneUsbConsole /\ NoneFailed =>
    \A id \in DeviceIds : \A y \in opened[id] : Covered(id, y.oid)

\* What the step opens is on its way back.
LEMMA NewWatched ==
  ASSUME MessageType, TableType, ObjectInv, NEW c \in Conns, NEW id \in DeviceIds,
         NEW y, OpensAt(c, id, y), y \notin opened[id], y \in opened'[id]
  PROVE  Covered(id, y.oid)'
<1> USE BridgeFacts
<1>1. Handle(c) /\ Port(c) = id /\ y.oid = nextoid[id]
  BY DEF OpensAt
<1>2. id \in Ports
  BY DEF Ports
<1>3. PICK rs \in Rs :
        /\ back' = [back EXCEPT ![c] = @ \cup {rs}]
        /\ \/ /\ rs.objects = {BridgeObject(c, nextoid[Port(c)])}
              /\ BridgeObject(c, nextoid[Port(c)]) \in Bridges
           \/ opened'[id] \subseteq opened[id]
  BY <1>1, <1>2, HandleObjects
<1>4. PICK d \in Bridges : d = BridgeObject(c, nextoid[Port(c)]) /\ rs.objects = {d}
  BY <1>3
<1>5. d.conn = c /\ d.oid = y.oid
  BY <1>1, <1>4 DEF BridgeObject
<1>6. InBack(d)'
  BY <1>3, <1>4 DEF InBack, MessageType
<1>7. nextoid[id] \in Nat /\ invalid' = invalid
  BY <1>1, <1>2 DEF Handle
<1>8. d \notin invalid
  <2>1. d \in invalid => d.oid < nextoid[id]
    BY <1>1, <1>4, <1>5 DEF ObjectInv, Numbered, Given
  <2> QED
    BY <1>1, <1>5, <1>7, <2>1
<1> QED
  BY <1>1, <1>4, <1>5, <1>6, <1>7, <1>8 DEF Covered, Watch, Live, Port

\* What was referred to still is, or its close is under way.
LEMMA WatchCovers ==
  ASSUME MayReboot = {FALSE}, MessageType, MapInv, TableType, ObjectInv,
         flagged \in [Conns -> BOOLEAN], \A c \in Conns : link[c] \in {"off", "listed"},
         OneUsbConsole, NoneFailed, NoneFailed', Next,
         NEW id \in DeviceIds, NEW b \in Bridges, Watch(b), Port(b.conn) = id
  PROVE  Covered(id, b.oid)'
<1> USE ConnAssumption
<1>1. b.conn \in Conns /\ b.oid \in Nat
  BY BridgeFacts
<1>2. b.conn \in Usb /\ DeviceOf[b.conn] = id
  BY <1>1, PortAssumption DEF Port
<1>3. link[b.conn] # "off"
  BY DEF Watch, ObjectInv, Numbered, Given
<1>4. CASE Watch(b)'
  BY <1>4 DEF Covered, Port
<1>5. CASE CloseOf(b) \in Messages(queue')
  <2>1. CloseOf(b).device = id
    BY <1>2, CloseFacts DEF Bridges
  <2> QED
    BY <1>5, <2>1, CloseFacts DEF Covered, OnWay
<1>6. ASSUME NEW p \in Producers, TakenAt(p, b) PROVE Covered(id, b.oid)'
  <2>1. PICK rq \in Rq : /\ LockDevice(p) /\ rq = Head(queue[p]) /\ disp'.rq = {rq}
                         /\ rq.command = "close" /\ rq.oid = b.oid
    BY <1>6, LockFacts DEF TakenAt
  <2>3. Found(rq)
    BY <2>1 DEF LockDevice
  <2>4. rq.device = id
    <3>1. /\ rq.device \in DeviceIds /\ devices[rq.device] \in Conns
          /\ link[devices[rq.device]] = "listed" /\ DeviceOf[devices[rq.device]] = rq.device
      BY <2>3 DEF Found, MapInv, MapType, EntriesLive
    <3> QED
      BY <1>1, <1>2, <1>3, <3>1 DEF OneUsbConsole, Made
  <2>5. OnWay(rq)'
    BY <2>1 DEF OnWay, SentOut
  <2> QED
    BY <2>1, <2>4, <2>5 DEF Covered
<1> QED
  BY <1>4, <1>5, <1>6, NextWatch

\* What its close was under way to is gone, or its close still is.
LEMMA CloseCovers ==
  ASSUME MessageType, MapInv, TableType, Reached, Routed, EntryStays,
         flagged \in [Conns -> BOOLEAN], \A c \in Conns : link[c] \in {"off", "listed"},
         \A m, n \in disp.rq : m = n,
         OneUsbConsole, NoneFailed, NoneFailed', Next,
         NEW id \in DeviceIds, NEW y \in opened[id], y \in opened'[id],
         NEW rq \in Rq, OnWay(rq), rq.command = "close", rq.device = id, rq.oid = y.oid
  PROVE  Covered(id, y.oid)'
<1> USE ConnAssumption
<1>1. Found(rq)
  <2>1. devices[id] # NoConn
    BY DEF EntryStays
  <2>2. devices[id] \in Conns /\ link[devices[id]] = "listed"
    BY <2>1 DEF MapInv, MapType, EntriesLive
  <2> QED
    BY <2>1, <2>2 DEF Found, NoneFailed
<1>2. CASE OnWay(rq)'
  BY <1>2 DEF Covered
<1>3. ASSUME NEW c \in Conns, Handle(c), rq = Head(wire[c]) PROVE FALSE
  <2>1. wire[c] # <<>> /\ wire[c] \in Seq(Rq)
    BY <1>3, HandleFacts DEF MessageType
  <2>2. link[c] # "off"
    BY <2>1 DEF Reached
  <2>3. c \in Usb
    BY <2>2 DEF OneUsbConsole, Made
  <2>4. rq = wire[c][1] /\ 1 \in 1..Len(wire[c])
    BY <1>3, <2>1
  <2>5. Port(c) = id
    BY <2>3, <2>4 DEF Routed, Port
  <2>6. id \in Ports
    BY DEF Ports
  <2>7. \/ \A z \in opened'[id] : z.oid # rq.oid
        \/ opened'[id] = {}
    BY <1>3, <2>3, <2>5, <2>6, HandleObjects
  <2> QED
    BY <2>7
<1> QED
  BY <1>1, <1>2, <1>3, NextAsked

\* So nothing goes unwatched.
LEMMA NextWatched ==
  ASSUME MayReboot = {FALSE}, MessageType, MapInv, TableType, Reached, Routed, ObjectInv,
         EntryStays, flagged \in [Conns -> BOOLEAN],
         NoneFailed => \A c \in Conns : link[c] \in {"off", "listed"},
         \A m, n \in disp.rq : m = n, Watched, Next
  PROVE  Watched'
<1> SUFFICES ASSUME OneUsbConsole', NoneFailed', NEW id \in DeviceIds, NEW y \in opened'[id]
             PROVE  Covered(id, y.oid)'
  BY DEF Watched
<1>1. NoneFailed
  BY MapGrows DEF MapInv
<1>2. OneUsbConsole
  BY MadeStays DEF OneUsbConsole, Made
<1>3. id \in Ports
  BY DEF Ports
<1>4. CASE y \in opened[id]
  <2>1. Covered(id, y.oid)
    BY <1>1, <1>2, <1>4 DEF Watched
  <2>2. CASE \E b \in Bridges : Watch(b) /\ Port(b.conn) = id /\ b.oid = y.oid
    BY <1>1, <1>2, <2>2, WatchCovers
  <2>3. CASE \E rq \in Rq : OnWay(rq) /\ rq.command = "close" /\ rq.device = id /\ rq.oid = y.oid
    BY <1>1, <1>2, <1>4, <2>3, CloseCovers
  <2> QED
    BY <2>1, <2>2, <2>3 DEF Covered
<1>5. ASSUME NEW c \in Conns, OpensAt(c, id, y), y \notin opened[id] PROVE Covered(id, y.oid)'
  BY <1>5, NewWatched
<1> QED
  BY <1>3, <1>4, <1>5, NextOpened

-----------------------------------------------------------------------------
(***************************************************************************)
(* What it comes to.                                                       *)
(***************************************************************************)

TrackInv ==
  /\ KeptInv /\ MapInv /\ Routed /\ TableType /\ Reached
  /\ \A m, n \in disp.rq : m = n
  /\ ObjectInv /\ OpenedFor /\ StillOpen
  /\ FreedOwnsNothing /\ EntryStays /\ Watched

\* Nothing is anywhere at first.
LEMMA InitTrackInv == Init => TrackInv
<1> SUFFICES ASSUME Init PROVE TrackInv
  OBVIOUS
<1> USE ConnAssumption
<1>1. KeptInv
  BY InitKeptInv
<1>2. MapInv
  BY InitMapInv
<1>3. TableType
  BY DEF Init, TableType
<1>4. Routed /\ Reached
  BY DEF Init, Idle, Routed, Reached
<1>5. \A m, n \in disp.rq : m = n
  BY DEF Init, Idle
<1>6. Messages(queue) = {}
  BY DEF Init, Messages
<1>7. \A x \in Ports : opened[x] = {}
  BY DEF Init
<1>8. \A b : ~InQueue(b) /\ ~InBack(b) /\ ~InHand(b) /\ ~InHeld(b)
  BY <1>6 DEF Init, InQueue, InBack, InHand, InHeld
<1>9. \A b : ~Live(b) /\ ~Coming(b)
  BY <1>8 DEF Live, Ref, Coming
<1>10. \A m : ~Under(m) /\ ~OnWay(m) /\ ~SentOut(m)
  <2>1. \A c \in Conns : Elems(wire[c]) = {}
    BY DEF Init, Elems
  <2> QED
    BY <1>6, <2>1 DEF Init, Idle, Under, OnWay, SentOut
<1>11. ObjectInv
  <2>1. Numbered
    BY <1>7, <1>9, <1>10 DEF Init, Numbered
  <2>2. Distinct
    BY <1>8, <1>9 DEF Init, Distinct
  <2>3. Delivered
    BY <1>9, <1>10 DEF Init, Delivered
  <2>4. Unused /\ Disclaimed /\ OnlyCloses
    BY <1>10 DEF Unused, Disclaimed, OnlyCloses
  <2>5. Claimed
    BY <1>6 DEF Init, Claimed
  <2> QED
    BY <2>1, <2>2, <2>3, <2>4, <2>5 DEF ObjectInv
<1>12. \A b \in Bridges, x \in Clients : ~For(b, x)
  BY <1>10 DEF Init, For
<1>13. OpenedFor /\ StillOpen
  BY <1>12 DEF OpenedFor, StillOpen
<1>14. FreedOwnsNothing
  BY DEF Init, FreedOwnsNothing
<1>15. EntryStays /\ Watched
  BY <1>7 DEF Init, Idle, EntryStays, Watched, Ports
<1> QED
  BY <1>1, <1>2, <1>3, <1>4, <1>5, <1>11, <1>13, <1>14, <1>15 DEF TrackInv

\* A step that changes nothing changes nothing of it.
LEMMA StutterTrackInv ==
  ASSUME TrackInv, UNCHANGED vars
  PROVE  TrackInv'
<1>1. UNCHANGED <<link, flagged, held, wire, back, opened, nextoid, devices, queue, disp,
                  status, known, owned, invalid>>
  BY DEF vars
<1>2. KeptInv' /\ MapInv'
  BY NextKeptInv, NextMapInv DEF TrackInv
<1>3. Routed' /\ TableType' /\ Reached' /\ \A m, n \in disp'.rq : m = n
  BY <1>1 DEF TrackInv, Routed, TableType, Reached
<1>4. /\ \A b : InQueue(b)' = InQueue(b)
      /\ \A b : InBack(b)' = InBack(b)
      /\ \A b : InHand(b)' = InHand(b)
      /\ \A b : InHeld(b)' = InHeld(b)
      /\ \A m : Under(m)' = Under(m)
      /\ \A m : SentOut(m)' = SentOut(m)
  BY <1>1 DEF InQueue, InBack, InHand, InHeld, Under, SentOut
<1>5. /\ \A b : Live(b)' = Live(b)
      /\ \A b : Ref(b)' = Ref(b)
      /\ \A b : Coming(b)' = Coming(b)
      /\ \A m : OnWay(m)' = OnWay(m)
  BY <1>1, <1>4 DEF Live, Ref, Coming, OnWay
<1>6. Numbered' /\ Distinct'
  <2>1. \A c, n : Given(c, n)' = Given(c, n)
    BY <1>1 DEF Given
  <2>2. Numbered /\ Distinct
    BY DEF TrackInv, ObjectInv
  <2>3. Numbered'
    BY <1>1, <1>4, <1>5, <2>1, <2>2 DEF Numbered
  <2>4. Distinct'
    BY <1>1, <1>4, <1>5, <2>2 DEF Distinct, Same
  <2> QED
    BY <2>3, <2>4
<1>7. Delivered' /\ Unused' /\ Disclaimed' /\ OnlyCloses'
  <2>1. Delivered /\ Unused /\ Disclaimed /\ OnlyCloses
    BY DEF TrackInv, ObjectInv
  <2>2. Delivered'
    BY <1>1, <1>4, <1>5, <2>1 DEF Delivered
  <2>3. Unused' /\ Disclaimed'
    BY <1>1, <1>4, <1>5, <2>1 DEF Unused, Disclaimed, Same
  <2>4. OnlyCloses'
    BY <1>5, <2>1 DEF OnlyCloses
  <2> QED
    BY <2>2, <2>3, <2>4
<1>8. Claimed'
  <2>1. Claimed
    BY DEF TrackInv, ObjectInv
  <2>2. \A cl, c, n : Mine(cl, c, n)' = Mine(cl, c, n)
    BY <1>1, <1>5 DEF Mine, Same
  <2> QED
    BY <1>1, <2>1, <2>2 DEF Claimed
<1>9. OpenedFor' /\ StillOpen'
  <2>1. \A b, x : For(b, x)' = For(b, x)
    BY <1>1, <1>4 DEF For
  <2>2. TcpApart' = TcpApart
    BY <1>1 DEF TcpApart, Made
  <2> QED
    BY <1>1, <2>1, <2>2 DEF TrackInv, OpenedFor, StillOpen, Port
<1>10. FreedOwnsNothing' /\ EntryStays'
  <2>1. \A x : Waits(x)' = Waits(x)
    BY <1>1 DEF Waits
  <2> QED
    BY <1>1, <2>1 DEF TrackInv, FreedOwnsNothing, EntryStays, NoneFailed
<1>11. Watched'
  <2>1. \A id, n : Covered(id, n)' = Covered(id, n)
    BY <1>1, <1>5 DEF Covered, Watch, Port
  <2>2. OneUsbConsole' = OneUsbConsole /\ NoneFailed' = NoneFailed
    BY <1>1 DEF OneUsbConsole, Made, NoneFailed
  <2> QED
    BY <1>1, <2>1, <2>2 DEF TrackInv, Watched
<1> QED
  BY <1>2, <1>3, <1>6, <1>7, <1>8, <1>9, <1>10, <1>11 DEF TrackInv, ObjectInv

\* Every step keeps it, if no console restarts.
LEMMA NextTrackInv ==
  ASSUME MayReboot = {FALSE}
  PROVE  TrackInv /\ [Next]_vars => TrackInv'
<1> SUFFICES ASSUME TrackInv, Next PROVE TrackInv'
  BY StutterTrackInv
<1>1. /\ KeptInv /\ MapInv /\ Routed /\ TableType /\ Reached
      /\ \A m, n \in disp.rq : m = n
      /\ ObjectInv /\ OpenedFor /\ StillOpen
      /\ FreedOwnsNothing /\ EntryStays /\ Watched
  BY DEF TrackInv
<1>2. /\ PlaceInv /\ MessageType /\ flagged \in [Conns -> BOOLEAN]
      /\ status \in [Clients -> {"off", "on", "gone"}]
      /\ NoneFailed => \A c \in Conns : link[c] \in {"off", "listed"}
  BY <1>1 DEF KeptInv, PlaceInv, Kept
<1>3. KeptInv' /\ MapInv'
  BY <1>1, NextKeptInv, NextMapInv
<1>4. MessageType'
  BY <1>3 DEF KeptInv, PlaceInv
<1>5. Routed' /\ TableType' /\ Reached' /\ \A m, n \in disp'.rq : m = n
  BY <1>1, <1>2, NextRouted, NextTableType, NextReached, OneSending
<1>6. ObjectInv'
  BY <1>1, <1>2, <1>4, NextObjectInv
<1>7. OpenedFor'
  BY <1>1, <1>2, NextOpenedFor
<1>8. StillOpen'
  BY <1>1, <1>2, NextStillOpen
<1>9. FreedOwnsNothing'
  BY <1>1, <1>2, NextFreed
<1>10. EntryStays'
  BY <1>1, <1>2, NextEntryStays
<1>11. Watched'
  BY <1>1, <1>2, NextWatched
<1> QED
  BY <1>3, <1>5, <1>6, <1>7, <1>8, <1>9, <1>10, <1>11 DEF TrackInv

\* What is left on the console when all is quiet somebody refers to.
LEMMA LostClosed ==
  ASSUME TrackInv, OneUsbConsole, NoneFailed
  PROVE  LostObjectsClosed
<1> USE ConnAssumption
<1> SUFFICES ASSUME Quiescent, NEW c \in Conns, Served(c), NEW x \in Lost(c)
             PROVE  \E d \in Conns : \E b \in held[d] \ invalid :
                      b.oid = x.oid /\ Port(b.conn) = Port(c)
  BY DEF LostObjectsClosed
<1>0. MessageType
  BY DEF TrackInv, KeptInv, PlaceInv
<1>1. link[c] = "listed"
  BY DEF Served, TrackInv, MapInv, EntriesLive
<1>2. c \in Usb /\ Port(c) = DeviceOf[c] /\ DeviceOf[c] \in DeviceIds
  BY <1>1 DEF OneUsbConsole, Made, Port
<1>3. /\ x \in opened[DeviceOf[c]] /\ x.client \in Clients /\ status[x.client] = "gone"
  BY <1>2 DEF Lost
<1>4. Covered(DeviceOf[c], x.oid)
  BY <1>2, <1>3 DEF TrackInv, Watched
<1>5. Messages(queue) = {} /\ disp.rq = {}
  BY DEF Quiescent, Idle, Messages
<1>6. \A rq : ~OnWay(rq)
  <2>1. \A d \in Conns : Elems(wire[d]) = {}
    BY DEF Quiescent, Elems
  <2> QED
    BY <1>5, <2>1 DEF OnWay, SentOut
<1>7. PICK b \in Bridges : Watch(b) /\ Port(b.conn) = DeviceOf[c] /\ b.oid = x.oid
  BY <1>4, <1>6 DEF Covered
<1>8. ~InQueue(b) /\ ~InBack(b)
  BY <1>5 DEF Quiescent, InQueue, InBack
<1>9. ~InHand(b)
  <2> SUFFICES ASSUME NEW cl \in Clients, b \in owned[cl] PROVE FALSE
    BY DEF InHand
  <2>1. x.client = cl
    BY <1>3, <1>7 DEF TrackInv, OpenedFor, For
  <2>2. ~Waits(cl)
    BY <1>5 DEF Waits
  <2> QED
    BY <1>3, <2>1, <2>2 DEF TrackInv, FreedOwnsNothing
<1>10. InHeld(b) /\ b \notin invalid
  BY <1>7, <1>8, <1>9 DEF Watch, Live, Ref
<1> QED
  BY <1>2, <1>7, <1>10 DEF InHeld

\* No request is answered twice, whatever fails, although a dying USB device fails
\* what is pending while its answers are still queued; and none is forgotten until
\* a connection fails, whichever client leaves (Daemon.cpp, USBBackend.cpp).
THEOREM EveryRequestAnswered == Spec => []RequestsAnswered
<1>1. AnsweredOnce /\ (NoneFailed => AllAnswered) => RequestsAnswered
  BY DEF RequestsAnswered
<1> QED
  BY <1>1, AtMostOneAnswer, NoRequestForgotten, PTL

\* As long as no console restarts, and with it hands out its ids again, twibd asks
\* no console to close what a connected client owns; where no console has a TCP
\* connection next to another, a request reaches the table its object is in and
\* what a client owns there exists; and where there is one console, on USB, and no
\* connection failed, the objects of departed clients are closed once all is quiet
\* (Daemon.cpp, BridgeObject.cpp, TCPBackend.cpp).
THEOREM ObjectsAlwaysTracked ==
  ASSUME MayReboot = {FALSE}
  PROVE  Spec => []ObjectsTracked
<1>1. TrackInv => ObjectsTracked
  <2> SUFFICES ASSUME TrackInv PROVE ObjectsTracked
    OBVIOUS
  <2>0. MessageType
    BY DEF TrackInv, KeptInv, PlaceInv
  <2>1. OwnedNotClosed
    BY <2>0, ClosedUnowned DEF TrackInv
  <2>2. ASSUME TcpApart PROVE ReachesItsObject
    <3> SUFFICES ASSUME NEW c \in Conns, NEW i \in 1..Len(wire[c]), wire[c][i].oid # 0
                 PROVE  Port(wire[c][i].via) = Port(c)
      BY DEF ReachesItsObject
    <3>1. PICK rq \in Elems(wire[c]) : rq = wire[c][i]
      BY DEF Elems
    <3> QED
      BY <2>0, <2>2, <3>1, TcpReached DEF TrackInv
  <2>3. ASSUME TcpApart PROVE OwnedStillOpen
    <3> SUFFICES ASSUME NEW cl \in Clients, NEW b \in owned[cl],
                        b.conn \notin Usb, ~flagged[b.conn]
                 PROVE  \E x \in opened[Port(b.conn)] : x.oid = b.oid
      BY DEF OwnedStillOpen
    <3>1. b \in Bridges
      BY <2>0, BridgeFacts
    <3> QED
      BY <2>3, <3>1 DEF TrackInv, StillOpen, For
  <2> QED
    BY <2>1, <2>2, <2>3, LostClosed DEF ObjectsTracked
<1>2. TrackInv /\ [Next]_vars => TrackInv'
  BY NextTrackInv
<1> QED
  BY <1>1, <1>2, InitTrackInv, PTL DEF Spec
=============================================================================
