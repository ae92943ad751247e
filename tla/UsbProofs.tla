----------------------------- MODULE UsbProofs -----------------------------
(***************************************************************************)
(* Proofs about UsbDevice, for any number of requests and payload sizes.   *)
(*                                                                         *)
(* That a request never goes out while another is under way, and that a    *)
(* dispatcher that sleeps will be woken, is not inductive: it depends on   *)
(* transferring_meta and transferring_data following the transfers, on who *)
(* holds state_mutex, and on nothing happening before the device begins.   *)
(***************************************************************************)
EXTENDS UsbDevice, TLAPS

\* The types the control part of the device depends on.
ControlType ==
  /\ state \in {"AVAILABLE", "BUSY"}
  /\ mutex \in {"free", "disp"}
  /\ out \in [tag : Int, left : Int]
  /\ sent \in Int

\* The dispatcher holds state_mutex exactly between taking and releasing it.
MutexHeld == mutex = "disp" <=> dpc \in {"testing", "sleeping", "pushing", "unlocking"}

\* transferring_meta and transferring_data tell which outgoing transfer is under
\* way; a busy device that was not killed has one, or is about to get one.
OutPhase ==
  /\ "meta_out" \in tfers => tmeta /\ ~tdata /\ state = "BUSY"
  /\ "data_out" \in tfers => tdata /\ ~tmeta /\ state = "BUSY" /\ out.left >= 1
  /\ state = "AVAILABLE" => ~tmeta /\ ~tdata
  /\ dpc = "pushing" => state = "BUSY" /\ ~tmeta /\ ~tdata
  /\ state = "BUSY" /\ ~flagged
       => dpc = "pushing" \/ "meta_out" \in tfers \/ "data_out" \in tfers
  /\ dpc \in {"sleeping", "waiting"} => state = "BUSY"

\* Before it has begun, nothing has happened to the device.
NotBegun ==
  life = "off" => /\ tfers = {} /\ state = "AVAILABLE" /\ ~ready /\ ~mapped /\ ~isl
                  /\ epc = "loop" /\ dpc \in {"idle", "listing"}

\* A step that leaves the outgoing side alone, though it may kill the device.
OutgoingAside ==
  /\ UNCHANGED <<state, tmeta, tdata, mutex, out, sent>>
  /\ "meta_out" \in tfers' <=> "meta_out" \in tfers
  /\ "data_out" \in tfers' <=> "data_out" \in tfers
  /\ flagged => flagged'
  /\ dpc' = dpc \/ (dpc = "waiting" /\ dpc' = "woken")

\* Such a step keeps the invariants of the outgoing side.
LEMMA AsideKeeps ==
  ASSUME ControlType, MutexHeld, OutPhase, OutgoingAside
  PROVE  ControlType' /\ MutexHeld' /\ OutPhase'
<1>1. ControlType'
  BY DEF ControlType, OutgoingAside
<1>2. MutexHeld'
  BY DEF MutexHeld, OutgoingAside
<1>3. OutPhase'
  BY Zenon DEF OutPhase, OutgoingAside
<1> QED
  BY <1>1, <1>2, <1>3

\* What submitting a transfer inside a callback does to the rest.
LEMMA SubmitEffect ==
  ASSUME NEW done, NEW t, Submit(done, t)
  PROVE  /\ flagged => flagged'
         /\ dpc' = dpc \/ (dpc = "waiting" /\ dpc' = "woken")
         /\ \A x : x # t => (x \in tfers' <=> x \in tfers /\ x \notin done)
<1>1. flagged => flagged'
  BY Zenon DEF Submit, Kill
<1>2. dpc' = dpc \/ (dpc = "waiting" /\ dpc' = "woken")
  BY DEF Submit, Kill
<1>3. \A x : x # t => (x \in tfers' <=> x \in tfers /\ x \notin done)
  <2>1. tfers' = (tfers \ done) \cup {t} \/ tfers' = tfers \ done
    BY DEF Submit
  <2> QED
    BY <2>1
<1> QED
  BY <1>1, <1>2, <1>3

\* Dispatching a response resubmits meta-in, or kills the device.
LEMMA DispatchEffect ==
  ASSUME NEW done, NEW tag, DispatchResponse(done, tag)
  PROVE  /\ flagged => flagged'
         /\ dpc' = dpc \/ (dpc = "waiting" /\ dpc' = "woken")
         /\ \A x : x # "meta_in" => (x \in tfers' <=> x \in tfers /\ x # done)
<1>1. CASE Submit({done}, "meta_in")
  BY <1>1, SubmitEffect
<1>2. CASE Kill /\ \/ tfers' = (tfers \ {done}) \cup {"meta_in"}
                   \/ tfers' = tfers \ {done}
  BY <1>2 DEF Kill
<1> QED
  BY <1>1, <1>2 DEF DispatchResponse

\* Incoming transfers and the event thread's loop leave the outgoing side alone.
LEMMA IncomingAside ==
  ASSUME NEW tag, NEW n, NEW objects,
         \/ MetaInDone(tag, n, objects) \/ MetaInTimeout \/ DataInDone
         \/ TransferFailed("meta_in") \/ TransferFailed("data_in")
  PROVE  OutgoingAside
<1>1. CASE MetaInDone(tag, n, objects)
  <2>1. CASE Submit({"meta_in"}, "data_in")
    BY <1>1, <2>1, SubmitEffect DEF OutgoingAside, MetaInDone
  <2>2. CASE DispatchResponse("meta_in", tag)
    BY <1>1, <2>2, DispatchEffect DEF OutgoingAside, MetaInDone
  <2> QED
    BY <1>1, <2>1, <2>2 DEF MetaInDone
<1>2. CASE MetaInTimeout
  BY <1>2, SubmitEffect DEF OutgoingAside, MetaInTimeout
<1>3. CASE DataInDone
  <2>1. CASE Submit({"data_in"}, "data_in")
    BY <1>3, <2>1, SubmitEffect DEF OutgoingAside, DataInDone
  <2>2. CASE DispatchResponse("data_in", in.tag)
    BY <1>3, <2>2, DispatchEffect DEF OutgoingAside, DataInDone
  <2> QED
    BY <1>3, <2>1, <2>2 DEF DataInDone
<1>4. CASE TransferFailed("meta_in") \/ TransferFailed("data_in")
  BY <1>4 DEF OutgoingAside, TransferFailed, Kill
<1> QED
  BY <1>1, <1>2, <1>3, <1>4

LEMMA LoopAside ==
  Events \/ Destroy \/ Probe => OutgoingAside
BY DEF OutgoingAside, Events, AddDevice, MarkAdded, MarkAddedUnlocks, RemoveDevice,
       Destroy, Probe, UnlockScan

-----------------------------------------------------------------------------

\* At most one of meta-in and data-in is in flight.
LEMMA ResponseStep == OneResponseIn /\ NotBegun /\ [Next]_vars => OneResponseIn'
<1> SUFFICES ASSUME OneResponseIn, NotBegun, [Next]_vars PROVE OneResponseIn'
  OBVIOUS
<1>1. CASE Begin
  BY <1>1 DEF OneResponseIn, Begin
<1>2. CASE MetaOutDone \/ DataOutDone
  BY <1>2 DEF OneResponseIn, MetaOutDone, DataOutDone, Submit
<1>3. CASE Respond
  BY <1>3 DEF OneResponseIn, Respond, MetaInDone, DispatchResponse, Submit
<1>4. CASE MetaInTimeout \/ DataInDone
  BY <1>4 DEF OneResponseIn, MetaInTimeout, DataInDone, DispatchResponse, Submit
<1>5. CASE \E t \in Transfers : TransferFailed(t)
  BY <1>5 DEF OneResponseIn, TransferFailed
<1>6. CASE SendRequest
  BY <1>6 DEF OneResponseIn, SendRequest
<1>7. CASE UNCHANGED tfers
  BY <1>7 DEF OneResponseIn
<1> QED
  BY <1>1, <1>2, <1>3, <1>4, <1>5, <1>6, <1>7
  DEF Next, Events, Dispatcher, AddDevice, MarkAdded, MarkAddedUnlocks, RemoveDevice,
      Destroy, Probe, Dispatch, Lock, Test, Wait, KillUnlocks, ListDevices, vars

-----------------------------------------------------------------------------

\* NotBegun: a step other than Begin starts from a device that has begun, or
\* changes none of what is initial.
LEMMA NotBegunStep == NotBegun /\ [Next]_vars => NotBegun'
<1> SUFFICES ASSUME NotBegun, [Next]_vars, life' = "off" PROVE NotBegun'
  BY DEF NotBegun
<1>1. life = "off"
  BY DEF Next, Begin, MetaOutDone, DataOutDone, Respond, MetaInDone, MetaInTimeout,
         DataInDone, TransferFailed, Events, AddDevice, MarkAdded, MarkAddedUnlocks,
         RemoveDevice, Destroy, Probe, Dispatcher, Dispatch, Lock, Test, Wait, SendRequest,
         KillUnlocks, ListDevices, DispatcherUnchanged, vars
<1>2. \/ UNCHANGED vars \/ Probe \/ ListDevices
  BY <1>1 DEF NotBegun, Next, Begin, MetaOutDone, DataOutDone, Respond, MetaInDone,
         MetaInTimeout, DataInDone, TransferFailed, Events, AddDevice, MarkAdded,
         MarkAddedUnlocks, RemoveDevice, Destroy, Dispatcher, Dispatch, Lock, Test, Wait,
         SendRequest, KillUnlocks
<1> QED
  BY <1>1, <1>2 DEF NotBegun, Probe, ListDevices, DispatcherUnchanged, vars

-----------------------------------------------------------------------------
(***************************************************************************)
(* The outgoing side.                                                      *)
(***************************************************************************)

Outgoing == ControlType /\ MutexHeld /\ OutPhase

LEMMA BeginStep == Outgoing /\ NotBegun /\ Begin => Outgoing'
<1> SUFFICES ASSUME Outgoing, NotBegun, Begin PROVE Outgoing'
  OBVIOUS
<1>1. dpc \in {"idle", "listing"} /\ dpc' = dpc /\ tfers = {} /\ ~tdata /\ ~tdata'
  BY DEF Outgoing, OutPhase, NotBegun, Begin
<1>2. ControlType'
  BY DEF Outgoing, ControlType, Begin
<1>3. MutexHeld'
  BY DEF Outgoing, MutexHeld, Begin
<1>4. OutPhase'
  BY <1>1 DEF Outgoing, OutPhase, NotBegun, Begin
<1> QED
  BY <1>2, <1>3, <1>4 DEF Outgoing

LEMMA MetaOutStep == Outgoing /\ MetaOutDone => Outgoing'
<1> SUFFICES ASSUME Outgoing, MetaOutDone PROVE Outgoing'
  OBVIOUS
<1>1. /\ "data_out" \notin tfers /\ ~tdata /\ dpc # "pushing" /\ dpc # "sleeping"
      /\ mutex = "free" /\ state = "BUSY"
  BY DEF Outgoing, OutPhase, MutexHeld, MetaOutDone
<1>2. CASE out.left > 0
  <2>1. /\ Submit({"meta_out"}, "data_out") /\ tdata' = TRUE
        /\ tmeta' = ("data_out" \notin tfers')
        /\ UNCHANGED <<state, mutex, out, sent>>
    BY <1>2 DEF MetaOutDone
  <2>2. "meta_out" \notin tfers'
    BY <2>1, SubmitEffect
  <2>3. "data_out" \in tfers' => ~tmeta'
    BY <2>1, Zenon
  <2>4. "data_out" \in tfers' \/ flagged'
    BY <2>1 DEF Submit, Kill
  <2>5. dpc' = dpc \/ dpc' = "woken"
    BY <2>1 DEF Submit, Kill
  <2>6. ControlType' /\ MutexHeld'
    BY <1>1, <2>1, <2>5 DEF Outgoing, ControlType, MutexHeld
  <2>7. OutPhase'
    BY <1>1, <1>2, <2>1, <2>2, <2>3, <2>4, <2>5 DEF OutPhase, Outgoing, ControlType
  <2> QED
    BY <2>6, <2>7 DEF Outgoing
<1>3. CASE ~(out.left > 0)
  <2>1. /\ tfers' = tfers \ {"meta_out"} /\ ~tmeta' /\ ~tdata'
        /\ UNCHANGED <<mutex, out, sent>>
        /\ Available
    BY <1>1, <1>3 DEF MetaOutDone
  <2>2. state' = "AVAILABLE" /\ dpc' = IF dpc = "waiting" THEN "woken" ELSE dpc
    BY <2>1 DEF Available
  <2>3. ControlType' /\ MutexHeld'
    BY <1>1, <2>1, <2>2 DEF Outgoing, ControlType, MutexHeld
  <2>4. OutPhase'
    BY <1>1, <2>1, <2>2 DEF OutPhase, Outgoing
  <2> QED
    BY <2>3, <2>4 DEF Outgoing
<1> QED
  BY <1>2, <1>3

LEMMA DataOutStep == Outgoing /\ DataOutDone => Outgoing'
<1> SUFFICES ASSUME Outgoing, DataOutDone PROVE Outgoing'
  OBVIOUS
<1>1. /\ "meta_out" \notin tfers /\ ~tmeta /\ tdata /\ dpc # "pushing"
      /\ state = "BUSY"
  BY DEF Outgoing, OutPhase, DataOutDone
<1>2. out' \in [tag : Int, left : Int] /\ out'.left = out.left - 1 /\ out.left \in Int
  BY DEF Outgoing, ControlType, DataOutDone
<1>3. CASE out.left > 1
  <2>1. /\ Submit({"data_out"}, "data_out")
        /\ UNCHANGED <<state, tmeta, tdata, mutex, sent>>
    BY <1>3 DEF DataOutDone, Outgoing, ControlType
  <2>2. "meta_out" \notin tfers'
    BY <1>1, <2>1, SubmitEffect
  <2>3. "data_out" \in tfers' \/ flagged'
    BY <2>1 DEF Submit, Kill
  <2>4. dpc' = dpc \/ (dpc = "waiting" /\ dpc' = "woken")
    BY <2>1, SubmitEffect
  <2>5. ControlType' /\ MutexHeld'
    BY <1>2, <2>1, <2>4 DEF Outgoing, ControlType, MutexHeld
  <2>6. OutPhase'
    BY <1>1, <1>2, <1>3, <2>1, <2>2, <2>3, <2>4 DEF OutPhase, Outgoing
  <2> QED
    BY <2>5, <2>6 DEF Outgoing
<1>4. CASE ~(out.left > 1)
  <2>1. /\ tfers' = tfers \ {"data_out"} /\ ~tmeta' /\ ~tdata'
        /\ UNCHANGED <<mutex, sent>> /\ mutex = "free"
        /\ Available
    BY <1>1, <1>4 DEF DataOutDone
  <2>2. state' = "AVAILABLE" /\ dpc' = IF dpc = "waiting" THEN "woken" ELSE dpc
    BY <2>1 DEF Available
  <2>3. dpc # "sleeping"
    BY <2>1 DEF Outgoing, MutexHeld
  <2>4. ControlType' /\ MutexHeld'
    BY <1>2, <2>1, <2>2 DEF Outgoing, ControlType, MutexHeld
  <2>5. OutPhase'
    BY <1>1, <2>1, <2>2, <2>3 DEF OutPhase, Outgoing
  <2> QED
    BY <2>4, <2>5 DEF Outgoing
<1> QED
  BY <1>3, <1>4

LEMMA FailedStep ==
  ASSUME Outgoing, NEW t \in Transfers, TransferFailed(t)
  PROVE  Outgoing'
<1>1. /\ tfers' = tfers \ {t} /\ flagged'
      /\ dpc' = dpc \/ (dpc = "waiting" /\ dpc' = "woken")
      /\ UNCHANGED <<state, tmeta, tdata, mutex, out, sent>>
  BY DEF TransferFailed, Kill
<1>2. ControlType' /\ MutexHeld'
  BY <1>1 DEF Outgoing, ControlType, MutexHeld
<1>3. OutPhase'
  BY <1>1 DEF Outgoing, OutPhase
<1> QED
  BY <1>2, <1>3 DEF Outgoing

LEMMA SendStep == Outgoing /\ SendRequest => Outgoing'
<1> SUFFICES ASSUME Outgoing, SendRequest PROVE Outgoing'
  OBVIOUS
<1>1. /\ state = "BUSY" /\ state' = "BUSY" /\ ~tdata /\ ~tdata' /\ tmeta'
      /\ "meta_out" \notin tfers /\ "data_out" \notin tfers /\ sent' = sent
  BY DEF Outgoing, OutPhase, SendRequest
<1>2. out' \in [tag : Int, left : Int]
  BY PiecesAssumption DEF Outgoing, ControlType, SendRequest
<1>3. CASE tfers' = tfers \cup {"meta_out"} /\ dpc' = "idle" /\ mutex' = "free"
  BY <1>1, <1>2, <1>3 DEF Outgoing, ControlType, MutexHeld, OutPhase
<1>4. CASE /\ flagged' = TRUE /\ tfers' = tfers
           /\ \/ dpc' = "unlocking" /\ mutex' = "disp"
              \/ dpc' = "idle" /\ mutex' = "free"
  BY <1>1, <1>2, <1>4 DEF Outgoing, ControlType, MutexHeld, OutPhase
<1> QED
  BY <1>3, <1>4 DEF SendRequest

\* The other steps of the dispatcher.
LEMMA DispatcherStep ==
  Outgoing /\ (Lock \/ Test \/ Wait \/ KillUnlocks \/ Dispatch \/ ListDevices)
    => Outgoing'
<1> SUFFICES ASSUME Outgoing,
                    Lock \/ Test \/ Wait \/ KillUnlocks \/ Dispatch \/ ListDevices
             PROVE  Outgoing'
  OBVIOUS
<1>1. UNCHANGED <<tfers, tmeta, tdata, flagged, out>>
  BY DEF Lock, Test, Wait, KillUnlocks, Dispatch, ListDevices, DispatcherUnchanged
<1>2. ControlType'
  BY DEF Outgoing, ControlType, Lock, Test, Wait, KillUnlocks, Dispatch, ListDevices,
         DispatcherUnchanged
<1>3. MutexHeld'
  BY DEF Outgoing, MutexHeld, ControlType, Lock, Test, Wait, KillUnlocks, Dispatch,
         ListDevices
<1>4. OutPhase'
  <2>1. CASE UNCHANGED state /\ dpc' # "pushing" /\ dpc' \notin {"sleeping", "waiting"}
                             /\ dpc # "pushing"
    BY <1>1, <2>1 DEF Outgoing, OutPhase
  <2>2. CASE Wait
    BY <1>1, <2>2 DEF Outgoing, OutPhase, Wait
  <2>3. CASE Test /\ dpc' = "sleeping"
    BY <1>1, <2>3 DEF Outgoing, OutPhase, ControlType, Test
  <2>4. CASE Test /\ dpc' = "pushing"
    BY <1>1, <2>4 DEF Outgoing, OutPhase, Test
  <2> QED
    BY <2>1, <2>2, <2>3, <2>4 DEF Lock, Test, KillUnlocks, Dispatch, ListDevices
<1> QED
  BY <1>2, <1>3, <1>4 DEF Outgoing

-----------------------------------------------------------------------------

IInv == Outgoing /\ NotBegun /\ OneResponseIn

LEMMA InitIInv == Init => IInv
BY RequestsAssumption
DEF Init, IInv, Outgoing, ControlType, MutexHeld, OutPhase, NotBegun, OneResponseIn, Ident

LEMMA NextIInv == IInv /\ [Next]_vars => IInv'
<1> SUFFICES ASSUME IInv, [Next]_vars PROVE IInv'
  OBVIOUS
<1>1. NotBegun' /\ OneResponseIn'
  BY NotBegunStep, ResponseStep DEF IInv
<1> SUFFICES Outgoing'
  BY <1>1 DEF IInv
<1>2. ASSUME OutgoingAside PROVE Outgoing'
  BY <1>2, AsideKeeps DEF IInv, Outgoing
<1>3. CASE Begin \/ MetaOutDone \/ DataOutDone
  BY <1>3, BeginStep, MetaOutStep, DataOutStep DEF IInv
<1>4. CASE Respond \/ MetaInTimeout \/ DataInDone
  BY <1>4, <1>2, IncomingAside DEF Respond
<1>5. CASE \E t \in Transfers : TransferFailed(t)
  BY <1>5, FailedStep DEF IInv
<1>6. CASE Events \/ Destroy \/ Probe
  BY <1>6, <1>2, LoopAside
<1>7. CASE Dispatcher \/ Dispatch \/ ListDevices
  BY <1>7, SendStep, DispatcherStep DEF IInv, Dispatcher
<1>8. CASE UNCHANGED vars
  BY <1>8, <1>2 DEF OutgoingAside, vars
<1> QED
  BY <1>3, <1>4, <1>5, <1>6, <1>7, <1>8 DEF Next

\* The inductive invariant holds throughout.
THEOREM Invariance == Spec => []IInv
BY InitIInv, NextIInv, PTL DEF Spec

\* A request goes out only when the transfers of the one before are done, for
\* any number of requests and any failures (USBBackend::Device::SendRequest).
THEOREM RequestsDoNotOverlap == Spec => []OneRequestOut
<1>1. IInv => OneRequestOut
  BY DEF IInv, Outgoing, OutPhase, OneRequestOut
<1> QED
  BY <1>1, Invariance, PTL

\* A response is complete before the next header is received.
THEOREM ResponsesDoNotOverlap == Spec => []OneResponseIn
<1>1. IInv => OneResponseIn
  BY DEF IInv
<1> QED
  BY <1>1, Invariance, PTL

\* SendRequest never sleeps on a live device without a transfer under way whose
\* callback notifies it.
THEOREM NoLostWakeup == Spec => []SleeperHasWaker
<1>1. IInv => SleeperHasWaker
  BY DEF IInv, Outgoing, OutPhase, SleeperHasWaker
<1> QED
  BY <1>1, Invariance, PTL

-----------------------------------------------------------------------------
(***************************************************************************)
(* The initial scan lock.                                                  *)
(***************************************************************************)

ScanInv == counter \in Int /\ isl \in BOOLEAN /\ ScanCounted

\* The device's lock is released once.
LEMMA ReleaseScan ==
  ASSUME ScanInv, isl, isl' = FALSE, counter' = counter - 1, UNCHANGED <<probing, twice>>
  PROVE  ScanInv'
<1> DEFINE P == IF probing THEN 1 ELSE 0
<1>1. P \in Int /\ (IF probing' THEN 1 ELSE 0) = P
  OBVIOUS
<1>2. twice \/ counter = P + 1
  BY DEF ScanInv, ScanCounted
<1>3. (IF isl' THEN 1 ELSE 0) = 0
  OBVIOUS
<1> HIDE DEF P
<1>4. twice' \/ counter' = P + 0
  BY <1>1, <1>2 DEF ScanInv
<1>5. counter' \in Int
  BY DEF ScanInv
<1>6. isl' \in BOOLEAN
  BY Zenon
<1> QED
  BY <1>1, <1>3, <1>4, <1>5, <1>6 DEF ScanInv, ScanCounted

\* Kill releases the device's lock once, whoever calls it from the event thread.
LEMMA KillScan ==
  ASSUME ScanInv, Kill, UNCHANGED <<probing, twice>>
  PROVE  ScanInv'
<1>1. CASE isl
  BY <1>1, ReleaseScan DEF Kill
<1>2. CASE ~isl
  BY <1>2 DEF ScanInv, ScanCounted, Kill
<1> QED
  BY <1>1, <1>2

LEMMA SameScan ==
  ASSUME ScanInv, UNCHANGED <<probing, isl, counter, twice>>
  PROVE  ScanInv'
BY DEF ScanInv, ScanCounted

LEMMA SubmitScan ==
  ASSUME ScanInv, NEW done, NEW t, Submit(done, t), UNCHANGED <<probing, twice>>
  PROVE  ScanInv'
<1>1. CASE Kill
  BY <1>1, KillScan
<1>2. CASE UNCHANGED <<isl, counter>>
  BY <1>2, SameScan
<1> QED
  BY <1>1, <1>2 DEF Submit

LEMMA DispatchScan ==
  ASSUME ScanInv, NEW done, NEW tag, DispatchResponse(done, tag),
         UNCHANGED <<probing, twice>>
  PROVE  ScanInv'
<1>1. CASE Kill
  BY <1>1, KillScan
<1>2. CASE Submit({done}, "meta_in")
  BY <1>2, SubmitScan
<1> QED
  BY <1>1, <1>2 DEF DispatchResponse

LEMMA UnlockScanStep ==
  ASSUME ScanInv, UnlockScan, UNCHANGED probing
  PROVE  ScanInv'
<1>1. CASE isl /\ isl' = FALSE /\ counter' = counter - 1 /\ twice' = twice
  BY <1>1, ReleaseScan
<1>2. CASE twice' = TRUE /\ counter' = counter - 1 /\ isl' = isl
  BY <1>2 DEF ScanInv, ScanCounted
<1>3. CASE UNCHANGED <<isl, counter, twice>>
  BY <1>3, SameScan
<1> QED
  BY <1>1, <1>2, <1>3 DEF UnlockScan

LEMMA BeginScan == ScanInv /\ NotBegun /\ Begin => ScanInv'
<1> SUFFICES ASSUME ScanInv, NotBegun, Begin PROVE ScanInv'
  OBVIOUS
<1>1. ~isl /\ UNCHANGED <<probing, twice>>
  BY DEF NotBegun, Begin
<1>2. PICK in_fails \in MayFail, out_fails \in MayFail :
        /\ isl' = (~in_fails /\ ~out_fails)
        /\ counter' = IF ~in_fails /\ ~out_fails THEN counter + 1 ELSE counter
  BY DEF Begin
<1>3. CASE ~in_fails /\ ~out_fails
  <2>1. isl' = TRUE /\ counter' = counter + 1
    BY <1>2, <1>3
  <2> QED
    BY <1>1, <2>1 DEF ScanInv, ScanCounted
<1>4. CASE ~(~in_fails /\ ~out_fails)
  <2>1. isl' = FALSE /\ counter' = counter
    BY <1>2, <1>4
  <2> QED
    BY <1>1, <2>1 DEF ScanInv, ScanCounted
<1> QED
  BY <1>3, <1>4

LEMMA NextScan == ScanInv /\ NotBegun /\ [Next]_vars => ScanInv'
<1> SUFFICES ASSUME ScanInv, NotBegun, [Next]_vars PROVE ScanInv'
  OBVIOUS
<1>1. CASE Begin
  BY <1>1, BeginScan
<1>2. CASE MetaOutDone
  <2>1. CASE Submit({"meta_out"}, "data_out")
    BY <1>2, <2>1, SubmitScan DEF MetaOutDone
  <2>2. CASE UNCHANGED <<isl, counter>>
    BY <1>2, <2>2, SameScan DEF MetaOutDone
  <2> QED
    BY <1>2, <2>1, <2>2 DEF MetaOutDone
<1>3. CASE DataOutDone
  <2>1. CASE Submit({"data_out"}, "data_out")
    BY <1>3, <2>1, SubmitScan DEF DataOutDone
  <2>2. CASE UNCHANGED <<isl, counter>>
    BY <1>3, <2>2, SameScan DEF DataOutDone
  <2> QED
    BY <1>3, <2>1, <2>2 DEF DataOutDone
<1>4. ASSUME NEW tag, NEW n, NEW objects, MetaInDone(tag, n, objects) PROVE ScanInv'
  BY <1>4, SubmitScan, DispatchScan DEF MetaInDone
<1>5. CASE MetaInTimeout \/ DataInDone
  BY <1>5, SubmitScan, DispatchScan DEF MetaInTimeout, DataInDone
<1>6. CASE \E t \in Transfers : TransferFailed(t)
  BY <1>6, KillScan DEF TransferFailed
<1>7. CASE MarkAddedUnlocks \/ KillUnlocks
  BY <1>7, UnlockScanStep DEF MarkAddedUnlocks, KillUnlocks, DispatcherUnchanged
<1>8. CASE Probe
  BY <1>8 DEF Probe, ScanInv, ScanCounted
<1>9. CASE UNCHANGED <<probing, isl, counter, twice>>
  BY <1>9, SameScan
<1> QED
  BY <1>1, <1>2, <1>3, <1>4, <1>5, <1>6, <1>7, <1>8, <1>9
  DEF Next, Respond, Events, Dispatcher, AddDevice, MarkAdded, RemoveDevice, Destroy,
      Dispatch, Lock, Test, Wait, SendRequest, ListDevices, DispatcherUnchanged, scanVars,
      vars

\* LIST_DEVICES waits exactly for the scan and the identification that are under
\* way: the counter counts the locks that are held, unless MarkAdded and a Kill
\* in SendRequest released the device's lock at the same time.
THEOREM ScanLocksCounted == Spec => []ScanCounted
<1>1. Init => ScanInv
  <2> SUFFICES ASSUME Init PROVE ScanInv
    OBVIOUS
  <2>1. probing = TRUE /\ isl = FALSE /\ counter = 1
    BY DEF Init
  <2>2. counter = (IF probing THEN 1 ELSE 0) + (IF isl THEN 1 ELSE 0)
    BY <2>1
  <2>3. counter \in Int
    BY <2>1
  <2>4. isl \in BOOLEAN
    BY <2>1, Zenon
  <2>5. ScanCounted
    BY <2>2 DEF ScanCounted
  <2> QED
    BY <2>3, <2>4, <2>5 DEF ScanInv
<1>2. ScanInv => ScanCounted
  BY DEF ScanInv
<1>3. IInv => NotBegun
  BY DEF IInv
<1> QED
  BY <1>1, <1>2, <1>3, NextScan, Invariance, PTL DEF Spec

-----------------------------------------------------------------------------
(***************************************************************************)
(* Answers.                                                                *)
(***************************************************************************)

\* The request is on its way out, or its response on its way in.
GoingOut(t) == out.tag = t /\ ("meta_out" \in tfers \/ "data_out" \in tfers)
ComingIn(t) == in.tag = t /\ "data_in" \in tfers

\* The dispatcher has taken the request up and not sent it yet.
InHand(t) == t = sent /\ dpc \in {"locking", "testing", "sleeping", "waiting", "woken", "pushing"}

\* A request is on its way out, with the console, on its way back or answered, and
\* it is pending only while it is not answered.
Place(t) ==
  /\ t > sent \/ InHand(t) => /\ answers[t] = 0 /\ t \notin pending /\ t \notin wire
                              /\ ~ComingIn(t) /\ ~GoingOut(t)
  /\ GoingOut(t) => answers[t] = 0 /\ t \notin wire /\ ~ComingIn(t)
  /\ t \in wire => ~ComingIn(t) /\ (life # "destroyed" => answers[t] = 0)
  /\ ComingIn(t) => answers[t] = 0
  /\ t \in pending => answers[t] = 0
  /\ answers[t] \in {0, 1}

\* A device that was destroyed, or has not begun, does nothing.
Ended ==
  /\ life = "destroyed" => tfers = {} /\ pending = {} /\ dpc \in {"idle", "listing"}
  /\ mapped => life = "listed"
  /\ life = "off" => out.tag = Ident

ResponseType == in \in [tag : {Ident} \cup Tags, left : Int, objects : BOOLEAN]

AnswerInv ==
  Ended /\ ResponseType /\ answers \in [Tags -> Int] /\ \A t \in Tags : Place(t)

\* The steps of a device that has not begun, or was destroyed.
LEMMA EndedStep ==
  ASSUME IInv, Ended, [Next]_vars
  PROVE  Ended'
<1>1. NotBegun /\ NotBegun'
  BY NextIInv DEF IInv
<1>2. (mapped => life = "listed")'
  BY <1>1 DEF Ended, NotBegun, Next, Begin, MetaOutDone, DataOutDone, Respond, MetaInDone,
     MetaInTimeout, DataInDone, TransferFailed, Events, AddDevice, MarkAdded, MarkAddedUnlocks,
     RemoveDevice, Destroy, Probe, Dispatcher, Dispatch, Lock, Test, Wait, SendRequest,
     KillUnlocks, ListDevices, DispatcherUnchanged, vars
<1>3. (life = "off" => out.tag = Ident)'
  <2> SUFFICES ASSUME life' = "off" PROVE out'.tag = Ident
    OBVIOUS
  <2>1. life = "off"
    BY DEF Next, Begin, MetaOutDone, DataOutDone, Respond, MetaInDone, MetaInTimeout,
           DataInDone, TransferFailed, Events, AddDevice, MarkAdded, MarkAddedUnlocks,
           RemoveDevice, Destroy, Probe, Dispatcher, Dispatch, Lock, Test, Wait, SendRequest,
           KillUnlocks, ListDevices, DispatcherUnchanged, vars
  <2>2. out' = out
    BY <1>1, <2>1 DEF NotBegun, Next, Begin, MetaOutDone, DataOutDone, Respond, MetaInDone,
           MetaInTimeout, DataInDone, TransferFailed, Events, AddDevice, MarkAdded,
           MarkAddedUnlocks, RemoveDevice, Destroy, Probe, Dispatcher, Dispatch, Lock, Test,
           Wait, SendRequest, KillUnlocks, ListDevices, DispatcherUnchanged, vars
  <2> QED
    BY <2>1, <2>2 DEF Ended
<1>4. ASSUME life' = "destroyed"
      PROVE  tfers' = {} /\ pending' = {} /\ dpc' \in {"idle", "listing"}
  <2>1. life = "destroyed" \/ Destroy
    BY <1>4 DEF Next, Begin, MetaOutDone, DataOutDone, Respond, MetaInDone, MetaInTimeout,
           DataInDone, TransferFailed, Events, AddDevice, MarkAdded, MarkAddedUnlocks,
           RemoveDevice, Probe, Dispatcher, Dispatch, Lock, Test, Wait, SendRequest,
           KillUnlocks, ListDevices, DispatcherUnchanged, vars
  <2>2. CASE Destroy
    BY <2>2 DEF Destroy
  <2>3. CASE life = "destroyed" /\ ~Destroy
    <3>1. tfers = {} /\ pending = {} /\ dpc \in {"idle", "listing"} /\ ~mapped
      BY <2>3 DEF Ended
    <3>2. \/ UNCHANGED vars \/ MarkAdded \/ MarkAddedUnlocks \/ Probe \/ ListDevices
      BY <2>3, <3>1 DEF Next, Begin, MetaOutDone, DataOutDone, Respond, MetaInDone,
         MetaInTimeout, DataInDone, TransferFailed, Events, AddDevice, RemoveDevice,
         Dispatcher, Dispatch, Lock, Test, Wait, SendRequest, KillUnlocks
    <3> QED
      BY <3>1, <3>2 DEF MarkAdded, MarkAddedUnlocks, Probe, ListDevices,
         DispatcherUnchanged, vars
  <2> QED
    BY <2>1, <2>2, <2>3
<1> QED
  BY <1>2, <1>3, <1>4 DEF Ended

\* A step that moves no request and answers none.
AnswersAside ==
  /\ UNCHANGED <<sent, wire, answers, pending>>
  /\ life' = "destroyed" <=> life = "destroyed"
  /\ \A t \in Tags : /\ GoingOut(t)' => GoingOut(t)
                     /\ ComingIn(t)' => ComingIn(t)
                     /\ InHand(t)' => InHand(t)

\* Such a step leaves the requests in their places.
LEMMA PlacesKept ==
  ASSUME NEW t \in Tags, Place(t), AnswersAside
  PROVE  Place(t)'
<1>1. /\ sent' = sent /\ wire' = wire /\ answers' = answers /\ pending' = pending
      /\ (life' = "destroyed" <=> life = "destroyed")
      /\ (GoingOut(t)' => GoingOut(t)) /\ (ComingIn(t)' => ComingIn(t))
      /\ (InHand(t)' => InHand(t))
  BY DEF AnswersAside
<1> QED
  BY <1>1, Zenon DEF Place

\* Aside are the steps of the threads between transfers.
LEMMA ThreadsAside ==
  ASSUME IInv, Ended,
         \/ AddDevice \/ MarkAdded \/ MarkAddedUnlocks \/ RemoveDevice \/ Probe
         \/ Lock \/ Test \/ Wait \/ KillUnlocks \/ ListDevices \/ UNCHANGED vars
  PROVE  AnswersAside
<1>1. UNCHANGED <<sent, wire, answers, pending, out, in, tfers>>
  BY DEF AddDevice, MarkAdded, MarkAddedUnlocks, RemoveDevice, Probe, Lock, Test, Wait,
         KillUnlocks, ListDevices, DispatcherUnchanged, vars
<1>2. life' = "destroyed" <=> life = "destroyed"
  BY DEF AddDevice, MarkAdded, MarkAddedUnlocks, RemoveDevice, Probe, Lock, Test, Wait,
         KillUnlocks, ListDevices, DispatcherUnchanged, vars
<1>3. \A t \in Tags : InHand(t)' => InHand(t)
  BY DEF InHand, AddDevice, MarkAdded, MarkAddedUnlocks, RemoveDevice, Probe, Lock, Test,
         Wait, KillUnlocks, ListDevices, DispatcherUnchanged, vars
<1> QED
  BY <1>1, <1>2, <1>3 DEF AnswersAside, GoingOut, ComingIn

\* Waking the dispatcher leaves the request in its hands.
LEMMA WokenInHand ==
  ASSUME sent' = sent, dpc' = dpc \/ (dpc = "waiting" /\ dpc' = "woken")
  PROVE  \A t \in Tags : InHand(t)' => InHand(t)
BY DEF InHand

\* A failed transfer, and a header that did not come in time, move no request.
LEMMA FailedAside ==
  ASSUME MetaInTimeout \/ \E x \in Transfers : TransferFailed(x)
  PROVE  AnswersAside
<1>1. UNCHANGED <<sent, wire, answers, pending, out, in, life>>
  BY DEF MetaInTimeout, TransferFailed
<1>2. dpc' = dpc \/ (dpc = "waiting" /\ dpc' = "woken")
  BY DEF MetaInTimeout, TransferFailed, Submit, Kill
<1>3. tfers' \subseteq tfers
  <2>1. CASE MetaInTimeout
    <3>1. "meta_in" \in tfers
      BY <2>1 DEF MetaInTimeout
    <3> QED
      BY <2>1, <3>1 DEF MetaInTimeout, Submit
  <2>2. CASE \E x \in Transfers : TransferFailed(x)
    BY <2>2 DEF TransferFailed
  <2> QED
    BY <2>1, <2>2
<1> QED
  BY <1>1, <1>2, <1>3, WokenInHand DEF AnswersAside, GoingOut, ComingIn

\* A request is out: the console has it, or its payload follows.
LEMMA OutPlaces ==
  ASSUME IInv, NEW t \in Tags, Place(t), MetaOutDone \/ DataOutDone
  PROVE  Place(t)'
<1>1. /\ UNCHANGED <<sent, answers, pending, in, life>> /\ out'.tag = out.tag
      /\ wire' = wire \/ (wire' = wire \cup {out.tag} /\ "meta_out" \notin tfers'
                                                      /\ "data_out" \notin tfers')
  <2>1. UNCHANGED <<sent, answers, pending, in, life>>
    BY DEF MetaOutDone, DataOutDone
  <2>2. out'.tag = out.tag
    <3>1. CASE MetaOutDone
      BY <3>1 DEF MetaOutDone
    <3>2. CASE DataOutDone
      <4>1. out' = [out EXCEPT !.left = out.left - 1] /\ out \in [tag : Int, left : Int]
        BY <3>2 DEF DataOutDone, IInv, Outgoing, ControlType
      <4> QED
        BY <4>1
    <3> QED
      BY <3>1, <3>2
  <2>3. \/ wire' = wire
        \/ wire' = wire \cup {out.tag} /\ "meta_out" \notin tfers' /\ "data_out" \notin tfers'
    <3>1. CASE MetaOutDone
      BY <3>1 DEF MetaOutDone, IInv, Outgoing, OutPhase
    <3>2. CASE DataOutDone
      BY <3>2 DEF DataOutDone, IInv, Outgoing, OutPhase
    <3> QED
      BY <3>1, <3>2
  <2> QED
    BY <2>1, <2>2, <2>3
<1>2. "meta_out" \in tfers \/ "data_out" \in tfers
  BY DEF MetaOutDone, DataOutDone
<1>3. dpc' = dpc \/ (dpc = "waiting" /\ dpc' = "woken")
  BY DEF MetaOutDone, DataOutDone, Submit, Kill, Available
<1>4. "data_in" \in tfers' => "data_in" \in tfers
  <2>1. \/ Submit({"meta_out"}, "data_out") \/ Submit({"data_out"}, "data_out")
        \/ tfers' \subseteq tfers
    BY DEF MetaOutDone, DataOutDone
  <2> QED
    BY <2>1, SubmitEffect
<1>5. InHand(t)' => InHand(t)
  BY <1>1, <1>3, WokenInHand
<1>6. (ComingIn(t)' => ComingIn(t)) /\ (GoingOut(t)' => GoingOut(t))
  BY <1>1, <1>2, <1>4 DEF ComingIn, GoingOut
<1>7. t \in wire' => t \in wire \/ (GoingOut(t) /\ ~GoingOut(t)')
  BY <1>1, <1>2 DEF GoingOut
<1>8. sent' = sent /\ answers' = answers /\ pending' = pending /\ life' = life
  BY <1>1
<1>9. GoingOut(t)' => t \notin wire'
  BY <1>6, <1>7 DEF Place
<1>10. CASE GoingOut(t)
  <2>1. answers[t] = 0 /\ ~ComingIn(t) /\ ~(t > sent \/ InHand(t))
    BY <1>10 DEF Place
  <2> QED
    BY <1>5, <1>6, <1>8, <1>9, <1>10, <2>1, Zenon DEF Place
<1>11. CASE ~GoingOut(t)
  BY <1>5, <1>6, <1>7, <1>8, <1>9, <1>11, Zenon DEF Place
<1> QED
  BY <1>10, <1>11

\* DispatchResponse answers a request that is in no other place.
LEMMA AnswerPlaces ==
  ASSUME NEW tag, NEW done, NEW t \in Tags, Place(t), DispatchResponse(done, tag),
         answers \in [Tags -> Int], tag \in {Ident} \cup Tags,
         done = "data_in" \/ "data_in" \notin tfers,
         sent' = sent, out' = out, life' = life, wire' \subseteq wire,
         done \in {"data_in", "meta_in"},
         tag = t => /\ answers[t] = 0 /\ t \notin wire' /\ ~GoingOut(t)
                    /\ ~(t > sent \/ InHand(t))
  PROVE  Place(t)' /\ answers' \in [Tags -> Int]
<1>1. /\ pending' = pending \ {tag}
      /\ \/ tag # Ident /\ answers' = [answers EXCEPT ![tag] = @ + 1]
         \/ answers' = answers /\ tag = Ident
  BY DEF DispatchResponse
<1>2. Ident \notin Tags
  BY RequestsAssumption DEF Ident, Tags
<1>3. answers' \in [Tags -> Int] /\ (t # tag => answers'[t] = answers[t])
      /\ (t = tag => answers'[t] = answers[t] + 1)
  BY <1>1, <1>2
<1>4. /\ (dpc' = dpc \/ (dpc = "waiting" /\ dpc' = "woken"))
      /\ \A x : x # "meta_in" => (x \in tfers' <=> x \in tfers /\ x # done)
  BY DispatchEffect
<1>5. "data_in" \notin tfers' /\ ~ComingIn(t)'
  BY <1>4 DEF ComingIn
<1>6. (GoingOut(t)' => GoingOut(t)) /\ (InHand(t)' => InHand(t))
  BY <1>4, WokenInHand DEF GoingOut
<1>7. CASE t = tag
  <2>1. answers'[t] = 1
    BY <1>3, <1>7
  <2>2. ~GoingOut(t)' /\ ~(t > sent' \/ InHand(t)') /\ t \notin wire' /\ t \notin pending'
    BY <1>1, <1>6, <1>7
  <2> QED
    BY <1>3, <1>5, <2>1, <2>2 DEF Place
<1>8. CASE t # tag
  <2>1. answers'[t] = answers[t] /\ (t \in pending' => t \in pending)
        /\ (t \in wire' => t \in wire) /\ sent' = sent /\ life' = life
    BY <1>1, <1>3, <1>8
  <2>2. Place(t)'
    BY <1>5, <1>6, <2>1, Zenon DEF Place
  <2> QED
    BY <1>3, <2>2
<1> QED
  BY <1>7, <1>8

\* A response begins to arrive, or is complete.
LEMMA RespondPlaces ==
  ASSUME IInv, AnswerInv, Respond
  PROVE  answers' \in [Tags -> Int] /\ \A t \in Tags : Place(t)'
<1>1. PICK tag \in {Ident} \cup Tags, n \in Pieces, objects \in BOOLEAN :
        MetaInDone(tag, n, objects)
  BY DEF Respond
<1>2. /\ "meta_in" \in tfers /\ tag \in wire /\ wire' = wire \ {tag}
      /\ in' = [tag |-> tag, left |-> n, objects |-> objects]
      /\ sent' = sent /\ out' = out /\ life' = life
  BY <1>1 DEF MetaInDone
<1>3. "data_in" \notin tfers /\ life # "destroyed" /\ answers \in [Tags -> Int]
  BY <1>2 DEF IInv, OneResponseIn, AnswerInv, Ended
<1>4. \A t \in Tags : Place(t)
  BY DEF AnswerInv
<1>5. ASSUME NEW t \in Tags, tag = t
      PROVE  /\ answers[t] = 0 /\ t \notin wire' /\ ~GoingOut(t) /\ ~(t > sent \/ InHand(t))
             /\ ~ComingIn(t)
  BY <1>2, <1>3, <1>4, <1>5, Zenon DEF Place
<1>6. CASE DispatchResponse("meta_in", tag)
  <2>1. \A t \in Tags : Place(t)' /\ answers' \in [Tags -> Int]
    BY <1>2, <1>3, <1>4, <1>5, <1>6, AnswerPlaces
  <2>2. Tags = {} => answers' \in [Tags -> Int]
    <3> SUFFICES ASSUME Tags = {} PROVE answers' = answers
      BY <1>3
    <3>1. tag = Ident
      OBVIOUS
    <3> QED
      BY <1>6, <3>1 DEF DispatchResponse
  <2> QED
    BY <2>1, <2>2
<1>7. CASE Submit({"meta_in"}, "data_in") /\ UNCHANGED <<pending, answers>>
  <2>1. /\ (dpc' = dpc \/ (dpc = "waiting" /\ dpc' = "woken"))
        /\ \A x : x # "data_in" => (x \in tfers' <=> x \in tfers /\ x \notin {"meta_in"})
    BY <1>7, SubmitEffect
  <2> SUFFICES ASSUME NEW t \in Tags PROVE Place(t)'
    BY <1>3, <1>7
  <2>2. (GoingOut(t)' => GoingOut(t)) /\ (InHand(t)' => InHand(t))
    BY <1>2, <2>1, WokenInHand DEF GoingOut
  <2>3. ComingIn(t)' => t = tag
    BY <1>2 DEF ComingIn
  <2>4. /\ sent' = sent /\ answers' = answers /\ pending' = pending /\ life' = life
        /\ (t \in wire' => t \in wire /\ t # tag)
    BY <1>2, <1>7
  <2>5. Place(t)
    BY <1>4
  <2>6. CASE t = tag
    <3>1. /\ answers[t] = 0 /\ t \notin wire' /\ ~GoingOut(t) /\ ~(t > sent \/ InHand(t))
      BY <1>5, <2>6
    <3> QED
      BY <2>2, <2>4, <2>5, <3>1, Zenon DEF Place
  <2>7. CASE t # tag
    BY <2>2, <2>3, <2>4, <2>5, <2>7, Zenon DEF Place
  <2> QED
    BY <2>6, <2>7
<1> QED
  BY <1>1, <1>6, <1>7 DEF MetaInDone

\* Payload of a response arrives, or the rest of it.
LEMMA DataInPlaces ==
  ASSUME IInv, AnswerInv, DataInDone
  PROVE  answers' \in [Tags -> Int] /\ \A t \in Tags : Place(t)'
<1>1. /\ "data_in" \in tfers /\ wire' = wire /\ sent' = sent /\ out' = out /\ life' = life
      /\ in.tag \in {Ident} \cup Tags
  BY DEF DataInDone, AnswerInv, ResponseType
<1>2. "meta_in" \notin tfers /\ answers \in [Tags -> Int] /\ \A t \in Tags : Place(t)
  BY <1>1 DEF IInv, OneResponseIn, AnswerInv
<1>3. ASSUME NEW t \in Tags, in.tag = t
      PROVE  /\ answers[t] = 0 /\ t \notin wire /\ ~GoingOut(t) /\ ~(t > sent \/ InHand(t))
  <2>1. ComingIn(t)
    BY <1>1, <1>3 DEF ComingIn
  <2> QED
    BY <1>2, <2>1, Zenon DEF Place
<1>4. CASE DispatchResponse("data_in", in.tag)
  <2>1. PICK tag \in {Ident} \cup Tags : tag = in.tag
    BY <1>1
  <2>2. DispatchResponse("data_in", tag)
    BY <1>4, <2>1
  <2>3. \A t \in Tags : Place(t)' /\ answers' \in [Tags -> Int]
    BY <1>1, <1>2, <1>3, <2>1, <2>2, AnswerPlaces
  <2>4. Tags = {} => answers' \in [Tags -> Int]
    <3> SUFFICES ASSUME Tags = {} PROVE answers' = answers
      BY <1>2
    <3>1. tag = Ident
      OBVIOUS
    <3> QED
      BY <2>2, <3>1 DEF DispatchResponse
  <2> QED
    BY <2>3, <2>4
<1>5. CASE /\ Submit({"data_in"}, "data_in") /\ UNCHANGED <<pending, answers>>
           /\ in' = [in EXCEPT !.left = @ - 1]
  <2>1. /\ (dpc' = dpc \/ (dpc = "waiting" /\ dpc' = "woken"))
        /\ \A x : x # "data_in" => (x \in tfers' <=> x \in tfers /\ x \notin {"data_in"})
    BY <1>5, SubmitEffect
  <2>2. in'.tag = in.tag
    BY <1>5 DEF AnswerInv, ResponseType
  <2>3. \A t \in Tags : /\ GoingOut(t)' => GoingOut(t)
                        /\ ComingIn(t)' => ComingIn(t)
                        /\ InHand(t)' => InHand(t)
    BY <1>1, <2>1, <2>2, WokenInHand DEF GoingOut, ComingIn
  <2>4. AnswersAside
    BY <1>1, <1>5, <2>3 DEF AnswersAside
  <2> QED
    BY <1>2, <1>5, <2>4, PlacesKept
<1> QED
  BY <1>4, <1>5 DEF DataInDone

\* The device begins with the identification, which is of no client.
LEMMA BeginPlaces ==
  ASSUME IInv, AnswerInv, Begin
  PROVE  \A t \in Tags : Place(t)'
<1> SUFFICES ASSUME NEW t \in Tags PROVE Place(t)'
  OBVIOUS
<1>1. t # Ident
  BY RequestsAssumption DEF Tags, Ident
<1>2. Place(t) /\ life = "off" /\ out.tag = Ident /\ life' = "listed"
  BY DEF AnswerInv, Ended, Begin
<1>3. /\ sent' = sent /\ out' = out /\ wire' = wire /\ answers' = answers /\ dpc' = dpc
      /\ pending' \subseteq {Ident} /\ "data_in" \notin tfers'
  BY DEF Begin
<1>4. ~GoingOut(t)' /\ ~ComingIn(t)' /\ (InHand(t)' => InHand(t)) /\ t \notin pending'
  BY <1>1, <1>2, <1>3 DEF GoingOut, ComingIn, InHand
<1>5. life # "destroyed"
  BY <1>2
<1> QED
  BY <1>2, <1>3, <1>4, <1>5, Zenon DEF Place

\* The dispatcher takes up a request.
LEMMA DispatchPlaces ==
  ASSUME IInv, AnswerInv, Dispatch
  PROVE  \A t \in Tags : Place(t)'
<1> SUFFICES ASSUME NEW t \in Tags PROVE Place(t)'
  OBVIOUS
<1>1. Place(t) /\ sent \in Int /\ t \in Int
  BY RequestsAssumption DEF AnswerInv, IInv, Outgoing, ControlType, Tags
<1>2. /\ sent' = sent + 1 /\ dpc' = "locking"
      /\ UNCHANGED <<life, out, in, wire, answers, pending, tfers>>
  BY DEF Dispatch, DispatcherUnchanged
<1>3. t > sent' \/ InHand(t)' => t > sent
  BY <1>1, <1>2 DEF InHand
<1>4. (GoingOut(t)' <=> GoingOut(t)) /\ (ComingIn(t)' <=> ComingIn(t))
  BY <1>2 DEF GoingOut, ComingIn
<1>5. life' = life /\ wire' = wire /\ answers' = answers /\ pending' = pending
  BY <1>2
<1> QED
  BY <1>1, <1>3, <1>4, <1>5, Zenon DEF Place

\* The dispatcher sends the request it has in hand.
LEMMA SendPlaces ==
  ASSUME IInv, AnswerInv, SendRequest
  PROVE  \A t \in Tags : Place(t)'
<1> SUFFICES ASSUME NEW t \in Tags PROVE Place(t)'
  OBVIOUS
<1>1. Place(t) /\ sent \in Int /\ t \in Int
  BY RequestsAssumption DEF AnswerInv, IInv, Outgoing, ControlType, Tags
<1>2. /\ dpc = "pushing" /\ sent' = sent /\ dpc' \in {"idle", "unlocking"}
      /\ pending' \subseteq pending \cup {sent} /\ out'.tag = sent
      /\ UNCHANGED <<life, in, wire, answers>>
  <2>1. \E kept \in BOOLEAN : pending' = IF kept THEN pending \cup {sent} ELSE pending
    BY Zenon DEF SendRequest
  <2>2. pending' \subseteq pending \cup {sent}
    BY <2>1
  <2>3. \E n \in Pieces : out' = [tag |-> sent, left |-> n]
    BY DEF SendRequest
  <2>4. out'.tag = sent
    BY <2>3
  <2>5. dpc = "pushing" /\ sent' = sent /\ UNCHANGED <<life, in, wire, answers>>
    BY DEF SendRequest
  <2>6. dpc' \in {"idle", "unlocking"}
    BY DEF SendRequest
  <2> QED
    BY <2>2, <2>4, <2>5, <2>6
<1>3. tfers' = tfers \/ tfers' = tfers \cup {"meta_out"}
  BY DEF SendRequest
<1>4. ~InHand(t)' /\ (ComingIn(t)' <=> ComingIn(t)) /\ (GoingOut(t)' => t = sent)
  BY <1>2, <1>3 DEF InHand, ComingIn, GoingOut
<1>5. life' = life /\ wire' = wire /\ answers' = answers
      /\ (t \in pending' => t \in pending \/ t = sent)
  BY <1>2
<1>6. CASE t = sent
  <2>1. InHand(t)
    BY <1>2, <1>6 DEF InHand
  <2>2. answers[t] = 0 /\ t \notin wire /\ ~ComingIn(t)
    BY <1>1, <2>1 DEF Place
  <2>3. ~(t > sent')
    BY <1>1, <1>2, <1>6
  <2> QED
    BY <1>1, <1>4, <1>5, <2>2, <2>3, Zenon DEF Place
<1>7. CASE t # sent
  BY <1>1, <1>2, <1>4, <1>5, <1>7, Zenon DEF Place
<1> QED
  BY <1>6, <1>7

\* ~Device fails what is pending.
LEMMA DestroyPlaces ==
  ASSUME IInv, AnswerInv, Destroy
  PROVE  answers' \in [Tags -> Int] /\ \A t \in Tags : Place(t)'
<1>1. /\ tfers = {} /\ tfers' = tfers /\ life' = "destroyed" /\ pending' = {}
      /\ answers' = [t \in Tags |-> IF t \in pending THEN answers[t] + 1 ELSE answers[t]]
      /\ UNCHANGED <<sent, wire, out, in, dpc>>
  BY DEF Destroy
<1>2. answers \in [Tags -> Int]
  BY DEF AnswerInv
<1>3. answers' \in [Tags -> Int]
  BY <1>1, <1>2
<1> SUFFICES ASSUME NEW t \in Tags PROVE Place(t)'
  BY <1>3
<1>4. Place(t)
  BY DEF AnswerInv
<1>5. ~GoingOut(t)' /\ ~ComingIn(t)' /\ (InHand(t)' <=> InHand(t)) /\ t \notin pending'
  BY <1>1 DEF GoingOut, ComingIn, InHand
<1>6. CASE t \in pending
  <2>1. answers[t] = 0 /\ ~(t > sent \/ InHand(t))
    BY <1>4, <1>6 DEF Place
  <2>2. answers'[t] = 1
    BY <1>1, <1>6, <2>1
  <2> QED
    BY <1>1, <1>5, <2>1, <2>2 DEF Place
<1>7. CASE t \notin pending
  <2>1. answers'[t] = answers[t]
    BY <1>1, <1>7
  <2> QED
    BY <1>1, <1>4, <1>5, <2>1, Zenon DEF Place
<1> QED
  BY <1>6, <1>7

\* What the reader of responses is in the middle of.
LEMMA ResponseTypeStep ==
  ASSUME ResponseType, [Next]_vars
  PROVE  ResponseType'
<1>1. CASE Respond
  <2>1. PICK tag \in {Ident} \cup Tags, n \in Pieces, objects \in BOOLEAN :
          in' = [tag |-> tag, left |-> n, objects |-> objects]
    BY <1>1 DEF Respond, MetaInDone
  <2>2. n \in Int
    BY PiecesAssumption
  <2> QED
    BY <2>1, <2>2 DEF ResponseType
<1>2. CASE DataInDone
  <2>1. \/ in' = [in EXCEPT !.left = in.left - 1]
        \/ in' = [in EXCEPT !.left = 0, !.objects = FALSE]
    BY <1>2 DEF DataInDone
  <2>2. in.left - 1 \in Int /\ 0 \in Int
    BY DEF ResponseType
  <2>3. FALSE \in BOOLEAN
    OBVIOUS
  <2> QED
    BY <2>1, <2>2, <2>3 DEF ResponseType
<1>3. CASE in' = in
  BY <1>3 DEF ResponseType
<1> QED
  BY <1>1, <1>2, <1>3 DEF Next, Begin, MetaOutDone, DataOutDone, MetaInTimeout,
     TransferFailed, Events, AddDevice, MarkAdded, MarkAddedUnlocks, RemoveDevice, Destroy,
     Probe, Dispatcher, Dispatch, Lock, Test, Wait, SendRequest, KillUnlocks, ListDevices,
     DispatcherUnchanged, vars

\* Every step keeps the places.
LEMMA NextAnswer ==
  ASSUME IInv, AnswerInv, [Next]_vars
  PROVE  AnswerInv'
<1>1. Ended /\ ResponseType /\ answers \in [Tags -> Int] /\ \A t \in Tags : Place(t)
  BY DEF AnswerInv
<1>2. Ended' /\ ResponseType'
  BY <1>1, EndedStep, ResponseTypeStep
<1> DEFINE Goal == answers' \in [Tags -> Int] /\ \A t \in Tags : Place(t)'
<1>3. ASSUME AnswersAside PROVE Goal
  BY <1>1, <1>3, PlacesKept DEF AnswersAside
<1>4. ASSUME Begin \/ Dispatch \/ SendRequest
      PROVE  Goal
  <2>1. answers' = answers
    BY <1>4 DEF Begin, Dispatch, SendRequest, DispatcherUnchanged
  <2> QED
    BY <1>1, <1>4, <2>1, BeginPlaces, DispatchPlaces, SendPlaces
<1>5. ASSUME MetaOutDone \/ DataOutDone
      PROVE  Goal
  <2>1. answers' = answers
    BY <1>5 DEF MetaOutDone, DataOutDone
  <2> QED
    BY <1>1, <1>5, <2>1, OutPlaces
<1>6. ASSUME Respond
      PROVE  Goal
  BY <1>6, RespondPlaces
<1>7. ASSUME DataInDone
      PROVE  Goal
  BY <1>7, DataInPlaces
<1>8. ASSUME Destroy
      PROVE  Goal
  BY <1>8, DestroyPlaces
<1>9. ASSUME MetaInTimeout \/ \E x \in Transfers : TransferFailed(x)
      PROVE  Goal
  BY <1>3, <1>9, FailedAside
<1>10. ASSUME \/ AddDevice \/ MarkAdded \/ MarkAddedUnlocks \/ RemoveDevice \/ Probe
              \/ Lock \/ Test \/ Wait \/ KillUnlocks \/ ListDevices \/ UNCHANGED vars
      PROVE  Goal
  BY <1>1, <1>3, <1>10, ThreadsAside
<1> HIDE DEF Goal
<1>11. Goal
  BY <1>4, <1>5, <1>6, <1>7, <1>8, <1>9, <1>10, Zenon DEF Next, Events, Dispatcher
<1> QED
  BY <1>2, <1>11 DEF Goal, AnswerInv

\* No request of a client is answered twice: neither by two responses nor by a
\* response and by ~Device, which fails what is pending, whatever transfers fail and
\* although pending_requests is changed by both threads (USBBackend.cpp).
THEOREM ResponseOrFailure == Spec => []AnsweredOnce
<1>1. Init => AnswerInv
  <2> SUFFICES ASSUME Init PROVE AnswerInv
    OBVIOUS
  <2>1. Ended
    BY DEF Init, Ended
  <2>2. ResponseType
    <3>1. in = [tag |-> Ident, left |-> 0, objects |-> FALSE] /\ FALSE \in BOOLEAN /\ 0 \in Int
      BY DEF Init
    <3> QED
      BY <3>1 DEF ResponseType
  <2>3. answers \in [Tags -> Int]
    BY DEF Init
  <2>4. ASSUME NEW t \in Tags PROVE Place(t)
    BY <2>4 DEF Init, Place, GoingOut, ComingIn
  <2> QED
    BY <2>1, <2>2, <2>3, <2>4 DEF AnswerInv
<1>2. AnswerInv => AnsweredOnce
  <2> SUFFICES ASSUME AnswerInv, NEW t \in Tags PROVE answers[t] <= 1
    BY DEF AnsweredOnce
  <2>1. answers[t] = 0 \/ answers[t] = 1
    BY DEF AnswerInv, Place
  <2> QED
    BY <2>1
<1> QED
  BY <1>1, <1>2, NextAnswer, Invariance, PTL DEF Spec
=============================================================================
