--------------------------- MODULE SystemServices ---------------------------
(***************************************************************************)
(* How twili calls the console's services (twili/Services.cpp): which      *)
(* service, command and arguments depend on the system version, and from   *)
(* 12.0.0 on pgl speaks TIPC, whose messages twili packs itself            *)
(* (twili/tipc.hpp).  Other services are called through libtransistor.     *)
(* A byte of an argument is told by the argument's name and its index.     *)
(***************************************************************************)
EXTENDS Integers, Sequences, SequencesExt, FiniteSets, FiniteSetsExt

CONSTANT Majors         \* system versions, by their major number

VARIABLES version,      \* the console's
          at,           \* the step of the call
          call,         \* the operation
          msg,          \* the message in the thread's buffer
          served,       \* what the service understood: operation and inputs
          outcome,      \* what it did, and the shape of its answer
          result,       \* what the caller is given
          observer,     \* pgl_seo, IShellEventObserver
          closed        \* handles that were closed
vars == <<version, at, call, msg, served, outcome, result, observer, closed>>

-----------------------------------------------------------------------------
(***************************************************************************)
(* The version's implementation.                                           *)
(***************************************************************************)

\* CreateForSystemVersion, which aborts below 1.0.0.
Api(v) == CASE v < 5 -> 1 [] v = 5 -> 5 [] v \in 6..9 -> 6 [] v \in 10..11 -> 10 [] OTHER -> 12

\* PmDmntCommandTable.
PmDmnt(api) ==
  IF api = 1 THEN [StartProcess |-> 2, GetProcessId |-> 3, HookToCreateProcess |-> 4,
                   GetApplicationProcessId |-> 5, HookToCreateApplicationProcess |-> 6]
  ELSE [StartProcess |-> 1, GetProcessId |-> 2, HookToCreateProcess |-> 3,
        GetApplicationProcessId |-> 4, HookToCreateApplicationProcess |-> 5]

\* The service and the command of an operation of ServicesImpl.
Common == [GetNsoInfos |-> <<"ldr:dmnt", 2>>, GetNroInfos |-> <<"ro:dmnt", 0>>,
           GetCurrentLimitInfo |-> <<"pm:dmnt", 65001>>, CreateRequest |-> <<"nifm", 4>>,
           OpenLocationResolver |-> <<"lr", 0>>, SetExternalContentSource |-> <<"ldr:shel", 65000>>,
           ClearExternalContentSource |-> <<"ldr:shel", 65001>>]
NsDev == [LaunchProgram |-> <<"ns:dev", 0>>, TerminateProgram |-> <<"ns:dev", 1>>,
          GetShellEventHandle |-> <<"ns:dev", 4>>, GetShellEventInfo |-> <<"ns:dev", 5>>]
Pgl == [LaunchProgram |-> <<"pgl", 0>>, TerminateProgram |-> <<"pgl", 1>>, GetPGLObserver |-> <<"pgl", 20>>,
        GetShellEventHandle |-> <<"observer", 0>>, GetShellEventInfo |-> <<"observer", 1>>]
Command(api, op) ==
  LET shell == IF api < 10 THEN NsDev ELSE Pgl
  IN CASE op \in DOMAIN Common -> Common[op]
       [] op \in DOMAIN PmDmnt(api) -> <<"pm:dmnt", PmDmnt(api)[op]>>
       [] OTHER -> shell[op]

Operations == DOMAIN Common \cup DOMAIN PmDmnt(1) \cup DOMAIN NsDev \cup {"ClearHook"}
Tipc(api, op) == api = 12 /\ Command(api, op)[1] \in {"pgl", "observer"}

Raw(kind, name, size) == [kind |-> kind, name |-> name, size |-> size, align |-> size]
In(name, size) == Raw("InRaw", name, size)
Out(name, size) == Raw("OutRaw", name, size)
Other(kind, name) == [kind |-> kind, name |-> name, size |-> 0, align |-> 1]
Location == [In("location", 16) EXCEPT !.align = 8]   \* title id and storage id

\* The arguments of an operation, in the order of the call.
Arguments(api, op) ==
  CASE op = "LaunchProgram" ->
         (CASE api < 10 -> <<In("flags", 4), In("title", 8), In("padding", 4), In("storage", 4)>>
            [] api = 10 -> <<In("pgl flags", 4), In("flags", 4), Location>>
            [] api = 12 -> <<Location, In("flags", 4), In("pgl flags", 4)>>) \o <<Out("pid", 8)>>
    [] op \in {"TerminateProgram", "StartProcess", "ClearExternalContentSource"} -> <<In("id", 8)>>
    [] op = "GetProcessId" -> <<In("id", 8), Out("pid", 8)>>
    [] op = "GetApplicationProcessId" -> <<Out("pid", 8)>>
    [] op \in {"GetNsoInfos", "GetNroInfos"} -> <<In("id", 8), Out("count", 4), Other("Buffer", "infos")>>
    [] op = "GetCurrentLimitInfo" -> <<In("category", 4), In("resource", 4), Out("current", 8), Out("limit", 8)>>
    [] op = "CreateRequest" -> <<In("preset", 4), Other("OutObject", "object")>>
    [] op = "OpenLocationResolver" -> <<In("storage", 1), Other("OutObject", "object")>>
    [] op \in {"HookToCreateProcess", "SetExternalContentSource"} -> <<In("id", 8), Other("OutHandle", "handle")>>
    [] op \in {"HookToCreateApplicationProcess", "GetShellEventHandle"} -> <<Other("OutHandle", "handle")>>
    [] op = "GetShellEventInfo" -> <<Out("event", 4), Out("pid", 8)>>
    [] op = "GetPGLObserver" -> <<Other("OutObject", "object")>>

Value(a) == [k \in 1..a.size |-> <<a.name, k>>]

-----------------------------------------------------------------------------
(***************************************************************************)
(* TIPC messages.                                                          *)
(***************************************************************************)

\* RawLayout: every item at the next multiple of its alignment.
Place(acc, item) ==
  LET offset == ((acc.end + (item.align - 1)) \div item.align) * item.align
  IN [end |-> offset + item.size, offsets |-> Append(acc.offsets, offset)]
RawLayout(items) == FoldLeft(Place, [end |-> 0, offsets |-> <<>>], items)
TotalCount(items) == (RawLayout(items).end + 3) \div 4

\* What TipcInTypeHandler and TipcOutTypeHandler say of an argument.
Item(a, kind) == IF a.kind = kind THEN [size |-> a.size, align |-> a.align] ELSE [size |-> 0, align |-> 1]
Items(args, kind) == [k \in 1..Len(args) |-> Item(args[k], kind)]
NumOf(args, kind) == Cardinality({k \in 1..Len(args) : args[k].kind = kind})
HasSpecialHeader(args, kinds) == \E k \in 1..Len(args) : args[k].kind \in kinds

\* FillRaw and TakeRaw; the buffer holds what was there before.
FillRaw(args, kind, offsets, count) ==
  [b \in 1..4 * count |->
     LET filled == {k \in 1..Len(args) : args[k].kind = kind /\ offsets[k] < b /\ b <= offsets[k] + args[k].size}
     IN IF filled = {} THEN <<"junk">> ELSE Value(args[Max(filled)])[b - offsets[Max(filled)]]]
TakeRaw(raw, offset, size) == SubSeq(raw, offset + 1, offset + size)

\* PackRequest; the tag of a request is its command plus 16.
PackRequest(id, args) ==
  LET layout == RawLayout(Items(args, "InRaw"))
      count == TotalCount(Items(args, "InRaw"))
  IN [tag |-> id + 16, raw_count |-> count,
      special |-> HasSpecialHeader(args, {"InHandle", "InPid"}),
      pid |-> NumOf(args, "InPid") > 0, copies |-> NumOf(args, "InHandle"), moves |-> 0,
      handles |-> <<>>, result |-> "none", raw |-> FillRaw(args, "InRaw", layout.offsets, count)]

\* UnpackResponse: what does not fit the arguments is an error of its own.
UnpackResponse(m, id, args) ==
  LET layout == RawLayout(Items(args, "OutRaw"))
      copies == NumOf(args, "OutHandle")
      special == HasSpecialHeader(args, {"OutHandle", "OutObject", "OutPid"})
      Got(k) == CASE args[k].kind = "OutRaw" -> TakeRaw(m.raw, layout.offsets[k], args[k].size)
                  [] args[k].kind = "OutHandle" -> m.handles[1]
                  [] args[k].kind = "OutObject" -> m.handles[copies + 1]
      outs == {k \in 1..Len(args) : args[k].kind \in {"OutRaw", "OutHandle", "OutObject"}}
      Fails(code) == [code |-> code, out |-> {}]
  IN CASE m.tag # id + 16 -> Fails("tag")
       [] m.raw_count < 1 \/ m.raw_count - 1 # TotalCount(Items(args, "OutRaw")) -> Fails("raw count")
       [] m.special # special -> Fails("special header")
       [] m.special /\ m.pid # (NumOf(args, "OutPid") > 0) -> Fails("pid")
       [] m.special /\ m.copies # copies -> Fails("copy handles")
       [] m.special /\ m.moves # NumOf(args, "OutObject") -> Fails("move handles")
       [] m.result # "ok" -> Fails(m.result)
       [] OTHER -> [code |-> "ok", out |-> {<<args[k].name, Got(k)>> : k \in outs}]

\* tipc::Object: assigning an object takes its handle; a valid one that is
\* destroyed closes it.
Moved(o) == [to |-> o, from |-> [o EXCEPT !.valid = FALSE]]
Destroyed(o) == IF o.valid THEN {o.handle} ELSE {}

-----------------------------------------------------------------------------
(***************************************************************************)
(* External: the console's services.  They read structures laid out as in  *)
(* C and answer in kind; a failure may come without outputs.               *)
(***************************************************************************)
COffset(items) ==
  LET f[k \in 1..Len(items)] ==
        Min({x \in 0..64 : x % items[k].align = 0 /\ (k > 1 => x >= f[k - 1] + items[k - 1].size)})
  IN f

\* The operation a command of a service stands for, and its arguments.
Console(v, service, id) ==
  LET shell == IF v < 10 THEN NsDev ELSE Pgl
      pm == PmDmnt(IF v < 5 THEN 1 ELSE 5)
      ops == {op \in DOMAIN Common : Common[op] = <<service, id>>}
             \cup {op \in DOMAIN shell : shell[op] = <<service, id>>}
             \cup {op \in DOMAIN pm : service = "pm:dmnt" /\ pm[op] = id}
  IN IF ops = {} THEN "unknown" ELSE CHOOSE op \in ops : TRUE
ConsoleArguments(v, op) == Arguments(IF v < 10 THEN 1 ELSE IF v < 12 THEN 10 ELSE 12, op)
SpeaksTipc(v, service) == v >= 12 /\ service \in {"pgl", "observer"}

Named(args, kind) == SelectSeq(args, LAMBDA a : a.kind = kind)
Understood(v, service, id, args, m) ==
  LET op == Console(v, service, id)
      ins == Named(ConsoleArguments(v, op), "InRaw")
  IN IF op = "unknown" \/ SpeaksTipc(v, service) # (m.transport = "tipc") THEN [op |-> "unknown", in |-> {}]
     ELSE [op |-> op,
           in |-> IF m.transport = "hipc" THEN {<<a.name, Value(a)>> : a \in Range(Named(args, "InRaw"))}
                  ELSE {<<ins[k].name, TakeRaw(m.m.raw, COffset(ins)[k], ins[k].size)>> : k \in 1..Len(ins)}]

\* A TIPC answer, laid out by the service.
Answer(id, args, o) ==
  LET outs == Named(args, "OutRaw")
      offsets == COffset(outs)
      size == IF outs = <<>> THEN 0 ELSE offsets[Len(outs)] + Last(outs).size
      copies == NumOf(args, "OutHandle")
      moves == NumOf(args, "OutObject")
      full == o # "failed, short"
  IN [tag |-> id + 16, raw_count |-> IF full THEN 1 + (size + 3) \div 4 ELSE 1,
      special |-> full /\ copies + moves > 0, pid |-> FALSE, copies |-> copies, moves |-> moves,
      handles |-> [k \in 1..copies + moves |-> IF k <= copies THEN "copy" ELSE "move"],
      result |-> IF o = "ok" THEN "ok" ELSE IF o = "unavailable" THEN o ELSE "failed",
      raw |-> IF o = "ok" THEN FillRaw(outs, "OutRaw", offsets, (size + 3) \div 4) ELSE <<>>]
Outputs(args) ==
  {<<a.name, Value(a)>> : a \in Range(Named(args, "OutRaw"))}
  \cup {<<a.name, "copy">> : a \in Range(Named(args, "OutHandle"))}
  \cup {<<a.name, "move">> : a \in Range(Named(args, "OutObject"))}

-----------------------------------------------------------------------------
(***************************************************************************)
(* A call.                                                                 *)
(***************************************************************************)
NoObject == [valid |-> FALSE, handle |-> "none"]
NoResult == [code |-> "none", out |-> {}]

Init ==
  /\ version \in Majors
  /\ at = "create" /\ call = "none" /\ msg = <<>> /\ result = NoResult
  /\ served = [op |-> "none", in |-> {}] /\ outcome = "none"
  /\ observer = NoObject /\ closed = {}

\* The constructor of the version's implementation, which from 10.0.0 on asks
\* pgl for its observer.
Create ==
  /\ at = "create"
  /\ at' = CASE version < 1 -> "abort" [] version >= 1 /\ Api(version) < 10 -> "idle" [] OTHER -> "calling"
  /\ call' = IF at' = "calling" THEN "GetPGLObserver" ELSE call
  /\ UNCHANGED <<version, msg, served, outcome, result, observer, closed>>

Call(op) ==
  /\ at = "idle" /\ op \in Operations
  /\ call' = op /\ served' = [op |-> "none", in |-> {}]
  /\ IF op = "ClearHook" THEN at' = "done" /\ result' = [NoResult EXCEPT !.code = "unsupported"]
     ELSE at' = "calling" /\ result' = NoResult
  /\ UNCHANGED <<version, msg, outcome, observer, closed>>

SendSyncRequest ==
  /\ at = "calling"
  /\ LET api == Api(version)
         tipc == Tipc(api, call)
     IN msg' = [transport |-> IF tipc THEN "tipc" ELSE "hipc",
                m |-> IF tipc THEN PackRequest(Command(api, call)[2], Arguments(api, call)) ELSE <<>>]
  /\ at' = "sent" /\ UNCHANGED <<version, call, served, outcome, result, observer, closed>>

\* External: the service does what it understood, or the request fails.
Outcomes == {"ok", "failed", "failed, short", "refused"} \cup (IF call = "GetShellEventInfo" THEN {"unavailable"} ELSE {})
Serve ==
  /\ at = "sent"
  /\ LET command == Command(Api(version), call)
         args == Arguments(Api(version), call)
     IN \E o \in Outcomes :
          /\ outcome' = o
          /\ served' = IF o = "refused" THEN served ELSE Understood(version, command[1], command[2], args, msg)
          /\ msg' = IF msg.transport = "tipc" /\ o # "refused"
                    THEN [msg EXCEPT !.m = Answer(command[2], args, o)] ELSE msg
  /\ at' = "answered" /\ UNCHANGED <<version, call, result, observer, closed>>

\* What SendSyncRequest returns.
Returned ==
  LET args == Arguments(Api(version), call)
  IN CASE outcome = "refused" -> [NoResult EXCEPT !.code = "refused"]
       [] outcome # "refused" /\ msg.transport = "tipc" ->
            UnpackResponse(msg.m, Command(Api(version), call)[2], args)
       [] OTHER -> [code |-> IF outcome = "failed, short" THEN "failed" ELSE outcome,
                    out |-> IF outcome = "ok" THEN Outputs(args) ELSE {}]

\* GetShellEventInfo: no event is not an error.  Below 10.0.0 a call that
\* succeeded has its error compared too, which was never set.
ShellEvent(r) ==
  IF r.code = "unavailable" THEN {[code |-> "ok", out |-> {}]}
  ELSE {r} \cup IF Api(version) < 10 /\ r.code = "ok" THEN {[code |-> "ok", out |-> {}]} ELSE {}

Return ==
  /\ at = "answered" /\ call # "GetPGLObserver"
  /\ result' \in IF call = "GetShellEventInfo" THEN ShellEvent(Returned) ELSE {Returned}
  /\ at' = "done" /\ UNCHANGED <<version, call, msg, served, outcome, observer, closed>>

\* GetPGLObserver: the object is assigned from a temporary, and returned.
ReturnObserver ==
  /\ at = "answered" /\ call = "GetPGLObserver"
  /\ IF Returned.code # "ok" THEN at' = "abort" /\ UNCHANGED <<observer, closed>>
     ELSE LET temporary == [valid |-> TRUE, handle |-> (CHOOSE o \in Returned.out : TRUE)[2]]
              moved == Moved(temporary)
          IN at' = "idle" /\ observer' = moved.to /\ closed' = closed \cup Destroyed(moved.from)
  /\ UNCHANGED <<version, call, msg, served, outcome, result>>

Next == Create \/ (\E op \in Operations : Call(op)) \/ SendSyncRequest \/ Serve \/ Return \/ ReturnObserver
Spec == Init /\ [][Next]_vars

-----------------------------------------------------------------------------
\* On every system version the service that is called understands the operation
\* and the inputs that were meant; the caller is given its outputs exactly when
\* it succeeded, and its error as an error.  The observer is never closed under
\* its owner (Services.cpp, tipc.hpp).
ServedAsMeant ==
  /\ at \in {"answered", "done"} /\ outcome # "refused" /\ call # "ClearHook" =>
       /\ served.op = call
       /\ served.in = {<<a.name, Value(a)>> : a \in Range(Named(Arguments(Api(version), call), "InRaw"))}
  /\ at = "done" /\ call # "ClearHook" =>
       CASE outcome = "ok" -> result.code = "ok" /\ (\/ result.out = Outputs(Arguments(Api(version), call))
                                                     \/ (call = "GetShellEventInfo" /\ version < 10))
         [] outcome = "unavailable" -> result.code = "ok" /\ result.out = {}
         [] outcome = "failed" -> result.code = "failed"
         [] outcome = "refused" -> result.code = "refused"
         [] OTHER -> result.code # "ok"
  /\ at \notin {"create", "abort"} /\ call # "GetPGLObserver" /\ version >= 10 => observer.valid /\ closed = {}
=============================================================================
