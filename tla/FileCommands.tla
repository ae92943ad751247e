---------------------------- MODULE FileCommands ----------------------------
(***************************************************************************)
(* `twib sd|nu|ns pull, push, ls, rm, mkdir, mv` (FSCommands of            *)
(* twib/tool/Twib.cpp) over ITwibFilesystemAccessor, ITwibFileAccessor and *)
(* ITwibDirectoryAccessor, on the tool and on the console, down to the     *)
(* console's file systems (external).  The tool makes one request after    *)
(* the other; other programs use both file systems in between.             *)
(***************************************************************************)
EXTENDS Integers, Sequences, FiniteSets, SequencesExt

CONSTANTS Bytes,       \* what a file is made of, with 0 for a byte never written
          Paths,       \* paths of either file system, sequences of names
          Commands,    \* the command lines
          Devices, Hosts,   \* what the file systems may hold at the start
          ChunkSize,   \* bytes per WRITE request, 0x10000
          ReadLimit,   \* least size of the console's read buffer, 0x40000
          BatchSize,   \* entries per directory read, 32
          MaxChanges   \* bound: changes by other programs

Stdout == <<"-">>
Absent == [kind |-> "none", data |-> <<>>]
Dir == [kind |-> "dir", data |-> <<>>]
File(d) == [kind |-> "file", data |-> d]

VARIABLES cmd,      \* the command line
          dev,      \* the console's file system: the entry at every path
          host,     \* the host's
          t,        \* the tool: where it is, and its local variables
          wr,       \* ITwibFileAccessor::Write's running offset, the data to come and r
          touched,  \* paths that other programs changed (history)
          long      \* host files that were longer than what is pulled (history)
vars == <<cmd, dev, host, t, wr, touched, long>>

NoWrite == [off |-> 0, data |-> <<>>, r |-> "ok"]

Init ==
  /\ cmd \in Commands /\ dev \in Devices /\ host \in Hosts
  /\ t = [at |-> "start", i |-> 1, size |-> 0, off |-> 0, data |-> <<>>, isdir |-> FALSE,
          isfile |-> FALSE, dst |-> <<>>, pos |-> 0, given |-> {}, exit |-> "none"]
  /\ wr = NoWrite /\ touched = {} /\ long = {}

-----------------------------------------------------------------------------
\* The console's file system.  An operation's result is "ok", or the error
\* the tool distinguishes (0x202, 0x402), or another.
Parent(p) == Front(p)
Below(p) == {q \in Paths : IsPrefix(p, q)}
Children(fs, p) == {q \in Paths : q # <<>> /\ Parent(q) = p /\ fs[q].kind # "none"}
Put(fs, p, e) == [fs EXCEPT ![p] = e]
Zeros(n) == [k \in 1..n |-> 0]
Resized(d, n) == [k \in 1..n |-> IF k <= Len(d) THEN d[k] ELSE 0]
Written(d, off, b) ==
  [k \in 1..(IF Len(d) > off + Len(b) THEN Len(d) ELSE off + Len(b)) |->
     IF k > off /\ k <= off + Len(b) THEN b[k - off] ELSE IF k <= Len(d) THEN d[k] ELSE 0]

CreateResult(p) == CASE p \notin Paths \/ p = <<>> -> "other"
                     [] dev[p].kind # "none" -> "0x402"
                     [] dev[Parent(p)].kind # "dir" -> "0x202"
                     [] OTHER -> "ok"
IsFile(p) == IF p \in Paths THEN dev[p].kind ELSE "none"

\* rename moves everything below src (bound: to one of Paths); the destination
\* must not exist.
CanRename(src, dst, kind) ==
  /\ IsFile(src) = kind /\ src # <<>> /\ CreateResult(dst) = "ok" /\ ~IsPrefix(src, dst)
  /\ \A p \in Below(src) : dev[p].kind # "none" => dst \o SubSeq(p, Len(src) + 1, Len(p)) \in Paths
Moved(fs, src, dst) ==
  [p \in Paths |-> IF IsPrefix(dst, p)
                   THEN LET q == src \o SubSeq(p, Len(dst) + 1, Len(p))
                        IN IF q \in Paths THEN fs[q] ELSE Absent
                   ELSE IF IsPrefix(src, p) THEN Absent ELSE fs[p]]

-----------------------------------------------------------------------------
Running == t.exit = "none"
At(place) == Running /\ t.at = place
Goes(new) == t' = new
Exit(code) == t' = [t EXCEPT !.at = "end", !.exit = code]

\* Any request may be answered with an error, or not at all when the device is
\* gone: the ResultError ends the tool.
RequestFails ==
  /\ Running
  /\ Exit("die")
  /\ wr' = NoWrite
  /\ UNCHANGED <<cmd, dev, host, touched, long>>

\* The target decides whether several sources make sense.
TargetFits(isdir) == Len(cmd.from) = 1 \/ isdir

-----------------------------------------------------------------------------
\* DoPull.
PullStart ==
  /\ At("start") /\ cmd.op = "pull"
  /\ LET isdir == cmd.to # Stdout /\ host[cmd.to].kind = "dir"
     IN IF cmd.to = Stdout \/ TargetFits(isdir)
        THEN Goes([t EXCEPT !.at = "pull", !.isdir = isdir])
        ELSE Exit("1")
  /\ UNCHANGED <<cmd, dev, host, wr, touched, long>>

Source == cmd.from[t.i]
PullDst(i) == IF cmd.to # Stdout /\ t.isdir THEN cmd.to \o cmd.from[i] ELSE cmd.to

\* OpenForClobberingWrite, which creates the file and does not truncate it.
Opened(e) == IF e.kind = "file" THEN e ELSE File(<<>>)
CanOpen(p) == p \in Paths /\ host[p].kind # "dir" /\ (p = <<>> \/ host[Parent(p)].kind = "dir")

PullOpen ==
  /\ At("pull") /\ t.i <= Len(cmd.from)
  /\ LET dst == PullDst(t.i)
     IN IF IsFile(Source) = "file" /\ CanOpen(dst)
        THEN /\ host' = Put(host, dst, Opened(host[dst]))
             /\ Goes([t EXCEPT !.at = "size", !.dst = dst,
                               !.pos = IF dst = Stdout THEN Len(host[dst].data) ELSE 0])
        ELSE Exit("die") /\ UNCHANGED host
  /\ UNCHANGED <<cmd, dev, wr, touched, long>>

\* t.pos is the position in the host's file.
GetSize ==
  /\ At("size")
  /\ IF IsFile(Source) = "file" THEN Goes([t EXCEPT !.at = "copy", !.size = Len(dev[Source].data)])
     ELSE Exit("die")
  /\ long' = IF t.dst # Stdout /\ Len(host[t.dst].data) > Len(dev[Source].data)
             THEN long \cup {t.dst} ELSE long
  /\ UNCHANGED <<cmd, dev, host, wr, touched>>

\* ITwibFileAccessor::Read takes max(size, limit): it may return more than was
\* asked for.
BufferSize(size) == IF size > ReadLimit THEN size ELSE ReadLimit
ReadAt(d, off, size) == SubSeq(d, off + 1, IF off + size < Len(d) THEN off + size ELSE Len(d))

PullRead ==
  /\ At("copy") /\ t.off < t.size /\ cmd.op = "pull"
  /\ LET data == ReadAt(dev[Source].data, t.off, BufferSize(t.size - t.off))
     IN IF data = <<>>
        THEN Exit("1") /\ UNCHANGED host
        ELSE /\ host' = Put(host, t.dst, File(Written(host[t.dst].data, t.pos, data)))
             /\ \/ Goes([t EXCEPT !.off = @ + Len(data), !.pos = @ + Len(data)])
                \/ Exit("1")   \* a short write
  /\ UNCHANGED <<cmd, dev, wr, touched, long>>

PullNext ==
  /\ At("copy") /\ t.off >= t.size /\ cmd.op = "pull"
  /\ Goes([t EXCEPT !.at = "pull", !.i = @ + 1, !.off = 0, !.size = 0, !.pos = 0])
  /\ UNCHANGED <<cmd, dev, host, wr, touched, long>>

PullDone ==
  /\ At("pull") /\ t.i > Len(cmd.from)
  /\ Exit("0")
  /\ UNCHANGED <<cmd, dev, host, wr, touched, long>>

-----------------------------------------------------------------------------
\* DoPush.
PushStart ==
  /\ At("start") /\ cmd.op = "push"
  /\ LET isdir == IsFile(cmd.to) = "dir"
     IN IF TargetFits(isdir) THEN Goes([t EXCEPT !.at = "create", !.isdir = isdir]) ELSE Exit("1")
  /\ UNCHANGED <<cmd, dev, host, wr, touched, long>>

BaseName(p) == <<Last(p)>>
PushDst(i) == IF t.isdir THEN cmd.to \o BaseName(cmd.from[i]) ELSE cmd.to

\* CreateFile: that the file exists already is no error.
PushCreate ==
  /\ At("create") /\ t.i <= Len(cmd.from)
  /\ LET dst == PushDst(t.i)
         size == Len(host[Source].data)
         r == CreateResult(dst)
     IN IF host[Source].kind = "file" /\ r \in {"ok", "0x402"}
        THEN /\ dev' = IF r = "ok" THEN Put(dev, dst, File(Zeros(size))) ELSE dev
             /\ Goes([t EXCEPT !.at = "open", !.size = size, !.dst = dst])
        ELSE Exit("die") /\ UNCHANGED dev
  /\ UNCHANGED <<cmd, host, wr, touched, long>>

PushOpen ==
  /\ At("open")
  /\ IF IsFile(t.dst) = "file" THEN Goes([t EXCEPT !.at = "setsize"]) ELSE Exit("die")
  /\ UNCHANGED <<cmd, dev, host, wr, touched, long>>

SetSize ==
  /\ At("setsize")
  /\ IF IsFile(t.dst) = "file"
     THEN /\ dev' = Put(dev, t.dst, File(Resized(dev[t.dst].data, t.size)))
          /\ Goes([t EXCEPT !.at = "copy"])
     ELSE Exit("die") /\ UNCHANGED dev
  /\ UNCHANGED <<cmd, host, wr, touched, long>>

\* A chunk is read from the host's file and sent in a WRITE request.
ChunkAt(off, size) == IF size - off < ChunkSize THEN size - off ELSE ChunkSize

PushRead ==
  /\ At("copy") /\ t.off < t.size /\ cmd.op = "push"
  /\ LET data == ReadAt(host[Source].data, t.off, ChunkAt(t.off, t.size))
     IN IF Len(data) < ChunkAt(t.off, t.size)
        THEN Exit("1") /\ UNCHANGED wr
        ELSE /\ Goes([t EXCEPT !.at = "write", !.data = data])
             /\ wr' = [off |-> t.off, data |-> data, r |-> "ok"]
  /\ UNCHANGED <<cmd, dev, host, touched, long>>

\* Mutant of OffsetAfter: every piece is written at the start.
Restarted(off, n) == off

\* The running offset of a streamed write.
OffsetAfter(off, n) == off + n

\* Write's receive: what has arrived is written at the running offset, unless
\* an earlier piece could not be written; it is taken out of the buffer anyway.
WriteReceive ==
  /\ At("write") /\ wr.data # <<>>
  /\ \E n \in 1..Len(wr.data), r \in {"ok", "other"} :
       /\ r = "ok" => IsFile(t.dst) = "file"
       /\ wr.r # "ok" => r = wr.r
       /\ dev' = IF wr.r = "ok" /\ r = "ok"
                 THEN Put(dev, t.dst, File(Written(dev[t.dst].data, wr.off, SubSeq(wr.data, 1, n))))
                 ELSE dev
       /\ wr' = [off |-> OffsetAfter(wr.off, n), data |-> SubSeq(wr.data, n + 1, Len(wr.data)), r |-> r]
  /\ UNCHANGED <<cmd, host, t, touched, long>>

\* and finish, which answers with the first error.
WriteFinish ==
  /\ At("write") /\ wr.data = <<>>
  /\ IF wr.r = "ok" THEN Goes([t EXCEPT !.at = "copy", !.off = @ + Len(t.data), !.data = <<>>])
     ELSE Exit("die")
  /\ wr' = NoWrite
  /\ UNCHANGED <<cmd, dev, host, touched, long>>

PushNext ==
  /\ At("copy") /\ t.off >= t.size /\ cmd.op = "push"
  /\ Goes([t EXCEPT !.at = "create", !.i = @ + 1, !.off = 0, !.size = 0])
  /\ UNCHANGED <<cmd, dev, host, wr, touched, long>>

PushDone ==
  /\ At("create") /\ t.i > Len(cmd.from)
  /\ Exit("0")
  /\ UNCHANGED <<cmd, dev, host, wr, touched, long>>

-----------------------------------------------------------------------------
\* DoLs: the number of entries first, then batches.
LsOpen ==
  /\ At("start") /\ cmd.op = "ls"
  /\ IF IsFile(cmd.to) = "dir" THEN Goes([t EXCEPT !.at = "count"]) ELSE Exit("die")
  /\ UNCHANGED <<cmd, dev, host, wr, touched, long>>

GetEntryCount ==
  /\ At("count")
  /\ Goes([t EXCEPT !.at = "list", !.size = Cardinality(Children(dev, cmd.to))])
  /\ UNCHANGED <<cmd, dev, host, wr, touched, long>>

\* t.given is what the directory's handle has returned so far.
MoreEntries(off, size) == off < size

LsRead ==
  /\ At("list") /\ MoreEntries(t.off, t.size)
  /\ LET rest == Children(dev, cmd.to) \ t.given
     IN \E batch \in SUBSET rest :
          /\ Cardinality(batch) = IF Cardinality(rest) < BatchSize THEN Cardinality(rest) ELSE BatchSize
          /\ IF t.off + Cardinality(batch) > t.size THEN Exit("1")
             ELSE Goes([t EXCEPT !.off = @ + Cardinality(batch), !.given = @ \cup batch])
  /\ UNCHANGED <<cmd, dev, host, wr, touched, long>>

LsDone ==
  /\ At("list") /\ ~MoreEntries(t.off, t.size)
  /\ Exit("0")
  /\ UNCHANGED <<cmd, dev, host, wr, touched, long>>

-----------------------------------------------------------------------------
\* DoRm and DoMv ask for the kind of the entry first.
RmCheck ==
  /\ At("start") /\ cmd.op = "rm"
  /\ IF IsFile(cmd.to) = "none" THEN Exit("1")
     ELSE Goes([t EXCEPT !.at = "delete", !.isfile = IsFile(cmd.to) = "file"])
  /\ UNCHANGED <<cmd, dev, host, wr, touched, long>>


\* What a delete removes.
Deletes(p) == IF ~t.isfile /\ cmd.recursive THEN Below(p) ELSE {p}
CanDelete(p) ==
  /\ IsFile(p) = (IF t.isfile THEN "file" ELSE "dir") /\ p # <<>>
  /\ \A q \in Children(dev, p) : q \in Deletes(p)

RmDelete ==
  /\ At("delete")
  /\ IF CanDelete(cmd.to)
     THEN dev' = [p \in Paths |-> IF p \in Deletes(cmd.to) THEN Absent ELSE dev[p]] /\ Exit("0")
     ELSE Exit("die") /\ UNCHANGED dev
  /\ UNCHANGED <<cmd, host, wr, touched, long>>

\* DoMkdir.
Mkdir ==
  /\ At("start") /\ cmd.op = "mkdir"
  /\ CASE CreateResult(cmd.to) = "ok" -> dev' = Put(dev, cmd.to, Dir) /\ Exit("0")
       [] CreateResult(cmd.to) = "0x402" -> Exit("1") /\ UNCHANGED dev
       [] OTHER -> Exit("die") /\ UNCHANGED dev
  /\ UNCHANGED <<cmd, host, wr, touched, long>>

MvSrc ==
  /\ At("start") /\ cmd.op = "mv"
  /\ IF IsFile(cmd.src) = "none" THEN Exit("1")
     ELSE Goes([t EXCEPT !.at = "dst", !.isfile = IsFile(cmd.src) = "file"])
  /\ UNCHANGED <<cmd, dev, host, wr, touched, long>>

MvDst ==
  /\ At("dst")
  /\ Goes([t EXCEPT !.at = "rename",
                    !.dst = IF IsFile(cmd.to) = "dir" THEN cmd.to \o BaseName(cmd.src) ELSE cmd.to])
  /\ UNCHANGED <<cmd, dev, host, wr, touched, long>>

MvRename ==
  /\ At("rename")
  /\ IF CanRename(cmd.src, t.dst, IF t.isfile THEN "file" ELSE "dir")
     THEN dev' = Moved(dev, cmd.src, t.dst) /\ Exit("0")
     ELSE Exit("die") /\ UNCHANGED dev
  /\ UNCHANGED <<cmd, host, wr, touched, long>>

-----------------------------------------------------------------------------
\* Other programs on the console (external): they create, change and remove
\* entries between two requests.
Changes(p) == {e \in {Absent, Dir, File(<<>>)} \cup {File(<<b>>) : b \in Bytes} :
                 /\ e # dev[p]
                 /\ e.kind # "none" => dev[Parent(p)].kind = "dir"
                 /\ e.kind # "dir" => Children(dev, p) = {}}
OthersChange ==
  /\ Running /\ Cardinality(touched) < MaxChanges
  /\ \E p \in Paths \ ({<<>>, Stdout} \cup touched) : \E e \in Changes(p) :
       dev' = Put(dev, p, e) /\ touched' = touched \cup {p}
  /\ UNCHANGED <<cmd, host, t, wr, long>>

Ended == ~Running /\ UNCHANGED vars

-----------------------------------------------------------------------------
Pull == PullStart \/ PullOpen \/ GetSize \/ PullRead \/ PullNext \/ PullDone
Push == PushStart \/ PushCreate \/ PushOpen \/ SetSize \/ PushRead \/ WriteReceive
        \/ WriteFinish \/ PushNext \/ PushDone
Ls == LsOpen \/ GetEntryCount \/ LsRead \/ LsDone
RmMkdirMv == RmCheck \/ RmDelete \/ Mkdir \/ MvSrc \/ MvDst \/ MvRename
Tool == Pull \/ Push \/ Ls \/ RmMkdirMv
Next == Tool \/ RequestFails \/ OthersChange \/ Ended

\* The tool goes on, a request is answered or fails.
Spec == Init /\ [][Next]_vars /\ WF_vars(Tool)

-----------------------------------------------------------------------------
\* The last source that is copied to its destination counts.
Final(i, Dst(_)) == \A j \in i + 1..Len(cmd.from) : Dst(j) # Dst(i)
Sources == 1..Len(cmd.from)

Pulled ==
  IF cmd.to = Stdout
  THEN host[Stdout].data = FlattenSeq([i \in Sources |-> dev[cmd.from[i]].data])
  ELSE \A i \in Sources : Final(i, PullDst) /\ PullDst(i) \notin long => host[PullDst(i)] = dev[cmd.from[i]]

\* DoPull, DoPush and DoLs return 0 only after a faithful copy or a complete
\* listing, whatever the sizes, if no other program changed the files - and,
\* for a pull on Unix, if the host's file was not longer than the pulled one.
Copied ==
  t.exit = "0" /\ touched = {} =>
    /\ cmd.op = "pull" => Pulled
    /\ cmd.op = "push" => \A i \in Sources : Final(i, PushDst) => dev[PushDst(i)] = host[cmd.from[i]]
    /\ cmd.op = "ls" => t.given = Children(dev, cmd.to)

\* No command destroys a file it was not asked to: only push writes, to its
\* destination; rm removes what it names, and what is below only with -r; mv
\* keeps what it moves - even when the entry changed its kind after IsFile.
KeepsFiles ==
  \A p \in Paths :
    dev[p].kind = "file" /\ dev'[p] # dev[p] /\ touched' = touched =>
      \/ cmd.op = "push" /\ p = t.dst
      \/ cmd.op = "rm" /\ (p = cmd.to \/ (cmd.recursive /\ IsPrefix(cmd.to, p)))
      \/ cmd.op = "mv" /\ \E q \in Paths : dev[q].kind = "none" /\ dev'[q] = dev[p]

\* The command has ended, or goes on for ever because entries of the directory
\* it lists were removed after they were counted.
HasEnded == ~Running \/ (cmd.op = "ls" /\ touched # {})
=============================================================================
