# TLA+ verification of Twili and Twib

Twili is a debugger monitor for the Nintendo Switch; Twib is its workstation
side. This directory models both, from the bytes of a pipe on the console to the
commands a user types: pipes, the USB and TCP connections with both of their
ends, the daemon `twibd` that multiplexes clients onto consoles, the launching of
programs, the tool's commands and its gdb stub, and the formats in which data
travels. Source paths below are relative to `src/`.

Contents: [inventory](#1-inventory), [plan](#2-plan),
[modules and code](#3-modules-and-the-code-they-model), [runs](#4-runs),
[fairness](#5-fairness), [proofs](#6-proofs),
[deviations the models show](#7-deviations-the-models-show),
[what is not modelled](#8-not-modelled).

## 1. Inventory

### Parts of the system

| Part | State it keeps | Operations | Meets |
|---|---|---|---|
| `TwibPipe` (`twili/TwibPipe.cpp`) | Idle, WritePending or ReadPending with a stored callback; a bounded buffer; `hit_eof` | Read, Write, CloseReader, CloseWriter | IPC pipes of a process, bridge objects |
| Pipe ends (`twili/service/IPipe.cpp`, `ITwibPipeReader`, `ITwibPipeWriter`) | per request: a buffer, `is_writing`, `is_done` | READ, WRITE, CLOSE | the pipe by callbacks, the bridge by responses |
| Bridges (`twili/bridge/usb`, `twili/bridge/tcp`) | request reader, current handler, object table, response state | receive header, payload, objects; finalize; respond | USB events; a socket thread that hands tasks to the main thread |
| Process management (`twili/process`) | process state, observers, tracker queues, standard streams | launch, attach, continue, terminate, kill | pm, ldr, am, the shims, pipes |
| Process file system (`twili/process/fs`) | files made of segments | open, read, size | the loader |
| Services (`twili/service`) | IPC sessions | forwarders to process management and pipes | shims, hbmenu, homebrew |
| System services (`twili/Services.cpp`, `tipc.hpp`) | sessions, the shell event observer | calls that differ by system version | the console's services |
| Device, debugger, filesystem interfaces (`twili/bridge/interfaces`) | debug handles, event queue, open files, a pending wait | one command each | bridge |
| Crash report (`twili/ELFCrashReport.cpp`) | threads, regions, notes | collect, lay out, stream | debug handle, response |
| `twibd` dispatcher (`twib/daemon/Daemon.cpp`, `Messages.cpp`, `BridgeObject.cpp`, `LocalClient.cpp`) | dispatch queue, device map, client map, owned objects | PostRequest, PostResponse, AddDevice, RemoveDevice, AddClient, RemoveClient, Process | all backends and frontends, from their threads |
| Backends (`TCPBackend.cpp`, `USBBackend.cpp`, `USBKBackend.cpp`) | device list, flags, pending requests, transfers, state mutex | find, identify, send, receive, fail, shut down | dispatcher, libusb, libusbK, sockets |
| Initial scan lock (`InitialScanLock.cpp`) | a counter and a condition variable | lock, unlock, wait | USB backends, LIST_DEVICES |
| Frontends (`SocketFrontend.cpp`, `NamedPipeFrontend.cpp`) | client list | accept, read, answer, remove | dispatcher |
| Message connections (`twib/common`) | two buffers, header, position, a semaphore | Process, SendMessage, signals | sockets, named pipes, event loops |
| `twib` tool (`twib/tool`) | response map, waiting threads, object references | SendRequest, responses, every subcommand | `twibd`, the host's files |
| gdb stub (`GdbStub.cpp`, `GdbConnection.cpp`) | attached processes, stop state, packet parser | gdb packets, debug events | gdb, ITwibDebugger |
| Platform layer (`twib/platform`) | event loops, input pump | Prepare, wait, signal | every loop above |
| Shims (`shell_shim`, `twili_applet_shim`) | run inside the target | ask for the environment, wait to start | services |

### What is hard

* **Callbacks that call back.** A pipe's write callback, run inside another
  process's Read, writes again; a response resets the USB bridge's request
  handler while the next request is being read; the tool's callback sends a
  request from the thread that would receive its response.
* **Threads without a common lock.** A device is looked up under one mutex and
  used after it is released; the dispatch queue is first in, first out per
  producer only; the list of USB devices and the tool's response map are changed
  by two threads; notifications come between a test and a wait.
* **Failure in the middle.** A connection fails between the lookup and the send,
  a transfer cannot be submitted, one of two connections of one console goes, the
  network of the console goes away under the socket thread.
* **Waiting.** The dispatcher sleeps on one device's condition variable and on
  the initial scan; either sleep, if it is not ended, stops all clients. twili's
  main thread and its shell tracker thread share a mutex that is held across a
  call to the system which calls twili back. A destructor joins a thread that
  waits for a list to become empty.
* **Programs twili only meets through other services.** A launch goes from a
  queue to the loader, the applet manager or ns, and comes back as a shim that
  connects; anybody on the way may go away meanwhile.
* **Boundaries.** A pipe limit of zero, payload cut at any byte, segments that
  touch, an address space that wraps, memory just around the heap's increment,
  version tables.

`PROJECT.json` lists each hazard at its line, with the properties aimed at it.

### What makes each part correct

* Pipe: bytes neither lost, repeated nor reordered; end of file after the last
  byte and final; no callback forgotten; no reader waits while there is data.
* Streaming WRITE: success means the payload was read; one answer; an answer as
  long as the pipe is open.
* `twibd`: every request answered, once; requests reach the console their object
  came from; map entries are live; USB takes priority over TCP; objects are
  closed when their owner has gone and not before.
* USB, at each end: requests and responses do not overlap in the shared buffers,
  payload reaches its own command, no wake-up is lost, the scan counter counts
  the locks held, the scan and the shutdown end.
* Message connections: messages cut anywhere are put together unchanged and in
  order; every request is answered or failed.
* Processes: one applet at a time; a program runs the code, and is attached to
  the process object, it was launched for, although both are handed over through
  shared places; no launch forgotten or answered twice; no exit missed; a kill
  ends in Exited; the main thread is there when the loader needs it.
* Tool: output is complete; success means done; nothing else is destroyed;
  every command ends. gdb stub: no stale pointer, no lost event, gdb and stub
  agree on whose turn it is, a stop is reported.
* Formats: what is written is what its reader gets.

## 2. Plan

Built, in the order of the modules in section 3: pipes, daemon, USB on both
sides, process launching, message connections, tool, gdb stub, formats. The
abstract specifications are `ByteStream` (implemented by the unbuffered pipe) and
`MessageChannel` (implemented by the TCP connection).

What is proved is in section 6. What could still be proved, and is model-checked:

1. `UsbBackend`: ScanReaches and FreedQuiet, which are about the list of devices and
   the pointers to its elements, over all steps of several devices.
2. `NamedPipeLink`: the semaphore part of Intact (the semaphore is taken exactly
   while a write is outstanding); `MessageChannel` for one direction of
   `TcpLink`, where a message is put together from pieces of any length.

## 3. Modules and the code they model

Every definition that models code has its lines in `PROJECT.json`. An operator
whose comment begins "Mutant of X" is a faulty variant of X, of the kind a slip
in the code would be; no specification uses it. Put in X's place it violates the
property `PROJECT.json` names, which shows that the property can fail.

### Pipes

**TwibPipe** (`twili/TwibPipe.cpp`, `common/Buffer.cpp`). The pipe object as a
record and its operations as operators on it, shared by `PipeEnds` and
`PipeWriter`. The three members of `state_variant` are `pipe.state` with `wps`
(WritePendingState's data), `writer`, `reader` and `cap` standing for the stored
callbacks. A byte is its position in the stream, so loss, repetition and
reordering show. The missing `MarkWritten` in FlushWritePendingState is modelled
as it is: the buffer's readable contents stay what they were.

**PipeEnds** (`IPipe.cpp`, `ITwibPipeReader.cpp`). Any number of callers, each
waiting for its callback. Ghost variables record what callbacks were told
(`delivered`, `acked`, `told_eof`). Read in ReadPending or Write in WritePending
is the sysmodule's Abort. IPipeTwib::Read runs its callback a second time at end
of file (`IPipe.cpp:83`); the second reply goes to an IPC request that was
already answered and does not reach the pipe, so it is not part of the model.

**ByteStream**. The abstract specification: an ordered stream of which a prefix
was seen, ended by end of file, cut only when the reading end closes.

**PipeWriter** (`ITwibPipeWriter.cpp`, `ResponseOpener.cpp`,
`RequestHandler.hpp`). WRITE as the code does it: payload arrives in pieces,
`receive` takes what fits, `finish` follows the last piece (in the same event
over USB, as a task over TCP), the pipe's callback writes the rest from inside
the process's Read. What runs in one event is threaded through a configuration
and becomes the state in `Commit`.

### twibd

**Daemon** (`Daemon.cpp`, `Messages.cpp`, `BridgeObject.cpp`, `LocalClient.cpp`,
`TCPBackend.cpp`, `USBBackend.cpp`, `SocketFrontend.cpp`). `queue` has one
sequence per producing thread: the dispatcher may take the head of any, which is
what the vendored queue guarantees. LockDevice (lookup and disown, under the
mutex) and SendRequest are two steps. References to a BridgeObject are its
memberships in `owned`, in queued responses and in `held`; `Destructors` yields
the close requests of those that lose the last one. The console is external.

**UsbDevice** (`USBBackend.cpp`, `InitialScanLock.cpp`). One device, two threads
with program counters `dpc` (dispatcher) and `epc` (event thread). A transfer's
callback is one step; it waits for `state_mutex` where the code locks it. The
dispatcher's test and its wait are two steps, and Kill takes no mutex. Every
submission and every transfer may fail. An entry of pending_requests that is
added while the other thread removes one is kept or lost; isl_lock is tested and
released in two steps where two threads can meet.

**UsbBackend** (`USBBackend.cpp`). The backend around its devices: the
enumeration on the main thread and hotplug events on the event thread, the
interface that is chosen, the list both change without a mutex (an element
appended meanwhile may be lost), the consoles' standard output line by line, and
the destructor, which cancels what it finds and joins the event thread. `order`
and `listed` are the list with its erased elements, so that an iterator is a
position.

**UsbkDevice** (`USBKBackend.cpp`). The Windows backend: one overlapped transfer
per endpoint, a completed transfer that submits the next, Kill without the mutex,
removal and destruction. Every submission may fail, that of the next header
included, and kills the device. SendRequest adds to pending_requests in a step of
its own, and what it adds may be lost when DispatchResponse removes something
meanwhile (`lost`). MarkAdded, and Kill on the main thread, test isl_lock and
release it in two steps; the second release decrements the scan's counter again or
throws (`twice`, `aborted`). The detection of a device and its Begin are one step.

### twili's bridge over USB

**UsbBridge** (`twili/bridge/usb`, `RequestHandler.hpp`, `Object.cpp`,
`ResponseOpener.hpp`). The request reader's callbacks, the handler of each object,
commands that answer at once, later or not at all, streams, refused commands,
objects that are closed, transfers and postings that fail, memory that runs out. A
response is sent by transfers the main thread waits for, and resets the reader's
handler whatever it is reading (`log.cut` names the requests that suffer). twili
ends in two ways: "abort" for a second response and a report that lacks the
transfer, "fatal" for a response transfer, a report or an allocation that fails
(`ResponseFails`, `ReportFails`, `OpenFails`).

### Programs

**MonitoredProcess** (`MonitoredProcess.cpp`, `TrackedProcess.cpp`,
`ECSProcess.cpp`, `AppletProcess.cpp`). The object twili keeps for a process, as
a record with its methods as operators, for the three modules below. The state
Crashed is never entered by the code and is left out. Terminate, Kill and Continue
of a suspended process call suspended_launch_cb without testing it
(`CallsNothing`).

**Applets** (`AppletTracker.cpp`, `IAppletShim*`, `IAppletController.cpp`,
`ITwibProcessMonitor.cpp`, `twili_applet_shim/`). A request to twili is one action.
The control applet's callback is four steps (`ctl`). `code` and `owner` record
which code the loader gave a host and which process object it was attached to,
which the code never compares. `Menu` is hbmenu, `Loads` are the processes
next_load_path creates, `dropped` those PopQueuedProcess gives up on. Assumed of
the system: the hosts end with the control applet that started them; twili sees
the sessions of a dead control applet close before a new one connects; the loader
takes a content source away when it has loaded a host from it.

**Shell** (`ShellTracker.cpp`, `ShellProcess.cpp`, `ITwiliService.cpp`,
`Watchdog.cpp`, `shell_shim/`). `main` says what the main thread wants queue_mutex
for, `ev` how far the event thread is in a launch it holds the mutex for. Assumed
of the system: the loader reads the code through twili before LaunchProgram
returns, and an exit notification stays until it is fetched.

**Homebrew** (`ITwibProcessMonitor.cpp`, `FileManager.cpp`, `IHBABIShim.cpp`,
`applet_host.cpp`, `shell_shim.cpp`, `AppletTracker.cpp` HBLLoad). What a program
starts with: code streamed by two tools into temporary files, argv, the loader
configuration entries, the heap, leave to start, and the successor it names.

### Message connections

**TcpLink** (`MessageConnection.cpp`, `SocketMessageConnection.cpp`, unix
`EventLoop.cpp`, `twili/bridge/tcp`, `nifm.cpp`). Both ends of a TCP connection
unit by unit: twibd's incremental parser, buffers and select loop; twili's socket
thread with its polling, the hand-over of each step to the main thread, handlers
that answer later, a network that goes away and comes back. A payload size that
was never set may hold anything (`Garbage`).

**NamedPipeLink** (`NamedPipeMessageConnection.cpp`, `NamedPipeClient.cpp`,
`NamedPipeFrontend.cpp`, windows `EventLoop.cpp`, `Client.cpp`). The tool and
twibd on Windows with overlapped reads and writes, what a loop waits for fixed
when it goes to sleep, the output semaphore, a callback that sends, the death of
either process.

**MessageChannel**. The abstract specification of a connection: messages arrive
whole, once and in order. `TcpLink!Down` is the refinement mapping.

### The tool

**TwibRun** (`Twib.cpp` run, `RemoteObject.cpp`, `Client.cpp`, `SocketClient.cpp`,
`InputPump.cpp`, `ITwibProcessMonitor.cpp` of both sides). The four threads of
`twib run`, each in a synchronous call: registration, the test and the sleep are
steps of their own, and the callback notifies without the mutex.

**FileCommands** (`Twib.cpp` FSCommands, the filesystem, file and directory
interfaces of both sides, `platform.cpp`). pull, push, ls, rm, mkdir and mv request
by request, on trees that other programs change in between.

**DeviceCommands** (`Twib.cpp` main, `ITwibDeviceInterface.cpp` of both sides,
`UnmonitoredProcess.cpp`, `twili.cpp`, `ITwiliService.cpp`). The other commands,
two tools at a time: choosing the console, reading a named pipe, waiting for a
title, debugging, terminating monitored and unmonitored processes, core files,
reboot; a service call that fails under one of twili's Asserts takes twili down
(`AssertFails`).

**GdbStub** (`GdbStub.cpp`, `ITwibDebugger.cpp`). The event loop, the client
thread with the callback of WAIT_EVENT, the kernel's and the console's event
queues, attaching and detaching processes, continue, step, interrupts, thread
events, with and without multiprocess extensions, and the exceptions nobody catches.
"H" for a process without threads leaves the current thread pointing at its map's
end (`Dangling`); what is read through it may be anything or end the tool. Contents
of registers and memory are left out.

### Formats

**Codec** (`Packing.hpp` of both sides, `Unpacking.hpp`, `Buffer.cpp`), arguments
cut anywhere and results; **GdbPacket** (`GdbConnection.cpp`), framing, escapes,
checksums, numbers; **ProcessImage** (`process/fs`), what the loader reads of an NRO
presented as an NSO; **CoreDump** (`ELFCrashReport.cpp`), the core file against a
reader that follows its headers; **SystemServices** (`Services.cpp`, `tipc.hpp`),
the command sent at every system version against what the service of that version
understands.

### MC modules and choice of setting

`MCPipe`, `MCDaemon`, `MCUsb`, `MCLinks`, `MCTwib` and `MCFormats` each put several
specifications, or several instances of one, side by side: a variable (`setting`,
`end`, `link`, `subcommand`, `format`) is chosen in the initial state and never
changes, only the chosen specification takes steps, and the variables of the
others stand still. A run over such a module checks each specification as if
alone; its properties name the setting they are about. `MCApplets`, `MCShell` and
`MCGdbStub` give constants their values.

## 4. Runs

| Run | Instance | Shows |
|---|---|---|
| Pipe | limit 2 with 2 readers and 2 writers and 7 bytes; limit 0 with one of each; WRITE over both bridges, 2 requests, 4 bytes cut anywhere, a first buffer of 2; read sizes 0, 1 and more than any write | type and limit, callbacks accounted, no lost wake-up, end of file final; unbuffered: implements ByteStream, success means read (but for what finish drops), writes end |
| PipeLoss | limit 2 | violation: acknowledged bytes are lost |
| Daemon | a USB console with 2 clients; a console over TCP and USB that fails and comes back; 2 TCP consoles of which one fails; a console whose TCP connection fails | entries live, USB priority, requests answered once, objects closed when lost and not before, requests reach their object |
| DaemonClobber | TCP and USB to one console, TCP fails | violation: the USB entry is erased |
| Usb | libusb: 3 requests, payloads of no or two transfers, any failure; the backend: 2 consoles, up to 3 transfers of output; libusbK: 3 requests | no overlap, no lost wake-up, scan counted, output logged, devices reached by the scan, requests answered, scan and shutdown end |
| Applets | 2 clients, one of which cannot be prepared, a next-load process, hbmenu; control applets and hosts end at any time | one applet, its own code and process, launches not forgotten, streams open and suspended shims answerable while it runs, kills reach the applet |
| Shell | 3 clients, one of which cannot be prepared; programs end at any time | own code and process, exits noticed, launches not forgotten, kills reach the program |
| ShellBlocked | as Shell | violation: the main thread waits for the launch that waits for it |
| Links | USB: 8 requests, 1 fault; TCP: 2 requests cut anywhere, one network change, breaking; named pipe: 3 requests, one from a callback, a response larger than the pipe, death of either side | payload reaches its command, handler live, no abort by a second response or an unexpected transfer (USB), messages whole and in order, implements MessageChannel (TCP), semaphore sound (pipe), requests answered and senders return |
| Twib | run: 4 threads, one unit of output, one line of input, breaking; files: trees of 3 files and a directory, 2 changes by others; device: 15 pairs of commands, a second console that comes and goes | output complete, success means done, only what was named destroyed, commands end |
| Gdb | 2 processes, one without threads yet, 2 threads, 2 events (1 with multiprocess extensions, none after a second attachment but those of attaching), 2 attachments, 1 interrupt | no stale reference but `Dangling`, floor agreed; until the second attachment no lost event, stops reported |
| Formats | see the constants in `MCFormats` | calls, packets, images, environments, core files and service calls read as written |

Distinct states: Pipe 11 859, Daemon 1 821 002, Usb 72 585, Applets 593 106,
Shell 346 975, Links 1 512 174, Twib 973 533, Gdb 2 600 040, Formats
743 636; each takes up to four minutes with two workers.

Why the bounds suffice. The pipe's control depends only on whether data is smaller
than, equal to or larger than the room, the reader's buffer and the pending write;
three bytes per write with a limit of 0 or 2 reach every combination, and seven
bytes allow a write to be pending, drained and followed by others. In the daemon
two clients and two objects are the least with which one can lose what the other
holds; a console reached twice is the least with which the map's entry is
contended. Three requests let one be answered, one wait and one be under way at a
USB device; two consoles let one be appended while the other is erased. A tracker
needs one process that is launched, one queued behind it and one that fails. A
header of two units can be cut, a payload of one or more can be split from it,
and two messages in a row let the parser be left in a wrong place. A command is
disturbed by one change between two of its requests; two tools are the least that
can meet in twili. Two threads and two attachments let the stub hold a pointer to
something that has gone. Formats are sized so that every border (of an integer, a
segment, a buffer, a transfer, the address space) lies inside the instance. Bounds
are CONSTANTS whose comments begin with "bound".

`CHECK_DEADLOCK FALSE` is set where the system may stop: after an abort, when the
bounded number of requests is used up, when a command has ended.

The violation runs check what the repository says of itself; `findings` in
`PROJECT.json` quotes the line.

## 5. Fairness

* Pipes: somebody goes on reading with room for a byte (`twib run` pumps output in
  a loop, a process that uses its standard input reads it); the rest of a payload
  that was begun arrives, since the client sends it before it waits. No fairness on
  writing or closing.
* UsbDevice: both threads take a step they can take; libusb completes or fails a
  transfer (all but meta-in have a timeout of 5 or 15 seconds); the console
  answers a request it received completely. Without the last LIST_DEVICES waits as
  long as the console is silent, which is what the code does.
* UsbBackend: both threads run; strong fairness says that libusb_handle_events
  returns and that a cancelled transfer is reported, even if other callbacks keep
  coming, as libusb promises. No fairness on hotplug, output or failures.
* UsbkDevice, UsbBridge: each thread runs. A command that keeps its opener answers
  in the end: strongly fair in UsbBridge, where the main thread may be busy with a
  request each time.
* Applets, Shell: twili's main loop, the control applet's loop, which polls its
  applets every three seconds, both threads of the shell tracker, the loader, the
  watchdog and the shims go on. No fairness on clients and applications.
* TcpLink, NamedPipeLink: each event loop, sender, socket and main thread runs, the
  kernel completes what can be completed. No fairness on breaking.
* Tool: each thread of a tool and twili's main thread run; a title that was
  launched signals. None on the user, the program, or other programs.
* GdbStub: the loop, the client thread and the console's event waiter run. None on
  gdb or the debugged program.
* `Daemon` is checked for safety only; AllAnswered and LostObjectsClosed are stated
  of states in which nothing is left to do. The formats have no liveness.

In the MC modules fairness is restated for the setting a behaviour is about; as the
other settings take no steps, it is the same assumption.

## 6. Proofs

All proofs are for any values of the constants under the named ASSUMEs of the
modules; TLC evaluates these assumptions in the runs.

**PipeProofs** (any limit, readers, writers, bounds). `TypeCorrect`,
`CallbacksAccounted`, `NoLostWakeup`, `EofIsFinal`. The inductive invariant
`IInv` adds two facts to the three invariants: a pending write exists only in
WritePending (`PipeOK`), and once end of file was told the pipe is closed, idle
and empty (`EofSettled`). The first is what lets a reader be stored without
losing data, since CallersAccounted says nothing of `wps`; the second turns the
action property into an invariant. The lemmas follow the code: one per operator
of `TwibPipe`, then one per action. On top of `IInv`:

* `BytesInOrder` (InOrder, a conjunct of the run's SuccessMeansRead), for any limit.
  InOrder is about a concatenation; the proof keeps its three parts apart, each
  increasing and below the ones behind it (`InLine`), and shows what cutting,
  dropping and appending do to that. Flushing drops bytes (PipeLoss), yet never
  out of order.
* `SuccessIsDelivery` (SynchronousWhenUnbuffered, the other conjunct). It is not
  inductive alone: `SyncInv` adds that the bytes of a write that is not acknowledged
  are read or pending. It holds because without a buffer flushing drops nothing.
* `UnbufferedIsByteStream`: for Limit = 0, `Spec` implements `ByteStream`, action by
  action, with any number of callers; the run checks this refinement as
  SyncIsByteStream for one caller at each end.

**DaemonProofs** (any connections, clients, consoles, failures).
`EntriesAlwaysLive`: every map entry is a device its backend still lists, which
is why LIST_DEVICES may dereference it; it is inductive with the types of the
three variables, since AddDevice and RemoveDevice run before the device leaves
the list. `UsbKeepsEntry`: the USB connection of a console keeps the entry until
a connection of that console fails; the proof needs that deletion_flag is never
cleared and that a connection is added only after it was made.

* `AtMostOneAnswer` (AnsweredOnce, a conjunct of the run's RequestsAnswered), with
  any failures. Whether a request is answered twice is decided by three threads, so
  the invariant follows its tag: it is in at most one of a thread's queue, the
  dispatcher's hands, one connection that is not destroyed, and what the client got,
  and there once (`OnePlace`). Within a connection a tag may be pending and on the
  wire, or pending and on its way back, never on both ways; this is what makes the
  failures a dying USB device posts answers to requests whose responses it no longer
  delivers. There is one lemma per action, and steps that give no place the tag are
  treated once (`QuietPlace`). Closes that twibd requests itself carry a tag of no
  client, so destructors are quiet for all tags.
* `NoRequestForgotten` (AllAnswered, the other conjunct): as long as no connection
  has failed, when everything has settled each connected client has got as many
  answers as it posted requests. The second invariant (`Kept`) is the converse: every
  posted tag of a connected client is in one of those places. When the queues, the
  dispatcher and the wires are empty, what a client got maps one to one onto its
  tags.
* `RequestsReachConsole` (part of ReachesItsObject, a conjunct of ObjectsTracked): a
  request for an object is sent to a connection of the console the
  object came from. LockDevice looks the device up and SendRequest uses what was
  locked, so the map may change in between; the invariant (`Routed`) is about the
  locked device and the wires, with EntriesLive for the lookup.
* `EveryRequestAnswered` (RequestsAnswered): the first two together.
* `ObjectsAlwaysTracked` (ObjectsTracked), for consoles that do not restart
  (`MayReboot = {FALSE}`, as in the run): a restarted console gives its object ids
  out again, and then an old reference closes a new object (section 7). It is the
  longest argument of the project, because who may close an object is decided by
  shared pointers: a BridgeObject is referred to by a client, by a response in a
  queue, on its way back or in the dispatcher's hands, and by the connection it came
  over, and its destructor asks for the close when the last of them goes. `TrackInv`
  says that a table gives an id out once (`Numbered`, `Distinct`); that an object comes
  in one response and then has one owner (`Delivered`); that twibd closes only what
  nothing refers to (`Unused`), a client only what nobody else has or will get
  (`Claimed`, `Disclaimed`), and twibd asks for nothing but closes (`OnlyCloses`): this
  gives OwnedNotClosed. What is in a table is there for the client it was opened for
  (`OpenedFor`), and what a client has from a TCP connection stays in its table until
  the connection fails (`StillOpen`), which is OwnedStillOpen. A client that left and
  whose last request is through owns nothing (`FreedOwnsNothing`), the map leads to
  every console that has objects (`EntryStays`), and on a single USB console each open
  object is referred to or has its close under way (`Watched`): once everything has
  settled, only the objects of the last response are left, which is LostObjectsClosed.
  ReachesItsObject and OwnedStillOpen are claimed of consoles whose connections are
  one TCP connection or USB connections only (`TcpApart`): a second TCP connection has
  an object table of its own, and even a reconnect gets requests for the objects of
  the first (section 7).
  The proof also needs that connections and consoles have different names
  (`PortAssumption`), since a table is named by either.

The message types (`MessageType`) take the place of the model's TypeOK: they say
what is in the queues and on the wires, which TypeOK leaves open.

**UsbProofs** (any number of requests and payload sizes). `RequestsDoNotOverlap`
(OneRequestOut), `ResponsesDoNotOverlap` (OneResponseIn), `NoLostWakeup`
(SleeperHasWaker), `ScanLocksCounted` (ScanCounted). None of the first three is
inductive: the invariant says which outgoing transfer transferring_meta and
transferring_data stand for, that a busy live device has a transfer or the
dispatcher about to submit one (`OutPhase`), who holds the mutex (`MutexHeld`)
and that nothing happened before the device begins (`NotBegun`). A step that
leaves the outgoing side alone is treated once (`AsideKeeps`).

`ResponseOrFailure` (AnsweredOnce, a conjunct of the run's BackendsSound): no request
is answered twice, neither by two responses nor by a response and by ~Device, which
fails what is pending. The invariant says where a request is: in the dispatcher's
hand, going out, on the wire, coming in or answered, in one of these, and pending
only while it is not answered (`Place`); and that a device that was destroyed does
nothing any more (`Ended`).

**BridgeProofs** (any requests, however their payload is cut into transfers, and
whichever transfers, postings and allocations fail). `BridgeAlwaysSound`
(BridgeSound): commands run with their own parameters and stream bytes, the handler
is live, and neither a second response nor an unexpected transfer aborts twili. That
a failed response transfer, report or allocation ends twili is what the code says;
these steps are in the model, and the claim is not about them. The reader keeps a plain pointer to
the handler of the request it reads, the handler is owned by an object's dispatcher,
and what the next transfer is taken for depends on what was read before. The
invariant (`ReaderInv`) has three parts:

* headers are read in the order they are sent and each once, so that a request whose
  header is read was never seen before (`Fresh`);
* the handler the reader points to is that of the current request, or there is none;
  a handler takes no more than its parameters and the payload, and answers once
  (`HandlerInv`, with HandlerLive);
* unless a header overtook data, the host is where the reader expects it: what is
  posted, what is left to be sent and what is left to be read agree (`Sync`), and
  every unit is with the request it was sent for (`Kept`). The two endpoints are
  served independently, so this needs the exception `log.raced`; section 7 has what
  happens then.

There is one lemma per action; FlushReceiveBuffer and the responses, which several
actions share, have lemmas of their own. `BridgeAssumption` is what is assumed of
the requests: numbers are natural, and there is at least one request.

**ProcessProofs** is the lemmas about `MonitoredProcess` that the next two modules
share: one per operation of the process object, saying which state it leaves, what
it does to the stored callbacks and to the answers given, and that a LAUNCH that
was answered has no callback left to be answered again (`AnswerOnce`).

**ShellProofs** (any number of clients, whichever processes cannot be prepared).
`TypeCorrect`; `ProgramOfItsProcess` (ProgramMatchesProcess): a program runs the code
of the process it is attached to; `LaunchesRemembered` (LaunchNotForgotten). Nothing
in the code ties the content source, the created process and the program together
but the order of the steps, so the invariant follows them: while the event thread
holds queue_mutex only its process is created, and the content source is that
process's until the loader has read it (`EventInv`); what is queued is Started,
queued once and has no program (`QueueInv`); the created process is not attached yet
(`CreatedInv`); a program that has not attached belongs to the created process, and
its exit is not missed (`ProgramInv`); what the main thread is about to attach is
that program (`AttachInv`).

**AppletsProofs** (any number of clients and of files loaded next).
`TypeCorrect`, `HostOfItsProcess` (HostMatchesProcess), `LaunchesRemembered`
(LaunchNotForgotten), `HostsServed` (HostServed). The same argument for the control
applet: how far it is decides what is created and installed (`ControlInv`); at most
one process is created or watched, and the controllers of a living control applet
are that process's (`MonitorInv`); each host is bound to the created process before
it attaches and to the watched one after (`HostInv`); a queued process is nowhere
else (`QueueInv`); the streams and the kill timeout follow the state (`ProcessInv`).

**GdbProofs** (any processes, finitely many threads, any number of events,
attachments and interrupts). `FloorAlwaysAgreed` (FloorAgreed), `ReferencesLive`
(NoStaleReference), `EventsNotLost` (NoLostEvent). Six layers, each kept by every
step under the ones before it:

* `TypeInv`, `LoopInv`: where the loop is inside IngestEvents its process is
  attached, and so is what it has still to visit. LogicBreaks and the packets that
  detach run in between, which is why this is not plain.
* `FloorInv`: what gdb waits for is exactly one of in the buffer, being served, or
  owed. FloorAgreed is its last part.
* `HaltInv`: while at most one process is attached (`OneProcess`: no multiprocess
  extensions, or no second attachment yet), it runs only while the stub waits, and no
  event is queued then.
* `ThreadInv`: the threads the stub knows, after the events that are queued (of
  which the last about a thread decides), are the threads there are, and the current
  thread is one of them, or `Dangling`. Attaching
  builds the queue from the enumeration of the threads (`NthEnumerates`), which is
  where the assumption enters that thread ids are finitely many positive numbers.
* `WatchInv`: until a second process is attached (`FirstSession`) no request for events is refused, has_async_wait
  is up while one is open, and a waiting stub is covered by a request or by a
  notification on its way through the loop.

The theorems speak of `Spec` of the component modules; the runs check the same
definitions in the MC modules' settings.

Only model-checked: all liveness properties (outside the prover's reach, as is
ENABLED); what recursive definitions compute; `PipeWriter`, whose three conjuncts
are the rest of SuccessMeansRead; the conjuncts of BackendsSound about the list of
devices and about libusbK (`UsbBackend`, `UsbkDevice`); the refinement of
`MessageChannel` and the other modules section 2 lists; `DeviceCommands`,
`FileCommands`, `TwibRun` and `SystemServices`; and the formats, whose properties are
about inputs of an instance.

## 7. Deviations the models show

With a violation run and a finding:

* Flushing a pending write acknowledges bytes no reader will get (PipeLoss).
* Removing a TCP device erases the USB device's map entry (DaemonClobber).
* Two launches in a row can block twili for good: the event thread holds
  queue_mutex across LaunchProgram, the main thread waits for the mutex, the
  loader waits for the main thread (ShellBlocked). The watchdog ends it.

Visible in the models with other constants or without a property's exception, and
described here because the repository promises nothing they contradict, or the
promise is covered by a run above. Pipes and bridge:

* WRITE to a closed pipe is answered TWILI_ERR_EOF and goes on; over TCP it is then
  answered again, which aborts.
* The end of a payload that did not fit the stream's first buffer during a write is
  dropped, with success, where `README.md:889` says that WRITE blocks until the data
  is read. The Pipe run reaches it (2 bytes of first buffer, 4 of payload);
  OkMeansWritten excepts exactly these bytes (`st.dropped`) and says that there are
  none for a payload of the buffer's size.
* A WRITE whose pipe closes after the payload is complete is not answered.
* CloseReader drops a pending write but keeps the buffer, which can still be read.
* An asynchronous response resets the handler of the request being read
  (`log.cut`); a header served before the data of the request ahead of it spoils
  both (`log.raced`).
* A response transfer that fails, a report that cannot be had and an allocation that
  fails in OpenRequest abort twili ("fatal").
* Over TCP a cut header falls through to the processing of the previous one
  (`con.split`).

twibd:

* Objects on TCP consoles carry the client id as device id, since the header's
  field is a union, and are never closed. A close request disowns every object of
  that number, on whichever device; no property is about a client with objects of
  one number on two consoles.
* A USB device flagged between lookup and SendRequest drops the request; one whose
  transfer could not be submitted is never destroyed, so its pending requests are
  never failed (`leaked`).
* A BridgeObject that outlives a console's restart closes a number the console has
  given out again (`MayReboot = BOOLEAN` violates OwnedNotClosed). The reset sent to
  a new device and a client's first request may swap; a request for an object of an
  old TCP connection reaches the new one; the last response's objects are held by
  `response_in` until the next response.
* Kill between SendRequest's test and its wait leaves the dispatcher asleep, on both
  USB backends (`seen.unheard` in UsbkDevice); on both, MarkAdded and Kill can release
  isl_lock twice (`twice`), which may end twibd, and an entry of pending_requests can
  be lost (`lost`), whose request is then not failed with its device.
* A device can be lost from the list of devices (`lost`). The destructor misses a
  device that is between two transfers or appended later and then waits for ever
  (`Missed`), or uses an erased element. One line of standard output is taken per
  transfer.
* On a named pipe a write that became pending outside the loop is not waited for
  (`WriteUnwatched`), and a failed write keeps its semaphore.

Programs:

* PopQueuedProcess moves `hbmenu` to its caller (`AppletTracker.cpp:102`), so
  QueueLaunch never closes the homebrew menu for a launch, which `README.md:433`
  says will happen. hbmenu_path is read from the configuration, and
  `AppletTracker.cpp:147` opens /sd/hbmenu.nro.
* A process that cannot be prepared is dropped with its LAUNCH unanswered, and
  nobody is woken for those queued behind it (`dropped`). One whose host or program
  ends before it attaches stays in `created`, and nothing more is launched.
* A client that leaves after its process was popped and before it is attached sets
  exit_pending, which is not read again: the process runs on.
* TERMINATE of a suspended process uses its callback up and leaves its state; the
  next one calls an empty function (`Abort`).
* An argv that fills the shim's buffer has no terminating zero.

Tool:

* A callback notifies without the mutex of its waiting thread (`call.missed`), and a
  request registered while all are being failed is never answered (`book.late`).
* A pull on Unix does not truncate the host's file (`long`); ls goes on for ever when
  entries disappear after they were counted, and coredump when it cannot write.
* has_async_wait may be set after its callback has cleared it (`Stale`). It is one
  flag for all processes and a detach does not take it back, so that from a second
  attachment on no WAIT_EVENT may be sent and events may stay where they are, with
  multiprocess extensions and without. NoLostEvent and StopReported therefore end at
  the second attachment (`FirstSession`), and the run's debuggees hit no events after
  it (`LaterEvents`); the proofs of the other two properties have no such bound.
* "H" on a process without threads makes a pointer to the end of its map the current
  thread and answers OK (`Dangling`). qOffsets on a process that has gone,
  qfThreadInfo without a process and a number that is out of range end the tool.
  Encode leaves out every zero byte of a number, not only the leading ones.
* Output that cannot be printed ends `twib run` by an exception nobody catches
  (`PrintFails`); an error of the fclose of a core file is not noticed.
* Terminating a process that has gone or is being debugged, a second reader of a
  named pipe and a refused reboot take twili down by a failing Assert, as does a
  service that fails under identify, ps, coredump, get-module-info or a reboot
  (`KillsNamed`).

Assumed, where the code has no answer or none that can be said in the model:

* gdb sends all registers in a "G" packet: a short one is answered twice and read
  beyond its end (`GdbStub.cpp:271`). gdb asks qsThreadInfo of processes that are
  still attached; the iterator is moved past the last one (`GdbStub.cpp:627`).
* The kernel reports a thread before its exceptions; ELFCrashReport dereferences
  end() for an unknown one (`ELFCrashReport.cpp:61`). NSO notes are not empty.
* Truncated NROs are checked for the length of what is presented, not for its
  content, and the SD card does not fail while the loader reads.
* The tables SystemServices checks against hold twili's own command numbers and
  argument types per version: the versions' borders and the layout are checked, a
  wrong number that is in both would not be found.
* In UsbkDevice the list of devices, which the hotplug thread also changes, is left
  out; UsbBackend has that race for libusb.

## 8. Not modelled

* Used by nothing: `hbabi_shim`, `process/fs/VectorFile` and `PFS0BuilderFile`.
* Vendored: `concurrentqueue.h`, `blockingconcurrentqueue.h`, lightweight semaphore.
* Without state of their own: option parsing, tables and formatting of the tool,
  logging, msgpack printing, wrappers of system calls (sockets, files, handles,
  threads), services' start-up, reading of configuration files.
* Contents that no property tells apart: what identify, ps and memory reports list,
  register and memory contents in the gdb stub, the bytes of headers beyond the
  fields named in the formats.
* The multicast announcement of a console (it only leads to a connection), the
  Windows setup-class handling in the hotplug search of libusbK, the socket members
  of the Windows event loop, and the list that owns standard output states.
* Tags are unique in the models; the tool draws them at random.
