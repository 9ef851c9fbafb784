# A TLA+ model of cpp-npl

cpp-npl is a header-only C++ library of asynchronous network protocols over a
single-threaded event dispatcher (I/O completion ports on Windows, epoll on
Linux).  Its most intricate part is the FTP client, `CProtocolFTP`: an API that
any thread may call, a command queue, a table-driven reply state machine, and
data channels and local files whose completions reach the dispatcher's thread
in an order nobody controls.  Under it are reference-counted devices known to
the system by their addresses, and a mutex per object that is held while
observers are notified.  This directory models these layers, checks them with
TLC and proves the safety of four of them, the command queue, the session (its
dialogue and its transfers), the dispatcher and the locks, with TLAPS.

Paths like `CProtocolFTP.hpp:330` are relative to `src/INCLUDE/`.

## 1. Inventory

| Component | State | Operations | Hard behaviour |
|---|---|---|---|
| `CProtocolFTP`, command queue | `iCmdQ`, `iCmdInProgress`, `iProtocolState` | `Upload` .. `Quit`, `ProcessNextCmd`, `SkipCommand`, `ProcessLoginEvent` | callers and the worker share a list of which only the appends are locked; an atomic flag elects the sender |
| `CProtocolFTP`, replies and transfers | the `FSM` table, `iDCProt`, `iContinueTransfer`, `iDataChannel`, `iFileDevice`, `iCurrentFileOffset` | `StateMachine` and its handlers, `OnDataChannel*`, `OnFile*`, `Stop` | replies, data, end of data, connects and handshakes in any order; refusals; callbacks that say stop |
| `CProtocol` | `iBuffer`, `iMessages`, credentials | `StartClient`, `OnConnect`, `OnRead`, `OnDisconnect`, `Stop` | one handler may run inside another's notification |
| `CSubject` | `iObservers`, `iLock`, removal marks, `iConnected` | `Notify*`, `ResetSubject`, `ProcessMarkRemoveAllListeners`, `GetProperty` | a non-recursive lock held during callbacks; deferred removal |
| `CDispatcher` | its `iObservers`, the event port | `Worker`, `ProcessContext`, `AddEventListener`, `QueuePendingContext` | lookup by raw pointer, lock released during a handler |
| `CDevice` | handle, `iConnected` | asynchronous `Read` and `Write`, `ReadSync`, `WriteSync` | a `Write` to an unconnected device is dropped |
| `CDeviceSocket` | `iStopped`, `ssl`, `iHandshakeDone`, accepted client | `StartSocketClient`, `StartSocketServer`, `InitializeSSL`, `StopSocket`, `OnAccept`, `OnRead` | handshake and shutdown interleaved with data |
| `CListener` | lambdas | forwarding | captures `this` of the protocol |
| `CProtocolHTTP`, `CProtocolWS` | headers, `iWsHandshakeDone` | `IsMessageComplete`, `Post`, `SendProtocolMessage`, `OnAccept` | messages cut anywhere by TCP; lengths at which the frame format changes |
| `CLogger`, `Common.hpp`, `npl.hpp`, `TestNPL`, `TestCopy` | a callback; factories; examples | | `TestCopy` passes one buffer from a write to a read |

**How they interact.**  The dispatcher takes a completion, finds the device
whose address is its key, and calls the device's `OnRead`, `OnConnect`, ...;
`CSubject::Notify*` forwards it, with the device's lock held, to the protocol
or to a lambda; the handler writes to other devices and may mark devices for
removal; the pass ends with `ProcessMarkRemoveAllListeners`.  Application
threads enter through the API, and run `ProcessNextCmd` themselves.

**What makes each part correct.**
* Queue: one command on the wire, the front of `iCmdQ`, in the protocol state
  that interprets its reply; a call's commands stay together; every command
  queued is sent; whoever takes the flag gives it back.
* Session: the data channel and file held are those of the transfer at the
  front; a transfer is retired exactly once, after both its final reply and the
  end of its data; nothing reaches a callback after its null buffer; a download
  is stored, and an upload sent, completely; the protection level is that of
  the call; the session ends.
* Dispatcher: a completion reaches the device it was posted for, which stays
  alive while its handler runs; devices given up leave the list; the
  destructor returns.
* Subjects: no thread waits for a lock it holds, no threads wait in a circle,
  and callbacks may call back.
* Streams: each message is found once, however it is cut, and frames are read
  and written as the peer means them.
* Copy: the destination is the source.

The hazards behind these are listed at their lines in `PROJECT.json`.

## 2. Modules

| Module | Models |
|---|---|
| `FtpCommands` | the API calls, the commands each one queues, the class of a command |
| `CommandService` | abstract: commands served in order, one at a time, after the login; a refused PASV takes its transfer along |
| `CommandQueue` | the queue with all its threads, one step per shared access |
| `CommandQueueProofs` | TLAPS: the inductive invariant of `CommandQueue`, its consequences, and that it implements `CommandService` |
| `FtpSession` | one client with its control channel, data channels, files and dispatcher; one action per completion or call |
| `Dispatcher` | the event port, the worker, any clients and listening sockets; addresses, shared pointers, removal, destruction |
| `Locks` | every `iLock` that a session, its devices and the dispatcher take, per thread |
| `FtpSessionProofs`, `DispatcherProofs`, `LocksProofs` | TLAPS: an inductive invariant of each and its consequences |
| `FtpTransferProofs` | TLAPS, on top of `FtpSessionProofs`: what the protocol holds, and what the dispatcher still lists |
| `FtpProtectionProofs` | TLAPS: the protection level of every transfer |
| `FtpDeliveryProofs` | TLAPS: what transfers deliver to callbacks, files and the server |
| `ProtocolStreams` | `CProtocol::OnRead` with the three framings, the WebSocket hello and the frames sent back |
| `ProtocolStreamsProofs` | TLAPS: the properties of `ProtocolStreams` for all well-formed messages |
| `FileCopy` | the loop of `TestCopy` |
| `MCFtpSession`, `MCProtocolStreams` | call scripts and servers; what peers send |

`FtpSession` is a session seen from inside, with a dispatcher that is one sweep
per handler; `Dispatcher` is the reverse, with handlers that do anything a
protocol may do to devices; `Locks` takes the same handlers apart into the
locks they take.  Each keeps the state the others abstract.

The same component is seen at two grains.  `CommandQueue` splits every function
at its shared accesses but reduces a transfer to "a reply retires the front".
`FtpSession` executes a handler or a call in one step and models everything a
transfer does.  The justification for the coarse steps is what is proved of the
fine ones: between taking and releasing the flag one thread owns the front.  One gap the
coarse steps keep: between finding `iCmdQ` empty and clearing the flag (332-336,
and 637-640 after a failed login) a call may be made, which `FtpSession` models for
the worker as `foundEmpty` and `GiveUp`.  The same gap of a calling thread is in
`CommandQueue` only.

### CommandQueue and the code

`Call`, `Emplace` and `Unlock` are the locked block of an API call
(`CProtocolFTP.hpp:47-57`); `TestAndSet`, `FoundEmpty`, `GiveUp`, `FoundFront`
and `SendCommand` are lines 330-353, for a caller or for the worker;
`ProcessLoginEvent` and `DropAll` are 630-642.  A login can also end without
reaching `ProcessLoginEvent` (`LoginUnheard`): the rows for AUTH with a 3yz (206),
USER with a 2yz (211), 4yz or 5yz (213-214) and PASS with a 3yz (218, as the table
has no row for what answers ACCT) neither serve the queue nor give the flag back,
which the constructor set.  `LoginEnds` chooses among the three.  `Reply` is `StateMachine`
choosing a handler by `iProtocolState`; `PopFront`, `Popped` and `ClearFlag`
are `SkipCommand`, 316-326.  `pc`, `todo`, `cur` and `npop` are the threads'
positions and locals, `wire` is what the server has been sent and not yet
answered, `made` bounds the calls.  Commands carry the call that queued them,
which the code does not, so that properties can tell calls apart.  The list
operations are atomic: that a `std::list` is appended to and popped without a
common lock is a data race of the code, listed as a hazard, not modelled.

### FtpSession and the code

`FSM` is the table of lines 199-237 row for row; `OnControlRead` delivers one
reply and runs its row's handler, or nothing if there is no row.  The handlers
keep the code's names.  `ProcessDataCmdResponse` is split by its argument:
`BeginTransfer` ('1'), `CompleteTransfer` ('2'), `FailTransfer` ('4', '5') and
`DcEof` ('0', called at the end of the data channel).  `DcConnect`,
`DcHandshake`, `DcRead`, `DcEof`, `FileRead` and `FileEof` are the completions
of a transfer's devices, `ControlConnect`, `ControlHandshake`, `CloseNotify`
and `ControlEof` those of the control channel.  Every handler ends with the
dispatcher's `Sweep`, which is `ProcessMarkRemoveAllListeners` as written:
`erase` after `std::remove` returns `end()`, so a pass drops one device only.

`ProcessNextCmd` is one step when it finds a command.  When it finds none the
worker has still to clear the flag, `foundEmpty`; until it does (`GiveUp`) calls may
be made, which find the flag taken, and no completion is handled.

Where the process cannot go on (a failed assertion, a null device, the front
of an empty list, which `DcConnect` and `DcWrite` take at 536 and 565 too, a lock
taken twice) the step sets `fault` and nothing moves again.  Undefined behaviour
is thus taken in its worst outcome.

`ProcessGenCmdEvent` compares the level of an accepted PROT with `lvl == "C"`
(310), which compares the addresses of two `const char*`.  Whether the literal of
the call and the one of line 310 have one address is unspecified and the build's
choice, hence `LiteralsPooled`.  With FALSE an accepted `PROT C` is recorded as
Protected.  MSVC pools literals under `/GF`, which `/O2` implies; the flags the
repository sets are `/Zi /Od` (`src/CMakeLists.txt:14`).

Abstractions: a reply is its first digit; a buffer of data is counted, in
`seen`, per transfer and by what happened to it (received, told to the
callback, stored, read, transmitted).  A local file can always be opened.  A
failed connect is not delivered.  The Windows build is the one modelled.  A
device that was reset but is still listed notifies its handlers until it is
dropped, where the code does so once more only, which adds behaviours.  Two
replies that arrive in one buffer are two steps with a dispatcher pass after
each, where the code makes one pass after both.

`ServerMay` says which orders the environment may produce: the two sockets are
independent, so `earlyData` and `earlyReply` are possible on any network, while
`abort`, `abrupt` and `drop` need a failing peer, and `readFails` a file system on
which `ReadFile` fails at once (`CDevice.hpp:235-237`), as it may at the end of the
file.  The read that `OnFileRead` posts (601) then logs the file's name under the
file's own `iLock`, a fault; the first one, posted by `TriggerDataTransfer`, holds
no lock, and the upload waits for ever.  That a write which fails is logged with
the control channel's name, and what lock that takes, is left to `Locks`.

### Dispatcher and the code

`posted` is what the system works at, `port` what it has completed.  `Notify`
and `FindNone` are `ProcessContext`'s lookup (`CDispatcher.hpp:228-297`): the
first observer whose address is the completion's key, or none.  `OnRead`,
`OnDisconnect`, `OnWrite`, `OnConnect` and `OnAccept` are the device's own
reactions (`CDeviceSocket.hpp:358-486`), `TakeAccepted` is
`AcceptNewConnection` and the next `AcceptEx`, `SweepPass` the erasing pass.
Between the two, with the dispatcher's lock released, `Retire`, `OpenClient`
and `Write` are what protocols do in handlers, in any number and order.
`Open`, `LetGo` and `DropDispatcher` are the application's.

Ownership decides when a device dies, so `held` and `iConnectedClient` are
the pointers apart from the list; `Release` computes what dies, closes it, and
lets what it had posted complete with no bytes.  `addr` is the device's address:
`FreeAddresses` lets the heap reuse any that is free.  Both are the reason for
`stale_key`.  A critical section under the dispatcher's lock is one step;
`Locks` is about the waiting.

### Locks and the code

A thread's `todo` is a stack of locks to take and give back and of calls still
to expand; a call is replaced by its body when its turn comes, because what it
does depends on flags other threads change.  `Guarded` is `std::lock_guard`.
`Property` stands for the log lines that read a device's name, which is where most
waiting comes from.  The calls are those of the code: `CDeviceRead` and
`CDeviceWrite` (`CDevice.hpp:182-288`) log what fails (237, 249, 284);
`CheckPeerSSLShutdown` and `CStopSocket` (`CDeviceSocket.hpp:91-113`, `299-312`)
log what they do; under TLS every write, every read and every step of a handshake
goes through `UpdateWBIO` (314-332), which asks for the peer's close_notify first and
writes only if there are bytes (`wbio`).  `Completion` lets the worker begin any
handler the flags allow; `ProcessContext` puts the dispatcher's lock around its
lookup and its pass, and `Notified` the control channel's around a message handler.

`Tls` says which of the two sockets have TLS, and `MayHappen` what the world does
besides orderly sessions: a `Stop`; writes that fail without one, as after a
reset; reads that fail at once; data handled before the preliminary reply,
when `iContinueTransfer` is still false or what the last transfer left.  `cause`
is a history variable: why the call or handler a thread is in may take a
lock out of order, "Stop" (`CProtocolFTP.hpp:155`), "write" (a control channel that
does not take one), "read" (the file's), "close" (the control channel's close_notify)
or "chunk" (`StopSocket` at 551, on the channel that was notified).

Abstractions: `ConnectEx` completes later, so no handler is entered by opening a
channel; `Stop` is called by application threads, not from a callback; a transfer
without a callback is one whose callback does nothing; devices whose last pointer is
dropped outside the erasing pass are destroyed without a step.

### ProtocolStreams and the code

`OnByte` is the loop body of `CProtocol::OnRead` (`CProtocol.hpp:138-153`):
the byte is appended, completeness is asked of the whole buffer, and a
complete message runs the state machine.  `FtpComplete`, `HttpComplete` and
`FrameComplete` are the three `IsMessageComplete`.  Text is modelled by lines:
no framing completes inside one.  Bytes of frames have four bits, which turns
125, 126, 65535 and 65536 into 5, 6, 255 and 256 and keeps the 2 and 8 byte
lengths and the four byte mask as they are.  The peers' frames are masked text
frames, as RFC 6455 obliges clients to send; an unmasked one would be decoded
with an uninitialised key, and a control frame be told to the callback.
`Xor` is the code's `^`, bit by bit; `LTOB` and `BTOL` are those of `Util.hpp`.

What peers may send is `SessionsAssumption`: a script of messages, each of its
protocol's format.  `IsReply` is RFC 959's one- or multi-line reply, `IsResponse`
RFC 7230's header with as many bytes behind it as its one Content-Length says,
`IsHello` and `IsFrame` RFC 6455's.  TLC evaluates the assumption for the scripts
of `MCProtocolStreams`.

### FileCopy and the code

A byte of the source is its position.  `live` says whether the buffer of the
operation in flight has been freed; a read into a freed buffer may yield
anything, so `Clobbered` is either the bytes or garbage.

## 3. Runs

| Run | States | Shows |
|---|---|---|
| `queue` | 30,644 | `CommandQueue`: two callers and the worker over TLS, a login that is accepted, refused or ends unheard; the inductive invariant and its parts, the refinement of `CommandService`, the flag given back unless the login ended unheard |
| `lost_wakeup` | | violated, section 4 |
| `session_wild` | 101,020 | `FtpSession`: download, upload, `Stop`, PWD over implicit TLS; any legal reply, every oddity, callbacks that refuse, literals that are not pooled.  What still holds: types, `ChannelIsFronts`, `AwaitsItsReply` |
| `session_transfers` | 54,041 | `FtpSession`: protected listing, clear download, protected upload whose callback may refuse, QUIT, over explicit TLS; refused PASV and transfers.  Devices, files, callbacks and protection levels fit, and the session ends |
| `early_eof`, `early_reply` | | violated |
| `dispatcher` | 117,232 | `Dispatcher`: three devices of which the application opens up to two; lifetime, lookup, list, destructor |
| `stale_key` | | violated |
| `locks` | 1,442,393 | `Locks`: the worker and an application thread, TLS on both channels, `Stop`, failed writes and reads, early data and refusals at any time: every deadlock has a cause and the worker in it |
| `refused_chunk` | | violated |
| `streams` | 8,965 | `ProtocolStreams`: FTP replies of one and four lines in threes, HTTP responses in pairs, WebSocket frames of 0, 1, 5, 6, 255 and 256 bytes, five answer lengths |
| `freed_buffer` | | violated |

**Bounds.**  Two callers and the worker are enough to overlap two pushes, a push
with a pop, and three competitors for the flag; the proofs of section 5 cover the
rest.  `MaxChunks` = 3 gives one chunk before, one with and one after a refusal.
Three devices are a listening socket, its accepted one and one more, or a dead
device, the one at its address and a bystander; completions are kept apart with
one write in flight (`Writers`).  In `Locks` one application thread and the worker
form every circle the model has; with two and everything allowed the state space is
too large for a short run, and `LocksProofs` covers any number.  Reads of one to
three symbols put a boundary everywhere and several of the shorter messages into one read.

`locks` excludes nothing: the deadlocks of the code are reached, and
`DeadlocksHaveCauses` says that each has one of the five causes.  `refused_chunk`
is the one of them that the documentation contradicts.  `session_wild` runs with
`LiteralsPooled` FALSE; `session_transfers` with TRUE and without `readFails`,
because `AsksItsProtection`, `NoFault` and `SessionEnds` are false otherwise
(section 4).  `SessionEnds` admits one other end, `LeftBehind`: the worker's
`GiveUp` after a call that found the flag taken, which is `lost_wakeup`; no later
call then comes to send what is queued.

`CHECK_DEADLOCK FALSE` everywhere: sessions, peers and files end, and a client
whose calls are made waits; deadlocks of locks are a property of their own.

**Fairness.**  `CommandQueue`: weak fairness of the worker (it blocks only for
completions, and the server answers), of a call once begun, and of
`ProcessNextCmd` per thread; no call is owed.  `FtpSession`: weak fairness of
`StartClient`, of the application's script, of `GiveUp` (the worker's thread
runs), and of the dispatcher's completions as a whole, of which chunks are bounded
by `MaxChunks`.  `Dispatcher`: the worker's thread runs and so does the one that
joins it; nothing says that an operation ever completes, so `MarkedIsDropped` is stated
for executions in which completions keep coming.  The other modules state no liveness.

## 4. What the violations show

| Run | Property | Where |
|---|---|---|
| `lost_wakeup` | `QuitIsSent` | `CProtocolFTP.hpp:332`: emptiness check and `clear()` are two steps; a command queued between them is sent by nobody |
| `early_eof` | `FileDeviceIsFree` | `CProtocolFTP.hpp:467`: end of data before the 150 reply; the file opened by 150 is never released and the next transfer's `assert(!iFileDevice)` fails |
| `early_reply` | `UploadComplete` | `CProtocolFTP.hpp:597`: a 150 reply before the channel's own connect; `CDevice::Write` drops the chunks |
| `refused_chunk` | `NoSelfLock` | `CProtocolFTP.hpp:551`: `StopSocket` on the channel whose `OnRead` holds its lock; `GetProperty` takes it again |
| `stale_key` | `EofIsItsOwn` | `CDispatcher.hpp:234`: the aborted read of a deleted socket is told to a new one at the same address |
| `freed_buffer` | `CopiesTheSource` | `TestCopy.cpp:37`: the next read goes into the buffer of the finished write, which is freed on return |

`PROJECT.json` quotes the sentence of the repository each one contradicts.
Other deviations the models reach, for which the repository states nothing to
contradict or which need one of the above, are noted with the hazards: data before
the 150 reply is not stored (`StoredIsReceived` with `earlyData`); a 5yz after a
150 retires nothing (`CProtocolFTP.hpp:228`); a 230 to USER, and the other replies of
rows 206, 211, 213-214 and 218, leave the session unserved, so that QUIT is never sent
(`SessionEnds` with a 2yz to USER, against `src/README.md:124`); in a build that does
not pool literals `PROT C` is recorded as Protected and the clear transfer that asked
for it runs a handshake (`AsksItsProtection` with `LiteralsPooled` FALSE, against
`src/README.md:104-106`); a `Stop` that overlaps a handler, a close_notify in one
buffer with a reply, a write to the control channel that fails, a read of the file that
fails and data before the 150 reply deadlock (`CProtocolFTP.hpp:155`,
`CDeviceSocket.hpp:305`, `CDevice.hpp:249` and `284`, `CDevice.hpp:237`,
`CProtocolFTP.hpp:551`); a Content-Length loses its
last digit and throws if it has one only (`CProtocolHTTP.hpp:40`); an empty
WebSocket frame hides what follows it (`CProtocolWS.hpp:221`), and a multi-line reply
whose text repeats its code is found twice (`CProtocolFTP.hpp:278`): both are modelled,
but the properties of `streams` speak of the other messages and catch neither; a connect that
failed is notified as one that succeeded (`CDeviceSocket.hpp:385`).  And
`make_ws_server` sets TLS on the listening socket only: `OnAccept` never calls
`InitializeSSL` on the accepted ones, which speak plain text.

## 5. Proofs

`CommandQueueProofs` proves, for any set of callers, any number of calls, TLS
or not and any login outcome, under the assumptions `ThreadsAssumption`,
`TlsAssumption`, `LoginAssumption` and `BoundAssumption`:

* `Inductive`: `Spec => []IInv`;
* `TypeCorrect`, `ReplyMeetsItsCommand` (`WireIsFront`), `BatchesStayTogether`
  (`PasvHasItsTransfer`), `SkipsItsOwn` (`SkipStaysInCall`).

The three safety properties are not inductive by themselves.  `WireIsFront`
needs to know that nobody else is about to send or to pop: `OneOwner` says that
at most one thread is at a place where it owns the flag, and that none is while
a command is on the wire; `SendsFront` carries the front from the point where
it was bound to the point where it is written.  `SkipStaysInCall` needs the
transfer of a refused PASV to be in the queue already, although PASV and
transfer are emplaced separately: it is, because sending needs `iLock`, which
the pusher holds until the batch is complete (`SendCommandIInv` is where this
is used, `SentPasvIsPaired` what it establishes).  `PushersHoldLock` and
`PasvHasItsTransfer` keep batches together while they are emplaced;
`CallQueuesBatch` shows that each call's commands form such a batch.

`Refinement` proves `Spec => ServesInOrder`: with `pending` the queue less what
`SkipCommand` has still to pop, every `Emplace` is a `Submit`, `SendCommand` an
`Issue`, `Reply` a `Retire` or `RetireRefused`, the end of the login an `Open`
or a `Reject`, and all else stutters.  `IInv` supplies what these steps need.

`FtpSessionProofs` proves `TypeCorrect` and `RepliesAreAwaited`
(`AwaitsItsReply`) for every script, TLS mode and number of
buffers, and for every server and network: any first digits, early data and
replies, aborts, abrupt closes, failed reads, lost channels.  The one hypothesis,
`FinalRepliesOnly`, is RFC 959's: no preliminary reply to PASS, PASV or a general
command (the table retires a command at its 1yz).  `AwaitsItsReply` is not
inductive.  `IInv` adds when nothing is on the wire and nobody else may put
something there: before the connect and during the explicit handshake
(`ControlOK`), where a step that retires would break both; and that no
preliminary reply is outstanding then, so that the next command starts afresh.
Every row of `FSM` is one case (`FsmRows`); `NextCommandStep`, `LoginStep`,
`QuietStep` and `SilentStep` are the four ways a handler can leave the dialogue.
That the end of a data channel may retire the front only while nothing is on the
wire is where `AwaitsItsReply` itself is used: `xyz` is no state a reply is awaited in.

`FtpTransferProofs` proves `HeldIsFronts` (`HoldsFrontsDevices`) and
`RetiredIsGone` (`NoRetiredChannelListed`) under two more hypotheses: `NoStop`, since a
`Stop` in mid-transfer forgets the data channel and TLC finds `HoldsFrontsDevices`
violated; and `DataAfterReply`, since with data handled before its preliminary reply
it is too.  Early replies, aborts, abrupt closes, lost control channels and any
refusals are covered.  `TInv` is the invariant: PASV stands directly before its
transfer, one pair per call (`QueueOK`); the devices of transfers to come are
untouched (`ToComeOK`); the file goes with the channel and the channel with
the front (`FrontOK`); and the list keeps its order (`ListOK`): the control channel
first, a data channel before its file.  A pass drops one device only, the first
marked one.  By `ListOK` at most one marked device is still listed when a
handler begins, and it is the file of the last transfer: so a data channel given up
is the first one the pass meets, and its file follows with a later pass.

`FtpProtectionProofs` proves `GranularProtection` (`AsksItsProtection`) for every
script, with `Stop`, and every server and network, early data included, that
accepts PROT (`ProtAccepted`): when PROT is refused the code goes on with the transfer at
the level there was.  It needs a build that pools literals (`LiteralsPooled`); in every
build `ProtectionIsKept` holds, that a transfer which asked for protection runs with
it: line 310 errs on one side only.  What is inductive is `LevelOK`: every transfer still queued
either has its own PROT queued too, the last one before it, or no PROT is before it and
`iDCProt` is already what its PROT is recorded as.  As calls queue PROT only while the
control channel is listed, the proof also needs that a transfer which is under way still has it
listed (`TransferInFront`, `ControlFirst`).

`DispatcherProofs` proves `TypeCorrect`, `HandledIsListed`
(`HandledStaysListed`) and `CompletionsFindDevices` (`NoCompletionLost`) for any
number of devices, writers and observers.  The
invariant relates who is alive, who is listed, who is marked, and what is
posted or completed: listed devices are alive, every operation and completion
is keyed with its device's address, live devices have distinct addresses and
are listed or marked, the handled device is listed.  Only the pass takes
anything off the list, and the worker itself runs it; a completion without
an observer is then one of a device given up.

`LocksProofs` proves, for any number of application threads, TLS on any of the
sockets, and whatever may happen, `TypeCorrect`, `CallbacksAreFree`
(`CallbacksMayCall`), `EveryDeadlockHasCause` (`DeadlocksHaveCauses`) and
`OnlyTheWorkerBlocksItself`: no application thread ever waits for a lock it holds, and
the worker only in a handler that has a cause.  The invariant
reads a thread's `todo` as a walk: from the locks the thread holds, item by item,
to none, each item being permitted with the locks then held (`Path`).  `WorkerMay`
and `AppMay` say what is permitted; they are the code's locking discipline in two
tables.  Without a cause the worker takes no lock it holds already, and an application
thread that holds `ftp` takes no other; a thread with a cause may (`Bad`).  A callback
is permitted only without `ftp` and `D`, whatever the cause.  An application thread that
waits with a lock in its hand holds `ftp` alone and waits for a channel's (`Waiting`):
so it has a cause, and the circle goes on with somebody who holds a channel's lock,
which is the worker.  If the worker has no cause it waits for another thread of the
circle, which has one.  Handlers
are composed of few pieces (`PathOfConcat`, `PathOfGuarded`), so each new handler
costs one lemma.

`FtpDeliveryProofs` proves what transfers deliver to callbacks, files and the
server, each theorem under hypotheses of its own:

| Theorem | Property | Besides `FinalRepliesOnly` |
|---|---|---|
| `ChannelOfFront` | `ChannelIsFronts` | nothing: `Stop`, early data, calls left behind, every oddity |
| `RefusalEndsSending` | `RefusedSendsNoMore` | nothing |
| `NullEndsTransfer` | `NullIsLast` | `NoStop`, `DataAfterReply` |
| `DownloadsAreStored` | `StoredIsReceived` | these and `NoDrop`, `TransferReplies`, `DownloadsTaken` |
| `UploadsAreComplete` | `UploadComplete` | `NoStop`, `DataAfterReply`, `NoAbort`, `ConnectFirst` |
| `NoHandlerDies` | `NoFault` | those of `DownloadsAreStored` and `NoAbort`, `NoAbruptClose`, `ReadsBegin` |

* `ChannelOfFront` and `RefusalEndsSending` rest on `ChannelInv`: a data channel that
  is held is that of the transfer in front, with the flag taken and not about to be given
  up, also when calls were left behind.  So the callback that
  `FileRead` asks is that of the transfer whose channel it writes to.
* `NullEndsTransfer`: a channel that has told its null buffer is marked, and no
  marked channel is held (`NullInv`).
* `DownloadsAreStored` rests on `DownloadInv`: while a transfer is under way its
  control channel serves (`ControlServes`), and a download that has been answered has
  its file (`AnsweredOK`), so no data finds it missing.
* `UploadsAreComplete` rests on `UploadInv`: a read of the file is posted only
  while its channel can take what it brings (`ReadingOK`, and before that
  `AwaitingOK`, `UnusedOK`); hence every chunk that was read was sent (`SentOK`).
* `NoHandlerDies` puts the two together, handler by handler.

`StepCases` says that a step leaves devices and channels aside, opens a transfer,
begins, advances or fails it; each invariant treats these five cases instead
of every handler.

Without their hypotheses most of these are false, as TLC shows on scripts of two or
three calls: early data refutes `NullIsLast`; early data, a lost control channel, a
final reply other than 4yz and 5yz to a transfer command, and a refused download
refute `StoredIsReceived`; an abort and an early reply refute `UploadComplete`; each
of the hypotheses that `NoHandlerDies` adds is needed.  `Stop` was not found to refute
`NullIsLast`, `StoredIsReceived` or `UploadComplete`, nor early data
`UploadComplete`: there the proofs need the hypothesis because `TInv` does.

`ProtocolStreamsProofs` proves all four properties of `ProtocolStreams`, as
`TypeCorrect`, `MessagesAreFound` (`EachMessageOnce`), `CallbackHears`
(`ToldIsSent`) and `AnswersAreRead` (`AnswersDecode`): for every script of well-formed
messages, of any number and length, every cut into reads of any size, every
masking key and every answer of up to `MaxLen64` bytes.  They rest on
`SessionsAssumption`, `AnswersAssumption` and `BoundAssumption`, and on nothing else.

* The invariant `Inv` says where in the stream a living object is (`At`).  It is
  `Between` messages: the last one has been found, and what came since is the rest of its
  body.  Or it is `Within` message k: the buffer is what came of it, behind what
  was left of the body before (`Pending`).  What the callback was told and what was sent follow from
  the number of messages found (`Says`).
* `Complete` is the heart: a buffer that is `Pending` is complete exactly at
  `Found(k)`.  That is the message's end, except in HTTP: there the last digit of
  Content-Length is dropped, so a response with a body is found before its end (which is why
  `EachMessageOnce` bounds the count from both sides and does not fix it), and
  the rest of its body, which `FirstIs` and `FirstShifts` show to be harmless,
  stands in front of the next.  A frame without payload (`Mute`) is never complete.
* `FrameFound` shows of each form of the length that no shorter prefix parses and
  that the whole frame parses to its payload (`XorTwice`, `BTOLIs`).  `AnswerSays` is
  the way back, by `LTOBIs` and `Digits`.
* `ReadKeeps` goes through one read symbol by symbol, `Step` through one symbol.
  `CountsAre` relates `iMessages` to the `Delivered` and `Begun` of the properties.
* The stream, a read and `BTOL` are recursive functions.  The library's theorems on
  them take operators, so `Induction` is a lemma over sets of numbers here, from the
  well-foundedness of `<`; `AfterExists`, `ValueExists` and `StreamExists` use it to
  show that the recursive definitions define functions, and `OnReadSteps` and
  `StreamSteps` unfold them.

The invariants of these modules were checked with TLC on the bounds of the runs
before they were proved, except the `Inv` of `ProtocolStreamsProofs`, whose
`\E l \in Nat` TLC cannot enumerate; of that module TLC checks the properties.

Model-checked only: liveness (`FlagIsReleased`, `SessionEnds`, `JoinReturns`,
`MarkedIsDropped`), which TLAPS does not reach; and what is false in general and
shown by a violation.

## 6. Plan

All layers are modelled, and every safety property of the passing runs is
proved.  What is left is to drop hypotheses: `NullIsLast`,
`StoredIsReceived` and `UploadComplete` with `Stop`, and `UploadComplete` with early
data, on an invariant weaker than `TInv`, as `ChannelInv` is for the refusals.

Not planned: that `FtpSession` implements `CommandService`.  Its handlers
retire and issue in one step, so the abstract step would have to be composed,
and `Refinement` shows the same at the finer grain.

## 7. Not modelled

* The Linux build.  Its branches of `CDispatcher` (epoll, a control pipe of
  `Context` records) sit beside `CDevice` and `CDeviceSocket` code that has
  Windows calls only (`CDevice.hpp:168-175`, `290-346`, `AcceptEx`), so there is
  no program of which they are a part.
* `ReadSync` and `WriteSync`, which nothing calls; `OnEvent`, which nothing
  sends; `GetDispatcher`'s walk to the one dispatcher there is.
* OpenSSL's records and the contents of the memory BIOs: handshake, data and
  close_notify are events, and of the write BIO `Locks` keeps whether it has bytes.
* A worker that runs `~CDispatcher` itself, because a handler held the last
  pointer for a moment; `ConnectEx` succeeding at once (`CDeviceSocket.hpp:170`).
* The WebSocket client, unwritten in the code; the digest in the server's hello.
* `CLogger`, `Common.hpp`; the text of replies, the parsing of host and port,
  certificates, the contents of files.
