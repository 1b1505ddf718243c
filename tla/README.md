# A TLA+ development of cansocket-qt-lib

This directory holds TLA+ models of cansocket-qt-lib, a Qt library that makes
SocketCAN sockets into `QIODevice`s, with the TLC configurations that check them
and the TLAPS proofs about them. Paths below are relative to the library's
`src/cansocket/`.

## 1. The system

| Part | State it keeps | Operations | Talks to |
|---|---|---|---|
| `CanAbstractSocket` (+ `Private`) | state, descriptor, open mode; read buffer and limit, read notifier; write buffer, write notifier, bytes to report; two guards against recursive signals | `connectToInterface`, `close`, `flush`, `read`/`write` (by `QIODevice`), `setReadBufferSize`, `waitForReadyRead`, `waitForBytesWritten`, `clearError`; the notifiers' events | the event loop (notifiers), `select()`, the subclass's `readFromSocket`/`writeToSocket`, the application's slots |
| `CanRawSocket`, frame loops | none (moves frames between the buffers and the descriptor) | `readFromSocket`, `writeToSocket` | `read()`, `write()`; called by the above |
| `CanRawSocket`, options | five options, and the same five in the kernel socket | setters, `setSocketOption`, `connectToInterface` | `setsockopt()`, `bind()`, `...Changed()` signals |
| `CanFrame` | one frame: identifier with flags, length, FD flags, two reserved bytes, data | `setFrameType`, setters, `<<` and `>>` on a `QDataStream` | the stream of bytes that the socket carries |
| `CanIsoTpSocket` | two identifiers, three structured options (by pointer), two separation times | setters, `setSocketOption`, `connectToInterface`, message read/write | as `CanRawSocket` |
| `CanRawFilter`, `CanRawFilterArray` | a vector of id/mask pairs, shared between copies | `append`, `resize`, `data`, copies | the option `canFilter`; the application keeps arrays and pointers into them |
| `CanAbstractSocketErrorInfo` | an error code and text | table from `errno` | read by `setError` |

How they work together: the application writes a `CanFrame` to a data stream over
the socket; the bytes go to the write buffer and the write notifier is armed; the
event loop fires it and `completeAsyncWrite()` reports what the former round sent
and has `writeToSocket()` send more. In the other direction the read notifier fires,
`readNotification()` reserves room in the read buffer, `readFromSocket()` fills it
with frames, marked with their size, and `readyRead()` is emitted.

### What is hard

There is one thread, and yet the code is concurrent. Every signal runs application
code in the middle of a member function; that code may call any function of the same
object, or run a nested event loop that runs the notifiers' events; and the function
then goes on with members that may have changed. The `waitFor...` functions run the
same notification code out of their own `select()`. On top of that:

* system calls fail halfway: after some frames were read or written, after
  `socket()` but before `bind()`, in `::close()`;
* arming and disarming of notifiers is spread over five functions, and one disarm
  too many stops a direction for good, one too few makes the event loop spin;
* what `select()` said is used after slots have run;
* the object and the kernel each hold a copy of every option;
* one write path serves a socket of frames and a socket of messages, and both see only
  one block of the ring buffer at a time, whose borders are not those of the writes;
* a frame's type is not stored but deduced, and the stream's reader sizes a frame by
  the same mark the type is deduced from.

`PROJECT.json` lists each hazard at its line with the properties that would catch it, or
with the reason why none does.

### What makes each part correct

* Socket: at rest, state, descriptor, open mode and notifiers agree; no descriptor
  leaks; whatever waits to be sent or reported has an armed notifier, and reading can
  always go on; signals do not nest; every byte is reported once; the read limit is
  kept; frames are neither lost, repeated nor reordered, and with errors only lost or
  repeated in known ways; everything written is sent and everything received is
  delivered, in the end.
* Data path: the bytes on the wire are those written, whatever their division into
  writes and buffer blocks; a raw socket sends whole frames only, an ISO-TP socket never
  cuts a write; received bytes are delivered once and in order, and only a read limit
  ever costs any.
* Options: from `bind()` on the kernel filters by what the getters say; a failed or
  repeated connect changes nothing; observers of the signals know the current value;
  what the application does with a filter array it gave or got does not reach them;
  frames filtered by old options are read before those filtered by new ones.
* Frames: setters and conversions keep type, mark and size in step; the stream stays
  aligned and gives back what it was given.

## 2. The modules

| Module | Models | Role |
|---|---|---|
| `CanRawIO` | `readFromSocket`, `writeToSocket` (canrawsocket.cpp) | the outcomes of one call, in closed form |
| `CanRawLoops` | the same two functions | the loops, iteration by iteration, and the claim that they end in those outcomes |
| `CanAbstractSocket` | canabstractsocket.cpp | the core: state machine, fairness, properties |
| `FrameChannel` | nothing in the code | what a socket promises: two FIFO channels, reliable or with named faults |
| `FrameChannelProofs` | | TLAPS proofs of what a user of the channels may rely on |
| `CanAbstractSocketProofs` | | TLAPS proofs about `CanAbstractSocket`: types, recursion guards, the read limit |
| `CanConnectionProofs` | | TLAPS proofs of the life of a connection: descriptors, notifiers, accounting, arming |
| `CanChannelProofs` | | TLAPS proofs that the socket implements both channels of `FrameChannel`, and so keeps their promises |
| `CanRawSocket` | the options and `connectToInterface` of canrawsocket.cpp | state machine |
| `CanRawReceive` | filter arrays, and the frames read through the options | composes `CanRawSocket` with the application's arrays and the receive path |
| `CanRawProofs` | | TLAPS proofs about `CanRawSocket` and `CanRawReceive` |
| `CanIsoTpSocket` | identifiers, options, `connectToInterface` of canisotpsocket.cpp | state machine |
| `CanIsoTpSocketProofs` | | TLAPS proofs about `CanIsoTpSocket` |
| `CanDataPath` | `readNotification`, `writeData`, `completeAsyncWrite` over the `readFromSocket`/`writeToSocket` of both sockets | state machine of the bytes, for writes, blocks, messages and limits of any size |
| `CanDataPathProofs` | | TLAPS proofs about `CanDataPath` |
| `CanFrame` | canframe.cpp, canframe_p.h | state machine |
| `CanFrameProofs` | | TLAPS proofs about `CanFrame` |
| `MC*` | | applications and small values for TLC |

Operators with the comment `slip: ...` are not part of a specification. Each is a
plausible mistake in the definition that follows it; substituting it must break the
property `PROJECT.json` names under "mutants", which shows that the property can
fail.

### 2.1 CanAbstractSocket

**Control.** The variable `stack` holds the activation records of the member
functions in progress, innermost first. A step runs the code from one signal emission
or `select()` to the next. Emitting a signal pushes a record whose `at` names the slot;
while it is on top the application may make the calls its `AppCalls` allow, each of
which may push more; the slot's return is the action `After...` (or `SlotReturns`,
when the emitting function returns at once), which runs the rest of the function with
the members as they are *now*. A wait function is a record at a place `rr.*` or `bw.*`;
`Resume` says where it goes on when the notification code it called returns. With an
empty stack the program is in the event loop; the call `"events"` of a slot stands for
a nested one.

| Code | Actions |
|---|---|
| `readNotification()` | `ReadNotification`, then `AfterReadyRead` or `AfterReadError` |
| `completeAsyncWrite()`, `startAsyncWrite()` | `CompleteAsyncWrite`, `FinishWrite`, then `AfterBytesWritten` or `AfterWriteError` |
| notifiers' `event()` | `ReadNotifierEvent`, `WriteNotifierEvent` |
| `connectToInterface()` | `ConnectRefused`, `ConnectStarts`, then `ConnectNoSocket`, `ConnectFails`, `ConnectSucceeds`, `AfterConnectError` |
| `close()`, `disconnectFromInterface()` | `Close`, `AfterClosing`, `AfterCloseError` |
| `readData()` / `writeData()` by `QIODevice` | `ReadFrame`, `ReadAll`, `WriteFrame`, `WriteInvalid` |
| `waitForReadyRead()`, `waitForBytesWritten()`, their `select()` | `WaitForReadyRead`, `WaitForBytesWritten`, `SelectReady`, `SelectFails`, `WaitLoop`, `WaitAfterRead` |
| `flush`, `setReadBufferSize`, `clearError` | `Flush`, `SetReadBufferSize`, `ClearError` |
| the bus and the kernel's queue (external) | `FrameArrives` |

**Data.** A byte is known by the frame it belongs to (0 for a reserved byte that
`readFromSocket` has not filled); a written frame by its number and whether its mark
is valid; an error by whether it is a resource error.

**Granularity.** One call of `readFromSocket` or `writeToSocket` is one step. No slot
runs inside, and a frame that arrives during the loop is read or left as if it had
arrived before or after. `writeToSocket` is offered the first block of the ring buffer
only; that it then writes fewer frames is among the outcomes, since the interface's
transmit queue may be full (`ENOBUFS`) after any frame. The five or more `writeData`
calls by which `operator<<` writes one frame are one step, because no slot can run
between them.

**External behaviour assumed.** A `QSocketNotifier` keeps the descriptor it was
created with, and for -1 it is inert; a `select()` without a descriptor watches
nothing; a frame arrives only while the socket is bound; the kernel drops what
overflows its queue, and that never arrives. `QIODevice::close()` drops the read buffer;
the model keeps it until the next `connectToInterface()` clears it. The device is not
open in between, so nobody can read it; all it changes is the room that a wait, going on
over a closed socket, finds before its read fails.

### 2.2 Options: CanRawSocket, CanIsoTpSocket

`at` is the place in `connectToInterface()`, one per system call, because error and
change signals run slots in between and frames arrive from `bind()` on. An option is a
pair of a kept and a kernel value. What the code does and the model keeps: the FD option
of the raw socket is compiled out (`CAN_RAW_FD_FRAMES` is an enumerator, and the code
tests it with `#ifdef`); both separation times of the ISO-TP socket go to the kernel's
transmit option; its structured options are assigned without an `operator=`, so the
member points to a structure that is deleted on return (`Dangling`), and reading it
yields any value. The setter compares pointers, so a change is always announced; that
the allocator may return the address just freed, and the comparison find no change, is
left out. Identifiers can be set in two ways: `SetId` (`setTxId()`, `setRxId()`,
refused unless unconnected) and `SetIdOption` (`setSocketOption()`, never refused);
`disturbed` remembers what the second one changed behind the back of a connection.

**CanRawReceive** composes the raw options with what they are for. On one side, the
application has a `CanRawFilterArray` that it edits, gives to `setCanFilter()` or gets
from `canFilter()`, and a pointer into it. Arrays share their data until one is changed
(`QSharedDataPointer`), so the model keeps whether the application's array shares with
the socket's (`shared`) and whether a pointer is out (`pointer`): a write through the
pointer changes both when they share. `setSocketOption()` calls the non-const `data()` on
its copy, which separates it from the application's; the slip `SetCanFilterShared` is the
innocent-looking `constData()`. On the other side the kernel lets frames through by its
options; they wait in its queue and in the read buffer and are numbered, and `setAt`
remembers how many there were when an option was last set.

| Code | Actions |
|---|---|
| `CanRawFilterArray::append`, `resize`, `data`; a write through the pointer | `AppendFilter`, `Resize`, `Data`, `WriteThrough` |
| `setCanFilter()`, `canFilter()`, the other setters | `SetCanFilter`, `GetCanFilter`, `SetOther` |
| `connectToInterface()`, `close()` | `ConnectAgain` (clears the buffer), `Connecting` (the steps of `CanRawSocket`), `DisconnectAll` |
| the kernel's filter and queue (external) | `Admits`, `Arrive` |
| `readNotification()`, `QIODevice::read()` | `ReadNotification`, `Read` |

Identifiers are sets of bits, so that the kernel's test `id & mask == filter.id &
filter.mask` is an intersection.

### 2.3 CanFrame

One frame `d`, changed by every public function that can change it, and a stream of
frames. Lengths are 1 and 2 instead of 8 and 64 in the run, symbolic in the module.
Received frames are those the kernel lets through.

### 2.4 CanDataPath

`CanAbstractSocket` has all the control, over frames of one size. Here is the data, with
as little control as it needs: an open socket of either type, whose only slots with
calls are those of `bytesWritten()`, the one signal with code of the write path behind
it. Bytes are numbered in the order they are written or arrive; a piece (a frame or
message, a block of the write buffer) is an interval of them.

| Code | Actions |
|---|---|
| `readNotification()` with either `readFromSocket()` | `ReadNotifierEvent` over `RawRead` and `IsoTpRead` |
| `readData()`, `setReadBufferSize()` | `ReadAll`, `SetReadBufferSize` |
| `writeData()` | `Write` |
| `completeAsyncWrite()`, `startAsyncWrite()` with either `writeToSocket()` | `WriteNotifierEvent`, `Flush`, `AfterBytesWritten` over `FinishWrite`, `RawWrite` and `IsoTpWrite` |
| the bus, the kernel's ISO-TP state machine (external) | `Arrive`, `MessageSent` |

The write buffer is `QRingBuffer`: a write never lies in two blocks, and where a write
that exceeds the last block goes depends on the version of Qt and on what it had
allocated, so both are possible (`fits`). That is where frames get split between blocks
when the application's writes are no multiples of frames. An ISO-TP message that the
kernel refuses because it sends another (`EAGAIN`) or because it is too long (`EINVAL`)
stays in the buffer. A read limit below what is buffered makes the room negative: the
raw loop reads nothing, the ISO-TP read fails.

The properties are stated over histories: `wire`, `written`, `ends` and `starts` for
what left, `arrived`, `got` and `lost` for what came. They say where the boundaries
between ISO-TP messages survive (`WritesKeptWhole`) and where they do not: writes that
are not sent before the next one become one message.

## 3. The runs

| Run | Question | Bounds | Outcome |
|---|---|---|---|
| `reentrant` | does the socket stay consistent, and is it a reliable FIFO, under an application that reads, writes, waits, closes, reconnects and runs event loops in slots? | 2 connections, 3 frames in, 2 out, nesting 3, limits none or 2 frames | holds |
| `errors` | and when system calls fail and error slots close (also again after a failed close), reconnect, flush? | 2 connections, 2 frames in, 2 out (also invalid ones), 3 on the wire, nesting 3, all open modes | holds |
| `liveness` | is what is written sent and reported, what arrives delivered, and does every call return? | 1 connection, 3 frames in, 2 out, nesting 2, limits of 1 and 1.5 frames set in slots, waits with and without timeout | holds |
| `raw_receive` | are the options in force those the getters return, whatever happens to filter arrays, and what do they do to frames already received? | 2 connects, 2-4 values each, arrays of up to 2 filters, 3 frames in a connection, of 4 kinds | holds |
| `data_path` | are bytes sent and delivered once, in order and whole, whatever the sizes of writes, blocks, messages and limits? | 5 bytes in, 5 out; frames of 2, blocks and longest messages of 4, writes of 1 and 2, messages of 1 and 3, limits none or 3 | holds |
| `isotp` | the same for addresses and ISO-TP options, as far as the code guarantees it | 2 connects, 2 values each | holds |
| `frame` | do type, mark and size stay in step, and is the stream faithful? | 1 frame on the stream | holds |
| `limit_spin` | is the notifier disarmed when the buffer has too little room? | limit of 1.5 frames | **violated** |
| `read_stall` | is the read notifier armed whenever all is read, also when the limit is taken away? | limits 2 frames, then none | **violated** |
| `flush_in_slot` | is each byte reported, also when a slot of `bytesWritten()` flushes? | 2 frames | **violated** |
| `isotp_coalesced` | is everything sent on an ISO-TP socket when each write is short enough for a message? | longest message of 3, writes of 1 and 2, 5 bytes | **violated** |
| `isotp_reconnect` | are the structured options in force those last set, in the second connection too? | 2 connects | **violated** |

The violated ones are the findings of `PROJECT.json`, each with the line that says
otherwise.

**Why the bounds are enough.** The code tells apart an empty, a partly filled and a full
buffer, and none, one and several frames; three frames in and two out, with a chunk and
a limit of two, reach all of them, including a read that leaves a frame in the kernel
and a write that is cut short. Two connections are needed for what survives one
(notifiers, buffers, `pendingBytesWritten`), and nothing survives that a third would add
to. Nesting of three is a slot inside a wait inside a slot: the guards against
recursion are booleans, so a fourth level repeats the third. In `raw_receive` three
frames put one each into the kernel's queue, the read buffer and the application's hands,
and two connects show what the second finds of the first. In `data_path` five bytes are
two frames and a fragment, or messages that fill, exceed or cross the limit; a block of
four takes two frames exactly and splits the second when a write of one byte came first.
A stream of one frame is enough for a property about
each frame on it. `CanRawLoops` is compared with `CanRawIO` for queues up to 3 frames
and sizes from -3 to 9 bytes as an assumption that every run of `MCCanAbstractSocket`
evaluates.

**Deadlock** is not checked in the runs of `CanAbstractSocket`: an idle event loop, once
the bounds on connections and frames are used up, really stops; the same goes for
`CanDataPath`. In the others it is.

**What the applications leave out.** Slots of `stateChanged(Connecting)` and
`(Closing)` make no calls: closing or connecting from there leaves the two nested
functions with different ideas of the descriptor, and writing from there creates a
notifier for descriptor -1; `Lifecycle` and `NotifierBound` do not hold then, and no
line of the repository promises that they do. The same goes for a slot of a failed close
that closes again *and* connects again before the first close has returned, which then
forgets the new descriptor. So `errors` closes again there, but does not connect in the
slot of `stateChanged(Unconnected)`; `reentrant`, where no close fails, does; and the
theorems of `CanConnectionProofs` allow either, not both together. The slot of a
failed connect may close, and nothing else. Slots of `bytesWritten()` do not flush or
wait in the passing runs; `flush_in_slot` is about that. `ReadArmed` is not a property of
the run `errors`, because a resource error disarms the read notifier and without a limit
nothing arms it again. All this is
the hypothesis of the theorems of `CanConnectionProofs`: `SlotsKeepOut`, and `ReadsGoWell`
for `ReadArmed`. `reentrant` satisfies both, `errors` the first. In `errors` the slot of a
failed read closes, connects and flushes but does not read: the reserved bytes still count as available there,
so reading would take bytes that no frame brought, and `FaultyChannel` does not hold then
(`ErrorSlotsDoNotRead`).

**Fairness** in `liveness`. The thread runs: a `select()` that can return and a
wait that can go on do so (weak). A slot ends whatever it calls before it does, and the
event loop, which polls each armed notifier in every round, is absent while a slot runs:
strong fairness for each kind of slot's return and each notifier. Time passes: a
`select()` with a timeout that goes on finding nothing ready returns (weak,
`SelectTimesOut`), and a `waitForReadyRead()` that goes round notices at the end of a
round that its time is up (strong, `LoopTimesOut`). Nothing more is assumed of timeouts:
`select()` does not return 0 while a frame waits (`MayTimeOut`), so a wait that finds its
descriptor ready each time has to end by what the code does. The bus drains the transmit
queue, so `select()` finds room once in a while and of repeated writes one gets a frame in
(strong, `FindsRoom`, `Transmits`); without it nothing could be promised. The application
drains the buffer when told (strong, with `SlotsDrain`): otherwise a full buffer with a
limit stops reception, as intended.

**The waits that hang.** Not every call returns, and `liveness` says which do not.
`waitForBytesWritten()` with nothing left in the write buffer, but bytes to report, asks
`select()` for reading only, and its loop looks at no deadline (canabstractsocket.cpp,
550-563). If a frame waits and the limit leaves less room than a frame, or negative room,
`readNotification()` reads nothing and returns true, and the wait spins whatever its
timeout (`WaitSpins`); a slot of `readyRead()` that waits before it has read gets there
with a limit of one and a half frames, or after lowering the limit. And a wait
without a timeout hangs on a silent bus with nothing to write, also when the report could
be made at once (`WaitsInSilence`). `AlwaysReturns` states that every call returns unless
the program ends up in one of the two for good, and so do `EventuallyReported` and
`EventuallyRead`; `EventuallySent` needs no exception, because the write buffer is empty
in both. Each exception happens in the run, and without it the property it stands in is
violated. Frames that never pause would keep `waitForBytesWritten()` going in the same
way; the run lets three arrive.

In `data_path` and `isotp_coalesced` (`FairSpec`): the event loop polls the write
notifier whenever no slot runs and a slot ends, whatever it calls before (strong, as
above); the kernel sends a message it took (weak: nothing takes it back); and with a bus
that drains, rounds that can get a frame or message out do so once in a while (strong,
`Transmits`). None of it helps a message that is too long: `isotp_coalesced` is not a
matter of scheduling.

## 4. The proofs

All theorems are about the full specification, for every value of the constants that
the named assumptions admit: any set of calls from any slot (but see the hypotheses
of `CanConnectionProofs` and `CanChannelProofs`), any errors, frame sizes, limits, chunk sizes, descriptors and bounds. (Bounds only restrict the model, so a
theorem for every bound is one about the program.)

| Theorem | Property | Argument |
|---|---|---|
| `CanAbstractSocketProofs!TypeCorrect` | `TypeOK` | inductive as it stands. The work is in the data: the bytes of the frames taken from the kernel's queue index within it, the reserved garbage is a sequence also for a negative size, `Resume` relabels a record of the stack that exists |
| `CanAbstractSocketProofs!NoNestedEmission` | `OneEmission` | inductive relative to `TypeOK`. `EmissionsOf(s)` says that the two guards match the slots on the stack `s`, each at most once. Every change of the stack is a composition of "return below the top", "relabel the top" and "push a slot"; the relation `Keeps` says that such a change leaves the slots of the two signals alone, and is transitive. Only emission and return of the two signals are not in `Keeps`, and these set and reset the guard |
| `CanConnectionProofs!LifecycleHolds`, `NotifiersFollowDescriptor`, `BytesReportedOnce`, `WriteStaysArmed` | `Lifecycle`, `NotifierBound`, `BytesWrittenAccounted`, `WriteArmed` | under `SlotsKeepOut`. The properties speak of the event loop or of one state; the invariant `CInv` speaks of every nesting. `Places`: a slot of `Connecting`, `Closing` or a failed close is only ever on top of the stack, and the state is a transient one exactly there (and, for `Connecting`, in the slot of a failed connect). The exception is a close that fails in the slot of a failed close, and again in that one's: then such slots lie on each other without anything in between (`Piled`), the innermost has set the state, and the outer ones find nothing left to do. `Resources`: what each state has of descriptors and notifiers. `Accounts`: the equation of the bytes, and that a slot of `bytesWritten()` in progress has only slots above it that cannot send (`Muffled`), without which the count would be overwritten. `Armed`: the notifier is armed in slots, too. One lemma for the steps that change none of this (`GoesOn`), one for each piece of code that several actions run |
| `CanConnectionProofs!ReadStaysArmed` | `ReadArmed` | under `SlotsKeepOut` and `ReadsGoWell`. `Receiving`: while the notifier is disarmed there is a limit and something in the buffer, so that the read that takes it arms it again |
| `CanAbstractSocketProofs!ReadLimitKept` | `ReadLimitRespected` | only `readNotification()` makes the buffer longer (one case per action); there, the frames read and the garbage reserved add up to no more than the room, which may be negative, in which case nothing is read and no failure is possible |
| `FrameChannelProofs!AlwaysSentInOrder`, `AlwaysSentOnce`, `AlwaysReceivedInOrder`, `AlwaysReceivedOnce` | those of `FrameChannel`, which no run checks by itself | on the abstract channels, for any frame size. Sending: the outbox holds the last frames submitted, numbered without a gap (`Queued`). Receiving: delivered and waiting units are one stream; delivering moves a border in it, losing and closing cut a piece out (`CutOut`), arriving appends, and being in order survives all three (`Ordered`); without losses a unit's place in the stream tells its frame (`Whole`) |
| `CanChannelProofs!OneFailedRead` | the invariant `HInv` of the refinement | under `SlotsKeepOut` and `ErrorSlotsDoNotRead`. The channel's inbox is the buffer without the bytes reserved by a failed read in progress (`Settled`), so at most one such read may be on the stack, with only slots above it that do not receive (`Marked`). `Carries` says that a change of the stack keeps that slot and what it is about to remove, and is true of every push, relabelling and return but its own |
| `CanChannelProofs!ImplementsFaultyChannel`, `ImplementsReliableChannel` | `FaultyChannel`, `ReliableChannel` | refinement, action by action: each step is one of the channels' or leaves them alone. A `readNotification()` that succeeds is a stutter, as the bytes only move from the kernel's queue to the buffer, and one that fails is a `Lose`; a write is a `Transmit`, or a `Retransmit` if it fails after some frames; a close is a `Shut`. A channel opens empty: nothing is written, read or received before the state is `Connected` (`Begins`). The reliable channel follows from the same cases, because a step that loses needs an error of `read()`, and one that repeats an error of `write()` or an invalid frame in the buffer (`AllValid` excludes the latter) |
| `CanChannelProofs!FramesInOrder`, `FramesOnce` | what the channels promise, said of the socket | the two refinements and the theorems of `FrameChannelProofs`, instantiated with the socket's variables |
| `CanRawProofs!OptionTypes`, `OptionsInForceWhileBound`, `ObserverKnowsOptions`, `ConnectKeepsOptions` | `TypeOK`, `InForce`, `ObserverCurrent`, `KeptAcrossConnects` | `InForce` says nothing before `bind()`, so the invariant extends it backwards: at each place of `connectToInterface()` the options already applied are in force (`AppliedInForce`), and the FD option, which is never written, is disabled on both sides (`NoFd`) |
| `CanRawProofs!ReceiveImplementsOptions` | `OptionsUntouched` | refinement: each action of the composition is a step of `CanRawSocket` or leaves its variables alone. The one that could do neither is `WriteThrough`, so the invariant says that a pointer is out only while the application's array shares with nothing (`pointer => ~shared`) |
| `CanRawProofs!ReceiveTypes`, `NewFilterFollowsOld` | `ReceiveTypeOK`, `NewFilterAfterOld` | the invariant of `CanRawSocket` carries over by the refinement: while frames arrive, the kernel's options are the kept ones. The rest is the order of numbers in three queues, with the kernel's queue empty whenever the socket is not bound |
| `CanIsoTpSocketProofs!IsoTpTypes`, `AddressIsCurrent`, `SepTimeIsInForce`, `FirstOptionsAreInForce` | all of the run `isotp` | `AddressCurrent` holds because identifiers are set only while unconnected or are disturbed; the other two say nothing before the connection, so the invariant extends them backwards along `ApplyOrder`: each option applied so far is in force, or disturbed, and in the first connection no member has been left dangling when it is read |
| `CanDataPathProofs!DataPathTypes`, `OnlyLimitsCut` | `TypeOK`, `CutByLimitOnly` | the first is inductive with the order of intervals; the second needs that a queued message is no longer than `MaxMessage`, and that the chunk has room for that |
| `CanDataPathProofs!WireFollowsWrites`, `WritesStayWhole`, `ReceptionInOrder` | `WireIsWritten`, `WritesKeptWhole`, `ReceivedInOrder` | the three queues of pieces are chains. `Chain` says so twice: neighbours touch (`Contiguous`), and all pairs are in order (`Sorted`). The second follows from the first by induction, but induction over data is beyond the prover, so it is part of the invariant and preserved with it. Lemmas state what taking from the front, appending, cutting the first piece into frames and growing the last piece do to a chain; the actions cite them |
| `CanFrameProofs!FrameTypes`, `StreamAligned`, `StreamRoundTrip`, `ClassicUnflagged`, `SettersKeepType`, `ConversionsTake` | all of the run `frame` | the invariant adds that *no* frame without the FD mark has flags, valid or not, on the stream or not: `setId()` and reading make valid frames out of others |

Assumptions: `ConstantsAssumption`, `FrameSizeAssumption`, `OptionsAssumption`,
`FrameAssumption`, `DataPathAssumption`, `ReceiveAssumption` and those of
`CanIsoTpSocket`. TLC evaluates each in the runs of the module that declares it.

Hypotheses. They stand in the theorems and not among the assumptions, because they are
about the application and its surroundings, and the runs that show findings do without
them.

* `SlotsKeepOut`: descriptor 0 is not among those of sockets, which `close()` would not
  close; the slots named in section 3 keep out; slots that may run inside one of
  `bytesWritten()` do not send. `reentrant`, `errors` and `liveness` satisfy it.
* `ReadsGoWell`: `read()` does not fail and no limit is ever removed (`reentrant`).
* `ErrorSlotsDoNotRead`: neither the slot of a failed read nor a slot that may run inside
  it reads or runs the event loop (`errors`; `reentrant`, where no read fails).
* `NoIOErrors`: `read()` and `write()` do not fail and the application writes no invalid
  frames (`reentrant`). System calls of connecting and closing may still fail.

**Only model-checked**: that the loops of
`CanRawLoops` end in the outcomes of `CanRawIO`, since induction over data is out of
the prover's reach; and liveness (`EventuallySent`, `EventuallyReported`,
`EventuallyRead`, `AlwaysReturns`, `SentUnlessStuck`), which TLAPS does not handle. Every
other property of a passing run is a theorem.

## 5. Not modelled

* `CanAbstractSocketErrorInfo`: a table. Error codes are told apart as far as the control
  does (resource or other).
* `swap()` of filter arrays and their constructors with a size, comparisons of filters.
* The destructor, `aboutToClose()`, the interface's name, copies that share a
  `CanFrame`'s data, `operator==`, decoding of error frames, debug output.
* FD frames on the raw socket, which cannot be enabled.
* Fields of the structured ISO-TP options; the double delete of these when the object is
  destroyed.
* Examples, the configure test and the auto tests, which were read for how the API is
  meant to be used.

Three things the code does are visible in the models and are no finding, since no line of
the repository says otherwise: in a slot of `error()` after a failed read the reserved
bytes count as available; `setSocketOption()` changes identifiers of a bound socket,
which `setTxId()` refuses; a frame whose end lies in the next block of the write buffer
is never sent (`Stuck`).

## 6. What could come next

1. A stream of `CanFrame`s over the socket: the frame's mark and `writeToSocket`'s check
   of it in one model.
