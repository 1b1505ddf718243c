------------------------- MODULE CanAbstractSocket -------------------------
(***************************************************************************)
(* CanAbstractSocket and CanAbstractSocketPrivate (canabstractsocket.cpp)  *)
(* over the frame loops of CanRawSocketPrivate (canrawsocket.cpp).         *)
(*                                                                         *)
(* The program is one Qt thread, but not a sequential one: every signal    *)
(* (readyRead, bytesWritten, stateChanged, error) runs the application's   *)
(* slots in the middle of a member function, a slot may call any function  *)
(* of the socket again, and the function goes on afterwards with whatever  *)
(* the slot left.  The waitFor* functions block in select() and run the    *)
(* same notification code from there.                                      *)
(*                                                                         *)
(* So the state is the object's members plus "stack", the activation       *)
(* records of the member functions in progress, innermost first.  A step   *)
(* runs the code from one signal emission (or select) to the next.  A      *)
(* record's "at" names the slot that is running or the place where a wait  *)
(* function is:                                                            *)
(*                                                                         *)
(*   the top of stack is ...   then what may happen next is                *)
(*   none (the event loop)     a call of the application, a notifier event *)
(*   a slot                    a call of that slot, or the slot returns    *)
(*   a wait label              select() returns, or the wait goes on       *)
(***************************************************************************)
EXTENDS CanRawIO, SequencesExt

CONSTANTS
    Fds,            \* file descriptors that socket() may return
    NULL,           \* no notifier
    OpenModes,      \* open modes the application uses, sets of access rights
    BufferSizes,    \* arguments of setReadBufferSize, 0 is "no limit"
    ReadChunk,      \* readChunkSize
    ReadErrors,     \* read() errors that may happen: "resource", "other"
    WriteErrors,    \* write() errors that may happen
    MayFail,        \* system calls of connect/close that may fail
    AppCalls,       \* pairs <<context, call>> the application makes
    Forever,        \* whether it waits without a timeout: a subset of BOOLEAN
    SlotsDrain,     \* whether its slots of readyRead() leave the buffer empty
    MaxConnects,    \* bound: calls of connectToInterface that start
    MaxRx,          \* bound: frames received per connection
    MaxTx,          \* bound: frames written per connection
    MaxSent,        \* bound: frames given to the interface, repeated ones included
    MaxDepth        \* bound: nesting of slots and waits

Access   == {"ReadOnly", "WriteOnly"}

SlotLabels == {"connecting", "connectError", "connected", "closing", "closeError",
               "unconnected", "readyRead", "readError", "bytesWritten", "writeError",
               "apiError"}
WaitLabels == {"rr.select", "rr.read", "rr.write", "rr.loop",
               "bw.select", "bw.read", "bw.afterRead", "bw.write"}
Calls == {"connect", "close", "read", "readAll", "write", "writeInvalid", "flush",
          "setReadBufferSize", "waitForReadyRead", "waitForBytesWritten",
          "clearError", "events"}

ASSUME ConstantsAssumption ==
    /\ Fds \subseteq Nat
    /\ NULL \notin [fd : Fds \cup {-1}, enabled : BOOLEAN]
    /\ OpenModes \subseteq SUBSET Access
    /\ BufferSizes \subseteq Nat
    /\ ReadChunk \in Nat \ {0}
    /\ ReadErrors \subseteq {"resource", "other"}
    /\ AppCalls \subseteq (SlotLabels \cup {"main"}) \X Calls
    /\ Forever \subseteq BOOLEAN /\ SlotsDrain \in BOOLEAN
    /\ {MaxConnects, MaxRx, MaxTx, MaxSent, MaxDepth} \subseteq Nat

VARIABLES
    \* the connection
    state,                \* socketState()
    openMode,             \* QIODevice::openMode()
    descriptor,           \* descriptor, -1 when there is none
    openFds,              \* descriptors the process holds open (kernel)
    \* reading
    buffer,               \* QIODevicePrivate::buffer, a sequence of bytes
    readNotifier,         \* NULL or [fd, enabled]
    readBufferMaxSize,
    emittedReadyRead,
    rxQueue,              \* receive queue of the descriptor (kernel), frames
    \* writing
    writeBuffer,          \* a sequence of whole frames [id, valid]
    writeNotifier,
    pendingBytesWritten,
    writeSequenceStarted,
    emittedBytesWritten,
    \* history of the connection
    rxCount,              \* frames that reached the receive queue
    got,                  \* bytes the application has read
    txCount,              \* frames the application has written
    sent,                 \* frames given to the interface
    reported,             \* bytes reported by bytesWritten()
    connects,             \* connectToInterface calls that started
    \* control
    stack

connection == <<state, openMode, descriptor, openFds>>
reading    == <<buffer, readNotifier, readBufferMaxSize, emittedReadyRead, rxQueue>>
writing    == <<writeBuffer, writeNotifier, pendingBytesWritten, writeSequenceStarted,
                emittedBytesWritten>>
history    == <<rxCount, got, txCount, sent, reported, connects>>
vars       == <<connection, reading, writing, history, stack>>

Frame == [id : Nat \ {0}, valid : BOOLEAN]   \* a frame written, its mark valid or not

Garbage == 0   \* a byte of the buffer that readFromSocket has not filled

-----------------------------------------------------------------------------
(* Activation records *)

Record == [at : SlotLabels \cup WaitLabels, mode : SUBSET Access, chop : Int,
           forever : BOOLEAN, readyToWrite : BOOLEAN]

Base(at) == [at |-> at, mode |-> {}, chop |-> 0, forever |-> FALSE, readyToWrite |-> FALSE]

Top(at)   == stack # <<>> /\ Head(stack).at = at
Below     == Tail(stack)
Context   == IF stack = <<>> THEN "main" ELSE Head(stack).at
Goto(at)  == Cons([Head(stack) EXCEPT !.at = at], Below)

(* Where the code goes when readNotification() or completeAsyncWrite()     *)
(* returns "result" to the function on top of "rest".                      *)
Resume(result, rest) ==
    LET at == IF rest = <<>> THEN "main" ELSE Head(rest).at
        goto(label) == Cons([Head(rest) EXCEPT !.at = label], Tail(rest))
    IN  CASE at \in {"rr.read", "bw.write"} -> Tail(rest)
          [] at = "rr.write" -> IF result THEN goto("rr.loop") ELSE Tail(rest)
          [] at = "bw.read"  -> IF result THEN goto("bw.afterRead") ELSE Tail(rest)
          [] OTHER -> rest

(* The calls that run no slot and never wait *)
PlainCalls == {"read", "readAll", "write", "writeInvalid", "setReadBufferSize"}

MayCall(call) ==
    <<Context, call>> \in AppCalls /\ (call \in PlainCalls \/ Len(stack) < MaxDepth)

(* The event loop runs, in main or nested in a slot *)
Dispatching == stack = <<>> \/ MayCall("events")

-----------------------------------------------------------------------------
(* Notifiers: a QSocketNotifier keeps the descriptor it was created with;  *)
(* one created for -1 is inert, and setEnabled() does not change it.       *)

Notifier == {NULL} \cup [fd : Fds \cup {-1}, enabled : BOOLEAN]

NotifierFor(fd) == [fd |-> fd, enabled |-> TRUE]

Enabled(n) == n # NULL /\ n.enabled

SetEnabled(n, enable) ==
    IF n = NULL THEN (IF enable THEN NotifierFor(descriptor) ELSE NULL)
    ELSE IF n.fd = -1 THEN n ELSE [n EXCEPT !.enabled = enable]

IsOpen(fd) == fd \in openFds

(* What select() or the notifiers of the event loop may find.  The queue   *)
(* is the descriptor's; nothing is known of a descriptor the object lost.  *)
Readable(fd) == IsOpen(fd) /\ (fd = descriptor => rxQueue # <<>> \/ ReadErrors # {})

-----------------------------------------------------------------------------
(* readNotification(), up to the signal it emits or to its return *)

Full == readBufferMaxSize # 0 /\ readBufferMaxSize = Len(buffer)

(* slip: the limit is compared with the chunk, not with what is left of it *)
BytesToReadOfLimit ==
    IF readBufferMaxSize # 0 /\ ReadChunk > readBufferMaxSize THEN readBufferMaxSize
    ELSE ReadChunk

BytesToRead ==
    LET room == readBufferMaxSize - Len(buffer)
    IN  IF readBufferMaxSize # 0 /\ ReadChunk > room THEN room ELSE ReadChunk

ReadFails(o, rest) ==
    LET filled == Bytes(First(rxQueue, o.frames))
    IN  /\ buffer' = buffer \o filled \o [i \in 1 .. BytesToRead - Len(filled) |-> Garbage]
        /\ readNotifier' = IF o.error = "resource" THEN SetEnabled(readNotifier, FALSE)
                                                   ELSE readNotifier
        /\ stack' = Cons([Base("readError") EXCEPT !.chop = BytesToRead], rest)
        /\ UNCHANGED emittedReadyRead

(* slip: readyRead() without the guard against recursion *)
ReadSucceedsRecursing(o, rest) ==
    LET received == buffer \o Bytes(First(rxQueue, o.frames))
        emits    == o.frames > 0
    IN  /\ buffer' = received
        /\ readNotifier' = IF readBufferMaxSize # 0 /\ Len(received) = readBufferMaxSize
                           THEN SetEnabled(readNotifier, FALSE) ELSE readNotifier
        /\ emittedReadyRead' = (emittedReadyRead \/ emits)
        /\ stack' = IF emits THEN Cons(Base("readyRead"), rest) ELSE Resume(TRUE, rest)

ReadSucceeds(o, rest) ==
    LET received == buffer \o Bytes(First(rxQueue, o.frames))
        emits    == ~emittedReadyRead /\ o.frames > 0
    IN  /\ buffer' = received
        /\ readNotifier' = IF readBufferMaxSize # 0 /\ Len(received) = readBufferMaxSize
                           THEN SetEnabled(readNotifier, FALSE) ELSE readNotifier
        /\ emittedReadyRead' = (emittedReadyRead \/ emits)
        /\ stack' = IF emits THEN Cons(Base("readyRead"), rest) ELSE Resume(TRUE, rest)

ReadNotification(rest) ==
    /\ IF Full
       THEN /\ readNotifier' = SetEnabled(readNotifier, FALSE)
            /\ stack' = Resume(FALSE, rest)
            /\ UNCHANGED <<buffer, emittedReadyRead, rxQueue>>
       ELSE \E o \in ReadOutcomes(rxQueue, IsOpen(descriptor), BytesToRead, ReadErrors) :
            /\ rxQueue' = Drop(rxQueue, o.frames)
            /\ IF o.error = "none" THEN ReadSucceeds(o, rest) ELSE ReadFails(o, rest)
    /\ UNCHANGED <<connection, readBufferMaxSize, writing, history>>

(* The rest of readNotification() after each of its signals *)

AfterReadyRead ==
    /\ Top("readyRead")
    /\ SlotsDrain /\ "ReadOnly" \in openMode => buffer = <<>>
    /\ emittedReadyRead' = FALSE
    /\ stack' = Resume(TRUE, Below)
    /\ UNCHANGED <<connection, buffer, readNotifier, readBufferMaxSize, rxQueue, writing,
                   history>>

(* slip: the reserved bytes stay *)
AfterReadErrorUnchopped ==
    /\ Top("readError")
    /\ stack' = Resume(FALSE, Below)
    /\ UNCHANGED <<connection, reading, writing, history>>

AfterReadError ==
    /\ Top("readError")
    /\ buffer' = Chop(buffer, Head(stack).chop)
    /\ stack' = Resume(FALSE, Below)
    /\ UNCHANGED <<connection, readNotifier, readBufferMaxSize, emittedReadyRead, rxQueue,
                   writing, history>>

-----------------------------------------------------------------------------
(* completeAsyncWrite() and startAsyncWrite() *)

(* slip: the notifier is disarmed with the last frame, not with the last report *)
FinishWriteDisarming(pending, rest) ==
    \E o \in WriteOutcomes(writeBuffer, IsOpen(descriptor), WriteErrors) :
        /\ Len(sent) + o.frames <= MaxSent
        /\ sent' = sent \o First(writeBuffer, o.frames)
        /\ writeSequenceStarted' = o.ok
        /\ writeBuffer' = IF o.ok THEN Drop(writeBuffer, o.frames) ELSE writeBuffer
        /\ pendingBytesWritten' = IF o.ok THEN pending + FrameSize * o.frames ELSE pending
        /\ writeNotifier' = IF o.ok /\ o.frames < Len(writeBuffer) THEN writeNotifier
                            ELSE SetEnabled(writeNotifier, FALSE)
        /\ stack' = IF o.ok THEN Resume(TRUE, rest) ELSE Cons(Base("writeError"), rest)
        /\ UNCHANGED <<connection, reading, rxCount, got, txCount, connects>>

(* The part after bytesWritten(): "pending" is pendingBytesWritten there   *)
FinishWrite(pending, rest) ==
    /\ IF writeBuffer = <<>>
       THEN /\ writeNotifier' = SetEnabled(writeNotifier, FALSE)
            /\ pendingBytesWritten' = pending
            /\ writeSequenceStarted' = FALSE
            /\ stack' = Resume(TRUE, rest)
            /\ UNCHANGED <<writeBuffer, sent>>
       ELSE \E o \in WriteOutcomes(writeBuffer, IsOpen(descriptor), WriteErrors) :
            /\ Len(sent) + o.frames <= MaxSent
            /\ sent' = sent \o First(writeBuffer, o.frames)
            /\ writeSequenceStarted' = o.ok
            /\ IF o.ok
               THEN /\ writeBuffer' = Drop(writeBuffer, o.frames)
                    /\ pendingBytesWritten' = pending + FrameSize * o.frames
                    /\ writeNotifier' = IF Enabled(writeNotifier) THEN writeNotifier
                                        ELSE SetEnabled(writeNotifier, TRUE)
                    /\ stack' = Resume(TRUE, rest)
               ELSE /\ pendingBytesWritten' = pending
                    /\ stack' = Cons(Base("writeError"), rest)
                    /\ UNCHANGED <<writeBuffer, writeNotifier>>
    /\ UNCHANGED <<connection, reading, rxCount, got, txCount, connects>>

CompleteAsyncWrite(rest) ==
    IF pendingBytesWritten > 0 /\ ~emittedBytesWritten
    THEN /\ emittedBytesWritten' = TRUE
         /\ reported' = reported + pendingBytesWritten
         /\ stack' = Cons(Base("bytesWritten"), rest)
         /\ UNCHANGED <<connection, reading, writeBuffer, writeNotifier,
                        pendingBytesWritten, writeSequenceStarted, rxCount, got, txCount,
                        sent, connects>>
    ELSE /\ FinishWrite(pendingBytesWritten, rest)
         /\ UNCHANGED <<emittedBytesWritten, reported>>

(* slip: what was reported stays pending *)
AfterBytesWrittenPending ==
    /\ Top("bytesWritten")
    /\ emittedBytesWritten' = FALSE
    /\ FinishWrite(pendingBytesWritten, Below)
    /\ UNCHANGED reported

(* slip: the recursion guard is not reset *)
AfterBytesWrittenGuarded ==
    /\ Top("bytesWritten")
    /\ FinishWrite(0, Below)
    /\ UNCHANGED <<emittedBytesWritten, reported>>

AfterBytesWritten ==
    /\ Top("bytesWritten")
    /\ emittedBytesWritten' = FALSE
    /\ FinishWrite(0, Below)
    /\ UNCHANGED reported

AfterWriteError ==
    /\ Top("writeError")
    /\ stack' = Resume(FALSE, Below)
    /\ UNCHANGED <<connection, reading, writing, history>>

-----------------------------------------------------------------------------
(* The event loop and the bus *)

ReadNotifierEvent ==
    /\ Dispatching
    /\ Enabled(readNotifier) /\ Readable(readNotifier.fd)
    /\ ReadNotification(stack)

WriteNotifierEvent ==
    /\ Dispatching
    /\ Enabled(writeNotifier) /\ IsOpen(writeNotifier.fd)
    /\ CompleteAsyncWrite(stack)

(* A frame that the kernel queues for the bound descriptor.  A frame that  *)
(* overflows the queue is dropped by the kernel: it never arrives here.    *)
FrameArrives ==
    /\ state = "Connected" /\ IsOpen(descriptor)
    /\ rxCount < MaxRx
    /\ rxCount' = rxCount + 1
    /\ rxQueue' = Append(rxQueue, rxCount + 1)
    /\ UNCHANGED <<connection, buffer, readNotifier, readBufferMaxSize, emittedReadyRead,
                   writing, got, txCount, sent, reported, connects, stack>>

-----------------------------------------------------------------------------
(* close() and disconnectFromInterface() *)

(* slip: the descriptor is closed, and kept *)
FinishDisconnectKeeping(rest) ==
    /\ pendingBytesWritten' = 0
    /\ writeSequenceStarted' = FALSE
    /\ state' = "Unconnected"
    /\ stack' = IF state = "Unconnected" THEN rest ELSE Cons(Base("unconnected"), rest)
    /\ UNCHANGED <<descriptor, buffer, readBufferMaxSize, emittedReadyRead, writeBuffer,
                   emittedBytesWritten, history>>

(* disconnectFromInterface() after ::close(), then setSocketState()        *)
FinishDisconnect(rest) ==
    /\ descriptor' = -1
    /\ pendingBytesWritten' = 0
    /\ writeSequenceStarted' = FALSE
    /\ state' = "Unconnected"
    /\ stack' = IF state = "Unconnected" THEN rest ELSE Cons(Base("unconnected"), rest)
    /\ UNCHANGED <<buffer, readBufferMaxSize, emittedReadyRead, writeBuffer,
                   emittedBytesWritten, history>>

(* slip: the notifiers survive the connection *)
DisconnectKeeping(rest) ==
    /\ IF descriptor > 0
       THEN openFds' = openFds \ {descriptor} /\ rxQueue' = <<>>
       ELSE UNCHANGED <<openFds, rxQueue>>
    /\ FinishDisconnect(rest)
    /\ UNCHANGED <<readNotifier, writeNotifier>>

Disconnect(rest) ==
    /\ readNotifier' = NULL
    /\ writeNotifier' = NULL
    /\ IF descriptor > 0
       THEN openFds' = openFds \ {descriptor} /\ rxQueue' = <<>>
       ELSE UNCHANGED <<openFds, rxQueue>>
    /\ \/ FinishDisconnect(rest)
       \/ /\ descriptor > 0 /\ "close" \in MayFail
          /\ stack' = Cons(Base("closeError"), rest)
          /\ UNCHANGED <<state, descriptor, buffer, readBufferMaxSize, emittedReadyRead,
                         writeBuffer, pendingBytesWritten, writeSequenceStarted,
                         emittedBytesWritten, history>>

CloseFrom(rest) ==
    IF state = "Unconnected"
    THEN stack' = rest /\ UNCHANGED <<connection, reading, writing, history>>
    ELSE /\ openMode' = {}
         /\ IF state = "Closing"
            THEN Disconnect(rest)
            ELSE /\ state' = "Closing"
                 /\ stack' = Cons(Base("closing"), rest)
                 /\ UNCHANGED <<descriptor, openFds, reading, writing, history>>

AfterClosing ==
    /\ Top("closing")
    /\ Disconnect(Below)
    /\ UNCHANGED openMode

AfterCloseError ==
    /\ Top("closeError")
    /\ FinishDisconnect(Below)
    /\ UNCHANGED <<openMode, openFds, readNotifier, writeNotifier, rxQueue>>

-----------------------------------------------------------------------------
(* connectToInterface(), from one signal to the next *)

ConnectRefused ==
    /\ MayCall("connect")
    /\ state # "Unconnected"
    /\ stack' = Cons(Base("apiError"), stack)
    /\ UNCHANGED <<connection, reading, writing, history>>

(* slip: the write buffer of the former connection is kept *)
ConnectStartsKeeping(mode) ==
    /\ MayCall("connect")
    /\ state = "Unconnected"
    /\ connects < MaxConnects
    /\ mode # {}
    /\ buffer' = <<>>
    /\ openMode' = mode
    /\ state' = "Connecting"
    /\ stack' = Cons([Base("connecting") EXCEPT !.mode = mode], stack)
    /\ connects' = connects + 1
    /\ rxCount' = 0 /\ got' = <<>> /\ txCount' = 0 /\ sent' = <<>> /\ reported' = 0
    /\ UNCHANGED <<descriptor, openFds, readNotifier, readBufferMaxSize, emittedReadyRead,
                   rxQueue, writing>>

ConnectStarts(mode) ==
    /\ MayCall("connect")
    /\ state = "Unconnected"
    /\ connects < MaxConnects
    /\ IF mode = {}
       THEN /\ stack' = Cons(Base("apiError"), stack)
            /\ UNCHANGED <<connection, reading, writing, history>>
       ELSE /\ buffer' = <<>>
            /\ writeBuffer' = <<>>
            /\ openMode' = mode
            /\ state' = "Connecting"
            /\ stack' = Cons([Base("connecting") EXCEPT !.mode = mode], stack)
            /\ connects' = connects + 1
            /\ rxCount' = 0 /\ got' = <<>> /\ txCount' = 0 /\ sent' = <<>> /\ reported' = 0
            /\ UNCHANGED <<descriptor, openFds, readNotifier, readBufferMaxSize,
                           emittedReadyRead, rxQueue, writeNotifier, pendingBytesWritten,
                           writeSequenceStarted, emittedBytesWritten>>

ConnectNoSocket ==
    /\ Top("connecting") /\ "socket" \in MayFail
    /\ descriptor' = -1
    /\ rxQueue' = <<>>
    /\ stack' = Goto("connectError")
    /\ UNCHANGED <<state, openMode, openFds, buffer, readNotifier, readBufferMaxSize,
                   emittedReadyRead, writing, history>>

(* fcntl(), SIOCGIFINDEX, an option or bind() fails: the socket is open    *)
ConnectFails(fd) ==
    /\ Top("connecting") /\ "bind" \in MayFail
    /\ descriptor' = fd
    /\ openFds' = openFds \cup {fd}
    /\ rxQueue' = <<>>
    /\ stack' = Goto("connectError")
    /\ UNCHANGED <<state, openMode, buffer, readNotifier, readBufferMaxSize,
                   emittedReadyRead, writing, history>>

ConnectSucceeds(fd) ==
    /\ Top("connecting")
    /\ descriptor' = fd
    /\ openFds' = openFds \cup {fd}
    /\ rxQueue' = <<>>
    /\ readNotifier' = IF "ReadOnly" \notin Head(stack).mode THEN readNotifier
                       ELSE IF readNotifier = NULL THEN NotifierFor(fd)
                       ELSE SetEnabled(readNotifier, TRUE)
    /\ state' = "Connected"
    /\ stack' = IF state = "Connected" THEN Below ELSE Goto("connected")
    /\ UNCHANGED <<openMode, buffer, readBufferMaxSize, emittedReadyRead, writing, history>>

(* slip: a failed connect does not close what it opened *)
AfterConnectErrorUnclosed ==
    /\ Top("connectError")
    /\ openMode' = {} /\ state' = "Unconnected" /\ descriptor' = -1
    /\ stack' = Below
    /\ UNCHANGED <<openFds, reading, writing, history>>

AfterConnectError == Top("connectError") /\ CloseFrom(Below)

(* The slots after which the function that emitted returns at once *)
SlotReturns ==
    /\ Context \in {"connected", "unconnected", "apiError"}
    /\ stack' = Below
    /\ UNCHANGED <<connection, reading, writing, history>>

-----------------------------------------------------------------------------
(* The other calls of the application *)

Close ==
    /\ MayCall("close")
    /\ state # "Unconnected"
    /\ CloseFrom(stack)

(* slip: the application's read does not arm the notifier again *)
ReadUnarmed(call, n) ==
    /\ MayCall(call)
    /\ "ReadOnly" \in openMode
    /\ got' = got \o First(buffer, n)
    /\ buffer' = Drop(buffer, n)
    /\ UNCHANGED <<connection, readNotifier, readBufferMaxSize, emittedReadyRead, rxQueue,
                   writing, rxCount, txCount, sent, reported, connects, stack>>

(* QIODevice::read of n bytes: what the buffer holds, then readData() if   *)
(* that emptied it or was not enough.  readData() may arm the notifier.    *)
Read(call, n) ==
    /\ MayCall(call)
    /\ "ReadOnly" \in openMode
    /\ got' = got \o First(buffer, n)
    /\ buffer' = Drop(buffer, n)
    /\ readNotifier' = IF n = Len(buffer) /\ readBufferMaxSize # 0 /\ ~Enabled(readNotifier)
                       THEN SetEnabled(readNotifier, TRUE) ELSE readNotifier
    /\ UNCHANGED <<connection, readBufferMaxSize, emittedReadyRead, rxQueue, writing,
                   rxCount, txCount, sent, reported, connects, stack>>

ReadFrame == Read("read", IF Len(buffer) < FrameSize THEN Len(buffer) ELSE FrameSize)
ReadAll   == Read("readAll", Len(buffer))

(* slip: a notifier is created by the first write and not enabled by others *)
WriteUnarmed(call, valid) ==
    /\ MayCall(call)
    /\ "WriteOnly" \in openMode
    /\ txCount < MaxTx
    /\ txCount' = txCount + 1
    /\ writeBuffer' = Append(writeBuffer, [id |-> txCount + 1, valid |-> valid])
    /\ writeNotifier' = IF writeNotifier = NULL THEN NotifierFor(descriptor) ELSE writeNotifier
    /\ UNCHANGED <<connection, reading, pendingBytesWritten, writeSequenceStarted,
                   emittedBytesWritten, rxCount, got, sent, reported, connects, stack>>

(* QIODevice::write of one frame, through Private::writeData() *)
Write(call, valid) ==
    /\ MayCall(call)
    /\ "WriteOnly" \in openMode
    /\ txCount < MaxTx
    /\ txCount' = txCount + 1
    /\ writeBuffer' = Append(writeBuffer, [id |-> txCount + 1, valid |-> valid])
    /\ writeNotifier' = IF Enabled(writeNotifier) THEN writeNotifier
                        ELSE SetEnabled(writeNotifier, TRUE)
    /\ UNCHANGED <<connection, reading, pendingBytesWritten, writeSequenceStarted,
                   emittedBytesWritten, rxCount, got, sent, reported, connects, stack>>

WriteFrame   == Write("write", TRUE)
WriteInvalid == Write("writeInvalid", FALSE)

Flush == MayCall("flush") /\ CompleteAsyncWrite(stack)

(* slip: the limit is kept as the room that is left *)
SetReadBufferRoom(size) ==
    /\ MayCall("setReadBufferSize")
    /\ readBufferMaxSize' = size - Len(buffer)
    /\ UNCHANGED <<connection, buffer, readNotifier, emittedReadyRead, rxQueue, writing,
                   history, stack>>

SetReadBufferSize(size) ==
    /\ MayCall("setReadBufferSize")
    /\ readBufferMaxSize' = size
    /\ UNCHANGED <<connection, buffer, readNotifier, emittedReadyRead, rxQueue, writing,
                   history, stack>>

ClearError ==
    /\ MayCall("clearError")
    /\ stack' = Cons(Base("apiError"), stack)
    /\ UNCHANGED <<connection, reading, writing, history>>

-----------------------------------------------------------------------------
(* waitForReadyRead() and waitForBytesWritten().  "forever" is msecs = -1; *)
(* any other timeout may have passed at any time, but is noticed only      *)
(* where the code looks: when select() finds nothing ready, and at the end *)
(* of a round of waitForReadyRead().                                       *)

Wait(at, forever) ==
    /\ stack' = Cons([Base(at) EXCEPT !.forever = forever], stack)
    /\ UNCHANGED <<connection, reading, writing, history>>

WaitForReadyRead(forever) ==
    /\ MayCall("waitForReadyRead")
    /\ state # "Unconnected"
    /\ Wait("rr.select", forever)

WaitForBytesWritten(forever) ==
    /\ MayCall("waitForBytesWritten")
    /\ state # "Unconnected"
    /\ writeBuffer # <<>> \/ pendingBytesWritten > 0
    /\ Wait("bw.select", forever)

(* select() returns.  With no descriptor it watches nothing (nfds is 0).   *)
SelectReady(readable, writable) ==
    /\ Context \in {"rr.select", "bw.select"}
    /\ IsOpen(descriptor)
    /\ readable \/ writable
    /\ readable => Readable(descriptor)
    /\ rxQueue # <<>> => readable
    /\ writable => writeBuffer # <<>>
    /\ LET reader == IF Top("rr.select") THEN "rr.read" ELSE "bw.read"
           writer == IF Top("rr.select") THEN "rr.write" ELSE "bw.write"
       IN  IF readable
           THEN ReadNotification(Cons([Head(stack) EXCEPT !.at = reader,
                                                     !.readyToWrite = writable], Below))
           ELSE CompleteAsyncWrite(Goto(writer))

(* select() returns 0 only when nothing is ready.  Room to write is not    *)
(* known; frames in the receive queue are.                                 *)
MayTimeOut == ~Head(stack).forever /\ (IsOpen(descriptor) => rxQueue = <<>>)

(* slip: a select() that timed out is entered again *)
SelectFailsOnError ==
    /\ Context \in {"rr.select", "bw.select"}
    /\ "select" \in MayFail
    /\ stack' = Cons(Base("apiError"), Below)
    /\ UNCHANGED <<connection, reading, writing, history>>

(* select() returns 0, or fails itself *)
SelectFails ==
    /\ Context \in {"rr.select", "bw.select"}
    /\ MayTimeOut \/ "select" \in MayFail
    /\ stack' = Cons(Base("apiError"), Below)
    /\ UNCHANGED <<connection, reading, writing, history>>

(* waitForReadyRead() after a write: again, or out of time *)
WaitLoop ==
    /\ Top("rr.loop")
    /\ \/ stack' = Goto("rr.select")
       \/ ~Head(stack).forever /\ stack' = Below
    /\ UNCHANGED <<connection, reading, writing, history>>

(* waitForBytesWritten() after a read: readyToWrite is what select() said  *)
(* before the slots of that read ran                                       *)
WaitAfterRead ==
    /\ Top("bw.afterRead")
    /\ IF Head(stack).readyToWrite
       THEN CompleteAsyncWrite(Goto("bw.write"))
       ELSE stack' = Goto("bw.select") /\ UNCHANGED <<connection, reading, writing, history>>

-----------------------------------------------------------------------------
Init ==
    /\ state = "Unconnected" /\ openMode = {} /\ descriptor = -1 /\ openFds = {}
    /\ buffer = <<>> /\ readNotifier = NULL /\ readBufferMaxSize = 0
    /\ emittedReadyRead = FALSE /\ rxQueue = <<>>
    /\ writeBuffer = <<>> /\ writeNotifier = NULL /\ pendingBytesWritten = 0
    /\ writeSequenceStarted = FALSE /\ emittedBytesWritten = FALSE
    /\ rxCount = 0 /\ got = <<>> /\ txCount = 0 /\ sent = <<>> /\ reported = 0
    /\ connects = 0
    /\ stack = <<>>

Connecting ==
    \/ ConnectRefused
    \/ \E mode \in OpenModes : ConnectStarts(mode)
    \/ ConnectNoSocket
    \/ \E fd \in Fds \ openFds : ConnectFails(fd) \/ ConnectSucceeds(fd)
    \/ AfterConnectError

Closing == Close \/ AfterClosing \/ AfterCloseError

Reading ==
    \/ FrameArrives \/ ReadNotifierEvent \/ AfterReadyRead \/ AfterReadError
    \/ ReadFrame \/ ReadAll \/ \E size \in BufferSizes : SetReadBufferSize(size)

Writing ==
    \/ WriteNotifierEvent \/ AfterBytesWritten \/ AfterWriteError
    \/ WriteFrame \/ WriteInvalid \/ Flush

Waiting ==
    \/ \E forever \in Forever : WaitForReadyRead(forever) \/ WaitForBytesWritten(forever)
    \/ \E readable, writable \in BOOLEAN : SelectReady(readable, writable)
    \/ SelectFails \/ WaitLoop \/ WaitAfterRead

Next == Connecting \/ Closing \/ Reading \/ Writing \/ Waiting \/ ClearError \/ SlotReturns

Spec == Init /\ [][Next]_vars

(* Fairness.  The thread runs: what follows a select() that can return or  *)
(* a wait in progress does happen (weak).  A slot ends, whatever it calls  *)
(* before (strong).  The event loop polls every armed notifier in each     *)
(* iteration, but is not there while a slot runs (strong).  Time passes:   *)
(* a select() with a timeout that goes on finding nothing returns (weak),  *)
(* and a waitForReadyRead() that goes round and round finds its time is up *)
(* (strong).  A wait that finds its descriptor ready in every select() is  *)
(* not promised to end.  The bus drains the transmit queue, so select()    *)
(* says once in a while that there is room (strong), and a writer that     *)
(* keeps trying gets frames into it (strong).  The application takes what  *)
(* there is when it is told (strong).                                      *)
OtherSlotEnds ==
    \/ AfterReadError \/ AfterWriteError
    \/ AfterClosing \/ AfterCloseError \/ AfterConnectError \/ SlotReturns
    \/ ConnectNoSocket \/ \E fd \in Fds \ openFds : ConnectFails(fd) \/ ConnectSucceeds(fd)

WaitContinues ==
    \/ WaitLoop \/ WaitAfterRead
    \/ \E readable, writable \in BOOLEAN : SelectReady(readable, writable)

SelectTimesOut == SelectFails /\ MayTimeOut

LoopTimesOut   == WaitLoop /\ stack' = Below

FindsRoom == \E readable \in BOOLEAN : SelectReady(readable, TRUE)

Transmits ==
    (WriteNotifierEvent \/ AfterBytesWritten \/ WaitContinues) /\ sent' # sent

Drains    == ReadAll /\ got' # got

Fairness ==
    /\ SF_vars(AfterReadyRead) /\ SF_vars(AfterBytesWritten) /\ SF_vars(OtherSlotEnds)
    /\ WF_vars(WaitContinues)
    /\ SF_vars(ReadNotifierEvent) /\ SF_vars(WriteNotifierEvent)
    /\ WF_vars(SelectTimesOut) /\ SF_vars(LoopTimesOut)
    /\ SF_vars(FindsRoom) /\ SF_vars(Transmits)
    /\ SF_vars(Drains)

FairSpec == Spec /\ Fairness

-----------------------------------------------------------------------------
(* Properties *)

(* Every member keeps its type: in particular the notifiers are NULL or    *)
(* carry a descriptor of the process, and a control stack holds only       *)
(* places that exist in the code.                                          *)
TypeOK ==
    /\ state \in {"Unconnected", "Connecting", "Connected", "Closing"}
    /\ openMode \in SUBSET Access
    /\ descriptor \in Fds \cup {-1}
    /\ openFds \in SUBSET Fds
    /\ buffer \in Seq(Nat)
    /\ readNotifier \in Notifier
    /\ readBufferMaxSize \in Nat
    /\ emittedReadyRead \in BOOLEAN
    /\ rxQueue \in Seq(Nat \ {0})
    /\ writeBuffer \in Seq(Frame)
    /\ writeNotifier \in Notifier
    /\ pendingBytesWritten \in Nat
    /\ writeSequenceStarted \in BOOLEAN
    /\ emittedBytesWritten \in BOOLEAN
    /\ rxCount \in Nat
    /\ got \in Seq(Nat)
    /\ txCount \in Nat
    /\ sent \in Seq(Frame)
    /\ reported \in Nat
    /\ connects \in Nat
    /\ stack \in Seq(Record)

AtRest == stack = <<>>

Occurs(at, s) == \E i \in 1 .. Len(s) : s[i].at = at
Once(at, s)   == \A i, j \in 1 .. Len(s) : s[i].at = at /\ s[j].at = at => i = j

EmissionsOf(s) ==
    /\ (emittedReadyRead <=> Occurs("readyRead", s)) /\ Once("readyRead", s)
    /\ (emittedBytesWritten <=> Occurs("bytesWritten", s)) /\ Once("bytesWritten", s)

(* The guards emittedReadyRead and emittedBytesWritten do their work: each *)
(* is set exactly while a slot of its signal runs, and never do two slots  *)
(* of the same signal run one inside the other (readNotification():        *)
(* "only emit readyRead() when not recursing"), whatever the slots call.   *)
OneEmission == EmissionsOf(stack)

(* connectToInterface() and close() always end in one of the two stable    *)
(* states, with state, descriptor and open mode agreeing, and no           *)
(* descriptor other than the current one is ever left open, through failed *)
(* connects, failed closes and slots that close or connect again.          *)
Lifecycle ==
    /\ openFds \subseteq {descriptor}
    /\ AtRest => /\ state \in {"Unconnected", "Connected"}
                 /\ state = "Connected" <=> descriptor # -1
                 /\ state = "Connected" <=> openMode # {}
                 /\ descriptor # -1 => IsOpen(descriptor)

(* A notifier watches the current descriptor: no notifier survives its     *)
(* connection, and none is created before there is a descriptor.           *)
NotifierBound ==
    \A n \in {readNotifier, writeNotifier} : n # NULL => n.fd = descriptor /\ n.fd # -1

(* Whenever the program is back in the event loop with frames to send or   *)
(* written bytes to report, the write notifier is armed: otherwise they    *)
(* would stay there for ever.                                              *)
WriteArmed ==
    AtRest /\ state = "Connected" /\ (writeBuffer # <<>> \/ pendingBytesWritten > 0)
        => Enabled(writeNotifier)

(* Whenever the program is back in the event loop and the application has  *)
(* read all there was, the read notifier is armed ("read more later",      *)
(* readData()): otherwise nothing is ever received again.                  *)
ReadArmed ==
    AtRest /\ state = "Connected" /\ "ReadOnly" \in openMode /\ buffer = <<>>
        => Enabled(readNotifier)

(* bytesWritten() reports each byte that left the write buffer exactly     *)
(* once: what was reported and what is pending add up to what the          *)
(* interface took over, also when writes failed in between.                *)
BytesWrittenAccounted ==
    state = "Connected" =>
        reported + (IF emittedBytesWritten THEN 0 ELSE pendingBytesWritten)
            = FrameSize * (txCount - Len(writeBuffer))

(* Reading never takes the buffer over the limit of setReadBufferSize().   *)
ReadLimitRespected ==
    [][readBufferMaxSize # 0 /\ Len(buffer') > Len(buffer)
        => Len(buffer') <= readBufferMaxSize]_vars

(* "If data could be read, but buffer was too small, disable the read      *)
(* notifier" (readNotification()): with frames waiting, an event of the    *)
(* armed read notifier reads one of them or disarms the notifier; an event *)
(* that changes nothing would fire again at once, for ever.                *)
TooSmallDisarms ==
    AtRest /\ Enabled(readNotifier) /\ rxQueue # <<>> => ENABLED <<ReadNotifierEvent>>_vars

(* The channel the socket implements.  In the slot of a read error the     *)
(* buffer still has the reserved bytes that chop() is about to remove.     *)
Settled ==
    IF ~Occurs("readError", stack) THEN buffer
    ELSE LET slot == CHOOSE i \in 1 .. Len(stack) : stack[i].at = "readError"
         IN  Chop(buffer, stack[slot].chop)

Ids(frames) == [i \in 1 .. Len(frames) |-> frames[i].id]

Reliable == INSTANCE FrameChannel WITH
    Faults <- {}, UnitsPerFrame <- FrameSize,
    up <- IsOpen(descriptor),
    submitted <- txCount, outbox <- Ids(writeBuffer), wire <- Ids(sent),
    arrived <- rxCount, inbox <- Settled \o Bytes(rxQueue), delivered <- got

Faulty == INSTANCE FrameChannel WITH
    Faults <- {"resend", "lose"}, UnitsPerFrame <- FrameSize,
    up <- IsOpen(descriptor),
    submitted <- txCount, outbox <- Ids(writeBuffer), wire <- Ids(sent),
    arrived <- rxCount, inbox <- Settled \o Bytes(rxQueue), delivered <- got

(* Without errors of the interface the socket is a pair of FIFO channels:  *)
(* nothing is lost, repeated or reordered by any interleaving of slots,    *)
(* notifier events, waits and reconnections.                               *)
ReliableChannel == Reliable!ChSpec

(* With errors, all an application can suffer is frames sent again and     *)
(* frames lost on the way in; order is kept and nothing is invented.       *)
FaultyChannel == Faulty!ChSpec

(* The waits that never end.  waitForBytesWritten() with nothing left in   *)
(* the write buffer watches for reading only, and its loop looks at no     *)
(* deadline: while a frame waits that does not fit under the limit, select()*)
(* returns at once, readNotification() reads nothing and returns true, and *)
(* so on, whatever the timeout.                                            *)
NothingFits ==
    LET room == readBufferMaxSize - Len(buffer)
    IN  readBufferMaxSize # 0 /\ room # 0 /\ room < FrameSize

WaitSpins ==
    /\ Context \in {"bw.select", "bw.afterRead"}
    /\ writeBuffer = <<>> /\ rxQueue # <<>> /\ NothingFits

(* And a wait without a timeout, when nothing is received or written.      *)
WaitsInSilence ==
    /\ Context \in {"rr.select", "bw.select"} /\ Head(stack).forever
    /\ writeBuffer = <<>> /\ rxQueue = <<>>

WaitHangs == WaitSpins \/ WaitsInSilence

(* Every frame written is given to the interface while the connection      *)
(* lasts, although it is only buffered and the interface may be busy, and  *)
(* although the program may hang in a wait afterwards.                     *)
EventuallySent ==
    \A n \in 1 .. MaxTx :
        state = "Connected" /\ txCount >= n ~> Len(sent) >= n \/ state # "Connected"

(* ... and is reported by bytesWritten(): the write notifier is not        *)
(* disarmed between the write and its report.  Only a wait that never ends *)
(* keeps the report back.                                                  *)
EventuallyReported ==
    \A n \in 1 .. MaxTx :
        \/ state = "Connected" /\ txCount >= n
               ~> reported >= FrameSize * n \/ state # "Connected"
        \/ <>[]WaitHangs

(* Every frame received is delivered to an application that reads in       *)
(* readyRead(), also when the read notifier was disarmed by a full buffer; *)
(* unless a wait in a slot never ends.                                     *)
EventuallyRead ==
    \A n \in 1 .. MaxRx :
        \/ state = "Connected" /\ rxCount >= n
               ~> Len(got) >= FrameSize * n \/ state # "Connected"
        \/ <>[]WaitHangs

(* Every call returns to the event loop, with and without a timeout, but   *)
(* for the two ways in which a wait may hang: no other place in the code,  *)
(* and no other order of slots, waits and events, keeps a call for ever.   *)
AlwaysReturns == (stack # <<>> ~> stack = <<>>) \/ <>[]WaitHangs

=============================================================================
