----------------------------- MODULE CanDataPath -----------------------------
(***************************************************************************)
(* The bytes between an open socket and its interface, for both types of   *)
(* socket: CanAbstractSocketPrivate's readNotification(), writeData() and  *)
(* completeAsyncWrite() over the two pairs of readFromSocket() and         *)
(* writeToSocket().  A raw socket moves frames of FrameSize bytes, as many *)
(* as there are; an ISO-TP socket moves one message per call, of whatever  *)
(* size.  CanAbstractSocket has whole frames and all the control; here are *)
(* the sizes: writes of any length, the blocks of the write buffer, and    *)
(* reads that take less than a message.                                    *)
(*                                                                         *)
(* The bytes the application writes are numbered from 1, and so are those  *)
(* that arrive.  Bytes that follow each other are an interval [from, to].  *)
(* The only slots with calls are those of bytesWritten(), the one signal   *)
(* with code of the data path behind it: emittedBytesWritten is TRUE while *)
(* they run.  writeSequenceStarted is left out: completeAsyncWrite() sets  *)
(* it to FALSE just before startAsyncWrite(), its only reader.             *)
(***************************************************************************)
EXTENDS Integers, Sequences

CONSTANTS
    Types,          \* types of sockets, a subset of {"raw", "isotp"}
    FrameSize,      \* CAN_MTU
    ReadChunk,      \* readChunkSize
    MaxMessage,     \* the longest ISO-TP message there is
    BlockSize,      \* basicBlockSize of the write buffer
    BufferSizes,    \* arguments of setReadBufferSize, 0 is "no limit"
    MessageSizes,   \* sizes of the ISO-TP messages that arrive
    WriteSizes,     \* sizes of the application's writes
    MaxRx,          \* bound: bytes that arrive
    MaxTx           \* bound: bytes that are written

ASSUME DataPathAssumption ==
    /\ Types \subseteq {"raw", "isotp"}
    /\ {FrameSize, ReadChunk, MaxMessage, BlockSize} \subseteq Nat \ {0}
    /\ MaxMessage <= ReadChunk      \* 4095 and CAN_ISOTP_READ_CHUNK_SIZE
    /\ BufferSizes \subseteq Nat
    /\ MessageSizes \subseteq 1 .. MaxMessage
    /\ WriteSizes \subseteq Nat \ {0}
    /\ MaxRx \in Nat /\ MaxTx \in Nat

VARIABLES
    type,                   \* socketType()
    \* reading
    rxQueue,                \* frames or messages the kernel has for the socket
    buffer,                 \* bytes to be read
    readEnabled,            \* isReadNotificationEnabled()
    readBufferMaxSize,
    \* writing
    blocks,                 \* the blocks of writeBuffer
    tail,                   \* bytes put into the last of them, sent ones included
    writeEnabled,           \* isWriteNotificationEnabled()
    pendingBytesWritten,
    emittedBytesWritten,
    busy,                   \* the kernel is sending an ISO-TP message
    \* history
    arrived,                \* bytes that arrived
    got,                    \* bytes the application has read
    lost,                   \* bytes that were cut off a message
    written,                \* bytes the application has written
    ends,                   \* the last bytes of its writes
    starts,                 \* the first bytes of writes to an empty buffer
    wire                    \* frames or messages given to the interface

reading == <<rxQueue, buffer, readEnabled, readBufferMaxSize, arrived, got, lost>>
sending == <<blocks, writeEnabled, pendingBytesWritten, emittedBytesWritten, busy, wire>>
writing == <<sending, tail, written, ends, starts>>
vars    == <<type, reading, writing>>

Interval == [from : Nat \ {0}, to : Nat]

Span(a, b) == [from |-> a, to |-> b]
Size(s)    == s.to - s.from + 1
First(s, n) == SubSeq(s, 1, n)
Drop(s, n)  == SubSeq(s, n + 1, Len(s))
Lesser(a, b) == IF a < b THEN a ELSE b

-----------------------------------------------------------------------------
(* readNotification() *)

Full == readBufferMaxSize # 0 /\ readBufferMaxSize = Len(buffer)

(* slip: the chunk counts what is in the buffer already *)
BytesToReadOfChunk ==
    LET room == readBufferMaxSize - Len(buffer)
    IN  IF readBufferMaxSize # 0 /\ ReadChunk > room THEN room
        ELSE IF ReadChunk > Len(buffer) THEN ReadChunk - Len(buffer) ELSE 1

BytesToRead ==
    LET room == readBufferMaxSize - Len(buffer)
    IN  IF readBufferMaxSize # 0 /\ ReadChunk > room THEN room ELSE ReadChunk

BytesFrom(first, n) == [i \in 1 .. n |-> first + i - 1]

(* CanRawSocketPrivate::readFromSocket(): frames while one more fits       *)
RawRead(room) ==
    LET fit == IF room < FrameSize THEN 0 ELSE room \div FrameSize
        n   == Lesser(fit, Len(rxQueue))
    IN  [units |-> n, bytes |-> n * FrameSize, cut |-> {}]

(* slip: another message is read as long as there is room *)
IsoTpReadTwo(room) ==
    LET first == Head(rxQueue)
        two   == Len(rxQueue) > 1 /\ Size(first) < room
        n     == IF two THEN Lesser(Size(first) + Size(rxQueue[2]), room)
                 ELSE Lesser(Size(first), room)
    IN  [units |-> IF two THEN 2 ELSE 1, bytes |-> n, cut |-> first.from + n .. first.to]

(* CanIsoTpSocketPrivate::readFromSocket(): one message, and the kernel    *)
(* drops what does not fit.  A negative size is an error (EINVAL), with    *)
(* which nothing is taken.                                                 *)
IsoTpRead(room) ==
    LET message == Head(rxQueue)
        n       == Lesser(Size(message), room)
    IN  IF room < 0 THEN [units |-> 0, bytes |-> 0, cut |-> {}]
        ELSE [units |-> 1, bytes |-> n, cut |-> message.from + n .. message.to]

ReadNotifierEvent ==
    /\ readEnabled /\ rxQueue # <<>> /\ ~emittedBytesWritten
    /\ IF Full
       THEN readEnabled' = FALSE /\ UNCHANGED <<rxQueue, buffer, lost>>
       ELSE LET result == IF type = "raw" THEN RawRead(BytesToRead) ELSE IsoTpRead(BytesToRead)
            IN  /\ rxQueue' = Drop(rxQueue, result.units)
                /\ buffer' = buffer \o BytesFrom(Head(rxQueue).from, result.bytes)
                /\ lost' = lost \cup result.cut
                /\ readEnabled' = (readBufferMaxSize # 0 => Len(buffer') # readBufferMaxSize)
    /\ UNCHANGED <<type, readBufferMaxSize, arrived, got, writing>>

(* A frame or a message arrives *)
Arrive(size) ==
    /\ arrived + size <= MaxRx
    /\ arrived' = arrived + size
    /\ rxQueue' = Append(rxQueue, Span(arrived + 1, arrived + size))
    /\ UNCHANGED <<type, buffer, readEnabled, readBufferMaxSize, got, lost, writing>>

(* QIODevice::readAll(), and readData() after it *)
ReadAll ==
    /\ got' = got \o buffer
    /\ buffer' = <<>>
    /\ readEnabled' = (readEnabled \/ readBufferMaxSize # 0)
    /\ UNCHANGED <<type, rxQueue, readBufferMaxSize, arrived, lost, writing>>

(* slip: the limit is kept as the room that is left *)
SetReadBufferRoom(size) ==
    /\ readBufferMaxSize' = size - Len(buffer)
    /\ UNCHANGED <<type, rxQueue, buffer, readEnabled, arrived, got, lost, writing>>

SetReadBufferSize(size) ==
    /\ readBufferMaxSize' = size
    /\ UNCHANGED <<type, rxQueue, buffer, readEnabled, arrived, got, lost, writing>>

-----------------------------------------------------------------------------
(* writeData(), into QRingBuffer::reserve() *)

(* slip: what does not fit into the block goes to the next one *)
WriteSplit(size) ==
    /\ written + size <= MaxTx
    /\ LET room == IF blocks = <<>> THEN 0 ELSE Lesser(size, BlockSize - tail)
           old  == IF blocks = <<>> THEN <<>>
                   ELSE [blocks EXCEPT ![Len(blocks)] = Span(@.from, @.to + room)]
       IN  /\ blocks' = IF room = size THEN old
                        ELSE Append(old, Span(written + room + 1, written + size))
           /\ tail' = IF room = size THEN tail + size ELSE size - room
    /\ written' = written + size
    /\ ends' = ends \cup {written + size}
    /\ starts' = IF blocks = <<>> THEN starts \cup {written + 1} ELSE starts
    /\ writeEnabled' = TRUE
    /\ UNCHANGED <<type, reading, pendingBytesWritten, emittedBytesWritten, busy, wire>>

(* A write never lies in two blocks.  One that exceeds the size of the     *)
(* last block begins a new one, or enlarges it: that depends on the        *)
(* version of Qt and on what was allocated.                                *)
Write(size) ==
    /\ written + size <= MaxTx
    /\ \E fits \in {TRUE} \cup (IF tail + size > BlockSize THEN {FALSE} ELSE {}) :
        IF blocks # <<>> /\ fits
        THEN /\ blocks' = [blocks EXCEPT ![Len(blocks)] = Span(@.from, written + size)]
             /\ tail' = tail + size
        ELSE /\ blocks' = Append(blocks, Span(written + 1, written + size))
             /\ tail' = size
    /\ written' = written + size
    /\ ends' = ends \cup {written + size}
    /\ starts' = IF blocks = <<>> THEN starts \cup {written + 1} ELSE starts
    /\ writeEnabled' = TRUE
    /\ UNCHANGED <<type, reading, pendingBytesWritten, emittedBytesWritten, busy, wire>>

-----------------------------------------------------------------------------
(* completeAsyncWrite() and startAsyncWrite(): "units" leave with the      *)
(* first "n" bytes of the first block, the block with its last byte.       *)

(* QRingBuffer::free() *)
Free(n) ==
    IF n = Size(blocks[1]) THEN Tail(blocks)
    ELSE [blocks EXCEPT ![1] = Span(@.from + n, @.to)]

Sent(units, n, pending) ==
    /\ wire' = wire \o units
    /\ blocks' = Free(n)
    /\ pendingBytesWritten' = pending + n
    /\ writeEnabled' = TRUE

(* slip: the part of a frame at the end of a block is written, too *)
RawWriteTrailing(pending) ==
    LET n == Size(blocks[1])
        frames == (n + FrameSize - 1) \div FrameSize
        frame(i) == Span(blocks[1].from + (i - 1) * FrameSize,
                         Lesser(blocks[1].from + i * FrameSize - 1, blocks[1].to))
    IN  Sent([i \in 1 .. frames |-> frame(i)], n, pending) /\ UNCHANGED busy

(* CanRawSocketPrivate::writeToSocket(): whole frames, until the block has *)
(* no more or the interface's queue is full (ENOBUFS)                      *)
RawWrite(pending) ==
    LET frame(i) == Span(blocks[1].from + (i - 1) * FrameSize,
                         blocks[1].from + i * FrameSize - 1)
    IN  \E k \in 0 .. Size(blocks[1]) \div FrameSize :
            Sent([i \in 1 .. k |-> frame(i)], k * FrameSize, pending) /\ UNCHANGED busy

(* slip: a message the kernel refuses disarms the notifier *)
IsoTpWriteDisarming(pending) ==
    IF busy \/ Size(blocks[1]) > MaxMessage
    THEN /\ pendingBytesWritten' = pending /\ writeEnabled' = FALSE
         /\ UNCHANGED <<wire, blocks, busy>>
    ELSE Sent(<<blocks[1]>>, Size(blocks[1]), pending) /\ busy' = TRUE

(* CanIsoTpSocketPrivate::writeToSocket(): the block is one message.  The  *)
(* kernel refuses it while it sends another (EAGAIN) and when it is too    *)
(* long (EINVAL): error() is emitted, and everything stays as it is.       *)
IsoTpWrite(pending) ==
    IF busy \/ Size(blocks[1]) > MaxMessage
    THEN pendingBytesWritten' = pending /\ UNCHANGED <<wire, blocks, writeEnabled, busy>>
    ELSE Sent(<<blocks[1]>>, Size(blocks[1]), pending) /\ busy' = TRUE

FinishWrite(pending) ==
    /\ IF blocks = <<>>
       THEN /\ writeEnabled' = FALSE
            /\ pendingBytesWritten' = pending
            /\ UNCHANGED <<wire, blocks, busy>>
       ELSE IF type = "raw" THEN RawWrite(pending) ELSE IsoTpWrite(pending)
    /\ UNCHANGED <<type, reading, tail, written, ends, starts>>

CompleteAsyncWrite ==
    IF pendingBytesWritten > 0 /\ ~emittedBytesWritten
    THEN /\ emittedBytesWritten' = TRUE
         /\ UNCHANGED <<type, reading, tail, written, ends, starts, blocks, writeEnabled,
                        pendingBytesWritten, busy, wire>>
    ELSE FinishWrite(pendingBytesWritten) /\ UNCHANGED emittedBytesWritten

WriteNotifierEvent == writeEnabled /\ ~emittedBytesWritten /\ CompleteAsyncWrite

Flush == CompleteAsyncWrite

AfterBytesWritten ==
    /\ emittedBytesWritten
    /\ emittedBytesWritten' = FALSE
    /\ FinishWrite(0)

(* The kernel has sent the message *)
MessageSent ==
    /\ busy /\ busy' = FALSE
    /\ UNCHANGED <<type, reading, blocks, tail, writeEnabled, pendingBytesWritten,
                   emittedBytesWritten, written, ends, starts, wire>>

-----------------------------------------------------------------------------
Init ==
    /\ type \in Types
    /\ rxQueue = <<>> /\ buffer = <<>> /\ readEnabled = TRUE /\ readBufferMaxSize = 0
    /\ blocks = <<>> /\ tail = 0 /\ writeEnabled = FALSE
    /\ pendingBytesWritten = 0 /\ emittedBytesWritten = FALSE /\ busy = FALSE
    /\ arrived = 0 /\ got = <<>> /\ lost = {}
    /\ written = 0 /\ ends = {} /\ starts = {} /\ wire = <<>>

Next ==
    \/ \E size \in IF type = "raw" THEN {FrameSize} ELSE MessageSizes : Arrive(size)
    \/ ReadNotifierEvent \/ ReadAll
    \/ \E size \in BufferSizes : SetReadBufferSize(size)
    \/ \E size \in WriteSizes : Write(size)
    \/ WriteNotifierEvent \/ Flush \/ AfterBytesWritten \/ MessageSent

Spec == Init /\ [][Next]_vars

(* Fairness.  A slot ends, whatever it calls before (strong); the event    *)
(* loop polls the write notifier whenever no slot runs (strong); the       *)
(* kernel sends what it took, and with an interface that drains, a raw     *)
(* socket that keeps trying gets frames into its queue (strong).           *)
Transmits == (WriteNotifierEvent \/ AfterBytesWritten) /\ wire' # wire

FairSpec ==
    /\ Spec
    /\ SF_vars(AfterBytesWritten) /\ SF_vars(WriteNotifierEvent) /\ SF_vars(Transmits)
    /\ WF_vars(MessageSent)

-----------------------------------------------------------------------------
(* Properties *)

(* Every member has its type; the queues hold intervals.                   *)
TypeOK ==
    /\ type \in Types
    /\ rxQueue \in Seq(Interval) /\ buffer \in Seq(Nat)
    /\ readEnabled \in BOOLEAN /\ readBufferMaxSize \in Nat
    /\ blocks \in Seq(Interval) /\ tail \in Nat
    /\ writeEnabled \in BOOLEAN /\ emittedBytesWritten \in BOOLEAN /\ busy \in BOOLEAN
    /\ pendingBytesWritten \in Nat
    /\ arrived \in Nat /\ got \in Seq(Nat) /\ lost \in SUBSET Nat
    /\ written \in Nat /\ ends \in SUBSET Nat /\ starts \in SUBSET Nat
    /\ wire \in Seq(Interval)

(* Pieces follow one another, without a gap or an overlap *)
Contiguous(pieces, first, last) ==
    IF pieces = <<>> THEN first = last + 1
    ELSE /\ pieces[1].from = first /\ pieces[Len(pieces)].to = last
         /\ \A i \in 1 .. Len(pieces) : pieces[i].from <= pieces[i].to
         /\ \A i \in 1 .. Len(pieces) - 1 : pieces[i + 1].from = pieces[i].to + 1

OnWire == IF wire = <<>> THEN 0 ELSE wire[Len(wire)].to

(* However the application cuts its data into writes, and wherever a full  *)
(* queue, a refused message or a block of the buffer ends a round: what    *)
(* was given to the interface and what waits in the buffer is what was     *)
(* written, byte by byte; and a raw socket only ever sends whole frames,   *)
(* the ones the application wrote, never parts of two.                     *)
WireIsWritten ==
    /\ Contiguous(wire, 1, OnWire) /\ Contiguous(blocks, OnWire + 1, written)
    /\ type = "raw" => \A i \in 1 .. Len(wire) : wire[i].to = i * FrameSize

(* What becomes of the boundaries between ISO-TP messages when each write  *)
(* is meant as a message: no write is cut, and one that finds an empty     *)
(* buffer begins a message.  (Writes before the buffer is empty become one *)
(* message with those they follow.)                                        *)
WritesKeptWhole ==
    type = "isotp" =>
        /\ \A i \in 1 .. Len(wire) : wire[i].to \in ends
        /\ \A n \in starts : n <= OnWire => \E i \in 1 .. Len(wire) : wire[i].from = n

(* Bytes are delivered in the order they arrived, each once, and all that  *)
(* was taken from the kernel but for the ends of ISO-TP messages cut off.  *)
ReceivedInOrder ==
    LET data  == got \o buffer
        taken == IF rxQueue = <<>> THEN arrived ELSE Head(rxQueue).from - 1
    IN  /\ Contiguous(rxQueue, taken + 1, arrived)
        /\ \A i, j \in 1 .. Len(data) : i < j => data[i] < data[j]
        /\ {data[i] : i \in 1 .. Len(data)} = (1 .. taken) \ lost

(* Only a read limit costs data, and never on a raw socket: without one, a *)
(* read has room for the longest message.                                  *)
CutByLimitOnly ==
    [][lost' # lost => type = "isotp" /\ readBufferMaxSize # 0]_vars

(* A first block that can never leave: the rest of a frame whose end is in *)
(* the next block, or more than the longest message.                       *)
Stuck ==
    /\ blocks # <<>>
    /\ IF type = "raw" THEN Len(blocks) > 1 /\ Size(blocks[1]) < FrameSize
       ELSE Size(blocks[1]) > MaxMessage

(* Every byte written (for a raw socket: with the frame it belongs to) is  *)
(* given to the interface, except behind such a block.                     *)
SentUnlessStuck ==
    \A n \in 1 .. MaxTx :
        written >= n /\ (type = "raw" => n % FrameSize = 0) ~> OnWire >= n \/ Stuck

(* Every byte written is given to the interface, in the end.               *)
EventuallyOut ==
    \A n \in 1 .. MaxTx :
        written >= n /\ (type = "raw" => n % FrameSize = 0) ~> OnWire >= n
=============================================================================
