----------------------- MODULE CanAbstractSocketProofs -----------------------
(***************************************************************************)
(* Theorems about CanAbstractSocket, for every application (AppCalls is    *)
(* any set), every error that may happen and every bound.                  *)
(***************************************************************************)
EXTENDS CanAbstractSocket, SequenceTheorems, TLAPS

(* The bytes of a sequence of frames are identities of its frames *)
LEMMA BytesType ==
    ASSUME NEW S, NEW frames \in Seq(S)
    PROVE  Bytes(frames) \in Seq(S)
<1>1. Len(frames) \in Nat /\ FrameSize \in Nat \ {0}
  BY FrameSizeAssumption
<1>2. FrameSize * Len(frames) \in Nat
  BY <1>1
<1>3. ASSUME NEW i \in 1 .. FrameSize * Len(frames)
      PROVE  frames[((i - 1) \div FrameSize) + 1] \in S
  <2> DEFINE q == (i - 1) \div FrameSize
  <2>1. i \in Nat /\ 1 <= i /\ i <= FrameSize * Len(frames)
    BY <1>2
  <2>2. q \in Int /\ FrameSize * q <= i - 1 /\ i - 1 < FrameSize * (q + 1)
    BY <1>1, <2>1
  <2>3. 0 <= q
    BY <1>1, <2>1, <2>2
  <2>4. q < Len(frames)
    BY <1>1, <2>1, <2>2
  <2>5. q + 1 \in 1 .. Len(frames)
    BY <1>1, <2>2, <2>3, <2>4
  <2> QED
    BY <2>5, ElementOfSeq
<1> QED
  BY <1>2, <1>3 DEF Bytes

(* A run of garbage bytes is a sequence, also when its length is negative *)
LEMMA GarbageType ==
    ASSUME NEW n \in Int
    PROVE  [i \in 1 .. n |-> Garbage] \in Seq(Nat)
<1>1. CASE n >= 0
  BY <1>1 DEF Garbage
<1>2. CASE n < 0
  <2>1. 1 .. n = 1 .. 0
    BY <1>2
  <2> QED
    BY <2>1 DEF Garbage
<1> QED
  BY <1>1, <1>2

(* First, Drop and Chop stay within the type of their sequence *)
LEMMA CutType ==
    ASSUME NEW S, NEW s \in Seq(S), NEW n \in Int, n <= Len(s)
    PROVE  /\ First(s, n) \in Seq(S)
           /\ n >= 0 => Drop(s, n) \in Seq(S)
<1>1. Len(s) \in Nat
  OBVIOUS
<1>2. First(s, n) \in Seq(S)
  <2>1. \A i \in 1 .. n : s[i] \in S
    BY <1>1, ElementOfSeq
  <2> QED
    BY <2>1, SubSeqProperties DEF First
<1>3. ASSUME n >= 0 PROVE Drop(s, n) \in Seq(S)
  <2>1. \A i \in n + 1 .. Len(s) : s[i] \in S
    BY <1>1, <1>3, ElementOfSeq
  <2> QED
    BY <1>1, <2>1, SubSeqProperties DEF Drop
<1> QED
  BY <1>2, <1>3

LEMMA ChopType ==
    ASSUME NEW S, NEW s \in Seq(S), NEW n \in Int
    PROVE  Chop(s, n) \in Seq(S)
<1>1. CASE n <= 0
  BY <1>1 DEF Chop
<1>2. CASE n > 0 /\ n >= Len(s)
  BY <1>2, EmptySeq DEF Chop
<1>3. CASE n > 0 /\ n < Len(s)
  <2>1. First(s, Len(s) - n) \in Seq(S)
    BY <1>3, CutType
  <2> QED
    BY <1>3, <2>1 DEF Chop
<1> QED
  BY <1>1, <1>2, <1>3

-----------------------------------------------------------------------------
(* The control stack *)

LEMMA ConsType ==
    ASSUME NEW S, NEW e \in S, NEW s \in Seq(S)
    PROVE  /\ Cons(e, s) \in Seq(S)
           /\ Len(Cons(e, s)) = Len(s) + 1
           /\ Cons(e, s)[1] = e
           /\ \A i \in 1 .. Len(s) : Cons(e, s)[i + 1] = s[i]
<1>1. <<e>> \in Seq(S) /\ Len(<<e>>) = 1 /\ <<e>>[1] = e
  OBVIOUS
<1>2. Len(s) \in Nat
  OBVIOUS
<1> QED
  BY <1>1, <1>2, ConcatProperties DEF Cons

LEMMA BaseType ==
    ASSUME NEW at \in SlotLabels \cup WaitLabels
    PROVE  /\ Base(at) \in Record
           /\ \A mode \in SUBSET Access : [Base(at) EXCEPT !.mode = mode] \in Record
           /\ \A chop \in Int : [Base(at) EXCEPT !.chop = chop] \in Record
           /\ \A forever \in BOOLEAN : [Base(at) EXCEPT !.forever = forever] \in Record
<1>1. {} \in SUBSET Access /\ 0 \in Int /\ FALSE \in BOOLEAN
  OBVIOUS
<1>2. Base(at) \in Record
  BY <1>1 DEF Base, Record
<1>3. ASSUME NEW mode \in SUBSET Access
      PROVE  [Base(at) EXCEPT !.mode = mode] \in Record
  BY <1>2 DEF Record
<1>4. ASSUME NEW chop \in Int
      PROVE  [Base(at) EXCEPT !.chop = chop] \in Record
  BY <1>2 DEF Record
<1>5. ASSUME NEW forever \in BOOLEAN
      PROVE  [Base(at) EXCEPT !.forever = forever] \in Record
  BY <1>2 DEF Record
<1> QED
  BY <1>2, <1>3, <1>4, <1>5

LEMMA RelabelType ==
    ASSUME NEW s \in Seq(Record), s # <<>>, NEW at \in SlotLabels \cup WaitLabels
    PROVE  Cons([Head(s) EXCEPT !.at = at], Tail(s)) \in Seq(Record)
<1>1. Head(s) \in Record /\ Tail(s) \in Seq(Record)
  BY HeadTailProperties
<1>2. [Head(s) EXCEPT !.at = at] \in Record
  BY <1>1 DEF Record
<1> QED
  BY <1>1, <1>2, ConsType

LEMMA ResumeType ==
    ASSUME NEW s \in Seq(Record), NEW result \in BOOLEAN
    PROVE  Resume(result, s) \in Seq(Record)
<1>1. CASE s = <<>>
  BY <1>1 DEF Resume
<1>2. CASE s # <<>>
  <2>1. Tail(s) \in Seq(Record)
    BY <1>2, HeadTailProperties
  <2>2. /\ Cons([Head(s) EXCEPT !.at = "rr.loop"], Tail(s)) \in Seq(Record)
        /\ Cons([Head(s) EXCEPT !.at = "bw.afterRead"], Tail(s)) \in Seq(Record)
    BY <1>2, RelabelType DEF WaitLabels
  <2> QED
    BY <1>2, <2>1, <2>2 DEF Resume
<1> QED
  BY <1>1, <1>2

-----------------------------------------------------------------------------
(* Notifiers and the outcomes of the frame loops *)

LEMMA SetEnabledType ==
    ASSUME NEW n \in Notifier, NEW enable \in BOOLEAN, descriptor \in Fds \cup {-1}
    PROVE  SetEnabled(n, enable) \in Notifier
<1>1. NULL \in Notifier
  BY DEF Notifier
<1>2. NotifierFor(descriptor) \in Notifier
  BY DEF Notifier, NotifierFor
<1>3. n # NULL => [n EXCEPT !.enabled = enable] \in Notifier
  BY DEF Notifier
<1> QED
  BY <1>1, <1>2, <1>3 DEF SetEnabled

LEMMA BytesToReadType ==
    ASSUME TypeOK
    PROVE  BytesToRead \in Int
BY ConstantsAssumption DEF TypeOK, BytesToRead

LEMMA ReadOutcomesType ==
    ASSUME TypeOK, NEW o \in ReadOutcomes(rxQueue, IsOpen(descriptor), BytesToRead, ReadErrors)
    PROVE  o.frames \in 0 .. Len(rxQueue)
<1> DEFINE room == FramesIn(BytesToRead)
<1>1. Len(rxQueue) \in Nat
  BY DEF TypeOK
<1>2. room \in Nat
  BY BytesToReadType, FrameSizeAssumption DEF FramesIn
<1> HIDE DEF room
<1>3. CASE ~IsOpen(descriptor)
  BY <1>1, <1>3 DEF ReadOutcomes
<1>4. CASE IsOpen(descriptor)
  <2> DEFINE all == IF Len(rxQueue) < room THEN Len(rxQueue) ELSE room
  <2>1. all \in 0 .. Len(rxQueue)
    BY <1>1, <1>2
  <2>2. CASE o = [frames |-> all, error |-> "none"]
    BY <2>1, <2>2
  <2>3. CASE o \in [frames : 0 .. Len(rxQueue), error : ReadErrors]
    BY <2>3
  <2> QED
    BY <1>4, <2>2, <2>3 DEF ReadOutcomes, room
<1> QED
  BY <1>3, <1>4

LEMMA WriteOutcomesType ==
    ASSUME NEW frames, NEW open, NEW o \in WriteOutcomes(frames, open, WriteErrors)
    PROVE  o.frames \in 0 .. Len(frames) /\ o.ok \in BOOLEAN
BY DEF WriteOutcomes

-----------------------------------------------------------------------------
(* Type correctness, one lemma for each piece of code that several actions *)
(* run, then one step for each action.                                     *)

LEMMA ReadNotificationType ==
    ASSUME TypeOK, NEW rest \in Seq(Record), ReadNotification(rest)
    PROVE  TypeOK'
<1> USE DEF TypeOK
<1>1. UNCHANGED <<connection, readBufferMaxSize, writing, history>>
  BY DEF ReadNotification
<1>2. /\ SetEnabled(readNotifier, FALSE) \in Notifier
      /\ \A r \in BOOLEAN : Resume(r, rest) \in Seq(Record)
  BY SetEnabledType, ResumeType
<1>3. /\ buffer' \in Seq(Nat) /\ readNotifier' \in Notifier /\ emittedReadyRead' \in BOOLEAN
      /\ rxQueue' \in Seq(Nat \ {0}) /\ stack' \in Seq(Record)
  <2>1. CASE Full
    BY <1>2, <2>1 DEF ReadNotification
  <2>2. CASE ~Full
    <3>1. PICK o \in ReadOutcomes(rxQueue, IsOpen(descriptor), BytesToRead, ReadErrors) :
            /\ rxQueue' = Drop(rxQueue, o.frames)
            /\ IF o.error = "none" THEN ReadSucceeds(o, rest) ELSE ReadFails(o, rest)
      BY <2>2 DEF ReadNotification
    <3>2. o.frames \in 0 .. Len(rxQueue) /\ Len(rxQueue) \in Nat
      BY ReadOutcomesType
    <3>3. First(rxQueue, o.frames) \in Seq(Nat \ {0}) /\ rxQueue' \in Seq(Nat \ {0})
      BY <3>1, <3>2, CutType
    <3> DEFINE filled == Bytes(First(rxQueue, o.frames))
    <3>4. filled \in Seq(Nat)
      <4>1. filled \in Seq(Nat \ {0})
        BY <3>3, BytesType
      <4> QED
        BY <4>1, SeqMonotonic
    <3>5. buffer \o filled \in Seq(Nat)
      BY <3>4, ConcatProperties
    <3> HIDE DEF filled
    <3>6. CASE o.error = "none"
      <4>1. ReadSucceeds(o, rest)
        BY <3>1, <3>6
      <4>2. Cons(Base("readyRead"), rest) \in Seq(Record)
        BY BaseType, ConsType DEF SlotLabels
      <4>3. buffer' \in Seq(Nat) /\ readNotifier' \in Notifier
        BY <1>2, <3>5, <4>1 DEF ReadSucceeds, filled
      <4>4. emittedReadyRead' \in BOOLEAN
        BY <4>1 DEF ReadSucceeds
      <4>5. stack' \in Seq(Record)
        BY <1>2, <4>1, <4>2 DEF ReadSucceeds
      <4> QED
        BY <3>3, <4>3, <4>4, <4>5
    <3>7. CASE o.error # "none"
      <4>1. ReadFails(o, rest)
        BY <3>1, <3>7
      <4>2. BytesToRead \in Int /\ Len(filled) \in Nat
        BY <3>4, BytesToReadType
      <4>3. [i \in 1 .. BytesToRead - Len(filled) |-> Garbage] \in Seq(Nat)
        <5> DEFINE n == BytesToRead - Len(filled)
        <5>1. n \in Int
          BY <4>2
        <5> HIDE DEF n
        <5>2. [i \in 1 .. n |-> Garbage] \in Seq(Nat)
          BY <5>1, GarbageType
        <5> QED
          BY <5>2 DEF n
      <4>4. buffer' \in Seq(Nat)
        BY <3>5, <4>1, <4>3, ConcatProperties DEF ReadFails, filled
      <4>5. Cons([Base("readError") EXCEPT !.chop = BytesToRead], rest) \in Seq(Record)
        BY <4>2, BaseType, ConsType DEF SlotLabels
      <4>6. readNotifier' \in Notifier /\ emittedReadyRead' \in BOOLEAN
            /\ stack' \in Seq(Record)
        BY <1>2, <4>1, <4>5 DEF ReadFails
      <4> QED
        BY <3>3, <4>4, <4>6
    <3> QED
      BY <3>6, <3>7
  <2> QED
    BY <2>1, <2>2
<1> QED
  BY <1>1, <1>3 DEF connection, writing, history

LEMMA FinishWriteType ==
    ASSUME TypeOK, NEW pending \in Nat, NEW rest \in Seq(Record), FinishWrite(pending, rest),
           emittedBytesWritten' \in BOOLEAN, reported' \in Nat
    PROVE  TypeOK'
<1> USE DEF TypeOK
<1>1. UNCHANGED <<connection, reading, rxCount, got, txCount, connects>>
  BY DEF FinishWrite
<1>2. /\ \A e \in BOOLEAN : SetEnabled(writeNotifier, e) \in Notifier
      /\ \A r \in BOOLEAN : Resume(r, rest) \in Seq(Record)
  BY SetEnabledType, ResumeType
<1>3. /\ writeBuffer' \in Seq(Frame) /\ writeNotifier' \in Notifier
      /\ pendingBytesWritten' \in Nat /\ writeSequenceStarted' \in BOOLEAN
      /\ sent' \in Seq(Frame) /\ stack' \in Seq(Record)
  <2>1. CASE writeBuffer = <<>>
    BY <1>2, <2>1 DEF FinishWrite
  <2>2. CASE writeBuffer # <<>>
    <3>1. PICK o \in WriteOutcomes(writeBuffer, IsOpen(descriptor), WriteErrors) :
            /\ sent' = sent \o First(writeBuffer, o.frames)
            /\ writeSequenceStarted' = o.ok
            /\ IF o.ok
               THEN /\ writeBuffer' = Drop(writeBuffer, o.frames)
                    /\ pendingBytesWritten' = pending + FrameSize * o.frames
                    /\ writeNotifier' = IF Enabled(writeNotifier) THEN writeNotifier
                                        ELSE SetEnabled(writeNotifier, TRUE)
                    /\ stack' = Resume(TRUE, rest)
               ELSE /\ pendingBytesWritten' = pending
                    /\ stack' = Cons(Base("writeError"), rest)
                    /\ UNCHANGED <<writeBuffer, writeNotifier>>
      BY <2>2 DEF FinishWrite
    <3>2. o.frames \in 0 .. Len(writeBuffer) /\ o.ok \in BOOLEAN /\ Len(writeBuffer) \in Nat
      BY WriteOutcomesType
    <3>3. First(writeBuffer, o.frames) \in Seq(Frame) /\ Drop(writeBuffer, o.frames) \in Seq(Frame)
      BY <3>2, CutType
    <3>4. sent' \in Seq(Frame)
      BY <3>1, <3>3, ConcatProperties
    <3>5. FrameSize * o.frames \in Nat
      BY <3>2, FrameSizeAssumption
    <3>6. Cons(Base("writeError"), rest) \in Seq(Record)
      BY BaseType, ConsType DEF SlotLabels
    <3>7. CASE o.ok
      <4>1. /\ pendingBytesWritten' = pending + FrameSize * o.frames
            /\ writeBuffer' = Drop(writeBuffer, o.frames)
            /\ writeNotifier' = IF Enabled(writeNotifier) THEN writeNotifier
                                ELSE SetEnabled(writeNotifier, TRUE)
            /\ stack' = Resume(TRUE, rest)
        BY <3>1, <3>7
      <4>2. writeSequenceStarted' \in BOOLEAN
        BY <3>1, <3>2
      <4>3. pendingBytesWritten' \in Nat
        BY <3>5, <4>1
      <4>4. writeNotifier' \in Notifier /\ stack' \in Seq(Record)
        BY <1>2, <4>1
      <4> QED
        BY <3>3, <3>4, <4>1, <4>2, <4>3, <4>4
    <3>8. CASE ~o.ok
      <4>1. /\ pendingBytesWritten' = pending /\ stack' = Cons(Base("writeError"), rest)
            /\ writeBuffer' = writeBuffer /\ writeNotifier' = writeNotifier
        BY <3>1, <3>8
      <4>2. writeSequenceStarted' \in BOOLEAN
        BY <3>1, <3>2
      <4> QED
        BY <3>4, <3>6, <4>1, <4>2
    <3> QED
      BY <3>7, <3>8
  <2> QED
    BY <2>1, <2>2
<1> QED
  BY <1>1, <1>3 DEF connection, reading

LEMMA CompleteAsyncWriteType ==
    ASSUME TypeOK, NEW rest \in Seq(Record), CompleteAsyncWrite(rest)
    PROVE  TypeOK'
<1>1. CASE pendingBytesWritten > 0 /\ ~emittedBytesWritten
  <2>1. Cons(Base("bytesWritten"), rest) \in Seq(Record)
    BY BaseType, ConsType DEF SlotLabels
  <2> QED
    BY <1>1, <2>1 DEF CompleteAsyncWrite, TypeOK, connection, reading
<1>2. CASE ~(pendingBytesWritten > 0 /\ ~emittedBytesWritten)
  <2>1. /\ FinishWrite(pendingBytesWritten, rest)
        /\ UNCHANGED <<emittedBytesWritten, reported>>
    BY <1>2 DEF CompleteAsyncWrite
  <2> QED
    BY <2>1, FinishWriteType DEF TypeOK
<1> QED
  BY <1>1, <1>2

LEMMA FinishDisconnectType ==
    ASSUME TypeOK, NEW rest \in Seq(Record), FinishDisconnect(rest),
           openMode' \in SUBSET Access, openFds' \in SUBSET Fds,
           readNotifier' \in Notifier, writeNotifier' \in Notifier,
           rxQueue' \in Seq(Nat \ {0})
    PROVE  TypeOK'
<1>1. Cons(Base("unconnected"), rest) \in Seq(Record)
  BY BaseType, ConsType DEF SlotLabels
<1> QED
  BY <1>1 DEF FinishDisconnect, TypeOK, history

LEMMA DisconnectType ==
    ASSUME TypeOK, NEW rest \in Seq(Record), Disconnect(rest), openMode' \in SUBSET Access
    PROVE  TypeOK'
<1>1. readNotifier' \in Notifier /\ writeNotifier' \in Notifier
  BY DEF Disconnect, Notifier
<1>2. openFds' \in SUBSET Fds /\ rxQueue' \in Seq(Nat \ {0})
  <2>1. openFds \in SUBSET Fds /\ rxQueue \in Seq(Nat \ {0})
    BY DEF TypeOK
  <2>2. <<>> \in Seq(Nat \ {0})
    OBVIOUS
  <2>3. \/ openFds' = openFds \ {descriptor} /\ rxQueue' = <<>>
        \/ UNCHANGED <<openFds, rxQueue>>
    BY DEF Disconnect
  <2> QED
    BY <2>1, <2>2, <2>3
<1>3. CASE FinishDisconnect(rest)
  BY <1>1, <1>2, <1>3, FinishDisconnectType
<1>4. CASE stack' = Cons(Base("closeError"), rest)
           /\ UNCHANGED <<state, descriptor, buffer, readBufferMaxSize, emittedReadyRead,
                          writeBuffer, pendingBytesWritten, writeSequenceStarted,
                          emittedBytesWritten, history>>
  <2>1. Cons(Base("closeError"), rest) \in Seq(Record)
    BY BaseType, ConsType DEF SlotLabels
  <2> QED
    BY <1>1, <1>2, <1>4, <2>1 DEF TypeOK, history
<1> QED
  BY <1>3, <1>4 DEF Disconnect

LEMMA CloseFromType ==
    ASSUME TypeOK, NEW rest \in Seq(Record), CloseFrom(rest)
    PROVE  TypeOK'
<1>1. CASE state = "Unconnected"
  BY <1>1 DEF CloseFrom, TypeOK, connection, reading, writing, history
<1>2. CASE state = "Closing"
  BY <1>2, DisconnectType DEF CloseFrom
<1>3. CASE state \notin {"Unconnected", "Closing"}
  <2>1. Cons(Base("closing"), rest) \in Seq(Record)
    BY BaseType, ConsType DEF SlotLabels
  <2> QED
    BY <1>3, <2>1 DEF CloseFrom, TypeOK, reading, writing, history
<1> QED
  BY <1>1, <1>2, <1>3

(* What the stack may become, in the words the actions use *)
LEMMA StackType ==
    ASSUME TypeOK
    PROVE  /\ stack # <<>> => /\ Below \in Seq(Record)
                              /\ Head(stack) \in Record
                              /\ \A at \in SlotLabels \cup WaitLabels : Goto(at) \in Seq(Record)
           /\ \A at \in SlotLabels \cup WaitLabels : Cons(Base(at), stack) \in Seq(Record)
<1>1. ASSUME stack # <<>>
      PROVE  /\ Below \in Seq(Record) /\ Head(stack) \in Record
             /\ \A at \in SlotLabels \cup WaitLabels : Goto(at) \in Seq(Record)
  <2>1. Below \in Seq(Record) /\ Head(stack) \in Record
    BY <1>1, HeadTailProperties DEF TypeOK, Below
  <2>2. ASSUME NEW at \in SlotLabels \cup WaitLabels PROVE Goto(at) \in Seq(Record)
    BY <1>1, RelabelType DEF TypeOK, Goto, Below
  <2> QED
    BY <2>1, <2>2
<1>2. \A at \in SlotLabels \cup WaitLabels : Cons(Base(at), stack) \in Seq(Record)
  BY BaseType, ConsType DEF TypeOK
<1> QED
  BY <1>1, <1>2

(* The empty values of Init, connectToInterface() and close() *)
LEMMA EmptyTypes ==
    /\ \A S : <<>> \in Seq(S)
    /\ {} \in SUBSET Access /\ {} \in SUBSET Fds /\ NULL \in Notifier
<1>1. \A S : <<>> \in Seq(S)
  BY EmptySeq
<1>2. {} \in SUBSET Access /\ {} \in SUBSET Fds /\ NULL \in Notifier
  BY DEF Notifier
<1> QED
  BY <1>1, <1>2

LEMMA InitTypeOK == Init => TypeOK
<1> SUFFICES ASSUME Init PROVE TypeOK
  OBVIOUS
<1>1. /\ state \in {"Unconnected", "Connecting", "Connected", "Closing"}
      /\ openMode \in SUBSET Access /\ descriptor \in Fds \cup {-1} /\ openFds \in SUBSET Fds
  BY EmptyTypes DEF Init
<1>2. /\ buffer \in Seq(Nat) /\ readNotifier \in Notifier /\ readBufferMaxSize \in Nat
      /\ emittedReadyRead \in BOOLEAN /\ rxQueue \in Seq(Nat \ {0})
  BY EmptyTypes DEF Init
<1>3. /\ writeBuffer \in Seq(Frame) /\ writeNotifier \in Notifier
      /\ pendingBytesWritten \in Nat /\ writeSequenceStarted \in BOOLEAN
      /\ emittedBytesWritten \in BOOLEAN
  BY EmptyTypes DEF Init
<1>4. /\ rxCount \in Nat /\ got \in Seq(Nat) /\ txCount \in Nat /\ sent \in Seq(Frame)
      /\ reported \in Nat /\ connects \in Nat /\ stack \in Seq(Record)
  BY EmptyTypes DEF Init
<1> QED
  BY <1>1, <1>2, <1>3, <1>4 DEF TypeOK

LEMMA ConnectingTypeOK == TypeOK /\ Connecting => TypeOK'
<1> SUFFICES ASSUME TypeOK, Connecting PROVE TypeOK'
  OBVIOUS
<1>1. CASE ConnectRefused
  <2>1. Cons(Base("apiError"), stack) \in Seq(Record)
    BY StackType DEF SlotLabels
  <2> QED
    BY <1>1, <2>1 DEF ConnectRefused, TypeOK, connection, reading, writing, history
<1>2. ASSUME NEW mode \in OpenModes, ConnectStarts(mode) PROVE TypeOK'
  <2>1. mode \in SUBSET Access
    BY ConstantsAssumption
  <2>2. CASE mode = {}
    <3>1. Cons(Base("apiError"), stack) \in Seq(Record)
      BY StackType DEF SlotLabels
    <3> QED
      BY <1>2, <2>2, <3>1 DEF ConnectStarts, TypeOK, connection, reading, writing, history
  <2>3. CASE mode # {}
    <3>1. [Base("connecting") EXCEPT !.mode = mode] \in Record
      BY <2>1, BaseType DEF SlotLabels
    <3>2. Cons([Base("connecting") EXCEPT !.mode = mode], stack) \in Seq(Record)
      BY <3>1, ConsType DEF TypeOK
    <3>3. /\ state' \in {"Unconnected", "Connecting", "Connected", "Closing"}
          /\ openMode' \in SUBSET Access /\ stack' \in Seq(Record)
          /\ buffer' \in Seq(Nat) /\ writeBuffer' \in Seq(Frame)
      BY <1>2, <2>1, <2>3, <3>2, EmptyTypes DEF ConnectStarts
    <3>4. /\ connects' \in Nat /\ rxCount' \in Nat /\ txCount' \in Nat /\ reported' \in Nat
          /\ got' \in Seq(Nat) /\ sent' \in Seq(Frame)
      <4>1. connects' \in Nat
        BY <1>2, <2>3 DEF ConnectStarts, TypeOK
      <4>2. /\ rxCount' = 0 /\ txCount' = 0 /\ reported' = 0
            /\ got' = <<>> /\ sent' = <<>>
        BY <1>2, <2>3 DEF ConnectStarts
      <4> QED
        BY <4>1, <4>2, EmptyTypes
    <3>5. UNCHANGED <<descriptor, openFds, readNotifier, readBufferMaxSize,
                      emittedReadyRead, rxQueue, writeNotifier, pendingBytesWritten,
                      writeSequenceStarted, emittedBytesWritten>>
      BY <1>2, <2>3 DEF ConnectStarts
    <3> QED
      BY <3>3, <3>4, <3>5 DEF TypeOK
  <2> QED
    BY <2>2, <2>3
<1>3. CASE ConnectNoSocket
  <2>1. Goto("connectError") \in Seq(Record)
    BY <1>3, StackType DEF ConnectNoSocket, Top, SlotLabels
  <2> QED
    BY <1>3, <2>1 DEF ConnectNoSocket, TypeOK, writing, history
<1>4. ASSUME NEW fd \in Fds \ openFds, ConnectFails(fd) PROVE TypeOK'
  <2>1. Goto("connectError") \in Seq(Record)
    BY <1>4, StackType DEF ConnectFails, Top, SlotLabels
  <2>2. openFds' \in SUBSET Fds
    BY <1>4 DEF ConnectFails, TypeOK
  <2> QED
    BY <1>4, <2>1, <2>2 DEF ConnectFails, TypeOK, writing, history
<1>5. ASSUME NEW fd \in Fds \ openFds, ConnectSucceeds(fd) PROVE TypeOK'
  <2>1. Goto("connected") \in Seq(Record) /\ Below \in Seq(Record)
    BY <1>5, StackType DEF ConnectSucceeds, Top, SlotLabels
  <2>2. openFds' \in SUBSET Fds
    BY <1>5 DEF ConnectSucceeds, TypeOK
  <2>3. readNotifier' \in Notifier
    <3>1. SetEnabled(readNotifier, TRUE) \in Notifier /\ readNotifier \in Notifier
      BY SetEnabledType DEF TypeOK
    <3>2. NotifierFor(fd) \in Notifier
      BY DEF NotifierFor, Notifier
    <3> QED
      BY <1>5, <3>1, <3>2 DEF ConnectSucceeds
  <2>4. stack' \in Seq(Record)
    BY <1>5, <2>1 DEF ConnectSucceeds
  <2>5. /\ state' \in {"Unconnected", "Connecting", "Connected", "Closing"}
        /\ descriptor' \in Fds \cup {-1} /\ rxQueue' \in Seq(Nat \ {0})
    BY <1>5, EmptyTypes DEF ConnectSucceeds
  <2>6. UNCHANGED <<openMode, buffer, readBufferMaxSize, emittedReadyRead, writing, history>>
    BY <1>5 DEF ConnectSucceeds
  <2> QED
    BY <2>2, <2>3, <2>4, <2>5, <2>6 DEF TypeOK, writing, history
<1>6. CASE AfterConnectError
  <2>1. Below \in Seq(Record)
    BY <1>6, StackType DEF AfterConnectError, Top
  <2> QED
    BY <1>6, <2>1, CloseFromType DEF AfterConnectError
<1> QED
  BY <1>1, <1>2, <1>3, <1>4, <1>5, <1>6 DEF Connecting

LEMMA ClosingTypeOK == TypeOK /\ Closing => TypeOK'
<1> SUFFICES ASSUME TypeOK, Closing PROVE TypeOK'
  OBVIOUS
<1>1. CASE Close
  BY <1>1, CloseFromType DEF Close, TypeOK
<1>2. CASE AfterClosing
  <2>1. Below \in Seq(Record)
    BY <1>2, StackType DEF AfterClosing, Top
  <2> QED
    BY <1>2, <2>1, DisconnectType DEF AfterClosing, TypeOK
<1>3. CASE AfterCloseError
  <2>1. Below \in Seq(Record)
    BY <1>3, StackType DEF AfterCloseError, Top
  <2> QED
    BY <1>3, <2>1, FinishDisconnectType DEF AfterCloseError, TypeOK
<1> QED
  BY <1>1, <1>2, <1>3 DEF Closing

LEMMA ReadTypeOK ==
    ASSUME TypeOK, NEW call, NEW n \in 0 .. Len(buffer), Read(call, n)
    PROVE  TypeOK'
<1>1. Len(buffer) \in Nat
  BY DEF TypeOK
<1>2. First(buffer, n) \in Seq(Nat) /\ Drop(buffer, n) \in Seq(Nat)
  BY <1>1, CutType DEF TypeOK
<1>3. got' \in Seq(Nat)
  BY <1>2, ConcatProperties DEF Read, TypeOK
<1>4. readNotifier' \in Notifier
  BY SetEnabledType DEF Read, TypeOK
<1> QED
  BY <1>2, <1>3, <1>4 DEF Read, TypeOK, connection, writing

LEMMA ReadingTypeOK == TypeOK /\ Reading => TypeOK'
<1> SUFFICES ASSUME TypeOK, Reading PROVE TypeOK'
  OBVIOUS
<1>1. CASE FrameArrives
  <2>1. rxCount' \in Nat /\ rxCount' \in Nat \ {0}
    BY <1>1 DEF FrameArrives, TypeOK
  <2>2. rxQueue' \in Seq(Nat \ {0})
    BY <1>1, <2>1, AppendProperties DEF FrameArrives, TypeOK
  <2> QED
    BY <1>1, <2>1, <2>2 DEF FrameArrives, TypeOK, connection, writing
<1>2. CASE ReadNotifierEvent
  BY <1>2, ReadNotificationType DEF ReadNotifierEvent, TypeOK
<1>3. CASE AfterReadyRead
  <2>1. Resume(TRUE, Below) \in Seq(Record)
    BY <1>3, StackType, ResumeType DEF AfterReadyRead, Top
  <2> QED
    BY <1>3, <2>1 DEF AfterReadyRead, TypeOK, connection, writing, history
<1>4. CASE AfterReadError
  <2>1. Below \in Seq(Record) /\ Head(stack).chop \in Int
    BY <1>4, StackType DEF AfterReadError, Top, Record
  <2>2. Resume(FALSE, Below) \in Seq(Record) /\ buffer' \in Seq(Nat)
    BY <1>4, <2>1, ResumeType, ChopType DEF AfterReadError, TypeOK
  <2> QED
    BY <1>4, <2>2 DEF AfterReadError, TypeOK, connection, writing, history
<1>5. CASE ReadFrame
  <2>1. (IF Len(buffer) < FrameSize THEN Len(buffer) ELSE FrameSize) \in 0 .. Len(buffer)
    BY FrameSizeAssumption DEF TypeOK
  <2> QED
    BY <1>5, <2>1, ReadTypeOK DEF ReadFrame
<1>6. CASE ReadAll
  <2>1. Len(buffer) \in 0 .. Len(buffer)
    BY DEF TypeOK
  <2> QED
    BY <1>6, <2>1, ReadTypeOK DEF ReadAll
<1>7. ASSUME NEW size \in BufferSizes, SetReadBufferSize(size) PROVE TypeOK'
  BY <1>7, ConstantsAssumption DEF SetReadBufferSize, TypeOK, connection, writing, history
<1> QED
  BY <1>1, <1>2, <1>3, <1>4, <1>5, <1>6, <1>7 DEF Reading

LEMMA WriteTypeOK ==
    ASSUME TypeOK, NEW call, NEW valid \in BOOLEAN, Write(call, valid)
    PROVE  TypeOK'
<1>1. txCount' \in Nat /\ txCount + 1 \in Nat \ {0}
  BY DEF Write, TypeOK
<1>2. [id |-> txCount + 1, valid |-> valid] \in Frame
  BY <1>1 DEF Frame
<1>3. writeBuffer' \in Seq(Frame)
  BY <1>2, AppendProperties DEF Write, TypeOK
<1>4. writeNotifier' \in Notifier
  BY SetEnabledType DEF Write, TypeOK
<1> QED
  BY <1>1, <1>3, <1>4 DEF Write, TypeOK, connection, reading

LEMMA WritingTypeOK == TypeOK /\ Writing => TypeOK'
<1> SUFFICES ASSUME TypeOK, Writing PROVE TypeOK'
  OBVIOUS
<1>1. CASE WriteNotifierEvent
  BY <1>1, CompleteAsyncWriteType DEF WriteNotifierEvent, TypeOK
<1>2. CASE AfterBytesWritten
  <2>1. Below \in Seq(Record)
    BY <1>2, StackType DEF AfterBytesWritten, Top
  <2> QED
    BY <1>2, <2>1, FinishWriteType DEF AfterBytesWritten, TypeOK
<1>3. CASE AfterWriteError
  <2>1. Resume(FALSE, Below) \in Seq(Record)
    BY <1>3, StackType, ResumeType DEF AfterWriteError, Top
  <2> QED
    BY <1>3, <2>1 DEF AfterWriteError, TypeOK, connection, reading, writing, history
<1>4. CASE WriteFrame
  BY <1>4, WriteTypeOK DEF WriteFrame
<1>5. CASE WriteInvalid
  BY <1>5, WriteTypeOK DEF WriteInvalid
<1>6. CASE Flush
  BY <1>6, CompleteAsyncWriteType DEF Flush, TypeOK
<1> QED
  BY <1>1, <1>2, <1>3, <1>4, <1>5, <1>6 DEF Writing

LEMMA WaitType ==
    ASSUME TypeOK, NEW at \in WaitLabels, NEW forever \in BOOLEAN, Wait(at, forever)
    PROVE  TypeOK'
<1>1. Cons([Base(at) EXCEPT !.forever = forever], stack) \in Seq(Record)
  BY BaseType, ConsType DEF TypeOK
<1> QED
  BY <1>1 DEF Wait, TypeOK, connection, reading, writing, history

LEMMA SelectReadyTypeOK ==
    ASSUME TypeOK, NEW readable \in BOOLEAN, NEW writable \in BOOLEAN,
           SelectReady(readable, writable)
    PROVE  TypeOK'
<1> DEFINE reader == IF Top("rr.select") THEN "rr.read" ELSE "bw.read"
           writer == IF Top("rr.select") THEN "rr.write" ELSE "bw.write"
           record == [Head(stack) EXCEPT !.at = reader, !.readyToWrite = writable]
<1>1. stack # <<>>
  BY DEF SelectReady, Context
<1>2. reader \in WaitLabels /\ writer \in WaitLabels
  BY DEF WaitLabels
<1>3. Below \in Seq(Record) /\ Head(stack) \in Record /\ Goto(writer) \in Seq(Record)
  BY <1>1, <1>2, StackType
<1>4. record \in Record
  <2> HIDE DEF reader
  <2> QED
    BY <1>2, <1>3 DEF Record
<1>5. Cons(record, Below) \in Seq(Record)
  BY <1>3, <1>4, ConsType
<1>6. \/ ReadNotification(Cons(record, Below))
      \/ CompleteAsyncWrite(Goto(writer))
  BY DEF SelectReady
<1> HIDE DEF record, writer
<1> QED
  BY <1>3, <1>5, <1>6, ReadNotificationType, CompleteAsyncWriteType

LEMMA WaitingTypeOK == TypeOK /\ Waiting => TypeOK'
<1> SUFFICES ASSUME TypeOK, Waiting PROVE TypeOK'
  OBVIOUS
<1>1. ASSUME NEW forever \in Forever, WaitForReadyRead(forever) \/ WaitForBytesWritten(forever)
      PROVE  TypeOK'
  BY <1>1, ConstantsAssumption, WaitType DEF WaitForReadyRead, WaitForBytesWritten, WaitLabels
<1>2. ASSUME NEW readable \in BOOLEAN, NEW writable \in BOOLEAN, SelectReady(readable, writable)
      PROVE  TypeOK'
  BY <1>2, SelectReadyTypeOK
<1>3. CASE SelectFails
  <2>1. Below \in Seq(Record)
    BY <1>3, StackType DEF SelectFails, Context
  <2>2. Cons(Base("apiError"), Below) \in Seq(Record)
    BY <2>1, BaseType, ConsType DEF SlotLabels
  <2> QED
    BY <1>3, <2>2 DEF SelectFails, TypeOK, connection, reading, writing, history
<1>4. CASE WaitLoop
  <2>1. Below \in Seq(Record) /\ Goto("rr.select") \in Seq(Record)
    BY <1>4, StackType DEF WaitLoop, Top, WaitLabels
  <2> QED
    BY <1>4, <2>1 DEF WaitLoop, TypeOK, connection, reading, writing, history
<1>5. CASE WaitAfterRead
  <2>1. Goto("bw.write") \in Seq(Record) /\ Goto("bw.select") \in Seq(Record)
    BY <1>5, StackType DEF WaitAfterRead, Top, WaitLabels
  <2>2. CASE Head(stack).readyToWrite
    BY <1>5, <2>1, <2>2, CompleteAsyncWriteType DEF WaitAfterRead
  <2>3. CASE ~Head(stack).readyToWrite
    BY <1>5, <2>1, <2>3 DEF WaitAfterRead, TypeOK, connection, reading, writing, history
  <2> QED
    BY <2>2, <2>3
<1> QED
  BY <1>1, <1>2, <1>3, <1>4, <1>5 DEF Waiting

(* Type correctness: whatever the application calls from whatever slot,    *)
(* every member, notifier, queue and activation record keeps its type.     *)
THEOREM TypeCorrect == Spec => []TypeOK
<1>1. TypeOK /\ Next => TypeOK'
  <2> SUFFICES ASSUME TypeOK, Next PROVE TypeOK'
    OBVIOUS
  <2>1. CASE ClearError
    <3>1. Cons(Base("apiError"), stack) \in Seq(Record)
      BY StackType DEF SlotLabels
    <3> QED
      BY <2>1, <3>1 DEF ClearError, TypeOK, connection, reading, writing, history
  <2>2. CASE SlotReturns
    <3>1. Below \in Seq(Record)
      BY <2>2, StackType DEF SlotReturns, Context
    <3> QED
      BY <2>2, <3>1 DEF SlotReturns, TypeOK, connection, reading, writing, history
  <2> QED
    BY <2>1, <2>2, ConnectingTypeOK, ClosingTypeOK, ReadingTypeOK, WritingTypeOK,
       WaitingTypeOK DEF Next
<1>2. TypeOK /\ UNCHANGED vars => TypeOK'
  BY DEF TypeOK, vars, connection, reading, writing, history
<1> QED
  BY <1>1, <1>2, InitTypeOK, PTL DEF Spec

-----------------------------------------------------------------------------
(* One emission.  Every step but the four that set or reset a flag keeps,  *)
(* for both signals, whether a slot of it is on the stack, and lets it be  *)
(* there only once.                                                        *)

Emitting == {"readyRead", "bytesWritten"}

Keeps(s, t) ==
    \A at \in Emitting : /\ Occurs(at, t) <=> Occurs(at, s)
                         /\ Once(at, s) => Once(at, t)

LEMMA PushSlots ==
    ASSUME NEW s \in Seq(Record), NEW r \in Record, NEW at
    PROVE  /\ Occurs(at, Cons(r, s)) <=> r.at = at \/ Occurs(at, s)
           /\ Once(at, s) /\ (r.at = at => ~Occurs(at, s)) => Once(at, Cons(r, s))
<1> DEFINE t == Cons(r, s)
<1>1. /\ Len(s) \in Nat /\ Len(t) = Len(s) + 1 /\ t[1] = r
      /\ \A i \in 1 .. Len(s) : t[i + 1] = s[i]
  <2>1. Len(s) \in Nat
    OBVIOUS
  <2>2. /\ Len(Cons(r, s)) = Len(s) + 1 /\ Cons(r, s)[1] = r
        /\ \A i \in 1 .. Len(s) : Cons(r, s)[i + 1] = s[i]
    BY ConsType
  <2> QED
    BY <2>1, <2>2
<1>2. \A i \in 1 .. Len(t) : i = 1 \/ (i - 1 \in 1 .. Len(s) /\ t[i] = s[i - 1])
  <2> SUFFICES ASSUME NEW i \in 1 .. Len(t), i # 1
               PROVE  i - 1 \in 1 .. Len(s) /\ t[i] = s[i - 1]
    OBVIOUS
  <2>1. i - 1 \in 1 .. Len(s) /\ (i - 1) + 1 = i
    BY <1>1
  <2> QED
    BY <1>1, <2>1
<1>3. \A i \in 1 .. Len(s) : i + 1 \in 1 .. Len(t)
  BY <1>1
<1>4. 1 \in 1 .. Len(t)
  BY <1>1
<1> HIDE DEF t
<1>5. Occurs(at, t) <=> r.at = at \/ Occurs(at, s)
  BY <1>1, <1>2, <1>3, <1>4 DEF Occurs
<1>6. ASSUME Once(at, s), r.at = at => ~Occurs(at, s)
      PROVE  Once(at, t)
  BY <1>1, <1>2, <1>6 DEF Once, Occurs
<1> QED
  BY <1>5, <1>6 DEF t

LEMMA PopSlots ==
    ASSUME NEW s \in Seq(Record), s # <<>>, NEW at
    PROVE  /\ Occurs(at, s) <=> Head(s).at = at \/ Occurs(at, Tail(s))
           /\ Once(at, s) => Once(at, Tail(s)) /\ (Head(s).at = at => ~Occurs(at, Tail(s)))
<1> DEFINE t == Tail(s)
<1>1. /\ Len(s) \in Nat \ {0} /\ Len(t) = Len(s) - 1 /\ Head(s) = s[1]
      /\ \A i \in 1 .. Len(t) : t[i] = s[i + 1]
  BY HeadTailProperties, EmptySeq
<1>2. \A i \in 1 .. Len(t) : i + 1 \in 1 .. Len(s)
  BY <1>1
<1>3. \A i \in 1 .. Len(s) : i = 1 \/ (i - 1 \in 1 .. Len(t) /\ s[i] = t[i - 1])
  <2> SUFFICES ASSUME NEW i \in 1 .. Len(s), i # 1
               PROVE  i - 1 \in 1 .. Len(t) /\ s[i] = t[i - 1]
    OBVIOUS
  <2>1. i - 1 \in 1 .. Len(t) /\ (i - 1) + 1 = i
    BY <1>1
  <2> QED
    BY <1>1, <2>1
<1>4. 1 \in 1 .. Len(s)
  BY <1>1
<1>5. \A i \in 1 .. Len(t) : i \in Int
  OBVIOUS
<1> HIDE DEF t
<1>6. Occurs(at, s) <=> Head(s).at = at \/ Occurs(at, t)
  BY <1>1, <1>2, <1>3, <1>4 DEF Occurs
<1>7. ASSUME Once(at, s)
      PROVE  Once(at, t) /\ (Head(s).at = at => ~Occurs(at, t))
  <2>1. Once(at, t)
    <3> SUFFICES ASSUME NEW i \in 1 .. Len(t), NEW j \in 1 .. Len(t),
                        t[i].at = at, t[j].at = at
                 PROVE  i = j
      BY DEF Once
    <3>1. i + 1 = j + 1
      BY <1>1, <1>2, <1>7 DEF Once
    <3> QED
      BY <1>1, <3>1
  <2>2. ASSUME Head(s).at = at, NEW i \in 1 .. Len(t), t[i].at = at
        PROVE  FALSE
    <3>1. i + 1 = 1
      BY <1>1, <1>2, <1>4, <1>7, <2>2 DEF Once
    <3> QED
      BY <1>1, <3>1
  <2> QED
    BY <2>1, <2>2 DEF Occurs
<1> QED
  BY <1>6, <1>7 DEF t

LEMMA KeepsPush ==
    ASSUME NEW s \in Seq(Record), NEW r \in Record, r.at \notin Emitting
    PROVE  Keeps(s, Cons(r, s))
BY PushSlots DEF Keeps

LEMMA KeepsPop ==
    ASSUME NEW s \in Seq(Record), s # <<>>, Head(s).at \notin Emitting
    PROVE  Keeps(s, Tail(s))
BY PopSlots DEF Keeps

LEMMA KeepsTransitive ==
    ASSUME NEW s, NEW t, NEW u, Keeps(s, t), Keeps(t, u)
    PROVE  Keeps(s, u)
BY DEF Keeps

LEMMA KeepsSelf == ASSUME NEW s PROVE Keeps(s, s)
BY DEF Keeps

LEMMA KeepsRelabel ==
    ASSUME NEW s \in Seq(Record), s # <<>>, Head(s).at \notin Emitting,
           NEW r \in Record, r.at \notin Emitting
    PROVE  Keeps(s, Cons(r, Tail(s)))
<1>1. Keeps(s, Tail(s)) /\ Tail(s) \in Seq(Record)
  BY KeepsPop, HeadTailProperties
<1>2. Keeps(Tail(s), Cons(r, Tail(s)))
  BY <1>1, KeepsPush
<1> QED
  BY <1>1, <1>2, KeepsTransitive

LEMMA KeepsResume ==
    ASSUME NEW s \in Seq(Record), NEW result \in BOOLEAN
    PROVE  Keeps(s, Resume(result, s))
<1>1. CASE s = <<>> \/ Head(s).at \notin {"rr.read", "bw.write", "rr.write", "bw.read"}
  <2>1. Resume(result, s) = s
    BY <1>1 DEF Resume
  <2> QED
    BY <2>1, KeepsSelf
<1>2. CASE s # <<>> /\ Head(s).at \in {"rr.read", "bw.write", "rr.write", "bw.read"}
  <2>1. Head(s).at \notin Emitting
    BY <1>2 DEF Emitting
  <2>2. Keeps(s, Tail(s))
    BY <1>2, <2>1, KeepsPop
  <2>3. ASSUME NEW at \in {"rr.loop", "bw.afterRead"}
        PROVE  Keeps(s, Cons([Head(s) EXCEPT !.at = at], Tail(s)))
    <3>1. Head(s) \in Record
      BY <1>2, HeadTailProperties
    <3>2. [Head(s) EXCEPT !.at = at] \in Record /\ [Head(s) EXCEPT !.at = at].at = at
      BY <3>1 DEF Record, WaitLabels
    <3>3. at \notin Emitting
      BY DEF Emitting
    <3> QED
      BY <1>2, <2>1, <3>2, <3>3, KeepsRelabel
  <2> QED
    BY <1>2, <2>2, <2>3 DEF Resume
<1> QED
  BY <1>1, <1>2

(* A step that touches neither flag and keeps the slots keeps OneEmission  *)
LEMMA KeptEmission ==
    ASSUME OneEmission, Keeps(stack, stack'),
           UNCHANGED <<emittedReadyRead, emittedBytesWritten>>
    PROVE  OneEmission'
BY DEF OneEmission, EmissionsOf, Keeps, Emitting

(* Pushing the slot of any other signal, on any stack *)
LEMMA KeepsSlot ==
    ASSUME NEW s \in Seq(Record), NEW at \in (SlotLabels \cup WaitLabels) \ Emitting
    PROVE  /\ Keeps(s, Cons(Base(at), s))
           /\ \A mode \in SUBSET Access : Keeps(s, Cons([Base(at) EXCEPT !.mode = mode], s))
           /\ \A chop \in Int : Keeps(s, Cons([Base(at) EXCEPT !.chop = chop], s))
           /\ \A b \in BOOLEAN : Keeps(s, Cons([Base(at) EXCEPT !.forever = b], s))
<1>1. /\ Base(at).at = at
      /\ \A mode : [Base(at) EXCEPT !.mode = mode].at = at
      /\ \A chop : [Base(at) EXCEPT !.chop = chop].at = at
      /\ \A b : [Base(at) EXCEPT !.forever = b].at = at
  BY DEF Base
<1> QED
  BY <1>1, BaseType, KeepsPush

LEMMA ReadNotificationEmission ==
    ASSUME TypeOK, NEW rest \in Seq(Record), EmissionsOf(rest), ReadNotification(rest)
    PROVE  OneEmission'
<1>1. UNCHANGED emittedBytesWritten
  BY DEF ReadNotification, writing
<1>2. \A r \in BOOLEAN : Keeps(rest, Resume(r, rest))
  BY KeepsResume
<1>3. CASE UNCHANGED emittedReadyRead /\ Keeps(rest, stack')
  BY <1>1, <1>3 DEF OneEmission, EmissionsOf, Keeps, Emitting
<1>4. CASE Full
  BY <1>2, <1>3, <1>4 DEF ReadNotification
<1>5. CASE ~Full
  <2>1. PICK o : IF o.error = "none" THEN ReadSucceeds(o, rest) ELSE ReadFails(o, rest)
    BY <1>5 DEF ReadNotification
  <2>2. CASE ReadFails(o, rest)
    <3>1. stack' = Cons([Base("readError") EXCEPT !.chop = BytesToRead], rest)
          /\ UNCHANGED emittedReadyRead
      BY <2>2 DEF ReadFails
    <3>2. BytesToRead \in Int /\ "readError" \in (SlotLabels \cup WaitLabels) \ Emitting
      BY BytesToReadType DEF SlotLabels, Emitting
    <3>3. Keeps(rest, stack')
      BY <3>1, <3>2, KeepsSlot
    <3> QED
      BY <1>3, <3>1, <3>3
  <2>3. CASE ReadSucceeds(o, rest) /\ ~(~emittedReadyRead /\ o.frames > 0)
    <3>1. stack' = Resume(TRUE, rest) /\ (emittedReadyRead' = emittedReadyRead)
      BY <2>3 DEF ReadSucceeds, TypeOK
    <3> QED
      BY <1>2, <1>3, <3>1
  <2>4. CASE ReadSucceeds(o, rest) /\ ~emittedReadyRead /\ o.frames > 0
    <3>1. stack' = Cons(Base("readyRead"), rest) /\ emittedReadyRead'
      BY <2>4 DEF ReadSucceeds
    <3>2. Base("readyRead") \in Record /\ Base("readyRead").at = "readyRead"
      BY BaseType DEF SlotLabels, Base
    <3>3. ~Occurs("readyRead", rest)
      BY <2>4 DEF EmissionsOf
    <3>4. /\ Occurs("readyRead", stack') /\ Once("readyRead", stack')
          /\ Occurs("bytesWritten", stack') <=> Occurs("bytesWritten", rest)
          /\ Once("bytesWritten", stack')
      BY <3>1, <3>2, <3>3, PushSlots DEF EmissionsOf
    <3> QED
      BY <1>1, <3>1, <3>4 DEF OneEmission, EmissionsOf
  <2> QED
    BY <2>1, <2>2, <2>3, <2>4
<1> QED
  BY <1>4, <1>5

LEMMA FinishWriteKeeps ==
    ASSUME NEW pending, NEW rest \in Seq(Record), FinishWrite(pending, rest)
    PROVE  Keeps(rest, stack') /\ UNCHANGED emittedReadyRead
<1>1. "writeError" \in (SlotLabels \cup WaitLabels) \ Emitting
  BY DEF SlotLabels, Emitting
<1>2. Keeps(rest, Resume(TRUE, rest)) /\ Keeps(rest, Cons(Base("writeError"), rest))
  BY <1>1, KeepsResume, KeepsSlot
<1>3. stack' = Resume(TRUE, rest) \/ stack' = Cons(Base("writeError"), rest)
  BY DEF FinishWrite
<1>4. UNCHANGED emittedReadyRead
  BY DEF FinishWrite, reading
<1> QED
  BY <1>2, <1>3, <1>4

LEMMA CompleteAsyncWriteEmission ==
    ASSUME TypeOK, NEW rest \in Seq(Record), EmissionsOf(rest), CompleteAsyncWrite(rest)
    PROVE  OneEmission'
<1>1. CASE pendingBytesWritten > 0 /\ ~emittedBytesWritten
  <2>1. /\ stack' = Cons(Base("bytesWritten"), rest)
        /\ emittedBytesWritten' /\ UNCHANGED emittedReadyRead
    BY <1>1 DEF CompleteAsyncWrite, reading
  <2>2. Base("bytesWritten") \in Record /\ Base("bytesWritten").at = "bytesWritten"
    BY BaseType DEF SlotLabels, Base
  <2>3. ~Occurs("bytesWritten", rest)
    BY <1>1 DEF EmissionsOf
  <2>4. /\ Occurs("bytesWritten", stack') /\ Once("bytesWritten", stack')
        /\ Occurs("readyRead", stack') <=> Occurs("readyRead", rest)
        /\ Once("readyRead", stack')
    BY <2>1, <2>2, <2>3, PushSlots DEF EmissionsOf
  <2> QED
    BY <2>1, <2>4 DEF OneEmission, EmissionsOf
<1>2. CASE ~(pendingBytesWritten > 0 /\ ~emittedBytesWritten)
  <2>1. FinishWrite(pendingBytesWritten, rest) /\ UNCHANGED emittedBytesWritten
    BY <1>2 DEF CompleteAsyncWrite
  <2>2. Keeps(rest, stack') /\ UNCHANGED emittedReadyRead
    BY <2>1, FinishWriteKeeps
  <2> QED
    BY <2>1, <2>2 DEF OneEmission, EmissionsOf, Keeps, Emitting
<1> QED
  BY <1>1, <1>2

LEMMA FinishDisconnectKeeps ==
    ASSUME NEW rest \in Seq(Record), FinishDisconnect(rest)
    PROVE  Keeps(rest, stack') /\ UNCHANGED <<emittedReadyRead, emittedBytesWritten>>
<1>1. "unconnected" \in (SlotLabels \cup WaitLabels) \ Emitting
  BY DEF SlotLabels, Emitting
<1>2. Keeps(rest, rest) /\ Keeps(rest, Cons(Base("unconnected"), rest))
  BY <1>1, KeepsSelf, KeepsSlot
<1> QED
  BY <1>2 DEF FinishDisconnect

LEMMA DisconnectKeeps ==
    ASSUME NEW rest \in Seq(Record), Disconnect(rest)
    PROVE  Keeps(rest, stack') /\ UNCHANGED <<emittedReadyRead, emittedBytesWritten>>
<1>1. CASE FinishDisconnect(rest)
  BY <1>1, FinishDisconnectKeeps
<1>2. CASE stack' = Cons(Base("closeError"), rest)
           /\ UNCHANGED <<emittedReadyRead, emittedBytesWritten>>
  <2>1. "closeError" \in (SlotLabels \cup WaitLabels) \ Emitting
    BY DEF SlotLabels, Emitting
  <2> QED
    BY <1>2, <2>1, KeepsSlot
<1> QED
  BY <1>1, <1>2 DEF Disconnect

LEMMA CloseFromKeeps ==
    ASSUME NEW rest \in Seq(Record), CloseFrom(rest)
    PROVE  Keeps(rest, stack') /\ UNCHANGED <<emittedReadyRead, emittedBytesWritten>>
<1>1. CASE state = "Unconnected"
  BY <1>1, KeepsSelf DEF CloseFrom, reading, writing
<1>2. CASE state = "Closing"
  BY <1>2, DisconnectKeeps DEF CloseFrom
<1>3. CASE state \notin {"Unconnected", "Closing"}
  <2>1. "closing" \in (SlotLabels \cup WaitLabels) \ Emitting
    BY DEF SlotLabels, Emitting
  <2> QED
    BY <1>3, <2>1, KeepsSlot DEF CloseFrom, reading, writing
<1> QED
  BY <1>1, <1>2, <1>3

(* The slots whose return or relabelling leaves both signals alone *)
LEMMA KeepsReturn ==
    ASSUME TypeOK, stack # <<>>, Head(stack).at \notin Emitting
    PROVE  /\ Below \in Seq(Record) /\ Keeps(stack, Below)
           /\ \A r \in BOOLEAN : Keeps(stack, Resume(r, Below))
           /\ \A at \in (SlotLabels \cup WaitLabels) \ Emitting :
                  Goto(at) \in Seq(Record) /\ Keeps(stack, Goto(at))
<1>1. Below \in Seq(Record) /\ Keeps(stack, Below)
  BY StackType, KeepsPop DEF TypeOK, Below
<1>2. ASSUME NEW r \in BOOLEAN PROVE Keeps(stack, Resume(r, Below))
  BY <1>1, KeepsResume, KeepsTransitive
<1>3. ASSUME NEW at \in (SlotLabels \cup WaitLabels) \ Emitting
      PROVE  Goto(at) \in Seq(Record) /\ Keeps(stack, Goto(at))
  <2>1. Head(stack) \in Record /\ Goto(at) \in Seq(Record)
    BY StackType
  <2>2. [Head(stack) EXCEPT !.at = at] \in Record /\ [Head(stack) EXCEPT !.at = at].at = at
    BY <2>1 DEF Record
  <2>3. Keeps(stack, Goto(at))
    BY <2>2, KeepsRelabel DEF TypeOK, Goto, Below
  <2> QED
    BY <2>1, <2>3
<1> QED
  BY <1>1, <1>2, <1>3

LEMMA EmissionsBelow ==
    ASSUME TypeOK, OneEmission, stack # <<>>, Head(stack).at \notin Emitting
    PROVE  /\ Below \in Seq(Record) /\ EmissionsOf(Below)
           /\ \A at \in (SlotLabels \cup WaitLabels) \ Emitting :
                  Goto(at) \in Seq(Record) /\ EmissionsOf(Goto(at))
BY KeepsReturn DEF OneEmission, EmissionsOf, Keeps, Emitting

LEMMA ConnectingEmission == TypeOK /\ OneEmission /\ Connecting => OneEmission'
<1> SUFFICES ASSUME TypeOK, OneEmission, Connecting PROVE OneEmission'
  OBVIOUS
<1>l. {"apiError", "connecting", "connectError", "connected"}
          \subseteq (SlotLabels \cup WaitLabels) \ Emitting
  BY DEF SlotLabels, Emitting
<1>s. stack \in Seq(Record)
  BY DEF TypeOK
<1>1. CASE ConnectRefused
  <2>1. Keeps(stack, Cons(Base("apiError"), stack))
    BY <1>l, <1>s, KeepsSlot
  <2> QED
    BY <1>1, <2>1, KeptEmission DEF ConnectRefused, reading, writing
<1>2. ASSUME NEW mode \in OpenModes, ConnectStarts(mode) PROVE OneEmission'
  <2>1. mode \in SUBSET Access
    BY ConstantsAssumption
  <2>2. /\ Keeps(stack, Cons(Base("apiError"), stack))
        /\ Keeps(stack, Cons([Base("connecting") EXCEPT !.mode = mode], stack))
    BY <1>l, <1>s, <2>1, KeepsSlot
  <2>3. CASE mode = {}
    BY <1>2, <2>2, <2>3, KeptEmission DEF ConnectStarts, reading, writing
  <2>4. CASE mode # {}
    BY <1>2, <2>2, <2>4, KeptEmission DEF ConnectStarts
  <2> QED
    BY <2>3, <2>4
<1>3. ASSUME Top("connecting")
      PROVE  /\ Keeps(stack, Goto("connectError")) /\ Keeps(stack, Goto("connected"))
             /\ Keeps(stack, Below)
  BY <1>l, <1>3, KeepsReturn DEF Top, Emitting
<1>4. CASE ConnectNoSocket
  BY <1>3, <1>4, KeptEmission DEF ConnectNoSocket, writing
<1>5. ASSUME NEW fd \in Fds \ openFds, ConnectFails(fd) PROVE OneEmission'
  BY <1>3, <1>5, KeptEmission DEF ConnectFails, writing
<1>6. ASSUME NEW fd \in Fds \ openFds, ConnectSucceeds(fd) PROVE OneEmission'
  BY <1>3, <1>6, KeptEmission DEF ConnectSucceeds, writing
<1>7. CASE AfterConnectError
  <2>1. Below \in Seq(Record) /\ Keeps(stack, Below)
    BY <1>7, KeepsReturn DEF AfterConnectError, Top, Emitting
  <2>2. Keeps(Below, stack') /\ UNCHANGED <<emittedReadyRead, emittedBytesWritten>>
    BY <1>7, <2>1, CloseFromKeeps DEF AfterConnectError
  <2> QED
    BY <2>1, <2>2, KeepsTransitive, KeptEmission
<1> QED
  BY <1>1, <1>2, <1>4, <1>5, <1>6, <1>7 DEF Connecting

LEMMA ClosingEmission == TypeOK /\ OneEmission /\ Closing => OneEmission'
<1> SUFFICES ASSUME TypeOK, OneEmission, Closing PROVE OneEmission'
  OBVIOUS
<1>1. CASE Close
  BY <1>1, CloseFromKeeps, KeptEmission DEF Close, TypeOK
<1>2. CASE AfterClosing \/ AfterCloseError
  <2>1. Below \in Seq(Record) /\ Keeps(stack, Below)
    BY <1>2, KeepsReturn DEF AfterClosing, AfterCloseError, Top, Emitting
  <2>2. Keeps(Below, stack') /\ UNCHANGED <<emittedReadyRead, emittedBytesWritten>>
    BY <1>2, <2>1, DisconnectKeeps, FinishDisconnectKeeps DEF AfterClosing, AfterCloseError
  <2> QED
    BY <2>1, <2>2, KeepsTransitive, KeptEmission
<1> QED
  BY <1>1, <1>2 DEF Closing

LEMMA ReadingEmission == TypeOK /\ OneEmission /\ Reading => OneEmission'
<1> SUFFICES ASSUME TypeOK, OneEmission, Reading PROVE OneEmission'
  OBVIOUS
<1>1. CASE ReadNotifierEvent
  BY <1>1, ReadNotificationEmission DEF ReadNotifierEvent, OneEmission, TypeOK
<1>2. CASE AfterReadyRead
  <2>1. stack # <<>> /\ Head(stack).at = "readyRead" /\ stack \in Seq(Record)
    BY <1>2 DEF AfterReadyRead, Top, TypeOK
  <2>2. Below \in Seq(Record)
    BY <2>1, StackType
  <2>3. /\ ~Occurs("readyRead", Below) /\ Once("readyRead", Below)
        /\ Occurs("bytesWritten", Below) <=> Occurs("bytesWritten", stack)
        /\ Once("bytesWritten", Below)
    BY <2>1, PopSlots DEF Below, OneEmission, EmissionsOf
  <2>4. Keeps(Below, stack') /\ ~emittedReadyRead' /\ UNCHANGED emittedBytesWritten
    BY <1>2, <2>2, KeepsResume DEF AfterReadyRead, writing
  <2> QED
    BY <2>3, <2>4 DEF OneEmission, EmissionsOf, Keeps, Emitting
<1>3. CASE AfterReadError
  <2>1. Keeps(stack, Resume(FALSE, Below))
    BY <1>3, KeepsReturn DEF AfterReadError, Top, Emitting
  <2> QED
    BY <1>3, <2>1, KeptEmission DEF AfterReadError, writing
<1>4. CASE UNCHANGED <<stack, emittedReadyRead, emittedBytesWritten>>
  BY <1>4, KeepsSelf, KeptEmission
<1>5. CASE FrameArrives
  BY <1>4, <1>5 DEF FrameArrives, writing
<1>6. CASE ReadFrame
  BY <1>4, <1>6 DEF ReadFrame, Read, writing
<1>7. CASE ReadAll
  BY <1>4, <1>7 DEF ReadAll, Read, writing
<1>8. ASSUME NEW size \in BufferSizes, SetReadBufferSize(size) PROVE OneEmission'
  BY <1>4, <1>8 DEF SetReadBufferSize, writing
<1> QED
  BY <1>1, <1>2, <1>3, <1>5, <1>6, <1>7, <1>8 DEF Reading

LEMMA WritingEmission == TypeOK /\ OneEmission /\ Writing => OneEmission'
<1> SUFFICES ASSUME TypeOK, OneEmission, Writing PROVE OneEmission'
  OBVIOUS
<1>1. CASE WriteNotifierEvent \/ Flush
  BY <1>1, CompleteAsyncWriteEmission DEF WriteNotifierEvent, Flush, OneEmission, TypeOK
<1>2. CASE AfterBytesWritten
  <2>1. stack # <<>> /\ Head(stack).at = "bytesWritten" /\ stack \in Seq(Record)
    BY <1>2 DEF AfterBytesWritten, Top, TypeOK
  <2>2. Below \in Seq(Record)
    BY <2>1, StackType
  <2>3. /\ ~Occurs("bytesWritten", Below) /\ Once("bytesWritten", Below)
        /\ Occurs("readyRead", Below) <=> Occurs("readyRead", stack)
        /\ Once("readyRead", Below)
    BY <2>1, PopSlots DEF Below, OneEmission, EmissionsOf
  <2>4. Keeps(Below, stack') /\ ~emittedBytesWritten' /\ UNCHANGED emittedReadyRead
    BY <1>2, <2>2, FinishWriteKeeps DEF AfterBytesWritten
  <2> QED
    BY <2>3, <2>4 DEF OneEmission, EmissionsOf, Keeps, Emitting
<1>3. CASE AfterWriteError
  <2>1. Keeps(stack, Resume(FALSE, Below))
    BY <1>3, KeepsReturn DEF AfterWriteError, Top, Emitting
  <2> QED
    BY <1>3, <2>1, KeptEmission DEF AfterWriteError, reading, writing
<1>4. CASE WriteFrame \/ WriteInvalid
  <2>1. UNCHANGED <<stack, emittedReadyRead, emittedBytesWritten>>
    BY <1>4 DEF WriteFrame, WriteInvalid, Write, reading
  <2> QED
    BY <2>1, KeepsSelf, KeptEmission
<1> QED
  BY <1>1, <1>2, <1>3, <1>4 DEF Writing

LEMMA SelectReadyEmission ==
    ASSUME TypeOK, OneEmission, NEW readable \in BOOLEAN, NEW writable \in BOOLEAN,
           SelectReady(readable, writable)
    PROVE  OneEmission'
<1> DEFINE reader == IF Top("rr.select") THEN "rr.read" ELSE "bw.read"
           writer == IF Top("rr.select") THEN "rr.write" ELSE "bw.write"
           record == [Head(stack) EXCEPT !.at = reader, !.readyToWrite = writable]
<1>1. stack # <<>> /\ Head(stack).at \notin Emitting /\ stack \in Seq(Record)
  BY DEF SelectReady, Context, Emitting, TypeOK
<1>2. {reader, writer} \subseteq (SlotLabels \cup WaitLabels) \ Emitting
  BY DEF WaitLabels, Emitting
<1> HIDE DEF reader, writer
<1>3. Goto(writer) \in Seq(Record) /\ EmissionsOf(Goto(writer))
  BY <1>1, <1>2, EmissionsBelow
<1>4. Head(stack) \in Record
  BY <1>1, HeadTailProperties
<1>5. record \in Record /\ record.at = reader
  BY <1>2, <1>4 DEF Record
<1> HIDE DEF record
<1>6. Below \in Seq(Record) /\ Cons(record, Below) \in Seq(Record)
  BY <1>1, <1>5, EmissionsBelow, ConsType
<1>7. EmissionsOf(Cons(record, Below))
  <2>1. Keeps(stack, Cons(record, Below))
    BY <1>1, <1>2, <1>5, KeepsRelabel DEF Below
  <2> QED
    BY <2>1 DEF OneEmission, EmissionsOf, Keeps, Emitting
<1>8. \/ ReadNotification(Cons(record, Below))
      \/ CompleteAsyncWrite(Goto(writer))
  BY DEF SelectReady, record, reader, writer
<1> QED
  BY <1>3, <1>6, <1>7, <1>8, ReadNotificationEmission, CompleteAsyncWriteEmission

LEMMA WaitingEmission == TypeOK /\ OneEmission /\ Waiting => OneEmission'
<1> SUFFICES ASSUME TypeOK, OneEmission, Waiting PROVE OneEmission'
  OBVIOUS
<1>l. {"apiError", "rr.select", "bw.select", "bw.write"}
          \subseteq (SlotLabels \cup WaitLabels) \ Emitting
  BY DEF SlotLabels, WaitLabels, Emitting
<1>s. stack \in Seq(Record)
  BY DEF TypeOK
<1>1. ASSUME NEW forever \in Forever, WaitForReadyRead(forever) \/ WaitForBytesWritten(forever)
      PROVE  OneEmission'
  <2>1. \A at \in {"rr.select", "bw.select"} :
            Keeps(stack, Cons([Base(at) EXCEPT !.forever = forever], stack))
    BY <1>l, <1>s, ConstantsAssumption, KeepsSlot
  <2> QED
    BY <1>1, <2>1, KeptEmission
    DEF WaitForReadyRead, WaitForBytesWritten, Wait, reading, writing
<1>2. ASSUME NEW readable \in BOOLEAN, NEW writable \in BOOLEAN, SelectReady(readable, writable)
      PROVE  OneEmission'
  BY <1>2, SelectReadyEmission
<1>3. CASE SelectFails
  <2>1. Below \in Seq(Record) /\ Keeps(stack, Below)
    BY <1>3, KeepsReturn DEF SelectFails, Context, Emitting
  <2>2. Keeps(stack, Cons(Base("apiError"), Below))
    BY <1>l, <2>1, KeepsSlot, KeepsTransitive
  <2> QED
    BY <1>3, <2>2, KeptEmission DEF SelectFails, reading, writing
<1>4. CASE WaitLoop
  <2>1. Keeps(stack, Below) /\ Keeps(stack, Goto("rr.select"))
    BY <1>l, <1>4, KeepsReturn DEF WaitLoop, Top, Emitting
  <2> QED
    BY <1>4, <2>1, KeptEmission DEF WaitLoop, reading, writing
<1>5. CASE WaitAfterRead
  <2>1. /\ Goto("bw.write") \in Seq(Record) /\ EmissionsOf(Goto("bw.write"))
        /\ Keeps(stack, Goto("bw.select"))
    BY <1>l, <1>5, KeepsReturn, EmissionsBelow DEF WaitAfterRead, Top, Emitting
  <2>2. CASE Head(stack).readyToWrite
    BY <1>5, <2>1, <2>2, CompleteAsyncWriteEmission DEF WaitAfterRead
  <2>3. CASE ~Head(stack).readyToWrite
    BY <1>5, <2>1, <2>3, KeptEmission DEF WaitAfterRead, reading, writing
  <2> QED
    BY <2>2, <2>3
<1> QED
  BY <1>1, <1>2, <1>3, <1>4, <1>5 DEF Waiting

(* The guards work for every application: no slot of readyRead() ever runs *)
(* inside another one, nor one of bytesWritten(), and the flags say        *)
(* exactly when they run.                                                  *)
THEOREM NoNestedEmission == Spec => []OneEmission
<1>1. Init => OneEmission
  <2>1. Init => ~emittedReadyRead /\ ~emittedBytesWritten /\ Len(stack) = 0
    BY EmptySeq DEF Init
  <2> QED
    BY <2>1 DEF OneEmission, EmissionsOf, Occurs, Once
<1>2. TypeOK /\ OneEmission /\ Next => OneEmission'
  <2> SUFFICES ASSUME TypeOK, OneEmission, Next PROVE OneEmission'
    OBVIOUS
  <2>1. CASE ClearError
    <3>1. "apiError" \in (SlotLabels \cup WaitLabels) \ Emitting /\ stack \in Seq(Record)
      BY DEF SlotLabels, Emitting, TypeOK
    <3>2. Keeps(stack, Cons(Base("apiError"), stack))
      BY <3>1, KeepsSlot
    <3> QED
      BY <2>1, <3>2, KeptEmission DEF ClearError, reading, writing
  <2>2. CASE SlotReturns
    <3>1. Keeps(stack, Below)
      BY <2>2, KeepsReturn DEF SlotReturns, Context, Emitting
    <3> QED
      BY <2>2, <3>1, KeptEmission DEF SlotReturns, reading, writing
  <2> QED
    BY <2>1, <2>2, ConnectingEmission, ClosingEmission, ReadingEmission, WritingEmission,
       WaitingEmission DEF Next
<1>3. OneEmission /\ UNCHANGED vars => OneEmission'
  BY DEF OneEmission, EmissionsOf, Occurs, Once, vars, reading, writing
<1> QED
  BY <1>1, <1>2, <1>3, TypeCorrect, PTL DEF Spec

-----------------------------------------------------------------------------
(* setReadBufferSize(): no read takes the buffer over the limit, whatever  *)
(* the limit, the frame size and the chunk, also when the limit was        *)
(* lowered below what is buffered or a read fails.                         *)

(* Whole frames that fit: their bytes are no more than the room *)
LEMMA FramesInFit ==
    ASSUME NEW n \in Int, NEW k \in Nat, k <= FramesIn(n)
    PROVE  k = 0 \/ FrameSize * k <= n
<1>1. FrameSize \in Nat \ {0}
  BY FrameSizeAssumption
<1>2. CASE n < FrameSize
  BY <1>2 DEF FramesIn
<1>3. CASE ~(n < FrameSize)
  <2> DEFINE q == n \div FrameSize
  <2>1. q \in Int /\ FrameSize * q <= n
    BY <1>1
  <2>2. k <= q
    BY <1>3 DEF FramesIn
  <2> HIDE DEF q
  <2>3. FrameSize * k <= FrameSize * q
    BY <1>1, <2>1, <2>2
  <2>4. FrameSize * k \in Int /\ FrameSize * q \in Int
    BY <1>1, <2>1
  <2> QED
    BY <2>1, <2>3, <2>4
<1> QED
  BY <1>2, <1>3

LEMMA BytesLength ==
    ASSUME NEW frames, Len(frames) \in Nat
    PROVE  Len(Bytes(frames)) = FrameSize * Len(frames)
<1>1. FrameSize * Len(frames) \in Nat
  BY FrameSizeAssumption
<1> QED
  BY <1>1 DEF Bytes

LEMMA GarbageLength ==
    ASSUME NEW n \in Int
    PROVE  Len([i \in 1 .. n |-> Garbage]) = IF n >= 0 THEN n ELSE 0
<1>1. ASSUME n >= 0 PROVE Len([i \in 1 .. n |-> Garbage]) = n
  BY <1>1 DEF Garbage
<1>2. ASSUME n < 0 PROVE Len([i \in 1 .. n |-> Garbage]) = 0
  <2>1. 1 .. n = 1 .. 0
    BY <1>2
  <2>2. Len([i \in 1 .. 0 |-> Garbage]) = 0
    BY DEF Garbage
  <2> QED
    BY <2>1, <2>2
<1>3. CASE n >= 0
  BY <1>1, <1>3, Zenon
<1>4. CASE ~(n >= 0)
  <2>1. n < 0
    BY <1>4
  <2> QED
    BY <1>2, <1>4, <2>1, Zenon
<1> QED
  BY <1>3, <1>4

(* A read takes no more frames than fit into the bytes it was offered, and *)
(* fails only where one more would have fitted                             *)
LEMMA OutcomesFit ==
    ASSUME NEW queue, Len(queue) \in Nat, NEW open \in BOOLEAN, NEW n \in Int,
           NEW o \in ReadOutcomes(queue, open, n, ReadErrors)
    PROVE  /\ o.frames \in 0 .. Len(queue) /\ o.frames <= FramesIn(n)
           /\ o.error # "none" => FramesIn(n) > 0
<1> DEFINE room == FramesIn(n)
           all  == IF Len(queue) < room THEN Len(queue) ELSE room
<1>1. room \in Nat
  BY FrameSizeAssumption DEF FramesIn
<1> HIDE DEF room
<1>2. CASE ~open
  <2>1. o = [frames |-> 0, error |-> IF room > 0 THEN "other" ELSE "none"]
    BY <1>2 DEF ReadOutcomes, room
  <2> QED
    BY <1>1, <2>1 DEF room
<1>3. CASE open
  <2>1. \/ o = [frames |-> all, error |-> "none"]
        \/ o \in [frames : 0 .. Len(queue), error : ReadErrors] /\ o.frames < room
    BY <1>3 DEF ReadOutcomes, room
  <2>2. all \in 0 .. Len(queue) /\ all <= room
    BY <1>1
  <2> HIDE DEF all
  <2> QED
    BY <1>1, <2>1, <2>2 DEF room
<1> QED
  BY <1>2, <1>3

-----------------------------------------------------------------------------
(* The only code that makes the buffer longer is readNotification() *)

LEMMA ReadNotificationLimit ==
    ASSUME TypeOK, NEW rest, ReadNotification(rest), readBufferMaxSize # 0,
           Len(buffer') > Len(buffer)
    PROVE  Len(buffer') <= readBufferMaxSize
<1> DEFINE n    == BytesToRead
           have == Len(buffer)
<1>1. n \in Int /\ have \in Nat /\ readBufferMaxSize \in Nat /\ buffer \in Seq(Nat)
      /\ rxQueue \in Seq(Nat \ {0}) /\ Len(rxQueue) \in Nat
  BY BytesToReadType DEF TypeOK
<1>2. n <= readBufferMaxSize - have
  BY <1>1, ConstantsAssumption DEF BytesToRead
<1>3. ~Full
  <2>1. Full => buffer' = buffer
    BY DEF ReadNotification
  <2>2. buffer' # buffer
    BY <1>1
  <2> QED
    BY <2>1, <2>2
<1>4. PICK o \in ReadOutcomes(rxQueue, IsOpen(descriptor), n, ReadErrors) :
        IF o.error = "none" THEN ReadSucceeds(o, rest) ELSE ReadFails(o, rest)
  BY <1>3 DEF ReadNotification
<1>5. IsOpen(descriptor) \in BOOLEAN
  BY DEF IsOpen
<1> HIDE DEF n
<1>6. /\ o.frames \in 0 .. Len(rxQueue) /\ o.frames <= FramesIn(n)
      /\ o.error # "none" => FramesIn(n) > 0
  BY <1>1, <1>4, <1>5, OutcomesFit
<1>7. o.frames = 0 \/ FrameSize * o.frames <= n
  BY <1>1, <1>6, FramesInFit
<1> DEFINE filled == Bytes(First(rxQueue, o.frames))
           bytes  == FrameSize * o.frames
<1>8. bytes \in Nat /\ (o.frames = 0 => bytes = 0)
  BY <1>1, <1>6, FrameSizeAssumption
<1>9. filled \in Seq(Nat) /\ Len(filled) = bytes
  <2>1. o.frames \in Nat /\ 0 <= o.frames /\ o.frames <= Len(rxQueue)
    BY <1>1, <1>6
  <2>2. First(rxQueue, o.frames) \in Seq(Nat \ {0})
    BY <1>1, <2>1, CutType
  <2>3. Len(First(rxQueue, o.frames)) = o.frames
    BY <1>1, <2>1 DEF First
  <2>4. Bytes(First(rxQueue, o.frames)) \in Seq(Nat \ {0})
    BY <2>2, BytesType
  <2> QED
    BY <2>1, <2>3, <2>4, BytesLength, SeqMonotonic
<1> HIDE DEF filled, bytes
<1>10. CASE o.error = "none"
  <2>1. buffer' = buffer \o filled
    BY <1>4, <1>10 DEF ReadSucceeds, filled
  <2>2. Len(buffer') = have + bytes
    BY <1>1, <1>9, <2>1, ConcatProperties
  <2> QED
    BY <1>1, <1>2, <1>7, <1>8, <2>2 DEF bytes
<1>11. CASE o.error # "none"
  <2> DEFINE garbage == [i \in 1 .. n - Len(filled) |-> Garbage]
  <2>1. buffer' = (buffer \o filled) \o garbage
    BY <1>4, <1>11 DEF ReadFails, filled, n
  <2>2. n - Len(filled) \in Int
    BY <1>1, <1>8, <1>9
  <2>3. garbage \in Seq(Nat) /\ Len(garbage) = IF n - bytes >= 0 THEN n - bytes ELSE 0
    <3> DEFINE m == n - Len(filled)
    <3>1. m \in Int /\ m = n - bytes
      BY <1>9, <2>2
    <3> HIDE DEF m
    <3>2. [i \in 1 .. m |-> Garbage] \in Seq(Nat)
          /\ Len([i \in 1 .. m |-> Garbage]) = IF m >= 0 THEN m ELSE 0
      BY <3>1, GarbageType, GarbageLength
    <3> QED
      BY <3>1, <3>2 DEF m
  <2> HIDE DEF garbage
  <2>4. Len(buffer') = (have + bytes) + Len(garbage)
    <3>1. buffer \o filled \in Seq(Nat) /\ Len(buffer \o filled) = have + bytes
      BY <1>1, <1>9, ConcatProperties
    <3> DEFINE s == buffer \o filled
    <3> HIDE DEF s
    <3>2. s \in Seq(Nat) /\ Len(s) = have + bytes /\ buffer' = s \o garbage
      BY <2>1, <3>1 DEF s
    <3> QED
      BY <2>3, <3>2, ConcatProperties
  <2>5. n >= 0
    BY <1>1, <1>6, <1>11, FrameSizeAssumption DEF FramesIn
  <2>6. bytes <= n
    BY <1>1, <1>7, <1>8, <2>5 DEF bytes
  <2> QED
    BY <1>1, <1>2, <1>8, <2>3, <2>4, <2>5, <2>6
<1> QED
  BY <1>10, <1>11

NoLonger == Len(buffer') <= Len(buffer)

(* What is left of the buffer when part of it is removed is no longer *)
LEMMA CutLength ==
    ASSUME NEW s \in Seq(Nat), NEW n \in Int
    PROVE  /\ n \in 0 .. Len(s) => Len(Drop(s, n)) <= Len(s)
           /\ Len(Chop(s, n)) <= Len(s)
<1>1. Len(s) \in Nat
  OBVIOUS
<1>2. ASSUME n \in 0 .. Len(s) PROVE Len(Drop(s, n)) <= Len(s)
  BY <1>1, <1>2 DEF Drop
<1>3. CASE n <= 0
  BY <1>1, <1>2, <1>3 DEF Chop
<1>4. CASE n > 0 /\ n >= Len(s)
  <2>1. Chop(s, n) = <<>>
    BY <1>4 DEF Chop
  <2> QED
    BY <1>1, <1>2, <2>1, EmptySeq
<1>5. CASE n > 0 /\ n < Len(s)
  <2>1. Len(First(s, Len(s) - n)) = Len(s) - n
    BY <1>1, <1>5 DEF First
  <2>2. Chop(s, n) = First(s, Len(s) - n)
    BY <1>5 DEF Chop
  <2> QED
    BY <1>1, <1>2, <1>5, <2>1, <2>2
<1> QED
  BY <1>1, <1>3, <1>4, <1>5

(* close() and the write side leave the read buffer alone *)
LEMMA OthersLeaveBuffer ==
    ASSUME NEW rest
    PROVE  /\ CloseFrom(rest) \/ Disconnect(rest) \/ FinishDisconnect(rest) => buffer' = buffer
           /\ CompleteAsyncWrite(rest) => buffer' = buffer
           /\ FinishWrite(0, rest) => buffer' = buffer
BY DEF CloseFrom, Disconnect, FinishDisconnect, CompleteAsyncWrite, FinishWrite, reading

LEMMA OnlyReadsGrow ==
    ASSUME TypeOK, Next
    PROVE  NoLonger \/ \E rest : ReadNotification(rest)
<1>1. buffer \in Seq(Nat) /\ Len(buffer) \in Nat
  BY DEF TypeOK
<1>2. buffer' = buffer => NoLonger
  BY <1>1 DEF NoLonger
<1>3. ASSUME NEW n \in 0 .. Len(buffer), buffer' = Drop(buffer, n) PROVE NoLonger
  BY <1>1, <1>3, CutLength DEF NoLonger
<1>4. CASE Connecting
  <2>1. ASSUME NEW mode \in OpenModes, ConnectStarts(mode) PROVE NoLonger
    BY <1>1, <1>2, <2>1, EmptySeq DEF ConnectStarts, NoLonger, reading
  <2>2. ConnectRefused \/ ConnectNoSocket => buffer' = buffer
    BY DEF ConnectRefused, ConnectNoSocket, reading
  <2>3. ASSUME NEW fd \in Fds \ openFds, ConnectFails(fd) \/ ConnectSucceeds(fd)
        PROVE  buffer' = buffer
    BY <2>3 DEF ConnectFails, ConnectSucceeds
  <2>4. AfterConnectError => buffer' = buffer
    BY OthersLeaveBuffer DEF AfterConnectError
  <2> QED
    BY <1>2, <1>4, <2>1, <2>2, <2>3, <2>4 DEF Connecting
<1>5. CASE Closing
  BY <1>2, <1>5, OthersLeaveBuffer DEF Closing, Close, AfterClosing, AfterCloseError
<1>6. CASE Reading
  <2>1. FrameArrives \/ AfterReadyRead => buffer' = buffer
    BY DEF FrameArrives, AfterReadyRead
  <2>2. \A size \in BufferSizes : SetReadBufferSize(size) => buffer' = buffer
    BY DEF SetReadBufferSize
  <2>3. AfterReadError => NoLonger
    <3> SUFFICES ASSUME AfterReadError PROVE NoLonger
      OBVIOUS
    <3>1. Head(stack).chop \in Int
      <4>1. stack \in Seq(Record) /\ stack # <<>>
        BY DEF AfterReadError, Top, TypeOK
      <4>2. Head(stack) \in Record
        BY <4>1
      <4> QED
        BY <4>2 DEF Record
    <3> QED
      BY <1>1, <3>1, CutLength DEF AfterReadError, NoLonger
  <2>4. ReadFrame => NoLonger
    <3> DEFINE n == IF Len(buffer) < FrameSize THEN Len(buffer) ELSE FrameSize
    <3>1. n \in 0 .. Len(buffer)
      BY <1>1, FrameSizeAssumption
    <3>2. ReadFrame => buffer' = Drop(buffer, n)
      BY DEF ReadFrame, Read
    <3> HIDE DEF n
    <3> QED
      BY <1>3, <3>1, <3>2
  <2>5. ReadAll => NoLonger
    <3>1. Len(buffer) \in 0 .. Len(buffer)
      BY <1>1
    <3> QED
      BY <1>3, <3>1 DEF ReadAll, Read
  <2> QED
    BY <1>2, <1>6, <2>1, <2>2, <2>3, <2>4, <2>5 DEF Reading, ReadNotifierEvent
<1>7. CASE Writing
  <2>1. WriteNotifierEvent \/ AfterBytesWritten \/ AfterWriteError \/ Flush => buffer' = buffer
    BY OthersLeaveBuffer
    DEF WriteNotifierEvent, AfterBytesWritten, AfterWriteError, Flush, reading
  <2>2. WriteFrame \/ WriteInvalid => buffer' = buffer
    BY DEF WriteFrame, WriteInvalid, Write, reading
  <2> QED
    BY <1>2, <1>7, <2>1, <2>2 DEF Writing
<1>8. CASE Waiting
  <2>1. ASSUME NEW forever \in Forever, WaitForReadyRead(forever) \/ WaitForBytesWritten(forever)
        PROVE  buffer' = buffer
    BY <2>1 DEF WaitForReadyRead, WaitForBytesWritten, Wait, reading
  <2>2. ASSUME NEW readable \in BOOLEAN, NEW writable \in BOOLEAN, SelectReady(readable, writable)
        PROVE  buffer' = buffer \/ \E rest : ReadNotification(rest)
    BY <2>2, OthersLeaveBuffer DEF SelectReady
  <2>3. SelectFails \/ WaitLoop => buffer' = buffer
    BY DEF SelectFails, WaitLoop, reading
  <2>4. WaitAfterRead => buffer' = buffer
    BY OthersLeaveBuffer DEF WaitAfterRead, reading
  <2> QED
    BY <1>2, <1>8, <2>1, <2>2, <2>3, <2>4 DEF Waiting
<1>9. CASE ClearError \/ SlotReturns
  BY <1>2, <1>9 DEF ClearError, SlotReturns, reading
<1> QED
  BY <1>4, <1>5, <1>6, <1>7, <1>8, <1>9 DEF Next

(* No step of any application, bus or failing system call takes the read   *)
(* buffer from below to above the limit in force (readNotification()).     *)
THEOREM ReadLimitKept == Spec => ReadLimitRespected
<1>1. TypeOK /\ TypeOK' /\ [Next]_vars =>
        [readBufferMaxSize # 0 /\ Len(buffer') > Len(buffer)
            => Len(buffer') <= readBufferMaxSize]_vars
  <2> SUFFICES ASSUME TypeOK, TypeOK', Next, readBufferMaxSize # 0, Len(buffer') > Len(buffer)
               PROVE  Len(buffer') <= readBufferMaxSize
    BY DEF vars
  <2>1. Len(buffer) \in Nat /\ Len(buffer') \in Nat
    BY DEF TypeOK
  <2>2. ~NoLonger
    BY <2>1 DEF NoLonger
  <2> QED
    BY <2>2, OnlyReadsGrow, ReadNotificationLimit
<1> QED
  BY <1>1, TypeCorrect, PTL DEF Spec, ReadLimitRespected
=============================================================================
