---------------------------- MODULE CanFrameProofs ----------------------------
(***************************************************************************)
(* Theorems about CanFrame, for any lengths (8 and 64 in the program), any *)
(* payload and any number of frames on the stream.                         *)
(***************************************************************************)
EXTENDS CanFrame, SequenceTheorems, TLAPS

(* What a frame on the stream satisfies, and one that is not an FD frame   *)
(* wherever it is                                                          *)
Sized(f)     == MarkedLength(f) = Len(f.data)
Unflagged(f) == f.res1 # FdMtu => f.flags = 0

(* The inductive invariant: FlagsOnlyOnFd speaks of the valid frame d, but *)
(* setId() and reading turn frames of no type, and frames of the stream,   *)
(* into valid ones, so the flags have to be right in those, too.           *)
IInv ==
    /\ TypeOK
    /\ Aligned
    /\ Unflagged(d)
    /\ \A i \in 1 .. Len(stream) : Unflagged(stream[i])

-----------------------------------------------------------------------------
(* The numbers involved *)
LEMMA Numbers ==
    /\ MaxDlen \in Nat /\ MaxFdDlen \in Nat /\ 0 < MaxDlen /\ MaxDlen < MaxFdDlen
    /\ Mtu \in Nat /\ FdMtu \in Nat /\ Mtu # FdMtu /\ Mtu # 0 /\ FdMtu # 0
BY FrameAssumption

(* At most one of the four tests of frameType() holds of a frame           *)
LEMMA FrameTypeOf ==
    ASSUME NEW f
    PROVE  /\ IsDataFrame(f) => FrameType(f) = "data"
           /\ IsFdFrame(f) => FrameType(f) = "fd"
           /\ IsErrorFrame(f) => FrameType(f) = "error"
           /\ IsRtrFrame(f) => FrameType(f) = "rtr"
           /\ ~IsDataFrame(f) /\ ~IsFdFrame(f) /\ ~IsErrorFrame(f) /\ ~IsRtrFrame(f)
                  => FrameType(f) = "unknown"
<1>1. /\ IsDataFrame(f) => ~IsFdFrame(f) /\ ~IsErrorFrame(f) /\ ~IsRtrFrame(f)
      /\ IsFdFrame(f) => ~IsErrorFrame(f) /\ ~IsRtrFrame(f)
      /\ IsErrorFrame(f) => ~IsRtrFrame(f)
  BY Numbers DEF IsDataFrame, IsFdFrame, IsErrorFrame, IsRtrFrame, Marked
<1> QED
  BY <1>1, Zenon DEF FrameType

(* A frame that operator<< writes is sized by its mark (isValid())         *)
LEMMA ValidSized ==
    ASSUME NEW f, IsValid(f)
    PROVE  Sized(f)
<1>1. \/ f.res0 = MaxDlen /\ f.res1 = Mtu /\ Len(f.data) = MaxDlen
      \/ f.res0 = MaxFdDlen /\ f.res1 = FdMtu /\ Len(f.data) = MaxFdDlen
  BY DEF IsValid, FrameType, IsDataFrame, IsFdFrame, IsErrorFrame, IsRtrFrame, Marked
<1> QED
  BY <1>1, Numbers DEF Sized, MarkedLength

(* QVector::resize() and the vectors that the conversions build            *)
LEMMA ResizedType ==
    ASSUME NEW s \in Seq(Bytes), NEW n \in Nat
    PROVE  Resized(s, n) \in Seq(Bytes) /\ Len(Resized(s, n)) = n
<1>1. \A i \in 1 .. n : (IF i <= Len(s) THEN s[i] ELSE Nul) \in Bytes
  BY ElementOfSeq DEF Bytes
<1> QED
  BY <1>1 DEF Resized

(* The frame of clear() and of a stream that has ended *)
LEMMA ClearedType == Cleared \in Frame /\ Unflagged(Cleared)
<1>1. <<>> \in Seq(Bytes)
  OBVIOUS
<1> QED
  BY <1>1, Numbers, FrameAssumption DEF Cleared, Frame, Unflagged

(* What a conversion may change of a frame, field by field                 *)
Reshaped(f, dlen, flags, res0, res1, data, rtr, err) ==
    [f EXCEPT !.dlen = dlen, !.flags = flags, !.res0 = res0, !.res1 = res1, !.data = data,
              !.rtr = rtr, !.err = err]

(* Each conversion makes a frame of its own type, whatever it is given.  A *)
(* frame with both flags is the exception of the first two.                *)
LEMMA ConvertedType ==
    ASSUME NEW f \in Frame, NEW type \in Types
    PROVE  /\ Converted(f, type) \in Frame
           /\ ~(f.err /\ f.rtr /\ type \in {"data", "fd"})
                  => FrameType(Converted(f, type)) = type
           /\ Unflagged(Converted(f, type))
<1> DEFINE g     == Converted(f, type)
           both  == f.err /\ f.rtr
           short == Resized(f.data, MaxDlen)
           long  == Resized(f.data, MaxFdDlen)
           zeros == [i \in 1 .. MaxDlen |-> Zero]
           yes   == TRUE
           no    == FALSE
<1>1. f.data \in Seq(Bytes) /\ f.dlen \in 0 .. MaxFdDlen /\ f.flags \in FdFlags \cup {0}
  BY DEF Frame
<1>2. /\ short \in Seq(Bytes) /\ Len(short) = MaxDlen
      /\ long \in Seq(Bytes) /\ Len(long) = MaxFdDlen
  BY <1>1, Numbers, ResizedType
<1>3. zeros \in Seq(Bytes) /\ Len(zeros) = MaxDlen
  BY Numbers DEF Bytes
<1>4. /\ both \in BOOLEAN /\ (both <=> f.err /\ f.rtr)
      /\ yes \in BOOLEAN /\ yes /\ no \in BOOLEAN /\ ~no
  OBVIOUS
<1>n. /\ 0 \in FdFlags \cup {0} /\ 0 \in 0 .. MaxFdDlen /\ MaxDlen \in 0 .. MaxFdDlen
      /\ {MaxDlen, MaxFdDlen} \subseteq {0, MaxDlen, MaxFdDlen}
      /\ {Mtu, FdMtu} \subseteq {0, Mtu, FdMtu}
  BY Numbers
<1>5. CASE type = "data"
  <2> DEFINE dlen == AtMost(f.dlen, MaxDlen)
  <2>1. dlen \in 0 .. MaxDlen /\ dlen \in 0 .. MaxFdDlen
    BY <1>1, Numbers DEF AtMost
  <2>2. g = Reshaped(f, dlen, 0, MaxDlen, Mtu, short, no, both)
    BY <1>5 DEF Converted, ToDataFrame, Reshaped, Frame
  <2> HIDE DEF g, dlen, short, both, yes, no
  <2>3. /\ g \in Frame /\ g.dlen = dlen /\ g.flags = 0 /\ g.res0 = MaxDlen /\ g.res1 = Mtu
        /\ g.data = short /\ g.rtr = no /\ g.err = both
    BY <1>2, <1>4, <1>n, <2>1, <2>2, Numbers DEF Reshaped, Frame
  <2>4. ~both => IsDataFrame(g)
    BY <1>2, <1>4, <2>1, <2>3, Numbers DEF IsDataFrame, Marked
  <2>5. ~both => FrameType(g) = type
    BY <1>5, <2>4, FrameTypeOf
  <2>6. Unflagged(g)
    BY <2>3 DEF Unflagged
  <2>7. type \in {"data", "fd"}
    BY <1>5
  <2> QED
    BY <1>4, <2>3, <2>5, <2>6, <2>7, Zenon DEF g
<1>6. CASE type = "fd"
  <2> DEFINE dlen == AtMost(f.dlen, MaxFdDlen)
  <2>1. dlen \in 0 .. MaxFdDlen
    BY <1>1, Numbers DEF AtMost
  <2>2. g = Reshaped(f, dlen, f.flags, MaxFdDlen, FdMtu, long, no, both)
    BY <1>6 DEF Converted, ToFdFrame, Reshaped, Frame
  <2> HIDE DEF g, dlen, long, both, yes, no
  <2>3. /\ g \in Frame /\ g.dlen = dlen /\ g.res0 = MaxFdDlen /\ g.res1 = FdMtu
        /\ g.data = long /\ g.rtr = no /\ g.err = both
    BY <1>1, <1>2, <1>4, <1>n, <2>1, <2>2, Numbers DEF Reshaped, Frame
  <2>4. ~both => IsFdFrame(g)
    BY <1>2, <1>4, <2>1, <2>3, Numbers DEF IsFdFrame, Marked
  <2>5. ~both => FrameType(g) = type
    BY <1>6, <2>4, FrameTypeOf
  <2>6. Unflagged(g)
    BY <2>3 DEF Unflagged
  <2>7. type \in {"data", "fd"}
    BY <1>6
  <2> QED
    BY <1>4, <2>3, <2>5, <2>6, <2>7, Zenon DEF g
<1>7. CASE type = "error"
  <2>1. g = Reshaped(f, MaxDlen, 0, MaxDlen, Mtu, short, no, yes)
    BY <1>7 DEF Converted, ToErrorFrame, Reshaped, Frame
  <2> HIDE DEF g, short, yes, no
  <2>3. /\ g \in Frame /\ g.dlen = MaxDlen /\ g.flags = 0 /\ g.res0 = MaxDlen /\ g.res1 = Mtu
        /\ g.data = short /\ g.rtr = no /\ g.err = yes
    BY <1>2, <1>4, <1>n, <2>1, Numbers DEF Reshaped, Frame
  <2>4. IsErrorFrame(g)
    BY <1>2, <1>4, <2>3, Numbers DEF IsErrorFrame, Marked
  <2>5. FrameType(g) = type /\ Unflagged(g)
    BY <1>7, <2>3, <2>4, FrameTypeOf DEF Unflagged
  <2> QED
    BY <2>3, <2>5 DEF g
<1>8. CASE type = "rtr"
  <2>1. g = Reshaped(f, 0, 0, MaxDlen, Mtu, zeros, yes, no)
    BY <1>8 DEF Converted, ToRtrFrame, Reshaped, Frame
  <2> HIDE DEF g, zeros, yes, no
  <2>3. /\ g \in Frame /\ g.dlen = 0 /\ g.flags = 0 /\ g.res0 = MaxDlen /\ g.res1 = Mtu
        /\ g.data = zeros /\ g.rtr = yes /\ g.err = no
    BY <1>3, <1>4, <1>n, <2>1, Numbers DEF Reshaped, Frame
  <2>4. IsRtrFrame(g)
    BY <1>3, <1>4, <2>3, Numbers DEF IsRtrFrame, Marked
  <2>5. FrameType(g) = type /\ Unflagged(g)
    BY <1>8, <2>3, <2>4, FrameTypeOf DEF Unflagged
  <2> QED
    BY <2>3, <2>5 DEF g
<1>9. CASE type = "unknown"
  <2>1. g = Cleared
    BY <1>9 DEF Converted
  <2> HIDE DEF g
  <2>2. ~IsRtrFrame(g) /\ ~IsErrorFrame(g) /\ ~IsFdFrame(g) /\ ~IsDataFrame(g)
    BY <2>1, Numbers DEF Cleared, IsRtrFrame, IsErrorFrame, IsFdFrame, IsDataFrame, Marked
  <2>3. FrameType(g) = type
    BY <1>9, <2>2, FrameTypeOf
  <2> QED
    BY <2>1, <2>3, ClearedType DEF g
<1> QED
  BY <1>5, <1>6, <1>7, <1>8, <1>9 DEF Types

(* The setters that change one field keep the frame, its type and its mark *)
LEMMA SetterType ==
    ASSUME d \in Frame,
           \/ \E id \in CanIds : SetCanId(id)
           \/ \E extended \in BOOLEAN : SetFrameFormat(extended)
           \/ \E bytes \in Int : SetDataLength(bytes)
           \/ \E flags \in FdFlags : SetFdFrameFlags(flags)
           \/ \E byte \in Payload, len \in Int : SetData(byte, len)
    PROVE  /\ d' \in Frame /\ stream' = stream /\ FrameType(d') = FrameType(d)
           /\ Unflagged(d) => Unflagged(d')
<1> USE DEF FrameType, IsDataFrame, IsFdFrame, IsErrorFrame, IsRtrFrame, Marked, Unflagged
<1>1. CASE \E id \in CanIds : SetCanId(id)
  BY <1>1 DEF SetCanId, Frame
<1>2. CASE \E extended \in BOOLEAN : SetFrameFormat(extended)
  BY <1>2 DEF SetFrameFormat, Frame
<1>3. CASE \E bytes \in Int : SetDataLength(bytes)
  <2>1. PICK bytes \in Int : SetDataLength(bytes)
    BY <1>3
  <2>2. /\ d' = [d EXCEPT !.dlen = bytes] /\ stream' = stream
        /\ \/ IsDataFrame(d) /\ bytes \in 0 .. MaxDlen
           \/ IsFdFrame(d) /\ ~IsDataFrame(d) /\ bytes \in 0 .. MaxFdDlen
    BY <2>1 DEF SetDataLength, MaxDataLength
  <2>3. bytes \in 0 .. MaxFdDlen
    BY <2>2, Numbers
  <2>4. d' \in Frame
    BY <2>2, <2>3 DEF Frame
  <2>5. /\ d'.res0 = d.res0 /\ d'.res1 = d.res1 /\ d'.data = d.data /\ d'.flags = d.flags
        /\ d'.err = d.err /\ d'.rtr = d.rtr /\ d'.dlen = bytes
    BY <2>2 DEF Frame
  <2>6. CASE IsDataFrame(d)
    <3>1. bytes <= MaxDlen
      BY <2>2, <2>6, Numbers
    <3> QED
      BY <2>2, <2>4, <2>5, <2>6, <3>1
  <2>7. CASE ~IsDataFrame(d)
    <3>1. IsFdFrame(d) /\ bytes <= MaxFdDlen
      BY <2>2, <2>7, Numbers
    <3>2. ~IsDataFrame(d')
      BY <2>5, <3>1, Numbers
    <3> QED
      BY <2>2, <2>4, <2>5, <2>7, <3>1, <3>2
  <2> QED
    BY <2>6, <2>7
<1>4. CASE \E flags \in FdFlags : SetFdFrameFlags(flags)
  <2>1. PICK flags \in FdFlags : SetFdFrameFlags(flags)
    BY <1>4
  <2>2. d' = [d EXCEPT !.flags = flags] /\ stream' = stream /\ FrameType(d) = "fd"
    BY <2>1 DEF SetFdFrameFlags
  <2>3. d.res1 = FdMtu
    BY <2>2
  <2> QED
    BY <2>2, <2>3 DEF Frame
<1>5. CASE \E byte \in Payload, len \in Int : SetData(byte, len)
  <2>1. PICK byte \in Payload, len \in Int : SetData(byte, len)
    BY <1>5
  <2> DEFINE max  == MaxDataLength(d)
             n    == IF len = -1 \/ len > max THEN max ELSE len
             data == [i \in 1 .. Len(d.data) |-> IF i <= n THEN byte ELSE d.data[i]]
  <2>2. d' = [d EXCEPT !.data = data] /\ stream' = stream
    BY <2>1 DEF SetData
  <2>3. d.data \in Seq(Bytes) /\ Len(d.data) \in Nat
    BY DEF Frame
  <2>4. \A i \in 1 .. Len(d.data) : (IF i <= n THEN byte ELSE d.data[i]) \in Bytes
    BY <2>3, ElementOfSeq DEF Bytes
  <2> HIDE DEF n
  <2>5. data \in Seq(Bytes) /\ Len(data) = Len(d.data)
    BY <2>3, <2>4
  <2> HIDE DEF data
  <2> QED
    BY <2>2, <2>5 DEF Frame
<1> QED
  BY <1>1, <1>2, <1>3, <1>4, <1>5

(* What readFromSocket() makes of a frame of the bus is marked and sized   *)
LEMMA ReceivedType ==
    ASSUME NEW f \in Received
    PROVE  f \in Frame /\ Sized(f) /\ Unflagged(f)
<1>1. /\ f.canId \in CanIds /\ f.err \in BOOLEAN /\ f.rtr \in BOOLEAN /\ f.eff \in BOOLEAN
      /\ f.dlen \in 0 .. MaxDlen /\ f.flags = 0 /\ f.res0 = MaxDlen /\ f.res1 = Mtu
      /\ f.data \in [1 .. MaxDlen -> Payload \cup {Nul}]
      /\ f \in [canId : CanIds, err : BOOLEAN, rtr : BOOLEAN, eff : BOOLEAN,
                dlen : 0 .. MaxDlen, flags : {0}, res0 : {MaxDlen}, res1 : {Mtu},
                data : [1 .. MaxDlen -> Payload \cup {Nul}]]
  BY DEF Received
<1>2. f.data \in Seq(Bytes) /\ Len(f.data) = MaxDlen
  BY <1>1, Numbers DEF Bytes
<1>3. f.dlen \in 0 .. MaxFdDlen
  BY <1>1, Numbers
<1>4. f \in Frame
  BY <1>1, <1>2, <1>3 DEF Frame
<1>5. Sized(f) /\ Unflagged(f)
  BY <1>1, <1>2 DEF Sized, Unflagged, MarkedLength
<1> QED
  BY <1>4, <1>5

(* A stream that grows at its end, or shrinks at its front, keeps what     *)
(* holds of each of its frames                                             *)
LEMMA StreamGrows ==
    ASSUME IInv, NEW f \in Frame, Sized(f), Unflagged(f), stream' = Append(stream, f), d' = d
    PROVE  IInv'
<1>1. /\ stream' \in Seq(Frame) /\ Len(stream') = Len(stream) + 1 /\ Len(stream) \in Nat
      /\ \A i \in 1 .. Len(stream) : stream'[i] = stream[i]
      /\ stream'[Len(stream) + 1] = f
  BY AppendProperties DEF IInv, TypeOK
<1>2. \A i \in 1 .. Len(stream') : i \in 1 .. Len(stream) \/ i = Len(stream) + 1
  BY <1>1
<1>3. \A i \in 1 .. Len(stream') : Sized(stream'[i]) /\ Unflagged(stream'[i])
  BY <1>1, <1>2 DEF IInv, Aligned, Sized
<1> QED
  BY <1>1, <1>3 DEF IInv, TypeOK, Aligned, Sized, Unflagged

LEMMA StreamShrinks ==
    ASSUME IInv, stream # <<>>, stream' = Tail(stream)
    PROVE  /\ Head(stream) \in Frame /\ Sized(Head(stream)) /\ Unflagged(Head(stream))
           /\ stream' \in Seq(Frame)
           /\ \A i \in 1 .. Len(stream') : Sized(stream'[i]) /\ Unflagged(stream'[i])
<1>1. /\ stream \in Seq(Frame) /\ Len(stream) \in Nat /\ Len(stream) >= 1
      /\ Head(stream) = stream[1]
  BY DEF IInv, TypeOK
<1>2. /\ stream' \in Seq(Frame) /\ Len(stream') = Len(stream) - 1
      /\ \A i \in 1 .. Len(stream') : stream'[i] = stream[i + 1]
  BY <1>1
<1>3. \A i \in 1 .. Len(stream) : Sized(stream[i]) /\ Unflagged(stream[i])
  BY DEF IInv, Aligned, Sized
<1> QED
  BY <1>1, <1>2, <1>3, ElementOfSeq

LEMMA AppendIsNoTail ==
    ASSUME NEW s \in Seq(Frame), s # <<>>, NEW f \in Frame
    PROVE  Tail(s) # Append(s, f)
<1> DEFINE longer == Len(Append(s, f))  shorter == Len(Tail(s))  n == Len(s)
<1>1. longer = n + 1 /\ n \in Nat
  BY AppendProperties
<1>2. shorter = n - 1
  OBVIOUS
<1>3. longer # shorter
  <2> HIDE DEF longer, shorter, n
  <2> QED
    BY <1>1, <1>2
<1> QED
  BY <1>3, Zenon

(* Reading takes exactly the bytes the frame was written with *)
LEMMA ReadGivesHead ==
    ASSUME IInv, Read
    PROVE  d' = Head(stream)
<1> DEFINE f == Head(stream)
<1>1. f \in Frame /\ Sized(f)
  BY StreamShrinks DEF Read
<1>2. d' = [f EXCEPT !.data = [i \in 1 .. MarkedLength(f) |-> f.data[i]]]
  BY DEF Read
<1>3. [i \in 1 .. MarkedLength(f) |-> f.data[i]] = f.data
  BY <1>1 DEF Frame, Sized
<1> QED
  BY <1>1, <1>2, <1>3 DEF Frame

-----------------------------------------------------------------------------
LEMMA InitIInv == Init => IInv
BY ClearedType, EmptySeq DEF Init, IInv, TypeOK, Aligned

LEMMA StepIInv == IInv /\ [Next]_vars => IInv'
<1> SUFFICES ASSUME IInv, [Next]_vars PROVE IInv'
  OBVIOUS
<1>1. ASSUME d' \in Frame, Unflagged(d'), stream' = stream
      PROVE  IInv'
  BY <1>1 DEF IInv, TypeOK, Aligned, Unflagged
<1>2. d \in Frame /\ Unflagged(d)
  BY DEF IInv, TypeOK
<1>3. CASE \E type \in Types : SetFrameType(type)
  BY <1>1, <1>2, <1>3, ConvertedType DEF SetFrameType
<1>4. CASE Clear \/ ReadPastEnd
  BY <1>1, <1>4, ClearedType DEF Clear, ReadPastEnd
<1>5. CASE AnySetId
  <2>1. PICK id \in CanIds : \E err, rtr, eff \in BOOLEAN : SetId(id, err, rtr, eff)
    BY <1>5 DEF AnySetId
  <2>2. d' \in Frame /\ stream' = stream /\ d'.res1 = d.res1 /\ d'.flags = d.flags
    BY <1>2, <2>1 DEF SetId, Frame
  <2> QED
    BY <1>1, <1>2, <2>2 DEF Unflagged
<1>6. CASE \/ \E id \in CanIds : SetCanId(id)
           \/ \E extended \in BOOLEAN : SetFrameFormat(extended)
           \/ \E bytes \in -1 .. MaxFdDlen + 1 : SetDataLength(bytes)
           \/ \E flags \in FdFlags : SetFdFrameFlags(flags)
           \/ \E byte \in Payload, len \in -1 .. MaxFdDlen + 1 : SetData(byte, len)
  BY <1>1, <1>2, <1>6, SetterType
<1>7. CASE Write
  BY <1>2, <1>7, ValidSized, StreamGrows DEF Write
<1>8. CASE \E f \in Received : Receive(f)
  <2>1. PICK f \in Received : Receive(f)
    BY <1>8
  <2> QED
    BY <2>1, ReceivedType, StreamGrows DEF Receive
<1>9. CASE Read
  <2>1. stream # <<>> /\ stream' = Tail(stream) /\ d' = Head(stream)
    BY <1>9, ReadGivesHead DEF Read
  <2> QED
    BY <2>1, StreamShrinks DEF IInv, TypeOK, Aligned, Sized, Unflagged
<1>10. CASE UNCHANGED vars
  BY <1>1, <1>2, <1>10 DEF vars
<1> QED
  BY <1>3, <1>4, <1>5, <1>6, <1>7, <1>8, <1>9, <1>10 DEF Next

(* Every field of the frame and of those on the stream keeps its range.    *)
THEOREM FrameTypes == Spec => []TypeOK
<1>1. IInv => TypeOK
  BY DEF IInv
<1> QED
  BY <1>1, InitIInv, StepIInv, PTL DEF Spec

(* The reader of a stream finds every frame boundary where the writer put  *)
(* it (operator<<, operator>>, readFromSocket()), for every length.        *)
THEOREM StreamAligned == Spec => []Aligned
<1>1. IInv => Aligned
  BY DEF IInv
<1> QED
  BY <1>1, InitIInv, StepIInv, PTL DEF Spec

(* No valid classic frame carries FD flags in its padding byte             *)
(* (setFrameType(), setFdFrameFlags(), operator>>).                        *)
THEOREM ClassicUnflagged == Spec => []FlagsOnlyOnFd
<1>1. IInv => FlagsOnlyOnFd
  <2> SUFFICES ASSUME IInv, FrameType(d) \in {"data", "error", "rtr"} PROVE d.flags = 0
    BY DEF FlagsOnlyOnFd
  <2>1. d.res1 = Mtu
    BY DEF FrameType, IsDataFrame, IsErrorFrame, IsRtrFrame, Marked
  <2> QED
    BY <2>1, Numbers DEF IInv, Unflagged
<1> QED
  BY <1>1, InitIInv, StepIInv, PTL DEF Spec

(* operator>> gives back the frame that was put on the stream.             *)
THEOREM StreamRoundTrip == Spec => RoundTrip
<1>1. IInv /\ [Next]_vars => [stream # <<>> /\ stream' = Tail(stream) => d' = Head(stream)]_vars
  <2> SUFFICES ASSUME IInv, Next, stream # <<>>, stream' = Tail(stream) PROVE d' = Head(stream)
    BY DEF vars
  <2>1. /\ stream \in Seq(Frame) /\ Len(stream) \in Nat
        /\ Len(stream') = Len(stream) - 1 /\ Len(stream) - 1 # Len(stream)
    BY DEF IInv, TypeOK
  <2>2. stream' # stream
    BY <2>1, Zenon
  <2>3. ASSUME NEW f \in Frame PROVE stream' # Append(stream, f)
    BY <2>1, AppendIsNoTail
  <2>4. ~Write
    BY <2>3 DEF Write, IInv, TypeOK
  <2>5. ASSUME NEW f \in Received PROVE ~Receive(f)
    BY <2>3, ReceivedType DEF Receive
  <2>6. Read
    BY <2>2, <2>4, <2>5
    DEF Next, SetFrameType, Clear, SetCanId, AnySetId, SetId, SetFrameFormat, SetDataLength,
        SetFdFrameFlags, SetData, ReadPastEnd
  <2> QED
    BY <2>6, ReadGivesHead
<1> QED
  BY <1>1, InitIInv, StepIInv, PTL DEF Spec, RoundTrip

(* Only a conversion, clear(), setId() and reading change what type a      *)
(* frame has: the other setters never turn it into another one.            *)
THEOREM SettersKeepType == Spec => TypeKept
<1> DEFINE Retyped == FrameType(d') # FrameType(d) =>
        Clear \/ AnySetId \/ Read \/ ReadPastEnd \/ \E type \in Types : SetFrameType(type)
<1>1. IInv /\ [Next]_vars => [Retyped]_vars
  <2> SUFFICES ASSUME IInv, Next PROVE Retyped
    BY DEF vars
  <2>1. d \in Frame
    BY DEF IInv, TypeOK
  <2>2. Write \/ (\E f \in Received : Receive(f)) => d' = d
    BY DEF Write, Receive
  <2> QED
    BY <2>1, <2>2, SetterType DEF Next
<1> QED
  BY <1>1, InitIInv, StepIInv, PTL DEF Spec, TypeKept

(* setFrameType(t) makes a frame of type t out of any frame, but for the   *)
(* one with both flags that becomes neither a data nor an FD frame.        *)
THEOREM ConversionsTake == Spec => ConversionTakes
<1>1. IInv /\ [Next]_vars =>
        [\A type \in Types :
            SetFrameType(type) /\ ~(d.err /\ d.rtr /\ type \in {"data", "fd"})
                => FrameType(d') = type]_vars
  BY ConvertedType DEF IInv, TypeOK, SetFrameType
<1> QED
  BY <1>1, InitIInv, StepIInv, PTL DEF Spec, ConversionTakes
=============================================================================
