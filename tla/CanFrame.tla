------------------------------ MODULE CanFrame ------------------------------
(***************************************************************************)
(* CanFrame (canframe.cpp, canframe_p.h): one value "d" that an            *)
(* application turns from one frame type into another, fills, and sends    *)
(* over a QDataStream.  The type of a frame is no member: it is deduced    *)
(* from the identifier's flags, the length, the size of the data and a     *)
(* mark in the two reserved bytes, so every setter has to keep them in     *)
(* step.  The reader of a stream sizes a frame by the same mark.           *)
(*                                                                         *)
(* "stream" is what has been written to the stream and not read yet: the   *)
(* application's frames, and those a raw socket received and marked        *)
(* (readFromSocket, canrawsocket.cpp).                                     *)
(***************************************************************************)
EXTENDS Integers, Sequences

CONSTANTS
    MaxDlen,        \* CAN_MAX_DLEN
    MaxFdDlen,      \* CANFD_MAX_DLEN
    Mtu,            \* CAN_MTU
    FdMtu,          \* CANFD_MTU
    CanIds,         \* identifiers without the flag bits
    Payload,        \* bytes the application puts into a frame
    FdFlags,        \* values of setFdFrameFlags()
    MaxStreamed     \* bound: frames on the stream

ASSUME FrameAssumption ==
    /\ MaxDlen \in Nat \ {0} /\ MaxFdDlen \in Nat /\ MaxDlen < MaxFdDlen
    /\ Mtu \in Nat \ {0} /\ FdMtu \in Nat \ {0, Mtu}
    /\ 0 \in CanIds
    /\ Payload \subseteq Nat /\ FdFlags \subseteq Nat
    /\ MaxStreamed \in Nat

VARIABLES d, stream

vars == <<d, stream>>

Types == {"data", "fd", "error", "rtr", "unknown"}
Nul   == 0      \* what QVector::resize() appends
Zero  == 48     \* the character '0'
Bytes == Payload \cup {Nul, Zero}

Frame == [canId : CanIds, err : BOOLEAN, rtr : BOOLEAN, eff : BOOLEAN, dlen : 0 .. MaxFdDlen,
          flags : FdFlags \cup {0}, res0 : {0, MaxDlen, MaxFdDlen}, res1 : {0, Mtu, FdMtu},
          data : Seq(Bytes)]

-----------------------------------------------------------------------------
(* The type of a frame *)

Marked(f, len, mtu) == f.res0 = len /\ f.res1 = mtu /\ Len(f.data) = len

IsDataFrame(f)  == f.dlen <= MaxDlen /\ Marked(f, MaxDlen, Mtu) /\ ~f.err /\ ~f.rtr
IsFdFrame(f)    == f.dlen <= MaxFdDlen /\ Marked(f, MaxFdDlen, FdMtu) /\ ~f.err /\ ~f.rtr
IsErrorFrame(f) == f.dlen = MaxDlen /\ Marked(f, MaxDlen, Mtu) /\ f.err /\ ~f.rtr
IsRtrFrame(f)   == f.dlen = 0 /\ Marked(f, MaxDlen, Mtu) /\ ~f.err /\ f.rtr

FrameType(f) ==
    CASE IsDataFrame(f)  -> "data"
      [] IsFdFrame(f)    -> "fd"
      [] IsErrorFrame(f) -> "error"
      [] IsRtrFrame(f)   -> "rtr"
      [] OTHER           -> "unknown"

IsValid(f) == FrameType(f) # "unknown"

MaxDataLength(f) ==
    [data |-> MaxDlen, fd |-> MaxFdDlen, error |-> MaxDlen, rtr |-> 0, unknown |-> -1]
        [FrameType(f)]

(* dataLengthFromResBytes(): -1 when there is no mark *)
MarkedLength(f) ==
    IF f.res0 = MaxDlen /\ f.res1 = Mtu THEN MaxDlen
    ELSE IF f.res0 = MaxFdDlen /\ f.res1 = FdMtu THEN MaxFdDlen
    ELSE -1

-----------------------------------------------------------------------------
(* Conversions *)

Cleared == [canId |-> 0, err |-> FALSE, rtr |-> FALSE, eff |-> FALSE, dlen |-> 0, flags |-> 0,
            res0 |-> 0, res1 |-> 0, data |-> <<>>]

Resized(s, n) == [i \in 1 .. n |-> IF i <= Len(s) THEN s[i] ELSE Nul]

AtMost(n, max) == IF n > max THEN max ELSE n

(* "if (rtrFlag()) clear it; else if (errFlag()) clear it": one of the two *)
ToDataFrame(f) ==
    [f EXCEPT !.dlen = AtMost(f.dlen, MaxDlen), !.flags = 0,
              !.res0 = MaxDlen, !.res1 = Mtu, !.data = Resized(f.data, MaxDlen),
              !.rtr = FALSE, !.err = f.err /\ f.rtr]

ToFdFrame(f) ==
    [f EXCEPT !.dlen = AtMost(f.dlen, MaxFdDlen),
              !.res0 = MaxFdDlen, !.res1 = FdMtu, !.data = Resized(f.data, MaxFdDlen),
              !.rtr = FALSE, !.err = f.err /\ f.rtr]

(* slip: the byte of the FD flags is not reset *)
ToErrorFrameFlagged(f) ==
    [f EXCEPT !.dlen = MaxDlen,
              !.res0 = MaxDlen, !.res1 = Mtu, !.data = Resized(f.data, MaxDlen),
              !.rtr = FALSE, !.err = TRUE]

ToErrorFrame(f) ==
    [f EXCEPT !.dlen = MaxDlen, !.flags = 0,
              !.res0 = MaxDlen, !.res1 = Mtu, !.data = Resized(f.data, MaxDlen),
              !.rtr = FALSE, !.err = TRUE]

(* slip: the error flag stays *)
ToRtrFrameErr(f) ==
    [f EXCEPT !.dlen = 0, !.flags = 0,
              !.res0 = MaxDlen, !.res1 = Mtu, !.data = [i \in 1 .. MaxDlen |-> Zero],
              !.rtr = TRUE]

ToRtrFrame(f) ==
    [f EXCEPT !.dlen = 0, !.flags = 0,
              !.res0 = MaxDlen, !.res1 = Mtu, !.data = [i \in 1 .. MaxDlen |-> Zero],
              !.rtr = TRUE, !.err = FALSE]

Converted(f, type) ==
    CASE type = "data"    -> ToDataFrame(f)
      [] type = "fd"      -> ToFdFrame(f)
      [] type = "error"   -> ToErrorFrame(f)
      [] type = "rtr"     -> ToRtrFrame(f)
      [] type = "unknown" -> Cleared

-----------------------------------------------------------------------------
(* Setters *)

SetFrameType(type) == d' = Converted(d, type) /\ UNCHANGED stream

Clear == d' = Cleared /\ UNCHANGED stream

SetCanId(id) == d' = [d EXCEPT !.canId = id] /\ UNCHANGED stream

SetId(id, err, rtr, eff) ==
    /\ d' = [d EXCEPT !.canId = id, !.err = err, !.rtr = rtr, !.eff = eff]
    /\ UNCHANGED stream

SetFrameFormat(extended) == d' = [d EXCEPT !.eff = extended] /\ UNCHANGED stream

(* slip: the lower bound is not checked *)
SetDataLengthNegative(bytes) ==
    /\ FrameType(d) \in {"data", "fd"}
    /\ bytes <= MaxDataLength(d)
    /\ d' = [d EXCEPT !.dlen = bytes]
    /\ UNCHANGED stream

(* slip: error and remote frames are not excepted *)
SetDataLengthOfAny(bytes) ==
    /\ IsValid(d)
    /\ bytes >= 0 /\ bytes <= MaxDlen
    /\ d' = [d EXCEPT !.dlen = bytes]
    /\ UNCHANGED stream

SetDataLength(bytes) ==
    /\ FrameType(d) \in {"data", "fd"}
    /\ bytes >= 0 /\ bytes <= MaxDataLength(d)
    /\ d' = [d EXCEPT !.dlen = bytes]
    /\ UNCHANGED stream

SetFdFrameFlags(flags) ==
    /\ FrameType(d) = "fd"
    /\ d' = [d EXCEPT !.flags = flags]
    /\ UNCHANGED stream

(* setData() of len bytes, all of them "byte"; -1 is "as many as fit"      *)
SetData(byte, len) ==
    LET max == MaxDataLength(d)
        n   == IF len = -1 \/ len > max THEN max ELSE len
    IN  /\ d' = [d EXCEPT !.data = [i \in 1 .. Len(d.data) |-> IF i <= n THEN byte ELSE d.data[i]]]
        /\ UNCHANGED stream

-----------------------------------------------------------------------------
(* The stream *)

(* slip: frames that are not valid are written too *)
WriteAny ==
    /\ Len(stream) < MaxStreamed
    /\ stream' = Append(stream, d)
    /\ UNCHANGED d

(* stream << frame: nothing at all for a frame that is not valid           *)
Write ==
    /\ IsValid(d)
    /\ Len(stream) < MaxStreamed
    /\ stream' = Append(stream, d)
    /\ UNCHANGED d

(* What readFromSocket() appends for a frame of the bus: the kernel checks *)
(* the length, an error frame is full, a remote frame may carry a length.  *)
Received ==
    {f \in [canId : CanIds, err : BOOLEAN, rtr : BOOLEAN, eff : BOOLEAN, dlen : 0 .. MaxDlen,
            flags : {0}, res0 : {MaxDlen}, res1 : {Mtu},
            data : [1 .. MaxDlen -> Payload \cup {Nul}]] :
        /\ ~(f.err /\ f.rtr)
        /\ f.err => f.dlen = MaxDlen
        /\ \A i \in 1 .. MaxDlen : i > f.dlen \/ f.rtr => f.data[i] = Nul}

Receive(f) ==
    /\ Len(stream) < MaxStreamed
    /\ stream' = Append(stream, f)
    /\ UNCHANGED d

(* slip: as many bytes are read as the length says *)
ReadLength ==
    /\ stream # <<>>
    /\ LET f == Head(stream)
       IN  d' = [f EXCEPT !.data = [i \in 1 .. f.dlen |-> f.data[i]]]
    /\ stream' = Tail(stream)

(* stream >> frame: the header, then as many bytes as the mark says.  (No  *)
(* frame without a mark is ever on the stream: invariant Aligned.)         *)
Read ==
    /\ stream # <<>>
    /\ LET f == Head(stream)
       IN  d' = [f EXCEPT !.data = [i \in 1 .. MarkedLength(f) |-> f.data[i]]]
    /\ stream' = Tail(stream)

(* stream >> frame past the end: every field reads as 0, the mark as -1,   *)
(* which is not 0, so a vector of -1 bytes is made.  A release build of Qt *)
(* makes an empty one; a debug build stops here.                           *)
ReadPastEnd ==
    /\ stream = <<>>
    /\ d' = Cleared
    /\ UNCHANGED stream

-----------------------------------------------------------------------------
Init == d = Cleared /\ stream = <<>>

AnySetId ==
    \E id \in CanIds : \E err, rtr, eff \in BOOLEAN : SetId(id, err, rtr, eff)

Next ==
    \/ \E type \in Types : SetFrameType(type)
    \/ Clear
    \/ \E id \in CanIds : SetCanId(id)
    \/ AnySetId
    \/ \E extended \in BOOLEAN : SetFrameFormat(extended)
    \/ \E bytes \in -1 .. MaxFdDlen + 1 : SetDataLength(bytes)
    \/ \E flags \in FdFlags : SetFdFrameFlags(flags)
    \/ \E byte \in Payload, len \in -1 .. MaxFdDlen + 1 : SetData(byte, len)
    \/ Write
    \/ \E f \in Received : Receive(f)
    \/ Read
    \/ ReadPastEnd

Spec == Init /\ [][Next]_vars

-----------------------------------------------------------------------------
(* Properties *)

(* Every field keeps its range; in particular no call takes the length     *)
(* above what any frame can carry, or below 0.                             *)
TypeOK ==
    /\ d \in Frame
    /\ stream \in Seq(Frame)

(* Whatever is on the stream, the reader finds the boundary between two    *)
(* frames where the writer put it: the mark gives the size of the data.    *)
Aligned == \A i \in 1 .. Len(stream) : MarkedLength(stream[i]) = Len(stream[i].data)

(* operator>> gives back the very frame that was put on the stream, flags, *)
(* padding and all, whatever d was before.                                 *)
RoundTrip ==
    [][stream # <<>> /\ stream' = Tail(stream) => d' = Head(stream)]_vars

(* Only setFrameType(), clear(), setId() and reading change what type a    *)
(* frame has: no other sequence of setters turns a valid frame into one    *)
(* that operator<< drops silently.                                         *)
TypeKept ==
    [][FrameType(d') # FrameType(d) =>
        Clear \/ AnySetId \/ Read \/ ReadPastEnd \/ \E type \in Types : SetFrameType(type)]_vars

(* setFrameType(t) makes a frame of type t out of any frame.  The          *)
(* exception is one with both the error and the remote flag (setId()): a   *)
(* conversion to a data or FD frame clears one of the flags only.          *)
ConversionTakes ==
    [][\A type \in Types :
        SetFrameType(type) /\ ~(d.err /\ d.rtr /\ type \in {"data", "fd"})
            => FrameType(d') = type]_vars

(* The flags of an FD frame do not survive in a classic frame: the byte is *)
(* padding there, and would travel with it.                                *)
FlagsOnlyOnFd == FrameType(d) \in {"data", "error", "rtr"} => d.flags = 0
=============================================================================
