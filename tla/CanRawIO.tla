------------------------------ MODULE CanRawIO ------------------------------
(***************************************************************************)
(* What one call of CanRawSocketPrivate::readFromSocket or writeToSocket   *)
(* (canrawsocket.cpp) can do, as a set of outcomes.  Both functions loop   *)
(* over a system call that moves exactly one CAN frame, and both may stop  *)
(* between two frames: a call that fails has already moved some frames.    *)
(* CanRawLoops has the loops iteration by iteration, and the check that    *)
(* they end in these outcomes.                                             *)
(***************************************************************************)
EXTENDS Integers, Sequences

CONSTANT FrameSize      \* CAN_MTU, the size of struct can_frame in bytes

ASSUME FrameSizeAssumption == FrameSize \in Nat \ {0}

(* A byte of a buffer is known by the frame it belongs to: the bytes of a  *)
(* sequence of frames are each frame's identity, FrameSize times.          *)
Bytes(frames) ==
    [i \in 1 .. FrameSize * Len(frames) |-> frames[((i - 1) \div FrameSize) + 1]]

First(s, n) == SubSeq(s, 1, n)
Drop(s, n)  == SubSeq(s, n + 1, Len(s))

(* QRingBuffer::chop: remove the last n bytes, all of them if n is larger  *)
Chop(s, n) == IF n <= 0 THEN s ELSE IF n >= Len(s) THEN <<>> ELSE First(s, Len(s) - n)

(* The number of whole frames that fit in n bytes *)
FramesIn(n) == IF n < FrameSize THEN 0 ELSE n \div FrameSize

-----------------------------------------------------------------------------
(* readFromSocket(data, maxSize): frames are read while one more fits into *)
(* maxSize.  EAGAIN ends the loop with what was read; any other error      *)
(* returns -1, however many frames the loop has taken from the kernel.     *)
(* "queue" is the receive queue of the descriptor, "open" whether there is *)
(* a descriptor, "errors" the read errors that may happen.                 *)
ReadOutcomes(queue, open, maxSize, errors) ==
    LET room == FramesIn(maxSize)
        all  == IF Len(queue) < room THEN Len(queue) ELSE room
    IN  IF open
        THEN {[frames |-> all, error |-> "none"]}
             \cup {o \in [frames : 0 .. Len(queue), error : errors] : o.frames < room}
        ELSE {[frames |-> 0, error |-> IF room > 0 THEN "other" ELSE "none"]}

(* writeToSocket(data, maxSize) on "frames", a sequence of [id, valid]:    *)
(* a frame is valid when its reserved bytes carry the CAN_MTU mark.  The   *)
(* loop ends well when every frame is written or when the transmit queue   *)
(* of the interface is full (ENOBUFS); an invalid frame or another error   *)
(* returns -1, and the frames before it have been sent.                    *)
WriteOutcomes(frames, open, errors) ==
    {o \in [frames : 0 .. Len(frames), ok : BOOLEAN] :
        LET done == o.frames = Len(frames)
            next == frames[o.frames + 1]
        IN  /\ \A i \in 1 .. o.frames : open /\ frames[i].valid
            /\ IF o.ok THEN done \/ (open /\ next.valid)
                       ELSE ~done /\ (next.valid => ~open \/ errors # {})}
=============================================================================
