---------------------------- MODULE CanRawLoops ----------------------------
(***************************************************************************)
(* The loops of CanRawSocketPrivate::readFromSocket and writeToSocket,     *)
(* iteration by iteration, and the claim that they end in the outcomes     *)
(* CanRawIO gives in closed form.  ("f[n]" is what the loop, entered with  *)
(* n frames moved, may return.)                                            *)
(***************************************************************************)
EXTENDS CanRawIO

(* while (readBytes <= maxSize - frameSize) { read(); ... }                *)
ReadLoop(queue, open, maxSize, errors) ==
    LET returns(n, error) == [frames |-> n, error |-> error]
        f[n \in 0 .. Len(queue)] ==
            IF FrameSize * n > maxSize - FrameSize THEN {returns(n, "none")}
            ELSE IF ~open THEN {returns(n, "other")}
            ELSE {returns(n, e) : e \in errors}
                 \cup (IF n = Len(queue) THEN {returns(n, "none")} ELSE f[n + 1])
    IN  f[0]

(* forever { leave when less than a frame is left; check the mark; write() } *)
WriteLoop(frames, open, errors) ==
    LET returns(n, ok) == [frames |-> n, ok |-> ok]
        f[n \in 0 .. Len(frames)] ==
            IF n = Len(frames) THEN {returns(n, TRUE)}
            ELSE IF ~frames[n + 1].valid THEN {returns(n, FALSE)}
            ELSE (IF open THEN {returns(n, TRUE)} \cup f[n + 1] ELSE {})
                 \cup (IF ~open \/ errors # {} THEN {returns(n, FALSE)} ELSE {})
    IN  f[0]

(* Over bounded queues, sizes (negative ones too: the limit may be lowered *)
(* below what is buffered) and errors.                                     *)
LoopsEndInOutcomes(maxFrames, sizes, errors) ==
    /\ \A n \in 0 .. maxFrames, open \in BOOLEAN, size \in sizes, e \in SUBSET errors :
        LET queue == [i \in 1 .. n |-> i]
        IN  ReadLoop(queue, open, size, e) = ReadOutcomes(queue, open, size, e)
    /\ \A n \in 0 .. maxFrames, open \in BOOLEAN, e \in SUBSET errors :
        \A marks \in [1 .. n -> BOOLEAN] :
        LET frames == [i \in 1 .. n |-> [id |-> i, valid |-> marks[i]]]
        IN  WriteLoop(frames, open, e) = WriteOutcomes(frames, open, e)
=============================================================================
