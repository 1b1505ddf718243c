---------------------------- MODULE FrameChannel ----------------------------
(***************************************************************************)
(* What a connected CAN socket promises its application, with no notifier, *)
(* no signal and no call stack: two first-in first-out channels.  Frames   *)
(* written go to the wire in order; what arrives is delivered in order;    *)
(* nothing is passed on after the channel is shut.  "Faults" names what an *)
(* error of the interface may cost:                                        *)
(*   "resend"  frames already on the wire may be put there again,          *)
(*   "lose"    arrived units may be lost before they are delivered.        *)
(***************************************************************************)
EXTENDS Integers, Sequences

CONSTANTS
    Faults,         \* a subset of {"resend", "lose"}
    UnitsPerFrame   \* units (bytes) an arrived frame is delivered in, at least 1

VARIABLES up, submitted, outbox, wire, arrived, inbox, delivered

chVars == <<up, submitted, outbox, wire, arrived, inbox, delivered>>

Take(s, n) == SubSeq(s, 1, n)
Skip(s, n) == SubSeq(s, n + 1, Len(s))

Fresh ==
    /\ submitted = 0 /\ outbox = <<>> /\ wire = <<>>
    /\ arrived = 0 /\ inbox = <<>> /\ delivered = <<>>

ChInit == up = FALSE /\ Fresh

(* A new connection: everything of the former one is forgotten *)
Renew == ~up /\ up' = FALSE /\ Fresh'

(* A connection begins with nothing in the channels *)
Open ==
    /\ ~up /\ up' = TRUE /\ Fresh
    /\ UNCHANGED <<submitted, outbox, wire, arrived, inbox, delivered>>

(* What the kernel had queued, a suffix of what arrived, is gone *)
Shut ==
    /\ up /\ up' = FALSE
    /\ \E k \in 0 .. Len(inbox) : inbox' = Take(inbox, k)
    /\ UNCHANGED <<submitted, outbox, wire, arrived, delivered>>

Submit ==
    /\ up
    /\ submitted' = submitted + 1
    /\ outbox' = Append(outbox, submitted + 1)
    /\ UNCHANGED <<up, wire, arrived, inbox, delivered>>

Transmit ==
    /\ up
    /\ \E k \in 1 .. Len(outbox) :
        /\ wire' = wire \o Take(outbox, k)
        /\ outbox' = Skip(outbox, k)
    /\ UNCHANGED <<up, submitted, arrived, inbox, delivered>>

Retransmit ==
    /\ up /\ "resend" \in Faults
    /\ \E k \in 1 .. Len(outbox) : wire' = wire \o Take(outbox, k)
    /\ UNCHANGED <<up, submitted, outbox, arrived, inbox, delivered>>

Arrive ==
    /\ up
    /\ arrived' = arrived + 1
    /\ inbox' = inbox \o [i \in 1 .. UnitsPerFrame |-> arrived + 1]
    /\ UNCHANGED <<up, submitted, outbox, wire, delivered>>

Deliver ==
    /\ up
    /\ \E k \in 1 .. Len(inbox) :
        /\ delivered' = delivered \o Take(inbox, k)
        /\ inbox' = Skip(inbox, k)
    /\ UNCHANGED <<up, submitted, outbox, wire, arrived>>

Lose ==
    /\ up /\ "lose" \in Faults
    /\ \E i \in 0 .. Len(inbox) : \E j \in i .. Len(inbox) :
            inbox' = Take(inbox, i) \o Skip(inbox, j)
    /\ UNCHANGED <<up, submitted, outbox, wire, arrived, delivered>>

ChNext ==
    \/ Renew \/ Open \/ Shut
    \/ Submit \/ Transmit \/ Retransmit
    \/ Arrive \/ Deliver \/ Lose

ChSpec == ChInit /\ [][ChNext]_chVars

-----------------------------------------------------------------------------
(* What a user of the channels may rely on, *)

(* with any faults: no frame is on the wire before all earlier ones have   *)
(* been there, and all that have left the outbox have been;                *)
SentInOrder ==
    /\ \A i \in 1 .. Len(wire) :
        wire[i] \in 1 .. submitted /\ \A n \in 1 .. wire[i] : \E j \in 1 .. i : wire[j] = n
    /\ \A n \in 1 .. submitted - Len(outbox) : \E i \in 1 .. Len(wire) : wire[i] = n

(* no frame is delivered that did not arrive, none after a later one, and  *)
(* none twice (of those more than UnitsPerFrame apart one is later);       *)
ReceivedInOrder ==
    \A i, j \in 1 .. Len(delivered) :
        /\ delivered[i] \in 1 .. arrived
        /\ i <= j => delivered[i] <= delivered[j]
        /\ i + UnitsPerFrame <= j => delivered[i] < delivered[j]

(* unless frames are sent again: each is sent exactly once;                *)
SentOnce ==
    /\ Len(wire) + Len(outbox) = submitted
    /\ \A i \in 1 .. Len(wire) : wire[i] = i

(* unless units are lost: what is delivered is what arrived, unit by unit, *)
(* and all that has arrived on an open channel is delivered or waits.      *)
ReceivedOnce ==
    /\ \A i \in 1 .. Len(delivered) :
        i \in UnitsPerFrame * (delivered[i] - 1) + 1 .. UnitsPerFrame * delivered[i]
    /\ Len(delivered) <= UnitsPerFrame * arrived
    /\ up => Len(delivered) + Len(inbox) = UnitsPerFrame * arrived
=============================================================================
