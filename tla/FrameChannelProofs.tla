-------------------------- MODULE FrameChannelProofs --------------------------
(***************************************************************************)
(* What a user of FrameChannel may rely on, for any number of units in a   *)
(* frame and, each as far as it depends on them, any faults.               *)
(***************************************************************************)
EXTENDS FrameChannel, SequenceTheorems, TLAPS

-----------------------------------------------------------------------------
(* Sequences *)

LEMMA Joined ==
    ASSUME NEW S, NEW s \in Seq(S), NEW t \in Seq(S)
    PROVE  /\ s \o t \in Seq(S) /\ Len(s) \in Nat /\ Len(t) \in Nat
           /\ Len(s \o t) = Len(s) + Len(t)
           /\ \A i \in 1 .. Len(s) : (s \o t)[i] = s[i]
           /\ \A i \in Len(s) + 1 .. Len(s) + Len(t) : (s \o t)[i] = t[i - Len(s)]
<1>1. Len(s) \in Nat /\ Len(t) \in Nat
  OBVIOUS
<1>2. /\ s \o t \in Seq(S) /\ Len(s \o t) = Len(s) + Len(t)
      /\ \A i \in 1 .. Len(s) + Len(t) :
            (s \o t)[i] = IF i <= Len(s) THEN s[i] ELSE t[i - Len(s)]
  BY ConcatProperties
<1> QED
  BY <1>1, <1>2

LEMMA Parts ==
    ASSUME NEW S, NEW s \in Seq(S), NEW k \in 0 .. Len(s)
    PROVE  /\ Take(s, k) \in Seq(S) /\ Len(Take(s, k)) = k
           /\ \A i \in 1 .. k : Take(s, k)[i] = s[i]
           /\ Skip(s, k) \in Seq(S) /\ Len(Skip(s, k)) = Len(s) - k
           /\ \A i \in 1 .. Len(s) - k : Skip(s, k)[i] = s[k + i]
<1>1. Len(s) \in Nat /\ k \in Nat /\ k <= Len(s)
  BY LenProperties
<1>2. /\ \A i \in 1 .. k : s[i] \in S
      /\ \A i \in k + 1 .. Len(s) : s[i] \in S
  BY <1>1, ElementOfSeq
<1>3. /\ Take(s, k) \in Seq(S) /\ Len(Take(s, k)) = k
      /\ \A i \in 1 .. k : Take(s, k)[i] = s[i]
  BY <1>1, <1>2, SubSeqProperties DEF Take
<1>4. /\ Skip(s, k) \in Seq(S)
      /\ Len(Skip(s, k)) = IF k + 1 <= Len(s) THEN Len(s) - (k + 1) + 1 ELSE 0
      /\ \A i \in 1 .. Len(s) - (k + 1) + 1 : Skip(s, k)[i] = s[(k + 1) + i - 1]
  BY <1>1, <1>2, SubSeqProperties DEF Skip
<1> QED
  BY <1>1, <1>3, <1>4

-----------------------------------------------------------------------------
(* Sending.  The outbox holds the last frames that were submitted. *)
SendTypes == submitted \in Nat /\ {outbox, wire} \subseteq Seq(Nat)

Queued ==
    /\ Len(outbox) <= submitted
    /\ \A i \in 1 .. Len(outbox) : outbox[i] = submitted - Len(outbox) + i

SInv == SendTypes /\ Queued /\ SentInOrder

(* The front of the outbox is put on the wire, and may stay in the outbox  *)
LEMMA Sends ==
    ASSUME SInv, NEW k \in 1 .. Len(outbox), wire' = wire \o Take(outbox, k),
           outbox' \in {outbox, Skip(outbox, k)}, submitted' = submitted
    PROVE  SInv'
<1> DEFINE base == submitted - Len(outbox)
<1>1. /\ submitted \in Nat /\ wire \in Seq(Nat) /\ outbox \in Seq(Nat)
      /\ Len(wire) \in Nat /\ Len(outbox) \in Nat /\ base \in Nat /\ k \in Nat \ {0}
      /\ k <= Len(outbox)
  BY LenProperties DEF SInv, SendTypes, Queued
<1>2. /\ Take(outbox, k) \in Seq(Nat) /\ Len(Take(outbox, k)) = k
      /\ \A i \in 1 .. k : Take(outbox, k)[i] = outbox[i]
      /\ Skip(outbox, k) \in Seq(Nat) /\ Len(Skip(outbox, k)) = Len(outbox) - k
      /\ \A i \in 1 .. Len(outbox) - k : Skip(outbox, k)[i] = outbox[k + i]
  <2>1. k \in 0 .. Len(outbox)
    BY <1>1
  <2> QED
    BY <1>1, <2>1, Parts
<1>3. /\ wire' \in Seq(Nat) /\ Len(wire') = Len(wire) + k
      /\ \A i \in 1 .. Len(wire) : wire'[i] = wire[i]
      /\ \A i \in Len(wire) + 1 .. Len(wire) + k : wire'[i] = Take(outbox, k)[i - Len(wire)]
  <2> DEFINE front == Take(outbox, k)
  <2>1. front \in Seq(Nat) /\ Len(front) = k /\ wire \in Seq(Nat) /\ wire' = wire \o front
    BY <1>1, <1>2
  <2> HIDE DEF front
  <2>2. /\ wire' \in Seq(Nat) /\ Len(wire') = Len(wire) + k
        /\ \A i \in 1 .. Len(wire) : wire'[i] = wire[i]
        /\ \A i \in Len(wire) + 1 .. Len(wire) + k : wire'[i] = front[i - Len(wire)]
    BY <2>1, Joined
  <2> QED
    BY <2>2 DEF front
<1>4. \A i \in 1 .. k : wire'[Len(wire) + i] = base + i
  <2> TAKE i \in 1 .. k
  <2>1. Len(wire) + i \in Len(wire) + 1 .. Len(wire) + k /\ (Len(wire) + i) - Len(wire) = i
    BY <1>1
  <2>2. i \in 1 .. Len(outbox)
    BY <1>1
  <2>3. wire'[Len(wire) + i] = outbox[i]
    BY <1>2, <1>3, <2>1
  <2> QED
    BY <2>2, <2>3 DEF SInv, Queued
<1>5. SendTypes'
  BY <1>1, <1>2, <1>3 DEF SendTypes
<1>6. Queued' /\ submitted' - Len(outbox') \in {base, base + k}
  <2>1. CASE outbox' = outbox
    BY <1>1, <2>1 DEF SInv, Queued
  <2>2. CASE outbox' = Skip(outbox, k)
    <3>1. Len(outbox') = Len(outbox) - k
      BY <1>2, <2>2
    <3>2. ASSUME NEW i \in 1 .. Len(outbox')
          PROVE  outbox'[i] = submitted' - Len(outbox') + i
      <4>1. i \in 1 .. Len(outbox) - k /\ k + i \in 1 .. Len(outbox)
        BY <1>1, <3>1
      <4>2. outbox'[i] = outbox[k + i]
        BY <1>2, <2>2, <4>1
      <4>3. outbox[k + i] = submitted - Len(outbox) + (k + i)
        BY <4>1 DEF SInv, Queued
      <4> QED
        BY <1>1, <3>1, <4>2, <4>3
    <3> QED
      BY <1>1, <3>1, <3>2 DEF Queued
  <2> QED
    BY <2>1, <2>2
<1>7. ASSUME NEW n \in 1 .. base + k PROVE \E i \in 1 .. Len(wire') : wire'[i] = n
  <2>1. CASE n <= base
    <3>1. PICK i \in 1 .. Len(wire) : wire[i] = n
      <4>1. n \in 1 .. submitted - Len(outbox)
        BY <1>1, <2>1
      <4> QED
        BY <4>1 DEF SInv, SentInOrder
    <3>2. i \in 1 .. Len(wire') /\ wire'[i] = n
      BY <1>1, <1>3, <3>1
    <3> QED
      BY <3>2
  <2>2. CASE ~(n <= base)
    <3>1. n - base \in 1 .. k /\ n = base + (n - base)
      BY <1>1, <2>2
    <3>2. Len(wire) + (n - base) \in 1 .. Len(wire')
      BY <1>1, <1>3, <3>1
    <3> QED
      BY <1>4, <3>1, <3>2
  <2> QED
    BY <2>1, <2>2
<1>8. ASSUME NEW i \in 1 .. Len(wire')
      PROVE  /\ wire'[i] \in 1 .. submitted
             /\ \A n \in 1 .. wire'[i] : \E j \in 1 .. i : wire'[j] = n
  <2>1. CASE i <= Len(wire)
    <3>1. i \in 1 .. Len(wire) /\ wire'[i] = wire[i]
      BY <1>1, <1>3, <2>1
    <3>2. /\ wire[i] \in 1 .. submitted
          /\ \A n \in 1 .. wire[i] : \E j \in 1 .. i : wire[j] = n
      BY <3>1 DEF SInv, SentInOrder
    <3>3. \A j \in 1 .. i : wire'[j] = wire[j]
      BY <1>1, <1>3, <3>1
    <3> QED
      BY <3>1, <3>2, <3>3
  <2>2. CASE ~(i <= Len(wire))
    <3>1. i - Len(wire) \in 1 .. k /\ i = Len(wire) + (i - Len(wire))
      BY <1>1, <1>3, <2>2
    <3>2. wire'[i] = base + (i - Len(wire))
      BY <1>4, <3>1
    <3>3. wire'[i] \in 1 .. submitted
      BY <1>1, <3>1, <3>2
    <3>4. ASSUME NEW n \in 1 .. wire'[i] PROVE \E j \in 1 .. i : wire'[j] = n
      <4>1. CASE n <= base
        <5>1. PICK j \in 1 .. Len(wire) : wire[j] = n
          BY <1>1, <4>1 DEF SInv, SentInOrder
        <5>2. j \in 1 .. i
          BY <1>1, <3>1, <5>1
        <5>3. wire'[j] = n
          BY <1>3, <5>1
        <5> QED
          BY <5>2, <5>3
      <4>2. CASE ~(n <= base)
        <5>1. n - base \in 1 .. i - Len(wire) /\ n = base + (n - base)
          BY <1>1, <3>1, <3>2, <4>2
        <5>2. n - base \in 1 .. k
          BY <1>1, <3>1, <5>1
        <5>3. Len(wire) + (n - base) \in 1 .. i
          BY <1>1, <3>1, <5>1
        <5>4. wire'[Len(wire) + (n - base)] = base + (n - base)
          BY <1>4, <5>2, Zenon
        <5> QED
          BY <5>1, <5>3, <5>4, Zenon
      <4> QED
        BY <4>1, <4>2
    <3> QED
      BY <3>3, <3>4
  <2> QED
    BY <2>1, <2>2
<1>9. SentInOrder'
  <2>1. \A n \in 1 .. submitted' - Len(outbox') : n \in 1 .. base + k
    BY <1>1, <1>6
  <2> QED
    BY <1>7, <1>8, <2>1 DEF SentInOrder
<1> QED
  BY <1>5, <1>6, <1>9 DEF SInv

LEMMA Submits ==
    ASSUME SInv, submitted' = submitted + 1, outbox' = Append(outbox, submitted + 1),
           wire' = wire
    PROVE  SInv'
<1>1. submitted \in Nat /\ outbox \in Seq(Nat) /\ Len(outbox) \in Nat /\ wire \in Seq(Nat)
  BY DEF SInv, SendTypes
<1>2. /\ outbox' \in Seq(Nat) /\ Len(outbox') = Len(outbox) + 1
      /\ \A i \in 1 .. Len(outbox) : outbox'[i] = outbox[i]
      /\ outbox'[Len(outbox) + 1] = submitted + 1
  BY <1>1
<1>3. Queued'
  <2>1. ASSUME NEW i \in 1 .. Len(outbox') PROVE outbox'[i] = submitted' - Len(outbox') + i
    <3>1. CASE i = Len(outbox) + 1
      BY <1>1, <1>2, <3>1
    <3>2. CASE i # Len(outbox) + 1
      <4>1. i \in 1 .. Len(outbox)
        BY <1>1, <1>2, <3>2
      <4>2. outbox[i] = submitted - Len(outbox) + i
        BY <4>1 DEF SInv, Queued
      <4> QED
        BY <1>1, <1>2, <4>1, <4>2
    <3> QED
      BY <3>1, <3>2
  <2> QED
    BY <1>1, <1>2, <2>1 DEF SInv, Queued
<1>4. SentInOrder'
  <2>1. submitted' - Len(outbox') = submitted - Len(outbox)
    BY <1>1, <1>2
  <2>2. 1 .. submitted \subseteq 1 .. submitted'
    BY <1>1
  <2> QED
    BY <2>1, <2>2 DEF SInv, SentInOrder
<1> QED
  BY <1>1, <1>2, <1>3, <1>4 DEF SInv, SendTypes

LEMMA SendFresh ==
    ASSUME submitted' = 0, outbox' = <<>>, wire' = <<>>
    PROVE  SInv' /\ SentOnce'
<1>1. SendTypes' /\ Len(outbox') = 0 /\ Len(wire') = 0
  BY DEF SendTypes
<1> QED
  BY <1>1 DEF SInv, SendTypes, Queued, SentInOrder, SentOnce

LEMMA SendStays ==
    ASSUME UNCHANGED <<submitted, outbox, wire>>
    PROVE  (SInv => SInv') /\ (SentOnce => SentOnce')
  BY DEF SInv, SendTypes, Queued, SentInOrder, SentOnce

LEMMA SendSteps ==
    ASSUME SInv, [ChNext]_chVars
    PROVE  SInv'
<1>1. CASE Renew
  BY <1>1, SendFresh DEF Renew, Fresh
<1>2. CASE Submit
  BY <1>2, Submits DEF Submit
<1>3. CASE Transmit
  <2>1. PICK k \in 1 .. Len(outbox) : wire' = wire \o Take(outbox, k) /\ outbox' = Skip(outbox, k)
    BY <1>3 DEF Transmit
  <2> QED
    BY <1>3, <2>1, Sends DEF Transmit
<1>4. CASE Retransmit
  <2>1. PICK k \in 1 .. Len(outbox) : wire' = wire \o Take(outbox, k)
    BY <1>4 DEF Retransmit
  <2> QED
    BY <1>4, <2>1, Sends DEF Retransmit
<1>5. CASE Open \/ Shut \/ Arrive \/ Deliver \/ Lose \/ UNCHANGED chVars
  <2>1. UNCHANGED <<submitted, outbox, wire>>
    BY <1>5 DEF Open, Shut, Arrive, Deliver, Lose, chVars
  <2> QED
    BY <2>1, SendStays
<1> QED
  BY <1>1, <1>2, <1>3, <1>4, <1>5 DEF ChNext

LEMMA SendInvariant == ChSpec => []SInv
<1>1. ChInit => SInv
  <2> SUFFICES ASSUME ChInit PROVE SInv
    OBVIOUS
  <2>1. submitted = 0 /\ outbox = <<>> /\ wire = <<>> /\ Len(outbox) = 0 /\ Len(wire) = 0
    BY DEF ChInit, Fresh
  <2> QED
    BY <2>1 DEF SInv, SendTypes, Queued, SentInOrder
<1>2. SInv /\ [ChNext]_chVars => SInv'
  BY SendSteps
<1> QED
  BY <1>1, <1>2, PTL DEF ChSpec

(* Frames reach the wire in the order in which they were submitted, and    *)
(* none is left out, whatever is sent again.                               *)
THEOREM AlwaysSentInOrder == ChSpec => []SentInOrder
<1>1. SInv => SentInOrder
  BY DEF SInv
<1> QED
  BY <1>1, SendInvariant, PTL

(* If nothing is sent again, each frame is on the wire once.               *)
THEOREM AlwaysSentOnce == ASSUME "resend" \notin Faults PROVE ChSpec => []SentOnce
<1>1. ChInit => SentOnce
  <2> SUFFICES ASSUME ChInit PROVE SentOnce
    OBVIOUS
  <2>1. submitted = 0 /\ outbox = <<>> /\ wire = <<>> /\ Len(outbox) = 0 /\ Len(wire) = 0
    BY DEF ChInit, Fresh
  <2> QED
    BY <2>1 DEF SentOnce
<1>2. SInv /\ SentOnce /\ [ChNext]_chVars => SentOnce'
  <2> SUFFICES ASSUME SInv, SentOnce, [ChNext]_chVars PROVE SentOnce'
    OBVIOUS
  <2>0. Len(wire) + Len(outbox) = submitted /\ \A i \in 1 .. Len(wire) : wire[i] = i
    BY DEF SentOnce
  <2>1. /\ submitted \in Nat /\ wire \in Seq(Nat) /\ outbox \in Seq(Nat)
        /\ Len(wire) \in Nat /\ Len(outbox) \in Nat
    BY DEF SInv, SendTypes
  <2>2. CASE Renew
    BY <2>2, SendFresh DEF Renew, Fresh
  <2>3. CASE Submit
    <3>1. Len(outbox') = Len(outbox) + 1 /\ submitted' = submitted + 1 /\ wire' = wire
      BY <2>1, <2>3 DEF Submit
    <3>2. Len(wire') + Len(outbox') = submitted'
      <4>1. Len(wire) + Len(outbox) = submitted
        BY <2>0
      <4> QED
        BY <2>1, <3>1, <4>1
    <3>3. \A i \in 1 .. Len(wire') : wire'[i] = i
      BY <2>0, <3>1
    <3> QED
      BY <3>2, <3>3 DEF SentOnce
  <2>4. CASE Transmit
    <3>1. PICK k \in 1 .. Len(outbox) :
              wire' = wire \o Take(outbox, k) /\ outbox' = Skip(outbox, k)
      BY <2>4 DEF Transmit
    <3> DEFINE front == Take(outbox, k)
    <3>2. k \in 0 .. Len(outbox) /\ k \in Nat
      BY <2>1
    <3>3. /\ front \in Seq(Nat) /\ Len(front) = k /\ \A i \in 1 .. k : front[i] = outbox[i]
          /\ Len(outbox') = Len(outbox) - k /\ wire' = wire \o front
      BY <2>1, <3>1, <3>2, Parts
    <3> HIDE DEF front
    <3>4. /\ Len(wire') = Len(wire) + k
          /\ \A i \in 1 .. Len(wire) : wire'[i] = wire[i]
          /\ \A i \in Len(wire) + 1 .. Len(wire) + k : wire'[i] = front[i - Len(wire)]
      BY <2>1, <3>3, Joined
    <3>5. ASSUME NEW i \in 1 .. Len(wire') PROVE wire'[i] = i
      <4>1. CASE i <= Len(wire)
        <5>1. i \in 1 .. Len(wire)
          BY <2>1, <4>1
        <5> QED
          BY <2>0, <3>4, <5>1
      <4>2. CASE ~(i <= Len(wire))
        <5>1. /\ i \in Len(wire) + 1 .. Len(wire) + k /\ i - Len(wire) \in 1 .. k
              /\ i - Len(wire) \in 1 .. Len(outbox)
          BY <2>1, <3>2, <3>4, <4>2
        <5>2. wire'[i] = outbox[i - Len(wire)]
          BY <3>3, <3>4, <5>1
        <5>3. outbox[i - Len(wire)] = submitted - Len(outbox) + (i - Len(wire))
          BY <5>1 DEF SInv, Queued
        <5>4. i \in Nat /\ submitted - Len(outbox) = Len(wire)
          <6>1. Len(wire) + Len(outbox) = submitted
            BY <2>0
          <6> QED
            BY <2>1, <6>1
        <5>5. Len(wire) + (i - Len(wire)) = i
          BY <2>1, <5>4
        <5> QED
          BY <5>2, <5>3, <5>4, <5>5
      <4> QED
        BY <4>1, <4>2
    <3>6. submitted' = submitted
      BY <2>4 DEF Transmit
    <3>7. Len(wire') + Len(outbox') = submitted'
      <4>1. Len(wire') = Len(wire) + k /\ Len(outbox') = Len(outbox) - k
        BY <3>3, <3>4
      <4>2. Len(wire) + Len(outbox) = submitted
        BY <2>0
      <4>3. Len(wire') + Len(outbox') = Len(wire) + Len(outbox)
        BY <2>1, <3>2, <4>1, SMTT(30)
      <4> QED
        BY <3>6, <4>2, <4>3
    <3> QED
      BY <3>5, <3>7 DEF SentOnce
  <2>5. CASE Open \/ Shut \/ Arrive \/ Deliver \/ Lose \/ UNCHANGED chVars
    <3>1. UNCHANGED <<submitted, outbox, wire>>
      BY <2>5 DEF Open, Shut, Arrive, Deliver, Lose, chVars
    <3> QED
      BY <3>1, SendStays
  <2>6. ~Retransmit
    BY DEF Retransmit
  <2> QED
    BY <2>2, <2>3, <2>4, <2>5, <2>6 DEF ChNext
<1> QED
  BY <1>1, <1>2, SendInvariant, PTL DEF ChSpec

-----------------------------------------------------------------------------
(* Receiving.  What was delivered and what waits are one stream; a frame   *)
(* comes at its end, and what is lost is cut out of it.                    *)
Stream == delivered \o inbox

ReceiveTypes == arrived \in Nat /\ {delivered, inbox} \subseteq Seq(Nat)

CutOut(s, t, p, q) ==
    /\ t \in Seq(Nat) /\ Len(t) = Len(s) - q
    /\ \A x \in 1 .. Len(t) : t[x] = s[IF x <= p THEN x ELSE x + q]

LEMMA StreamAt ==
    ASSUME NEW d \in Seq(Nat), NEW b \in Seq(Nat)
    PROVE  /\ d \o b \in Seq(Nat) /\ Len(d) \in Nat /\ Len(b) \in Nat
           /\ Len(d \o b) = Len(d) + Len(b)
           /\ \A x \in 1 .. Len(d) + Len(b) :
                (d \o b)[x] = IF x <= Len(d) THEN d[x] ELSE b[x - Len(d)]
<1>1. Len(d) \in Nat /\ Len(b) \in Nat
  OBVIOUS
<1> QED
  BY <1>1, ConcatProperties

(* Cutting the waiting part *)
LEMMA Cuts ==
    ASSUME ReceiveTypes, NEW i \in 0 .. Len(inbox), NEW j \in i .. Len(inbox),
           inbox' = Take(inbox, i) \o Skip(inbox, j), UNCHANGED <<arrived, delivered>>
    PROVE  ReceiveTypes' /\ CutOut(Stream, Stream', Len(delivered) + i, j - i)
<1> DEFINE front == Take(inbox, i)
           back  == Skip(inbox, j)
<1>1. /\ inbox \in Seq(Nat) /\ delivered \in Seq(Nat) /\ Len(inbox) \in Nat
      /\ Len(delivered) \in Nat /\ i \in Nat /\ j \in Nat /\ i <= j /\ j <= Len(inbox)
  BY LenProperties DEF ReceiveTypes
<1>2. j \in 0 .. Len(inbox)
  BY <1>1
<1>3. /\ front \in Seq(Nat) /\ Len(front) = i /\ \A x \in 1 .. i : front[x] = inbox[x]
      /\ back \in Seq(Nat) /\ Len(back) = Len(inbox) - j
      /\ \A x \in 1 .. Len(inbox) - j : back[x] = inbox[j + x]
      /\ inbox' = front \o back
  BY <1>1, <1>2, Parts
<1> HIDE DEF front, back
<1>4. /\ inbox' \in Seq(Nat) /\ Len(inbox') = i + (Len(inbox) - j)
      /\ \A x \in 1 .. i + (Len(inbox) - j) :
            inbox'[x] = IF x <= i THEN front[x] ELSE back[x - i]
  <2>1. /\ front \o back \in Seq(Nat) /\ Len(front \o back) = Len(front) + Len(back)
        /\ \A x \in 1 .. Len(front) + Len(back) :
              (front \o back)[x] = IF x <= Len(front) THEN front[x] ELSE back[x - Len(front)]
    BY <1>3, StreamAt
  <2> QED
    BY <1>3, <2>1
<1>5. /\ Stream \in Seq(Nat) /\ Len(Stream) = Len(delivered) + Len(inbox)
      /\ \A x \in 1 .. Len(delivered) + Len(inbox) :
            Stream[x] = IF x <= Len(delivered) THEN delivered[x] ELSE inbox[x - Len(delivered)]
  BY <1>1, StreamAt DEF Stream
<1>6. /\ Stream' \in Seq(Nat) /\ Len(Stream') = Len(delivered) + Len(inbox')
      /\ \A x \in 1 .. Len(delivered) + Len(inbox') :
            Stream'[x] = IF x <= Len(delivered) THEN delivered[x] ELSE inbox'[x - Len(delivered)]
  BY <1>1, <1>4, StreamAt DEF Stream
<1>7. Len(Stream') = Len(Stream) - (j - i)
  BY <1>1, <1>4, <1>5, <1>6
<1>8. ASSUME NEW x \in 1 .. Len(Stream')
      PROVE  Stream'[x] = Stream[IF x <= Len(delivered) + i THEN x ELSE x + (j - i)]
  <2> DEFINE y == x - Len(delivered)
  <2>1. x \in Nat /\ x >= 1 /\ x <= Len(delivered) + i + (Len(inbox) - j)
    BY <1>1, <1>4, <1>6
  <2>2. CASE x <= Len(delivered)
    <3>1. x \in 1 .. Len(delivered) + Len(inbox) /\ x <= Len(delivered) + i
      BY <1>1, <2>1, <2>2
    <3>2. Stream'[x] = delivered[x]
      BY <1>6, <2>2
    <3>3. Stream[x] = delivered[x]
      BY <1>5, <2>2, <3>1
    <3> QED
      BY <3>1, <3>2, <3>3
  <2>3. CASE ~(x <= Len(delivered)) /\ x <= Len(delivered) + i
    <3>1. y \in 1 .. i /\ y \in 1 .. i + (Len(inbox) - j) /\ y <= i
      BY <1>1, <2>1, <2>3
    <3>2. inbox'[y] = inbox[y]
      BY <1>3, <1>4, <3>1
    <3>3. Stream'[x] = inbox'[y]
      BY <1>6, <2>3
    <3>4. x \in 1 .. Len(delivered) + Len(inbox)
      BY <1>1, <2>1
    <3>5. Stream[x] = inbox[y]
      BY <1>5, <2>3, <3>4
    <3> QED
      BY <2>3, <3>2, <3>3, <3>5
  <2>4. CASE ~(x <= Len(delivered) + i)
    <3>1. /\ y \in 1 .. i + (Len(inbox) - j) /\ ~(y <= i) /\ ~(x <= Len(delivered))
          /\ y - i \in 1 .. Len(inbox) - j /\ j + (y - i) = (x + (j - i)) - Len(delivered)
      BY <1>1, <2>1, <2>4
    <3>2. inbox'[y] = back[y - i] /\ back[y - i] = inbox[j + (y - i)]
      BY <1>3, <1>4, <3>1
    <3>3. Stream'[x] = inbox'[y]
      BY <1>6, <3>1
    <3>4. x + (j - i) \in 1 .. Len(delivered) + Len(inbox) /\ ~(x + (j - i) <= Len(delivered))
      BY <1>1, <2>1, <2>4
    <3>5. Stream[x + (j - i)] = inbox[(x + (j - i)) - Len(delivered)]
      BY <1>5, <3>4
    <3> QED
      BY <2>4, <3>1, <3>2, <3>3, <3>5
  <2> QED
    BY <2>2, <2>3, <2>4
<1>9. ReceiveTypes'
  BY <1>4 DEF ReceiveTypes
<1> QED
  BY <1>6, <1>7, <1>8, <1>9 DEF CutOut

(* Delivering moves the border between the two parts *)
LEMMA Delivers ==
    ASSUME ReceiveTypes, NEW k \in 1 .. Len(inbox), delivered' = delivered \o Take(inbox, k),
           inbox' = Skip(inbox, k), arrived' = arrived
    PROVE  ReceiveTypes' /\ Stream' = Stream
<1> DEFINE front == Take(inbox, k)
<1>1. /\ inbox \in Seq(Nat) /\ delivered \in Seq(Nat) /\ Len(inbox) \in Nat
      /\ Len(delivered) \in Nat /\ k \in Nat /\ k <= Len(inbox) /\ k \in 0 .. Len(inbox)
  BY LenProperties DEF ReceiveTypes
<1>2. /\ front \in Seq(Nat) /\ Len(front) = k /\ \A x \in 1 .. k : front[x] = inbox[x]
      /\ inbox' \in Seq(Nat) /\ Len(inbox') = Len(inbox) - k
      /\ \A x \in 1 .. Len(inbox) - k : inbox'[x] = inbox[k + x]
      /\ delivered' = delivered \o front
  BY <1>1, Parts
<1> HIDE DEF front
<1>3. /\ delivered' \in Seq(Nat) /\ Len(delivered') = Len(delivered) + k
      /\ \A x \in 1 .. Len(delivered) + k :
            delivered'[x] = IF x <= Len(delivered) THEN delivered[x] ELSE front[x - Len(delivered)]
  <2>1. /\ delivered \o front \in Seq(Nat)
        /\ Len(delivered \o front) = Len(delivered) + Len(front)
        /\ \A x \in 1 .. Len(delivered) + Len(front) :
              (delivered \o front)[x]
                = IF x <= Len(delivered) THEN delivered[x] ELSE front[x - Len(delivered)]
    BY <1>1, <1>2, StreamAt
  <2> QED
    BY <1>2, <2>1
<1>4. /\ Stream \in Seq(Nat) /\ Len(Stream) = Len(delivered) + Len(inbox)
      /\ \A x \in 1 .. Len(delivered) + Len(inbox) :
            Stream[x] = IF x <= Len(delivered) THEN delivered[x] ELSE inbox[x - Len(delivered)]
  BY <1>1, StreamAt DEF Stream
<1>5. /\ Stream' \in Seq(Nat) /\ Len(Stream') = Len(delivered') + Len(inbox')
      /\ \A x \in 1 .. Len(delivered') + Len(inbox') :
            Stream'[x] = IF x <= Len(delivered') THEN delivered'[x]
                         ELSE inbox'[x - Len(delivered')]
  BY <1>2, <1>3, StreamAt DEF Stream
<1>6. Len(Stream') = Len(Stream)
  BY <1>1, <1>2, <1>3, <1>4, <1>5
<1>7. ASSUME NEW x \in 1 .. Len(Stream) PROVE Stream'[x] = Stream[x]
  <2> DEFINE y == x - Len(delivered)
  <2>1. /\ x \in Nat /\ x \in 1 .. Len(delivered) + Len(inbox)
        /\ x \in 1 .. Len(delivered') + Len(inbox')
    BY <1>1, <1>4, <1>5, <1>6
  <2>2. CASE x <= Len(delivered)
    <3>1. x <= Len(delivered') /\ x \in 1 .. Len(delivered) + k
      BY <1>1, <1>3, <2>1, <2>2
    <3> QED
      BY <1>3, <1>4, <1>5, <2>1, <2>2, <3>1
  <2>3. CASE ~(x <= Len(delivered)) /\ x <= Len(delivered')
    <3>1. x \in 1 .. Len(delivered) + k /\ y \in 1 .. k
      BY <1>1, <1>3, <2>1, <2>3
    <3>2. Stream'[x] = delivered'[x] /\ delivered'[x] = front[y] /\ front[y] = inbox[y]
      BY <1>2, <1>3, <1>5, <2>1, <2>3, <3>1
    <3>3. Stream[x] = inbox[y]
      BY <1>4, <2>1, <2>3
    <3> QED
      BY <3>2, <3>3
  <2>4. CASE ~(x <= Len(delivered'))
    <3>1. /\ ~(x <= Len(delivered)) /\ x - Len(delivered') \in 1 .. Len(inbox) - k
          /\ k + (x - Len(delivered')) = y
      BY <1>1, <1>3, <2>1, <2>4
    <3>2. Stream'[x] = inbox'[x - Len(delivered')]
      BY <1>5, <2>1, <2>4
    <3>3. inbox'[x - Len(delivered')] = inbox[y]
      BY <1>2, <3>1
    <3>4. Stream[x] = inbox[y]
      BY <1>4, <2>1, <3>1
    <3> QED
      BY <3>2, <3>3, <3>4
  <2> QED
    BY <2>2, <2>3, <2>4
<1>8. Stream' = Stream
  BY <1>4, <1>5, <1>6, <1>7, SeqEqual
<1> QED
  BY <1>2, <1>3, <1>8 DEF ReceiveTypes

(* Closing cuts off the end *)
LEMMA Shuts ==
    ASSUME ReceiveTypes, Shut
    PROVE  /\ ReceiveTypes' /\ arrived' = arrived
           /\ \E n \in 0 .. Len(Stream) : CutOut(Stream, Stream', Len(Stream) - n, n)
<1>1. PICK k \in 0 .. Len(inbox) : inbox' = Take(inbox, k)
  BY DEF Shut
<1> DEFINE n == Len(inbox) - k
<1>2. /\ inbox \in Seq(Nat) /\ delivered \in Seq(Nat) /\ Len(inbox) \in Nat
      /\ Len(delivered) \in Nat /\ k \in Nat /\ k <= Len(inbox)
      /\ Len(inbox) \in 0 .. Len(inbox) /\ Len(inbox) \in k .. Len(inbox)
  BY LenProperties DEF ReceiveTypes
<1>3. Take(inbox, k) \in Seq(Nat)
  BY <1>2, Parts
<1>4. Skip(inbox, Len(inbox)) = <<>>
  <2>1. Skip(inbox, Len(inbox)) \in Seq(Nat) /\ Len(Skip(inbox, Len(inbox))) = Len(inbox) - Len(inbox)
    BY <1>2, Parts
  <2> QED
    BY <1>2, <2>1, EmptySeq
<1>5. inbox' = Take(inbox, k) \o Skip(inbox, Len(inbox))
  BY <1>1, <1>3, <1>4, ConcatEmptySeq
<1>6. UNCHANGED <<arrived, delivered>>
  BY DEF Shut
<1>7. ReceiveTypes' /\ CutOut(Stream, Stream', Len(delivered) + k, n)
  BY <1>2, <1>5, <1>6, Cuts
<1>8. Len(Stream) = Len(delivered) + Len(inbox)
  BY <1>2, StreamAt DEF Stream
<1>9. n \in 0 .. Len(Stream) /\ Len(Stream) - n = Len(delivered) + k
  BY <1>2, <1>8
<1> QED
  BY <1>6, <1>7, <1>9

(* A frame arrives at the end *)
LEMMA Arrives ==
    ASSUME UnitsPerFrame \in Nat \ {0}, ReceiveTypes, Arrive
    PROVE  /\ ReceiveTypes' /\ arrived' = arrived + 1
           /\ Stream \in Seq(Nat) /\ Stream' \in Seq(Nat)
           /\ Len(Stream') = Len(Stream) + UnitsPerFrame
           /\ \A x \in 1 .. Len(Stream) : Stream'[x] = Stream[x]
           /\ \A x \in Len(Stream) + 1 .. Len(Stream) + UnitsPerFrame : Stream'[x] = arrived + 1
<1> DEFINE frame == [i \in 1 .. UnitsPerFrame |-> arrived + 1]
<1>1. /\ inbox \in Seq(Nat) /\ delivered \in Seq(Nat) /\ arrived \in Nat
      /\ arrived' = arrived + 1 /\ inbox' = inbox \o frame /\ delivered' = delivered
  BY DEF ReceiveTypes, Arrive
<1>2. /\ frame \in Seq(Nat) /\ Len(frame) = UnitsPerFrame
      /\ \A x \in 1 .. UnitsPerFrame : frame[x] = arrived + 1
  BY <1>1
<1> HIDE DEF frame
<1>3. inbox \o frame \in Seq(Nat)
  BY <1>1, <1>2, ConcatProperties
<1>4. Stream' = Stream \o frame
  <2>1. (delivered \o inbox) \o frame = delivered \o (inbox \o frame)
    BY <1>1, <1>2, ConcatAssociative, SMTT(60)
  <2> QED
    BY <1>1, <2>1 DEF Stream
<1>5. Stream \in Seq(Nat) /\ Len(Stream) \in Nat
  <2>1. Stream \in Seq(Nat)
    BY <1>1, ConcatProperties DEF Stream
  <2> QED
    BY <2>1
<1>6. /\ Stream \o frame \in Seq(Nat) /\ Len(Stream \o frame) = Len(Stream) + Len(frame)
      /\ \A x \in 1 .. Len(Stream) : (Stream \o frame)[x] = Stream[x]
      /\ \A x \in Len(Stream) + 1 .. Len(Stream) + Len(frame) :
            (Stream \o frame)[x] = frame[x - Len(Stream)]
  BY <1>2, <1>5, Joined
<1>7. ASSUME NEW x \in Len(Stream) + 1 .. Len(Stream) + UnitsPerFrame
      PROVE  Stream'[x] = arrived + 1
  <2>1. x - Len(Stream) \in 1 .. UnitsPerFrame
    BY <1>5
  <2> QED
    BY <1>2, <1>4, <1>6, <2>1
<1>8. ReceiveTypes'
  BY <1>1, <1>3 DEF ReceiveTypes
<1> QED
  BY <1>1, <1>2, <1>4, <1>5, <1>6, <1>7, <1>8

LEMMA ReceiveFresh ==
    ASSUME arrived' = 0, inbox' = <<>>, delivered' = <<>>
    PROVE  ReceiveTypes' /\ Len(Stream') = 0
<1>1. <<>> \o <<>> = <<>> /\ Len(<<>>) = 0
  OBVIOUS
<1> QED
  BY <1>1 DEF ReceiveTypes, Stream

LEMMA InitStream == ChInit => ReceiveTypes /\ Len(Stream) = 0
<1>1. <<>> \o <<>> = <<>> /\ Len(<<>>) = 0
  OBVIOUS
<1> QED
  BY <1>1 DEF ChInit, Fresh, ReceiveTypes, Stream

-----------------------------------------------------------------------------
(* The stream is in order, and no frame takes more of it than its units.   *)
Ordered(s, a) ==
    \A i, j \in 1 .. Len(s) :
        /\ s[i] \in 1 .. a
        /\ i <= j => s[i] <= s[j]
        /\ i + UnitsPerFrame <= j => s[i] < s[j]

RInv == ReceiveTypes /\ Ordered(Stream, arrived)

LEMMA CutOrdered ==
    ASSUME UnitsPerFrame \in Nat \ {0}, NEW a \in Nat, NEW s \in Seq(Nat), NEW t,
           NEW p \in Nat, NEW q \in Nat, CutOut(s, t, p, q), Ordered(s, a)
    PROVE  Ordered(t, a)
<1>1. Len(s) \in Nat /\ Len(t) \in Nat /\ Len(t) = Len(s) - q
  BY LenProperties DEF CutOut
<1> DEFINE place(x) == IF x <= p THEN x ELSE x + q
<1>2. ASSUME NEW x \in 1 .. Len(t) PROVE place(x) \in 1 .. Len(s) /\ t[x] = s[place(x)]
  BY <1>1 DEF CutOut
<1>3. ASSUME NEW i \in 1 .. Len(t), NEW j \in 1 .. Len(t)
      PROVE  /\ i <= j => place(i) <= place(j)
             /\ i + UnitsPerFrame <= j => place(i) + UnitsPerFrame <= place(j)
  BY <1>1
<1> HIDE DEF place
<1>4. ASSUME NEW i \in 1 .. Len(t), NEW j \in 1 .. Len(t)
      PROVE  /\ t[i] \in 1 .. a
             /\ i <= j => t[i] <= t[j]
             /\ i + UnitsPerFrame <= j => t[i] < t[j]
  <2>1. place(i) \in 1 .. Len(s) /\ place(j) \in 1 .. Len(s) /\ t[i] = s[place(i)] /\ t[j] = s[place(j)]
    BY <1>2
  <2>2. /\ s[place(i)] \in 1 .. a
        /\ place(i) <= place(j) => s[place(i)] <= s[place(j)]
        /\ place(i) + UnitsPerFrame <= place(j) => s[place(i)] < s[place(j)]
    BY <2>1 DEF Ordered
  <2> QED
    BY <1>3, <2>1, <2>2
<1> QED
  BY <1>4 DEF Ordered

LEMMA ArriveOrdered ==
    ASSUME UnitsPerFrame \in Nat \ {0}, RInv, Arrive
    PROVE  RInv'
<1>1. /\ ReceiveTypes' /\ arrived' = arrived + 1
      /\ Stream \in Seq(Nat) /\ Stream' \in Seq(Nat)
      /\ Len(Stream') = Len(Stream) + UnitsPerFrame
      /\ \A x \in 1 .. Len(Stream) : Stream'[x] = Stream[x]
      /\ \A x \in Len(Stream) + 1 .. Len(Stream) + UnitsPerFrame : Stream'[x] = arrived + 1
  BY Arrives DEF RInv
<1>2. arrived \in Nat /\ Len(Stream) \in Nat
  BY <1>1, LenProperties DEF RInv, ReceiveTypes
<1>3. ASSUME NEW x \in 1 .. Len(Stream')
      PROVE  \/ x \in 1 .. Len(Stream) /\ Stream'[x] = Stream[x] /\ Stream[x] \in 1 .. arrived
             \/ x \in Len(Stream) + 1 .. Len(Stream') /\ Stream'[x] = arrived + 1
  <2>1. CASE x <= Len(Stream)
    <3>1. x \in 1 .. Len(Stream)
      BY <1>1, <1>2, <2>1
    <3> QED
      BY <1>1, <3>1 DEF RInv, Ordered
  <2>2. CASE ~(x <= Len(Stream))
    <3>1. x \in Len(Stream) + 1 .. Len(Stream) + UnitsPerFrame
      BY <1>1, <1>2, <2>2
    <3> QED
      BY <1>1, <3>1
  <2> QED
    BY <2>1, <2>2
<1>4. ASSUME NEW i \in 1 .. Len(Stream'), NEW j \in 1 .. Len(Stream')
      PROVE  /\ Stream'[i] \in 1 .. arrived'
             /\ i <= j => Stream'[i] <= Stream'[j]
             /\ i + UnitsPerFrame <= j => Stream'[i] < Stream'[j]
  <2>1. Stream'[i] \in 1 .. arrived'
    <3>1. Stream'[i] \in 1 .. arrived \/ Stream'[i] = arrived + 1
      BY <1>3
    <3>2. arrived' = arrived + 1
      BY <1>1
    <3> QED
      BY <1>2, <3>1, <3>2
  <2>2. CASE j \in 1 .. Len(Stream) /\ Stream'[j] = Stream[j]
    <3>1. CASE i <= j
      <4>1. i \in 1 .. Len(Stream) /\ Stream'[i] = Stream[i]
        BY <1>1, <1>2, <2>2, <3>1
      <4> QED
        BY <2>1, <2>2, <4>1 DEF RInv, Ordered
    <3>2. CASE ~(i <= j)
      <4>1. ~(i + UnitsPerFrame <= j)
        BY <1>2, <3>2
      <4> QED
        BY <2>1, <3>2, <4>1
    <3> QED
      BY <3>1, <3>2
  <2>3. CASE j \in Len(Stream) + 1 .. Len(Stream') /\ Stream'[j] = arrived + 1
    <3>1. Stream'[i] <= Stream'[j]
      BY <1>1, <1>2, <2>1, <2>3
    <3>2. ASSUME i + UnitsPerFrame <= j PROVE Stream'[i] < Stream'[j]
      <4>1. i \notin Len(Stream) + 1 .. Len(Stream')
        BY <1>1, <1>2, <2>3, <3>2
      <4> QED
        BY <1>2, <1>3, <2>3, <4>1
    <3> QED
      BY <2>1, <3>1, <3>2
  <2> QED
    BY <1>3, <2>2, <2>3
<1> QED
  BY <1>1, <1>4 DEF RInv, Ordered

LEMMA ReceiveStays ==
    ASSUME UNCHANGED <<arrived, inbox, delivered>>
    PROVE  ReceiveTypes' = ReceiveTypes /\ Stream' = Stream
  BY DEF ReceiveTypes, Stream

LEMMA ReceiveSteps ==
    ASSUME UnitsPerFrame \in Nat \ {0}, RInv, [ChNext]_chVars
    PROVE  RInv'
<1>1. Stream \in Seq(Nat) /\ Len(Stream) \in Nat /\ arrived \in Nat
  <2>1. Stream \in Seq(Nat)
    BY StreamAt DEF Stream, RInv, ReceiveTypes
  <2> QED
    BY <2>1 DEF RInv, ReceiveTypes
<1>2. ASSUME ReceiveTypes', arrived' = arrived, NEW p \in Nat, NEW q \in Nat,
             CutOut(Stream, Stream', p, q)
      PROVE  RInv'
  BY <1>1, <1>2, CutOrdered DEF RInv
<1>3. CASE Renew
  <2>1. ReceiveTypes' /\ Len(Stream') = 0
    BY <1>3, ReceiveFresh DEF Renew, Fresh
  <2> QED
    BY <2>1 DEF RInv, Ordered
<1>4. CASE Shut
  <2>1. PICK n \in 0 .. Len(Stream) : CutOut(Stream, Stream', Len(Stream) - n, n)
    BY <1>4, Shuts DEF RInv
  <2>2. ReceiveTypes' /\ arrived' = arrived /\ Len(Stream) - n \in Nat /\ n \in Nat
    BY <1>1, <1>4, Shuts DEF RInv
  <2> QED
    BY <1>2, <2>1, <2>2
<1>5. CASE Arrive
  BY <1>5, ArriveOrdered
<1>6. CASE Deliver
  <2>1. PICK k \in 1 .. Len(inbox) :
            delivered' = delivered \o Take(inbox, k) /\ inbox' = Skip(inbox, k)
    BY <1>6 DEF Deliver
  <2>2. arrived' = arrived
    BY <1>6 DEF Deliver
  <2>3. ReceiveTypes' /\ Stream' = Stream
    BY <2>1, <2>2, Delivers DEF RInv
  <2> QED
    BY <2>2, <2>3 DEF RInv
<1>7. CASE Lose
  <2>1. PICK i \in 0 .. Len(inbox) : \E j \in i .. Len(inbox) :
            inbox' = Take(inbox, i) \o Skip(inbox, j)
    BY <1>7 DEF Lose
  <2>2. PICK j \in i .. Len(inbox) : inbox' = Take(inbox, i) \o Skip(inbox, j)
    BY <2>1
  <2>3. UNCHANGED <<arrived, delivered>>
    BY <1>7 DEF Lose
  <2>4. ReceiveTypes' /\ CutOut(Stream, Stream', Len(delivered) + i, j - i)
    BY <2>2, <2>3, Cuts DEF RInv
  <2>5. Len(delivered) \in Nat /\ Len(inbox) \in Nat
    BY LenProperties DEF RInv, ReceiveTypes
  <2>6. Len(delivered) + i \in Nat /\ j - i \in Nat
    BY <2>5
  <2> QED
    BY <1>2, <2>3, <2>4, <2>6
<1>8. CASE Open \/ Submit \/ Transmit \/ Retransmit \/ UNCHANGED chVars
  <2>1. UNCHANGED <<arrived, inbox, delivered>>
    BY <1>8 DEF Open, Submit, Transmit, Retransmit, chVars
  <2> QED
    BY <2>1, ReceiveStays DEF RInv
<1> QED
  BY <1>3, <1>4, <1>5, <1>6, <1>7, <1>8 DEF ChNext

(* What is delivered is in the order in which it arrived, nothing is made  *)
(* up and no frame is delivered twice, whatever is lost and whenever the   *)
(* channel is closed.                                                      *)
THEOREM AlwaysReceivedInOrder ==
    ASSUME UnitsPerFrame \in Nat \ {0} PROVE ChSpec => []ReceivedInOrder
<1>1. ChInit => RInv
  BY InitStream DEF RInv, Ordered
<1>2. RInv /\ [ChNext]_chVars => RInv'
  BY ReceiveSteps
<1>3. RInv => ReceivedInOrder
  <2> SUFFICES ASSUME RInv PROVE ReceivedInOrder
    OBVIOUS
  <2>1. delivered \in Seq(Nat) /\ inbox \in Seq(Nat)
    BY DEF RInv, ReceiveTypes
  <2>2. /\ Len(delivered) \in Nat /\ Len(inbox) \in Nat
        /\ Len(Stream) = Len(delivered) + Len(inbox)
        /\ \A x \in 1 .. Len(delivered) : Stream[x] = delivered[x]
    BY <2>1, Joined DEF Stream
  <2>3. \A x \in 1 .. Len(delivered) : x \in 1 .. Len(Stream)
    BY <2>2
  <2> QED
    BY <2>2, <2>3 DEF RInv, Ordered, ReceivedInOrder
<1> QED
  BY <1>1, <1>2, <1>3, PTL DEF ChSpec

-----------------------------------------------------------------------------
(* If nothing is lost, a unit's place in the stream is that of its frame.  *)
(* Closing may cut the stream short, but nothing comes after that.         *)
Whole(s) == \A x \in 1 .. Len(s) : x \in UnitsPerFrame * (s[x] - 1) + 1 .. UnitsPerFrame * s[x]

OInv ==
    /\ ReceiveTypes /\ Whole(Stream)
    /\ Len(Stream) <= UnitsPerFrame * arrived
    /\ up => Len(Stream) = UnitsPerFrame * arrived

LEMMA UnitsOfNext ==
    ASSUME NEW u \in Nat, NEW n \in Nat
    PROVE  u * n \in Nat /\ u * (n + 1) = u * n + u /\ (n + 1) - 1 = n /\ u * 0 = 0
  OBVIOUS

LEMMA ArriveWhole ==
    ASSUME UnitsPerFrame \in Nat \ {0}, OInv, Arrive
    PROVE  OInv'
<1> DEFINE units == UnitsPerFrame * arrived
<1>1. /\ ReceiveTypes' /\ arrived' = arrived + 1
      /\ Stream \in Seq(Nat) /\ Stream' \in Seq(Nat)
      /\ Len(Stream') = Len(Stream) + UnitsPerFrame
      /\ \A x \in 1 .. Len(Stream) : Stream'[x] = Stream[x]
      /\ \A x \in Len(Stream) + 1 .. Len(Stream) + UnitsPerFrame : Stream'[x] = arrived + 1
  BY Arrives DEF OInv
<1>2. up /\ up' = up /\ arrived \in Nat
  BY DEF Arrive, OInv, ReceiveTypes
<1>3. /\ units \in Nat /\ UnitsPerFrame * (arrived + 1) = units + UnitsPerFrame
      /\ (arrived + 1) - 1 = arrived
  BY <1>2, UnitsOfNext
<1>4. Len(Stream) = units
  BY <1>2 DEF OInv
<1>5. UnitsPerFrame * ((arrived + 1) - 1) = units
  BY <1>3
<1> HIDE DEF units
<1>6. ASSUME NEW x \in 1 .. Len(Stream')
      PROVE  x \in UnitsPerFrame * (Stream'[x] - 1) + 1 .. UnitsPerFrame * Stream'[x]
  <2>1. CASE x <= units
    <3>1. x \in 1 .. Len(Stream)
      BY <1>3, <1>4, <2>1
    <3>2. x \in UnitsPerFrame * (Stream[x] - 1) + 1 .. UnitsPerFrame * Stream[x]
      BY <3>1 DEF OInv, Whole
    <3>3. Stream'[x] = Stream[x]
      BY <1>1, <3>1
    <3> QED
      BY <3>2, <3>3
  <2>2. CASE ~(x <= units)
    <3>1. x \in Len(Stream) + 1 .. Len(Stream) + UnitsPerFrame
      BY <1>1, <1>3, <1>4, <2>2
    <3>2. Stream'[x] = arrived + 1
      BY <1>1, <3>1
    <3>3. x \in units + 1 .. units + UnitsPerFrame
      BY <1>4, <3>1
    <3>4. x \in UnitsPerFrame * ((arrived + 1) - 1) + 1 .. UnitsPerFrame * (arrived + 1)
      BY <1>3, <1>5, <3>3
    <3> QED
      BY <3>2, <3>4
  <2> QED
    BY <2>1, <2>2
<1>7. Len(Stream') = UnitsPerFrame * arrived'
  BY <1>1, <1>3, <1>4
<1>8. Len(Stream') \in Nat
  BY <1>1
<1>9. Len(Stream') <= UnitsPerFrame * arrived'
  BY <1>7, <1>8
<1> QED
  BY <1>1, <1>6, <1>7, <1>9 DEF OInv, Whole

LEMMA ShutWhole ==
    ASSUME UnitsPerFrame \in Nat \ {0}, OInv, Shut
    PROVE  OInv'
<1>1. ReceiveTypes' /\ arrived' = arrived
  BY Shuts DEF OInv
<1>2. PICK n \in 0 .. Len(Stream) : CutOut(Stream, Stream', Len(Stream) - n, n)
  BY Shuts DEF OInv
<1>3. Len(Stream) \in Nat /\ UnitsPerFrame * arrived \in Nat
  <2>1. Stream \in Seq(Nat) /\ arrived \in Nat
    BY StreamAt DEF Stream, OInv, ReceiveTypes
  <2> QED
    BY <2>1, UnitsOfNext
<1>4. /\ Len(Stream') = Len(Stream) - n
      /\ \A x \in 1 .. Len(Stream') :
            Stream'[x] = Stream[IF x <= Len(Stream) - n THEN x ELSE x + n]
  BY <1>2 DEF CutOut
<1>5. ASSUME NEW x \in 1 .. Len(Stream')
      PROVE  x \in UnitsPerFrame * (Stream'[x] - 1) + 1 .. UnitsPerFrame * Stream'[x]
  <2>1. x \in 1 .. Len(Stream) /\ x <= Len(Stream) - n
    BY <1>3, <1>4
  <2>2. Stream'[x] = Stream[x]
    BY <1>4, <2>1
  <2>3. x \in UnitsPerFrame * (Stream[x] - 1) + 1 .. UnitsPerFrame * Stream[x]
    BY <2>1 DEF OInv, Whole
  <2> QED
    BY <2>2, <2>3
<1>6. Len(Stream) <= UnitsPerFrame * arrived
  BY DEF OInv
<1> DEFINE units == UnitsPerFrame * arrived
<1>7. UnitsPerFrame * arrived' = units /\ units \in Nat /\ Len(Stream) <= units
  BY <1>1, <1>3, <1>6
<1> HIDE DEF units
<1>8. Len(Stream') <= units
  BY <1>3, <1>4, <1>7
<1>9. ~up'
  BY DEF Shut
<1> QED
  BY <1>1, <1>5, <1>7, <1>8, <1>9 DEF OInv, Whole

LEMMA EmptyWhole ==
    ASSUME UnitsPerFrame \in Nat \ {0}
    PROVE  /\ ReceiveTypes /\ Len(Stream) = 0 /\ arrived = 0 => OInv
           /\ ReceiveTypes' /\ Len(Stream') = 0 /\ arrived' = 0 => OInv'
<1>1. UnitsPerFrame * 0 = 0
  BY UnitsOfNext
<1> QED
  BY <1>1 DEF OInv, Whole

LEMMA WholeSteps ==
    ASSUME UnitsPerFrame \in Nat \ {0}, "lose" \notin Faults, OInv, [ChNext]_chVars
    PROVE  OInv'
<1>1. CASE Renew
  <2>1. ReceiveTypes' /\ Len(Stream') = 0 /\ arrived' = 0
    BY <1>1, ReceiveFresh DEF Renew, Fresh
  <2> QED
    BY <2>1, EmptyWhole
<1>2. CASE Open
  <2>1. /\ arrived = 0 /\ inbox = <<>> /\ delivered = <<>>
        /\ UNCHANGED <<arrived, inbox, delivered>>
    BY <1>2 DEF Open, Fresh
  <2>2. ReceiveTypes' /\ Len(Stream') = 0 /\ arrived' = 0
    BY <2>1, ReceiveFresh
  <2> QED
    BY <2>2, EmptyWhole
<1>3. CASE Shut
  BY <1>3, ShutWhole
<1>4. CASE Arrive
  BY <1>4, ArriveWhole
<1>5. CASE Deliver
  <2>1. PICK k \in 1 .. Len(inbox) :
            delivered' = delivered \o Take(inbox, k) /\ inbox' = Skip(inbox, k)
    BY <1>5 DEF Deliver
  <2>2. arrived' = arrived /\ up' = up
    BY <1>5 DEF Deliver
  <2>3. ReceiveTypes' /\ Stream' = Stream
    BY <2>1, <2>2, Delivers DEF OInv
  <2> QED
    BY <2>2, <2>3 DEF OInv
<1>6. CASE Submit \/ Transmit \/ Retransmit \/ UNCHANGED chVars
  <2>1. UNCHANGED <<up, arrived, inbox, delivered>>
    BY <1>6 DEF Submit, Transmit, Retransmit, chVars
  <2> QED
    BY <2>1, ReceiveStays DEF OInv
<1>7. ~Lose
  BY DEF Lose
<1> QED
  BY <1>1, <1>2, <1>3, <1>4, <1>5, <1>6, <1>7 DEF ChNext

(* If nothing is lost, what is delivered is what arrived, unit by unit,    *)
(* and on an open channel all that arrived is delivered or waits.          *)
THEOREM AlwaysReceivedOnce ==
    ASSUME UnitsPerFrame \in Nat \ {0}, "lose" \notin Faults PROVE ChSpec => []ReceivedOnce
<1>1. ChInit => OInv
  <2>1. ChInit => arrived = 0
    BY DEF ChInit, Fresh
  <2> QED
    BY <2>1, InitStream, EmptyWhole
<1>2. OInv /\ [ChNext]_chVars => OInv'
  BY WholeSteps
<1>3. OInv => ReceivedOnce
  <2> SUFFICES ASSUME OInv PROVE ReceivedOnce
    OBVIOUS
  <2>1. delivered \in Seq(Nat) /\ inbox \in Seq(Nat) /\ arrived \in Nat
    BY DEF OInv, ReceiveTypes
  <2>2. /\ Len(delivered) \in Nat /\ Len(inbox) \in Nat
        /\ Len(Stream) = Len(delivered) + Len(inbox)
        /\ \A x \in 1 .. Len(delivered) : Stream[x] = delivered[x]
    BY <2>1, Joined DEF Stream
  <2>3. ASSUME NEW x \in 1 .. Len(delivered)
        PROVE  x \in UnitsPerFrame * (delivered[x] - 1) + 1 .. UnitsPerFrame * delivered[x]
    <3>1. x \in 1 .. Len(Stream) /\ Stream[x] = delivered[x]
      BY <2>2
    <3> QED
      BY <3>1 DEF OInv, Whole
  <2> DEFINE units == UnitsPerFrame * arrived
  <2>4. units \in Nat /\ Len(Stream) <= units /\ (up => Len(Stream) = units)
    BY <2>1, UnitsOfNext DEF OInv
  <2> HIDE DEF units
  <2>5. Len(delivered) <= units /\ (up => Len(delivered) + Len(inbox) = units)
    BY <2>2, <2>4
  <2> QED
    BY <2>3, <2>5 DEF ReceivedOnce, units
<1> QED
  BY <1>1, <1>2, <1>3, PTL DEF ChSpec
=============================================================================
